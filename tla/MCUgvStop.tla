------------------------------ MODULE MCUgvStop ------------------------------
(* An instance of UgvStop for TLC. *)
EXTENDS UgvStop

MCLinks == {"local"}
\* Below the floor, which is therefore what is in force.
MCConfigTimeouts == {1}
MCWheels == {"left", "right"}
MCJoysticks == {"spin"}
MCMalformed == {"numericAxes"}
MCMix == [j \in MCJoysticks |-> [left |-> Full, right |-> -Full]]
=============================================================================
