---------------------------- MODULE MCSafetyNode ----------------------------
(* An instance of SafetyNode for TLC. *)
EXTENDS SafetyNode

MCLinks == {"local", "vps"}

\* A time-out below the floor, and one above it.
MCConfigTimeouts == {0, 4}
=============================================================================
