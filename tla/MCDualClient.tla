---------------------------- MODULE MCDualClient ----------------------------
(* An instance of DualClient for TLC. *)
EXTENDS DualClient

DualMode == {"dual"}
MCTopics == <<"joystick", "camera_cmd">>
=============================================================================
