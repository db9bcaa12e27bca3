----------------------------- MODULE MCTelemetry -----------------------------
(* An instance of Telemetry for TLC. *)
EXTENDS Telemetry

AllModes == {"dual", "local", "vps"}
MCTopics == <<"joystick">>
=============================================================================
