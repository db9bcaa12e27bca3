---------------------------- MODULE MCLifecycle ----------------------------
(* Instances of Lifecycle for TLC, with the nodes of main.py. *)
EXTENDS Lifecycle

MCNodes == <<"safety", "mqtt", "camera", "sensors", "telemetry", "drive">>

\* The pin or the thread; no endpoint or no connection; no backend, or an unknown
\* mode.
MCRaisesOnStart == {"safety", "mqtt", "drive"}

\* The pin; the serial ports and the I2C bus.
MCRaisesOnShutdown == {"safety", "sensors", "drive"}
=============================================================================
