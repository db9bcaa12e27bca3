---------------------------- MODULE MCMjpegServer ----------------------------
(* An instance of MjpegServer for TLC. *)
EXTENDS MjpegServer

CONSTANTS v1, v2

TwoViewers == {v1, v2}
=============================================================================
