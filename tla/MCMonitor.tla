------------------------------- MODULE MCMonitor -------------------------------
(* An instance of Monitor for TLC: the browsers are interchangeable. *)
EXTENDS Monitor

CONSTANTS b1, b2

TwoBrowsers == {b1, b2}
=============================================================================
