---------------------------- MODULE LatestCommand ----------------------------
(***************************************************************************)
(* What a consumer of operator commands may expect: commands are numbered  *)
(* in the order the operator sends them, some may never arrive, and the    *)
(* one in force is only ever replaced by a later one.                      *)
(***************************************************************************)
EXTENDS Naturals

VARIABLES sent,   \* number of commands sent
          latest  \* the command in force, 0 before the first

vars == <<sent, latest>>

Init == sent = 0 /\ latest = 0

Send == sent' = sent + 1 /\ UNCHANGED latest

Take == latest' \in (latest + 1)..sent /\ UNCHANGED sent

Next == Send \/ Take

Spec == Init /\ [][Next]_vars
=============================================================================
