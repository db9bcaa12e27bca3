---------------------------- MODULE DeadManSwitch ----------------------------
(***************************************************************************)
(* What the safety node promises, without threads, locks or sleeps: after  *)
(* it has started the relay is released only while the operator has been   *)
(* heard from recently.  The one exception is stated as such: a switch set *)
(* up to arm itself is released by its start, with nobody heard from.      *)
(* Time is counted in ticks; `age' is the time since the last renewal and  *)
(* stops counting at MaxAge, which also stands for "never".                *)
(***************************************************************************)
EXTENDS Integers

CONSTANTS Timeouts,      \* the time-outs the switch can be set up with
          ReleaseSlack,  \* ticks after the time-out a release may still land
          EngageSlack,   \* ticks after the time-out the relay may stay released
          MaxAge         \* saturation bound of age

VARIABLES released,  \* TRUE: the motors have power
          age,       \* ticks since the last renewal
          timeout,   \* the time-out in force
          selfArmed, \* the switch is set up to release the relay as it starts
          started    \* the switch is in operation

dmsVars == <<released, age, timeout, selfArmed, started>>

DmsInit == /\ released = FALSE
           /\ age = MaxAge
           /\ timeout \in Timeouts
           /\ selfArmed \in BOOLEAN
           /\ started = FALSE

Setup == /\ ~started
         /\ timeout' \in Timeouts
         /\ selfArmed' \in BOOLEAN
         /\ UNCHANGED <<released, age, started>>

\* Only a switch that arms itself starts with the relay released; it gives
\* the operator one time-out to be heard from.
Start == /\ ~started
         /\ started' = TRUE
         /\ released' = selfArmed
         /\ age' = IF selfArmed THEN 0 ELSE age
         /\ UNCHANGED <<timeout, selfArmed>>

\* The operator is heard from; by itself this does not release the relay.
Renew == /\ started
         /\ age' = 0
         /\ UNCHANGED <<released, timeout, selfArmed, started>>

\* The relay is released by a recent renewal.
Release == /\ started
           /\ age <= timeout + ReleaseSlack
           /\ released' = TRUE
           /\ UNCHANGED <<age, timeout, selfArmed, started>>

Engage == /\ released' = FALSE
          /\ UNCHANGED <<age, timeout, selfArmed, started>>

\* Time may not pass once a released relay has reached its bound.
DmsTick == /\ released => age < timeout + EngageSlack
           /\ age' = IF age < MaxAge THEN age + 1 ELSE MaxAge
           /\ UNCHANGED <<released, timeout, selfArmed, started>>

DmsNext == Setup \/ Start \/ Renew \/ Release \/ Engage \/ DmsTick

DmsSpec == DmsInit /\ [][DmsNext]_dmsVars
=============================================================================
