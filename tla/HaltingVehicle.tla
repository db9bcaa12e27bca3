--------------------------- MODULE HaltingVehicle ---------------------------
(***************************************************************************)
(* What the safety chain promises of the whole vehicle, without threads,   *)
(* bus or iterations: it gets power and gains speed only while the         *)
(* operator has been heard from recently, afterwards it only slows down,   *)
(* and it comes to rest in bounded time.  The promise about speed holds    *)
(* while a control loop supervises it; the one about power always does.    *)
(* A vehicle set up to arm itself gets power as it sets out, as if the     *)
(* operator had been heard from at that moment, and only then.             *)
(***************************************************************************)
EXTENDS Integers

CONSTANTS Wheels,
          Speed,       \* the speeds a wheel can be told, 0 being rest
          Limits,      \* the time-outs that can be in force
          PowerSlack,  \* ticks after the time-out by which power is cut
          GainSlack,   \* ticks after the time-out speed may still grow
          HaltSlack,   \* ticks after the time-out by which it is at rest
          MaxAge       \* the age at which counting stops; also "never heard"

VARIABLES power,       \* TRUE: the motors can turn
          speed,       \* what each wheel is told
          age,         \* ticks since the operator was heard from
          limit,       \* the time-out in force
          supervised,  \* a control loop is running
          selfArmed,   \* the vehicle is set up to take power as it sets out
          setOut       \* the vehicle is in operation

setup == <<selfArmed, setOut>>
vehicleVars == <<power, speed, age, limit, supervised, setup>>

AtRest == \A w \in Wheels : speed[w] = 0

VehicleInit ==
    /\ power = FALSE
    /\ speed \in [Wheels -> {0}]
    /\ age = MaxAge
    /\ limit \in Limits
    /\ supervised = FALSE
    /\ selfArmed \in BOOLEAN
    /\ setOut = FALSE

Abs(n) == IF n < 0 THEN -n ELSE n

\* No wheel faster than before, none turned round.
SlowsTo(s) == \A w \in Wheels : Abs(s[w]) <= Abs(speed[w]) /\ s[w] * speed[w] >= 0

Prepare == /\ ~setOut
           /\ limit' \in Limits
           /\ selfArmed' \in BOOLEAN
           /\ UNCHANGED <<power, speed, age, supervised, setOut>>

SetOut == /\ ~setOut
          /\ setOut' = TRUE
          /\ power' = selfArmed
          /\ age' = IF selfArmed THEN 0 ELSE age
          /\ UNCHANGED <<speed, limit, supervised, selfArmed>>

Hear == /\ setOut
        /\ age' = 0
        /\ UNCHANGED <<power, speed, limit, supervised, setup>>

PowerOn == /\ setOut
           /\ age <= limit + PowerSlack
           /\ power' = TRUE
           /\ UNCHANGED <<speed, age, limit, supervised, setup>>

PowerOff == /\ power' = FALSE
            /\ UNCHANGED <<speed, age, limit, supervised, setup>>

\* One output of the control loop, possibly its last.
Steer == /\ supervised
         /\ speed' \in [Wheels -> Speed]
         /\ SlowsTo(speed') \/ age <= limit + GainSlack
         /\ supervised' \in BOOLEAN
         /\ UNCHANGED <<power, age, limit, setup>>

\* Somebody else takes over, and may only stop wheels.
HandOver == /\ ~supervised
            /\ speed' \in [Wheels -> Speed]
            /\ \A w \in Wheels : speed'[w] \in {speed[w], 0}
            /\ supervised' \in BOOLEAN
            /\ supervised' => \A w \in Wheels : speed'[w] = 0
            /\ UNCHANGED <<power, age, limit, setup>>

\* Time stands still rather than let a bound pass.
VehicleTick == /\ power => age < limit + PowerSlack
               /\ supervised /\ ~AtRest => age < limit + HaltSlack
               /\ age' = IF age < MaxAge THEN age + 1 ELSE MaxAge
               /\ UNCHANGED <<power, speed, limit, supervised, setup>>

VehicleNext == \/ Prepare \/ SetOut \/ Hear \/ PowerOn \/ PowerOff \/ Steer
               \/ HandOver \/ VehicleTick

VehicleSpec == VehicleInit /\ [][VehicleNext]_vehicleVars
=============================================================================
