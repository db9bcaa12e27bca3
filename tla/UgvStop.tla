------------------------------- MODULE UgvStop -------------------------------
(***************************************************************************)
(* The safety chain of the vehicle: SafetyNode and DriveNode in one        *)
(* process, joined by the bus and by the order in which the Launcher       *)
(* starts and stops them.                                                  *)
(*                                                                         *)
(* A publish of safety.status runs DriveNode._on_safety in the publisher's *)
(* thread, still under the safety node's lock.  All nodes are configured   *)
(* before the first is activated, safety is activated first and drive      *)
(* last, and they are shut down the other way round.  The motors hang on   *)
(* gpio_pwm, the default driver, whose errors end the control loop.        *)
(***************************************************************************)
EXTENDS Integers

CONSTANTS Links, ConfigTimeouts, MinTimeout, Poll, Jitter, MaxAge,
          Wheels, Joysticks, Malformed, Mix, Full, RampStep, DownStep,
          LoopInterval, LoopJitter, BackendFails, MaxSince,
          MinDuty, MaxDuty  \* drive.gpio_pwm.min_duty and max_duty

VARIABLES
    \* SafetyNode; safetyPc is its mainPc, watching its running
    safetyPc, pahoPc, watchdogPc, lock, heartbeatTimeout, startupArmed,
    watchdogState, hbAge, watching, pin, status, timer,
    \* DriveNode; drivePc is its mainPc, driving its running
    drivePc, loopPc, driving, joystick, armed, joySnap, armedSnap, dt, backend,
    current, motors, lost, sinceIter, sinceDisarm

safetyVars == <<safetyPc, pahoPc, watchdogPc, lock, heartbeatTimeout,
                startupArmed, watchdogState, hbAge, watching, pin, status,
                timer>>
driveVars == <<drivePc, loopPc, driving, joystick, armed, joySnap, armedSnap,
               dt, backend, current, motors, lost, sinceIter, sinceDisarm>>
vars == <<safetyVars, driveVars>>

Safety == INSTANCE SafetyNode WITH mainPc <- safetyPc, running <- watching
Drive  == INSTANCE DriveNode WITH mainPc <- drivePc, running <- driving,
                                  Drivers <- {"gpio_pwm"}
Output == INSTANCE Backends

ASSUME UgvAssumption == Safety!SafetyAssumption /\ Drive!DriveAssumption

Init == Safety!Init /\ Drive!Init

-----------------------------------------------------------------------------
(* The bus *)

\* Every step of the safety node that ends in _publish_status.
Publishes == \/ Safety!Activate
             \/ \E l \in Links : Safety!HeartbeatPublish(l)
             \/ Safety!WatchdogPublish

\* Faulty variant: the drive node is told of armings only.
PublishStatusArmings ==
    /\ Publishes
    /\ IF status'.armed THEN Drive!OnSafety(TRUE) ELSE UNCHANGED driveVars

PublishStatus == Publishes /\ Drive!OnSafety(status'.armed)

\* A joystick command, in a paho thread that is not inside a heartbeat.
Joystick ==
    /\ safetyPc = "run"
    /\ \E l \in Links : pahoPc[l] = "idle"
    /\ \E j \in Joysticks \cup Malformed : Drive!OnJoystick(j)
    /\ UNCHANGED safetyVars

-----------------------------------------------------------------------------
(* The main thread *)

StartUp ==
    \/ Safety!Configure /\ UNCHANGED driveVars
    \/ safetyPc = "configured" /\ Drive!Configure /\ UNCHANGED safetyVars
    \/ Safety!MqttConnected /\ UNCHANGED driveVars
    \/ safetyPc = "run" /\ Drive!Activate /\ UNCHANGED safetyVars

\* The signal, from which on the order is fixed: drive, MQTT, safety.
Stop == Drive!ClearRunning /\ UNCHANGED safetyVars

ShutDown ==
    \/ (Drive!Join \/ Drive!StopBackend) /\ UNCHANGED safetyVars
    \/ /\ drivePc = "done"
       /\ \/ Safety!StopMqtt \/ Safety!ClearRunning \/ Safety!ShutdownEngage
          \/ Safety!JoinAndCleanup
       /\ UNCHANGED driveVars

-----------------------------------------------------------------------------
(* The other threads *)

Heartbeat(l) == /\ \/ Safety!HeartbeatRefresh(l) \/ Safety!HeartbeatArm(l)
                   \/ Safety!HeartbeatRelease(l)
                /\ UNCHANGED driveVars

\* The steps for which the watchdog needs the lock, and the others.
WatchdogLocks == /\ \/ Safety!WatchdogExpire \/ Safety!WatchdogResume
                    \/ Safety!WatchdogNothing
                 /\ UNCHANGED driveVars

WatchdogRuns == /\ \/ Safety!WatchdogTest \/ Safety!WatchdogSetEstop
                   \/ Safety!WatchdogWake
                /\ UNCHANGED driveVars

Control == Drive!LoopNext /\ UNCHANGED safetyVars

\* One clock for both; the counters of a node that is done stand still.
Tick == /\ Safety!Tick
        /\ IF drivePc = "done" THEN UNCHANGED driveVars ELSE Drive!Tick

-----------------------------------------------------------------------------
\* Activate publishes, so the drive node must have subscribed.
Next == \/ PublishStatus /\ drivePc # "new"
        \/ Joystick
        \/ StartUp \/ Stop \/ ShutDown
        \/ \E l \in Links : Heartbeat(l)
        \/ WatchdogLocks \/ WatchdogRuns
        \/ Control
        \/ Tick
        \/ Safety!Terminated /\ UNCHANGED driveVars

Spec == Init /\ [][Next]_vars

\* As in the two modules: threads that can run do run.
FairSpec == /\ Spec
            /\ WF_vars(StartUp) /\ WF_vars(ShutDown)
            /\ WF_vars(PublishStatus)
            /\ \A l \in Links : WF_vars(Safety!HeartbeatRelease(l)
                                        /\ UNCHANGED driveVars)
            /\ WF_vars(WatchdogRuns) /\ SF_vars(WatchdogLocks)
            /\ WF_vars(Control)
            /\ WF_vars(Tick)

-----------------------------------------------------------------------------
(* Properties *)

Duty(w) == Output!GpioDuty(motors[w], MinDuty, MaxDuty)

\* Time-out and lateness of the watchdog: the oldest heartbeat with the relay
\* released or the drive node armed.
ArmedBound == heartbeatTimeout + Safety!EngageBound

\* README.md:119 says "If the operator connection is lost, motors ramp to zero
\* within the configured timeout".  They do not: the node waits for the time-out
\* before it begins to ramp down.  What the code does keep is a longer bound: a
\* live control loop has the motors off once the last heartbeat is older than
\* the time-out, the watchdog's lateness, two iterations and the ramp together,
\* however publishing, copying and driving interleave.
MotorsOffAfterLoss ==
    Drive!Looping
    /\ DownStep * (hbAge - ArmedBound - 2 * Drive!Period) >= Full
        => \A w \in Wheels : Duty(w) = 0

\* watchdog_node.py:166-177 and drive_node.py:98-100.  Outside the critical sections
\* the drive node's flag and the relay agree, from the first status on.
DriveFollowsRelay ==
    lock = "free" /\ safetyPc \in {"active", "run", "stopping"} =>
        (armed <=> (pin = "HIGH"))

\* watchdog_node.py:119-156 and drive_node.py:102-135.  The chain implements the
\* abstract vehicle: power and speed are gained only while the operator has been
\* heard from, or as on_activate arms the node itself, and both go in bounded
\* time; power also when the control loop has died.
Starting == safetyPc \in {"unconfigured", "configured"}

RampTicks == (Full + DownStep - 1) \div DownStep

Vehicle == INSTANCE HaltingVehicle WITH
    Speed      <- (-Full)..Full,
    Limits     <- {Safety!HeartbeatTimeout(c) : c \in ConfigTimeouts},
    PowerSlack <- Safety!EngageBound,
    GainSlack  <- Safety!EngageBound + Drive!Period,
    HaltSlack  <- Safety!EngageBound + 2 * Drive!Period + RampTicks,
    power      <- pin = "HIGH",
    speed      <- motors,
    age        <- hbAge,
    limit      <- heartbeatTimeout,
    supervised <- Drive!Looping,
    selfArmed  <- startupArmed,
    setOut     <- ~Starting

ImplementsHaltingVehicle == Vehicle!VehicleSpec

\* watchdog_node.py:150-154 and drive_node.py:117-131.  An operator who stays
\* connected and holds the stick drives: the relay is released and the speed
\* reached, also after a loss of the connection.
OperatorDrives ==
    \A j \in Joysticks :
        <>[](/\ hbAge <= heartbeatTimeout /\ joystick = j
             /\ drivePc = "active" /\ Drive!Looping)
            => <>(pin = "HIGH" /\ motors = Mix[j])
=============================================================================
