------------------------------ MODULE DriveNode ------------------------------
(***************************************************************************)
(* drive/drive_node.py: the 50 Hz control loop that turns the latest       *)
(* joystick command and the latest safety status into motor speeds.        *)
(*                                                                         *)
(* Bus callbacks (paho's and the watchdog's threads) write                 *)
(* _latest_joystick and _armed; the control thread copies both under       *)
(* _joy_lock, then mixes, ramps and drives the backend with the copies.    *)
(* Speeds are integers in -Full..Full.  Time is counted in ticks; an       *)
(* iteration starts LoopInterval to LoopInterval + LoopJitter ticks after  *)
(* the previous one.  What the mixer returns for a command is the function *)
(* Mix; MCDriveNode takes it from Mixer.                                   *)
(*                                                                         *)
(* The drivers differ in what an error of the hardware does: gpio_pwm lets *)
(* the exception through, which ends the control thread; pca9685 and       *)
(* serial_plc log and swallow it, the loop goes on, and the motors keep    *)
(* what they were last told.  `lost' records the channels this happened to.*)
(***************************************************************************)
EXTENDS Integers

CONSTANTS Wheels,        \* the two channels
          Joysticks,     \* joystick commands that mix
          Malformed,     \* commands whose axes make _compute_mix raise
          Mix,           \* what _compute_mix returns, [Joysticks -> Speeds]
          Full,          \* speed 1.0
          RampStep,      \* drive.ramp_rate, per tick
          DownStep,      \* 1 / safety.ramp_down_time, per tick
          LoopInterval,  \* 1/50 s
          LoopJitter,    \* lateness of one iteration
          Drivers,       \* what drive.backend may name
          BackendFails,  \* TRUE: the hardware may refuse a write
          MaxSince       \* bound at which sinceDisarm stops counting

NoJoystick == "none"
Period == LoopInterval + LoopJitter
Speeds == [Wheels -> (-Full)..Full]
Stopped == [w \in Wheels |-> 0]
Swallowing == {"pca9685", "serial_plc"}

ASSUME DriveAssumption ==
    /\ Full \in Nat \ {0}
    /\ RampStep \in Nat \ {0}
    /\ DownStep \in Nat \ {0}
    /\ LoopInterval \in Nat \ {0}
    /\ LoopJitter \in Nat
    /\ Drivers \subseteq {"gpio_pwm"} \cup Swallowing
    /\ BackendFails \in BOOLEAN
    /\ NoJoystick \notin Joysticks \cup Malformed
    /\ Joysticks \cap Malformed = {}
    /\ Mix \in [Joysticks -> Speeds]
    /\ MaxSince \in Nat
    /\ DownStep * (MaxSince - 2 * Period) >= Full

VARIABLES
    mainPc,       \* the life of the node
    loopPc,       \* where the control thread is in _control_loop
    running,      \* self._running
    joystick,     \* self._latest_joystick
    armed,        \* self._armed
    joySnap,      \* joy, the loop's copy
    armedSnap,    \* armed, the loop's copy
    dt,           \* dt of the iteration under way
    backend,      \* the driver of self._backend
    current,      \* self._current_left, self._current_right
    motors,       \* what the hardware was last told
    lost,         \* history: the channels the last write did not reach
    sinceIter,    \* ticks since `now' of the latest iteration
    sinceDisarm   \* ticks since _armed became FALSE; 0 while it is TRUE

cmdVars  == <<joystick, armed, sinceDisarm>>
snapVars == <<joySnap, armedSnap, dt>>
outVars  == <<backend, motors, lost>>
vars == <<mainPc, loopPc, running, cmdVars, snapVars, current, outVars,
          sinceIter>>

TypeOK ==
    /\ mainPc \in {"new", "configured", "active", "join", "stop", "done"}
    /\ loopPc \in {"notstarted", "test", "snapshot", "drive", "sleep",
                   "exited", "dead"}
    /\ running \in BOOLEAN
    /\ joystick \in Joysticks \cup Malformed \cup {NoJoystick}
    /\ armed \in BOOLEAN
    /\ joySnap \in Joysticks \cup Malformed \cup {NoJoystick}
    /\ armedSnap \in BOOLEAN
    /\ dt \in 0..Period
    /\ backend \in Drivers \cup {"none"}
    /\ current \in Speeds
    /\ motors \in Speeds
    /\ lost \subseteq Wheels
    /\ sinceIter \in 0..Period
    /\ sinceDisarm \in 0..MaxSince

Init ==
    /\ mainPc = "new"
    /\ loopPc = "notstarted"
    /\ running = FALSE
    /\ joystick = NoJoystick
    /\ armed = FALSE
    /\ sinceDisarm = MaxSince
    /\ joySnap = NoJoystick
    /\ armedSnap = FALSE
    /\ dt = 0
    /\ backend = "none"
    /\ current = Stopped
    /\ motors = Stopped
    /\ lost = {}
    /\ sinceIter = 0

-----------------------------------------------------------------------------
(* The driver *)

\* The hardware is given speeds, except on the channels that are missed.
Write(speeds, missed) ==
    /\ motors' = [w \in Wheels |-> IF w \in missed THEN motors[w] ELSE speeds[w]]
    /\ lost' = missed
    /\ UNCHANGED backend

-----------------------------------------------------------------------------
(* The main thread *)

\* on_configure: the driver is chosen and starts at rest, and the bus may call
\* back.
Configure ==
    /\ mainPc = "new"
    /\ mainPc' = "configured"
    /\ backend' \in Drivers
    /\ motors' = Stopped
    /\ lost' = {}
    /\ UNCHANGED <<loopPc, running, cmdVars, snapVars, current, sinceIter>>

\* on_activate; last_time is taken as the thread starts.
Activate ==
    /\ mainPc = "configured"
    /\ mainPc' = "active"
    /\ running' = TRUE
    /\ loopPc' = "test"
    /\ sinceIter' = 0
    /\ UNCHANGED <<cmdVars, snapVars, current, outVars>>

\* on_shutdown: the flag, the join, then stop() and cleanup() of the backend.
ClearRunning ==
    /\ mainPc = "active"
    /\ mainPc' = "join"
    /\ running' = FALSE
    /\ UNCHANGED <<loopPc, cmdVars, snapVars, current, outVars, sinceIter>>

\* Faulty variant: the backend is stopped without waiting for the thread.
JoinDoesNotWait ==
    /\ mainPc = "join"
    /\ mainPc' = "stop"
    /\ UNCHANGED <<loopPc, running, cmdVars, snapVars, current, outVars,
                   sinceIter>>

\* The join waits up to 2 s, much longer than an iteration, so it returns once
\* the thread has left its loop, one way or the other.
Join ==
    /\ mainPc = "join"
    /\ loopPc \in {"exited", "dead"}
    /\ mainPc' = "stop"
    /\ UNCHANGED <<loopPc, running, cmdVars, snapVars, current, outVars,
                   sinceIter>>

\* stop() and cleanup() of the driver.  A write that fails leaves its motor as
\* it is: pca9685 and serial_plc log it, gpio_pwm raises into shutdown_all.
StopBackend ==
    /\ mainPc = "stop"
    /\ mainPc' = "done"
    /\ \E missed \in SUBSET Wheels :
           /\ missed # {} => BackendFails
           /\ Write(Stopped, missed)
    /\ UNCHANGED <<loopPc, running, cmdVars, snapVars, current, sinceIter>>

-----------------------------------------------------------------------------
(* Bus callbacks, each one assignment under _joy_lock *)

OnJoystick(j) ==
    /\ mainPc # "new"
    /\ joystick' = j
    /\ UNCHANGED <<mainPc, loopPc, running, armed, sinceDisarm, snapVars,
                   current, outVars, sinceIter>>

OnSafety(b) ==
    /\ mainPc # "new"
    /\ armed' = b
    /\ sinceDisarm' = IF b THEN 0 ELSE sinceDisarm
    /\ UNCHANGED <<mainPc, loopPc, running, joystick, snapVars, current,
                   outVars, sinceIter>>

-----------------------------------------------------------------------------
(* The control thread: _control_loop *)

LoopTest ==
    /\ loopPc = "test"
    /\ loopPc' = IF running THEN "snapshot" ELSE "exited"
    /\ UNCHANGED <<mainPc, running, cmdVars, snapVars, current, outVars,
                   sinceIter>>

\* now, dt and last_time, and the copies taken under _joy_lock.
LoopSnapshot ==
    /\ loopPc = "snapshot"
    /\ loopPc' = "drive"
    /\ dt' = sinceIter
    /\ sinceIter' = 0
    /\ joySnap' = joystick
    /\ armedSnap' = armed
    /\ UNCHANGED <<mainPc, running, cmdVars, current, outVars>>

\* Faulty variant: the disarming only changes the ramp, not the target.
TargetIgnoresArmed ==
    IF joySnap \in Joysticks THEN Mix[joySnap] ELSE Stopped

Target == IF armedSnap /\ joySnap # NoJoystick THEN Mix[joySnap] ELSE Stopped

\* Faulty variant: the operator's ramp is also used for the safety stop.
MaxStepSlow == dt * RampStep

MaxStep == dt * (IF armedSnap THEN RampStep ELSE DownStep)

\* Faulty variant: always a whole step, past a target that is nearer.
RampOvershoots(speed, target, step) ==
    IF target = speed THEN target
    ELSE IF target > speed THEN speed + step ELSE speed - step

\* Faulty variant: the comparison with the step is the wrong way round.
RampInverted(speed, target, step) ==
    IF target - speed \in (-step)..step THEN speed ELSE target

\* Faulty variant: the last step, shorter than the others, is not taken.
RampStopsShort(speed, target, step) ==
    IF target - speed \in (-step)..step THEN speed
    ELSE IF target > speed THEN speed + step ELSE speed - step

Ramp(speed, target, step) ==
    IF target - speed \in (-step)..step THEN target
    ELSE IF target > speed THEN speed + step ELSE speed - step

Ramped == [w \in Wheels |-> Ramp(current[w], Target[w], MaxStep)]

MixRaises == armedSnap /\ joySnap \in Malformed

\* The locals of an iteration are dead once it has driven the motors.
ForgetSnapshot == dt' = 0 /\ joySnap' = NoJoystick /\ armedSnap' = FALSE

\* Mix, ramp, set_speeds and the drive.output message, which nothing but
\* telemetry reads.
LoopDrive ==
    /\ loopPc = "drive"
    /\ ~MixRaises
    /\ current' = Ramped
    /\ Write(Ramped, {})
    /\ ForgetSnapshot
    /\ loopPc' = "sleep"
    /\ UNCHANGED <<mainPc, running, cmdVars, sinceIter>>

\* Nothing in the loop catches: an exception ends the thread.
MixDies ==
    /\ loopPc = "drive"
    /\ MixRaises
    /\ ForgetSnapshot
    /\ loopPc' = "dead"
    /\ UNCHANGED <<mainPc, running, cmdVars, current, outVars, sinceIter>>

\* gpio_pwm.set_speeds raises after it has driven some of the channels.
BackendDies ==
    /\ BackendFails
    /\ backend \notin Swallowing
    /\ loopPc = "drive"
    /\ ~MixRaises
    /\ current' = Ramped
    /\ \E missed \in SUBSET Wheels \ {{}} : Write(Ramped, missed)
    /\ ForgetSnapshot
    /\ loopPc' = "dead"
    /\ UNCHANGED <<mainPc, running, cmdVars, sinceIter>>

\* pca9685 and serial_plc log the error and return: the ramp has moved on, the
\* motors have not.  pca9685 clears a channel's pulse before it writes the new
\* one; a channel without pulse is counted as one that keeps its speed.
BackendSwallows ==
    /\ BackendFails
    /\ backend \in Swallowing
    /\ loopPc = "drive"
    /\ ~MixRaises
    /\ current' = Ramped
    /\ \E missed \in SUBSET Wheels \ {{}} : Write(Ramped, missed)
    /\ ForgetSnapshot
    /\ loopPc' = "sleep"
    /\ UNCHANGED <<mainPc, running, cmdVars, sinceIter>>

LoopWake ==
    /\ loopPc = "sleep"
    /\ sinceIter >= LoopInterval
    /\ loopPc' = "test"
    /\ UNCHANGED <<mainPc, running, cmdVars, snapVars, current, outVars,
                   sinceIter>>

-----------------------------------------------------------------------------
(* Time *)

Looping == loopPc \in {"test", "snapshot", "drive", "sleep"}

Tick ==
    /\ mainPc # "done"
    /\ Looping => sinceIter < Period
    /\ sinceIter' = IF Looping THEN sinceIter + 1 ELSE sinceIter
    /\ sinceDisarm' = IF ~armed /\ sinceDisarm < MaxSince
                      THEN sinceDisarm + 1 ELSE sinceDisarm
    /\ UNCHANGED <<mainPc, loopPc, running, joystick, armed, snapVars, current,
                   outVars>>

-----------------------------------------------------------------------------
MainNext == Configure \/ Activate \/ ClearRunning \/ Join \/ StopBackend
BusNext == \/ \E j \in Joysticks \cup Malformed : OnJoystick(j)
           \/ \E b \in BOOLEAN : OnSafety(b)
LoopNext == \/ LoopTest \/ LoopSnapshot \/ LoopDrive \/ MixDies \/ BackendDies
            \/ BackendSwallows \/ LoopWake

Next == MainNext \/ BusNext \/ LoopNext \/ Tick

Spec == Init /\ [][Next]_vars

\* The control thread is scheduled, time passes, and a shutdown begun goes on.
Fairness == /\ WF_vars(Configure \/ Activate)
            /\ WF_vars(Join \/ StopBackend)
            /\ WF_vars(LoopNext)
            /\ WF_vars(Tick)

FairSpec == Spec /\ Fairness

-----------------------------------------------------------------------------
(* Properties *)

Magnitude(n) == IF n < 0 THEN -n ELSE n

\* No faster than a ramp-down that began two iterations after the disarming.
RampedDown(speed) ==
    \/ speed = 0
    \/ DownStep * (sinceDisarm - 2 * Period) + Magnitude(speed) <= Full

\* drive_node.py:102-135.  However the loop is interrupted by callbacks, the
\* speeds a disarmed live loop holds ramp down, and stand at zero after
\* 2 * Period + Full / DownStep ticks.  The motors do what the loop holds, with
\* one exception: channels whose last write the driver swallowed
\* (pca9685.py:80, serial_plc.py:61).  They keep running, whatever
\* drive_node.py:27 ("outputs zero when not armed") says; with gpio_pwm, the
\* default, a live loop has no such channel.
RampsDownAfterDisarm ==
    ~armed /\ Looping =>
        /\ \A w \in Wheels : /\ RampedDown(current[w])
                             /\ w \in lost \/ RampedDown(motors[w])
        /\ lost # {} => backend \in Swallowing

\* drive_node.py:123-135.  Whatever the scheduling, one iteration never changes
\* a motor by more than the ramp in force, the operator's or the safety stop's,
\* allows for the longest iteration.  Two writes may: the stop of the shutdown,
\* and the first one that gets through after others were swallowed, when the
\* ramp has gone on without the motor.
Step(from, to) ==
    Magnitude(to - from)
        <= Period * (IF armedSnap THEN RampStep ELSE DownStep)

NoSpeedJump ==
    [][\A w \in Wheels :
          /\ Step(current[w], current'[w])
          /\ \/ Step(motors[w], motors'[w])
             \/ w \in lost
             \/ mainPc' = "done"]_vars

\* drive_node.py:112-131.  Once the loop has seen the disarming, its speeds only
\* go down and never change sign, whatever the joystick says, and so do the
\* motors; one that missed its last write can still be brought up to the speed
\* the ramp had reached meanwhile.
Slows(from, to) == Magnitude(to) <= Magnitude(from) /\ to * from >= 0

DisarmedOnlySlows ==
    [][~armedSnap /\ Looping =>
          \A w \in Wheels :
              /\ Slows(current[w], current'[w])
              /\ w \in lost \/ Slows(motors[w], motors'[w])]_vars

\* drive_node.py:85-92.  After on_shutdown no late iteration moves the motors,
\* and they are stopped, except where the hardware refused the stop as well.
QuietAfterShutdown ==
    mainPc = "done" => \A w \in Wheels \ lost : motors[w] = 0

\* The hardware takes a whole write again and again.
WritesArrive == []<>(lost = {})

\* drive_node.py:117-131.  A command held long enough while armed is reached,
\* whatever writes were swallowed before, if the hardware takes some.
ReachesCommand ==
    \A j \in Joysticks :
        <>[](armed /\ joystick = j /\ mainPc = "active" /\ Looping)
            /\ WritesArrive
                => <>(motors = Mix[j])

\* drive_node.py:112-135 and pca9685.py:80.  A live loop that stays disarmed
\* brings the motors to rest for good: it repeats the zero in every iteration,
\* so that swallowed writes only delay it.
DisarmedComesToRest ==
    <>[](~armed /\ mainPc = "active" /\ Looping) /\ WritesArrive
        => <>[](motors = Stopped)
=============================================================================
