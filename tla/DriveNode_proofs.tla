-------------------------- MODULE DriveNode_proofs --------------------------
(***************************************************************************)
(* Theorems about DriveNode for every ramp, loop period, mixer and set of  *)
(* commands, malformed ones and failing backends included, and about the   *)
(* values on both ends of it: what the mixers of drive/mixer.py guarantee  *)
(* for every message, every configuration and every scale, and what the    *)
(* drivers of drive/backends/ write for every speed and every calibration. *)
(*                                                                         *)
(* RampsDownAfterDisarm is not inductive: what is left of a speed depends  *)
(* on how long ago the iteration under way began, on the dt it is about to *)
(* use, and on whether its copy of _armed is older than the disarming.     *)
(* The bound is proved of the speeds the loop holds; PhaseInv ties a motor *)
(* to its speed until a driver swallows a write to it.                     *)
(***************************************************************************)
EXTENDS DriveNode, TLAPS

\* The same scale: full speed of the node is full speed of mixer and driver.
INSTANCE Mixer
INSTANCE Backends

PhaseInv ==
    /\ loopPc = "notstarted" => current = Stopped /\ lost = {}
    /\ loopPc = "notstarted" <=> mainPc \in {"new", "configured"}
    /\ mainPc \in {"stop", "done"} => ~Looping
    /\ Looping \/ loopPc = "notstarted" =>
           \A w \in Wheels \ lost : motors[w] = current[w]
    /\ mainPc = "done" => \A w \in Wheels \ lost : motors[w] = 0
    /\ Looping /\ lost # {} => backend \in Swallowing

\* How long after the disarming the iteration that last set the speeds began.
Applied == sinceDisarm - sinceIter - (IF loopPc = "drive" THEN dt ELSE 0)

RampInv ==
    /\ armed => sinceDisarm = 0
    /\ loopPc = "drive" /\ armedSnap => sinceDisarm <= sinceIter
    /\ Looping /\ ~armed => \A w \in Wheels :
           \/ current[w] = 0
           \/ DownStep * Applied + Magnitude(current[w]) <= Full

IInv == TypeOK /\ PhaseInv /\ RampInv

-----------------------------------------------------------------------------
(* Arithmetic *)

\* The constants are what DriveAssumption says.
LEMMA ConstantFacts ==
    /\ Full \in Nat /\ RampStep \in Nat /\ DownStep \in Nat
    /\ RampStep > 0 /\ DownStep > 0
    /\ LoopInterval \in Nat /\ LoopJitter \in Nat /\ MaxSince \in Nat
    /\ Period \in Nat
    /\ Mix \in [Joysticks -> Speeds]
    /\ NoJoystick \notin Joysticks \cup Malformed
    /\ Stopped \in Speeds
BY DriveAssumption DEF DriveAssumption, Period, Stopped, Speeds

\* Multiplication by a natural number keeps the order.
LEMMA ProductMono ==
    ASSUME NEW k \in Nat, NEW a \in Int, NEW b \in Int, a <= b
    PROVE  k * a <= k * b /\ k * a \in Int
OBVIOUS

\* Nor does it turn a non-positive number into a positive one.
LEMMA ProductNotPositive ==
    ASSUME NEW k \in Nat, NEW a \in Int, a <= 0
    PROVE  k * a <= 0 /\ k * a \in Int
OBVIOUS

\* Multiplication distributes over a difference.
LEMMA ProductDifference ==
    ASSUME NEW k \in Int, NEW a \in Int, NEW b \in Int
    PROVE  k * (a - b) = k * a - k * b
OBVIOUS

\* DriveNode._ramp stays between the speed and the target and moves by at most
\* one step.
LEMMA RampFacts ==
    ASSUME NEW s \in (-Full)..Full, NEW t \in (-Full)..Full, NEW step \in Nat
    PROVE  /\ Ramp(s, t, step) \in (-Full)..Full
           /\ Magnitude(Ramp(s, t, step) - s) <= step
BY ConstantFacts DEF Ramp, Magnitude

\* Toward zero, the speed loses a whole step or all it has left, and keeps its
\* sign.
LEMMA RampToZero ==
    ASSUME NEW s \in Int, NEW step \in Nat
    PROVE  /\ Ramp(s, 0, step) \in Int
           /\ \/ Ramp(s, 0, step) = 0
              \/ Magnitude(Ramp(s, 0, step)) + step = Magnitude(s)
           /\ Magnitude(Ramp(s, 0, step)) <= Magnitude(s)
           /\ \/ Ramp(s, 0, step) = 0
              \/ Ramp(s, 0, step) > 0 /\ s > 0
              \/ Ramp(s, 0, step) < 0 /\ s < 0
BY DEF Ramp, Magnitude

\* What an iteration that does not raise computes.
LEMMA RampedFacts ==
    ASSUME TypeOK, ~MixRaises
    PROVE  /\ Target \in Speeds
           /\ MaxStep \in Nat
           /\ MaxStep <= Period * (IF armedSnap THEN RampStep ELSE DownStep)
           /\ Ramped \in Speeds
           /\ \A w \in Wheels : Ramped[w] = Ramp(current[w], Target[w], MaxStep)
<1>1. Target \in Speeds
  BY ConstantFacts DEF TypeOK, Target, MixRaises
<1>2. dt \in Nat /\ dt <= Period
  BY ConstantFacts DEF TypeOK
<1> DEFINE k == IF armedSnap THEN RampStep ELSE DownStep
<1>3. k \in Nat
  BY ConstantFacts
<1>4. MaxStep = k * dt /\ MaxStep \in Nat
  BY <1>2, <1>3 DEF MaxStep
<1>5. k * dt <= k * Period
  BY <1>2, <1>3, ProductMono, ConstantFacts
<1>6. MaxStep <= Period * k
  <2>1. k * Period = Period * k /\ k * Period \in Int
    BY <1>3, ConstantFacts
  <2> HIDE DEF k
  <2> QED BY <1>4, <1>5, <2>1
<1>7. \A w \in Wheels : Ramped[w] = Ramp(current[w], Target[w], MaxStep)
  BY DEF Ramped
<1>8. \A w \in Wheels : Ramped[w] \in (-Full)..Full
  <2>1. current \in Speeds
    BY DEF TypeOK
  <2> QED BY <1>1, <1>4, <1>7, <2>1, RampFacts DEF Speeds
<1>9. Ramped \in Speeds
  BY <1>8 DEF Ramped, Speeds
<1> QED BY <1>1, <1>4, <1>6, <1>7, <1>9

\* A write of good speeds leaves good speeds, on each channel the new one or
\* the one it had.
LEMMA WriteFacts ==
    ASSUME TypeOK, NEW speeds \in Speeds, NEW missed \in SUBSET Wheels,
           Write(speeds, missed)
    PROVE  /\ motors' \in Speeds
           /\ lost' = missed /\ backend' = backend
           /\ \A w \in Wheels : motors'[w] = IF w \in missed THEN motors[w]
                                                           ELSE speeds[w]
BY DEF TypeOK, Write, Speeds

\* Every step that writes the output of an iteration.
WritesRamped == LoopDrive \/ BackendDies \/ BackendSwallows

\* Such a step sets the loop's speeds to Ramped, and every motor that the write
\* reaches; only a driver that swallows errors misses some in a live loop.
LEMMA RampedWritten ==
    ASSUME TypeOK, WritesRamped
    PROVE  /\ loopPc = "drive" /\ ~MixRaises
           /\ current' = Ramped /\ ForgetSnapshot
           /\ UNCHANGED <<mainPc, running, cmdVars, sinceIter, backend>>
           /\ loopPc' = "sleep" \/ loopPc' = "dead"
           /\ motors' \in Speeds
           /\ lost' \subseteq Wheels
           /\ \A w \in Wheels : motors'[w] = IF w \in lost' THEN motors[w]
                                                          ELSE Ramped[w]
           /\ loopPc' = "dead" \/ lost' = {} \/ backend \in Swallowing
<1>1. /\ loopPc = "drive" /\ ~MixRaises
      /\ current' = Ramped /\ ForgetSnapshot
      /\ UNCHANGED <<mainPc, running, cmdVars, sinceIter>>
      /\ loopPc' = "sleep" \/ loopPc' = "dead"
  BY DEF WritesRamped, LoopDrive, BackendDies, BackendSwallows
<1>2. PICK missed \in SUBSET Wheels :
          /\ Write(Ramped, missed)
          /\ loopPc' = "dead" \/ missed = {} \/ backend \in Swallowing
  BY DEF WritesRamped, LoopDrive, BackendDies, BackendSwallows
<1>3. Ramped \in Speeds
  BY <1>1, RampedFacts
<1> QED BY <1>1, <1>2, <1>3, WriteFacts

-----------------------------------------------------------------------------
(* The steps *)

\* Every action keeps the types: the ramp never leaves -Full..Full.
LEMMA TypeStep == IInv /\ [Next]_vars => TypeOK'
<1> SUFFICES ASSUME IInv, [Next]_vars PROVE TypeOK'
  OBVIOUS
<1>0. TypeOK
  BY DEF IInv
<1>f. ForgetSnapshot =>
          /\ dt' \in 0..Period /\ armedSnap' \in BOOLEAN
          /\ joySnap' \in Joysticks \cup Malformed \cup {NoJoystick}
  <2>1. 0 \in 0..Period
    BY ConstantFacts
  <2> QED BY <2>1 DEF ForgetSnapshot
<1> USE <1>0, ConstantFacts DEF TypeOK, cmdVars, snapVars, outVars
<1>1. CASE MainNext
  <2>1. CASE Configure
    BY <2>1 DEF Configure
  <2>2. CASE Activate
    BY <2>2 DEF Activate
  <2>3. CASE ClearRunning \/ Join
    BY <2>3 DEF ClearRunning, Join
  <2>4. CASE StopBackend
    <3>1. PICK missed \in SUBSET Wheels : Write(Stopped, missed)
      BY <2>4 DEF StopBackend
    <3>2. motors' \in Speeds /\ lost' \subseteq Wheels /\ backend' = backend
      BY <3>1, WriteFacts
    <3> QED BY <2>4, <3>2 DEF StopBackend
  <2> QED BY <1>1, <2>1, <2>2, <2>3, <2>4 DEF MainNext
<1>2. CASE BusNext
  BY <1>2 DEF BusNext, OnJoystick, OnSafety
<1>3. CASE LoopTest \/ LoopSnapshot \/ MixDies \/ LoopWake
  <2>1. CASE LoopTest \/ LoopWake
    BY <2>1 DEF LoopTest, LoopWake
  <2>2. CASE LoopSnapshot
    BY <2>2 DEF LoopSnapshot
  <2>3. CASE MixDies
    BY <1>f, <2>3 DEF MixDies
  <2> QED BY <1>3, <2>1, <2>2, <2>3
<1>4. CASE WritesRamped
  <2>1. Ramped \in Speeds
    BY <1>0, <1>4, RampedWritten, RampedFacts
  <2>2. /\ current' \in Speeds /\ motors' \in Speeds /\ lost' \subseteq Wheels
        /\ ForgetSnapshot /\ loopPc' \in {"sleep", "dead"}
        /\ UNCHANGED <<mainPc, running, cmdVars, sinceIter, backend>>
    BY <1>0, <1>4, <2>1, RampedWritten
  <2> QED BY <1>f, <2>2
<1>6. CASE Tick
  BY <1>6 DEF Tick, Looping
<1>7. CASE UNCHANGED vars
  BY <1>7 DEF vars
<1> QED BY <1>1, <1>2, <1>3, <1>4, <1>6, <1>7
        DEF Next, LoopNext, WritesRamped

\* The thread runs between on_activate and the join only, and writes to the
\* motors whatever it holds in current.
LEMMA PhaseStep == IInv /\ [Next]_vars => PhaseInv'
<1> SUFFICES ASSUME IInv, [Next]_vars PROVE PhaseInv'
  OBVIOUS
<1>0. TypeOK /\ PhaseInv
  BY DEF IInv
<1> USE <1>0 DEF TypeOK, PhaseInv, Looping, cmdVars, snapVars, outVars
<1>1. CASE MainNext
  <2>1. CASE Configure \/ Activate \/ ClearRunning \/ Join
    BY <2>1 DEF Configure, Activate, ClearRunning, Join
  <2>2. CASE StopBackend
    <3>1. PICK missed \in SUBSET Wheels : Write(Stopped, missed)
      BY <2>2 DEF StopBackend
    <3>2. Stopped \in Speeds /\ \A w \in Wheels : Stopped[w] = 0
      BY ConstantFacts DEF Stopped
    <3>3. \A w \in Wheels \ lost' : motors'[w] = 0
      BY <3>1, <3>2, WriteFacts
    <3> QED BY <2>2, <3>3 DEF StopBackend
  <2> QED BY <1>1, <2>1, <2>2 DEF MainNext
<1>2. CASE BusNext
  BY <1>2 DEF BusNext, OnJoystick, OnSafety
<1>3. CASE LoopTest \/ LoopSnapshot \/ MixDies \/ LoopWake
  BY <1>3 DEF LoopTest, LoopSnapshot, MixDies, LoopWake
<1>4. CASE WritesRamped
  BY <1>4, RampedWritten
<1>5. CASE Tick
  BY <1>5 DEF Tick
<1>6. CASE UNCHANGED vars
  BY <1>6 DEF vars
<1> QED BY <1>1, <1>2, <1>3, <1>4, <1>5, <1>6
        DEF Next, LoopNext, WritesRamped

\* A speed pays for the time since the disarming in whole iterations.
LEMMA RampStepInv == IInv /\ [Next]_vars => RampInv'
<1> SUFFICES ASSUME IInv, [Next]_vars PROVE RampInv'
  OBVIOUS
<1>0. TypeOK /\ PhaseInv /\ RampInv
  BY DEF IInv
<1>t. /\ sinceDisarm \in Nat /\ sinceIter \in Nat /\ dt \in Nat
      /\ current \in Speeds
      /\ \A w \in Wheels : current[w] \in Int /\ Magnitude(current[w]) \in Nat
                             /\ Magnitude(current[w]) <= Full
  BY <1>0, ConstantFacts DEF TypeOK, Speeds, Magnitude
<1>a. Applied \in Int
  BY <1>t DEF Applied
<1> USE ConstantFacts
<1>1. CASE MainNext
  BY <1>0, <1>1 DEF MainNext, Configure, Activate, ClearRunning, Join,
     StopBackend, outVars, cmdVars, snapVars, RampInv, PhaseInv, Looping, Applied, Stopped
<1>2. ASSUME NEW j, OnJoystick(j) PROVE RampInv'
  BY <1>0, <1>2 DEF OnJoystick, snapVars, RampInv, Looping, Applied
<1>3. ASSUME NEW b \in BOOLEAN, OnSafety(b) PROVE RampInv'
  <2>1. CASE b
    BY <1>0, <1>3, <1>t, <2>1 DEF OnSafety, RampInv, snapVars, Looping
  <2>2. CASE ~b /\ ~armed
    BY <1>0, <1>3, <2>2 DEF OnSafety, RampInv, snapVars, Looping, Applied
  <2>3. CASE ~b /\ armed
    <3>1. Applied' <= 0 /\ Applied' \in Int /\ current' = current
      BY <1>0, <1>3, <1>t, <2>3 DEF OnSafety, RampInv, snapVars, Applied
    <3>2. DownStep * Applied' <= 0 /\ DownStep * Applied' \in Int
      BY <3>1, ProductNotPositive
    <3> QED BY <1>0, <1>3, <1>t, <2>3, <3>1, <3>2
            DEF OnSafety, RampInv, snapVars, Looping
  <2> QED BY <2>1, <2>2, <2>3
<1>4. CASE LoopTest \/ MixDies \/ LoopWake
  BY <1>0, <1>4 DEF LoopTest, MixDies, LoopWake, ForgetSnapshot, cmdVars,
     snapVars, RampInv, Looping, Applied
<1>5. CASE LoopSnapshot
  <2>1. Applied' = Applied
    BY <1>5, <1>t DEF LoopSnapshot, cmdVars, Applied
  <2> QED BY <1>0, <1>5, <1>t, <2>1 DEF LoopSnapshot, cmdVars, RampInv, Looping
<1>6. CASE WritesRamped
  <2>0. /\ loopPc = "drive" /\ ~MixRaises /\ loopPc' # "drive"
        /\ current' = Ramped
        /\ UNCHANGED <<sinceDisarm, sinceIter, armed>>
    BY <1>0, <1>6, RampedWritten DEF cmdVars
  <2>1. /\ current' = Ramped /\ Applied' = sinceDisarm - sinceIter
        /\ Applied = Applied' - dt /\ Applied' \in Int
    BY <1>t, <2>0 DEF Applied
  <2>2. Ramped \in Speeds /\ \A w \in Wheels :
            Ramped[w] = Ramp(current[w], Target[w], MaxStep)
    BY <1>0, <2>0, RampedFacts
  <2>3. CASE armedSnap
    <3>1. Applied' <= 0
      BY <1>0, <1>t, <2>0, <2>1, <2>3 DEF RampInv
    <3>2. DownStep * Applied' <= 0 /\ DownStep * Applied' \in Int
      BY <2>1, <3>1, ProductNotPositive
    <3>3. \A w \in Wheels : Ramped[w] \in Int /\ Magnitude(Ramped[w]) <= Full
                              /\ Magnitude(Ramped[w]) \in Nat
      BY <2>2 DEF Speeds, Magnitude
    <3> QED BY <1>0, <2>0, <2>1, <3>2, <3>3 DEF RampInv
  <2>4. CASE ~armedSnap
    <3>1. MaxStep = DownStep * dt /\ MaxStep \in Nat
      BY <1>t, <2>4 DEF MaxStep
    <3>2. \A w \in Wheels : Target[w] = 0
      BY <2>4 DEF Target, Stopped
    <3>3. DownStep * Applied = DownStep * Applied' - DownStep * dt
      BY <1>t, <2>1, ProductDifference
    <3>4. DownStep * Applied' \in Int /\ DownStep * Applied \in Int
      BY <1>a, <2>1
    <3>5. \A w \in Wheels : \/ Ramped[w] = 0
                            \/ Magnitude(Ramped[w]) + MaxStep
                                   = Magnitude(current[w])
      BY <1>t, <2>2, <3>1, <3>2, RampToZero
    <3>6. \A w \in Wheels : Magnitude(Ramped[w]) \in Nat
      BY <2>2 DEF Speeds, Magnitude
    <3>7. ~armed => \A w \in Wheels :
              \/ Ramped[w] = 0
              \/ DownStep * Applied' + Magnitude(Ramped[w]) <= Full
      <4> SUFFICES ASSUME ~armed, NEW w \in Wheels, Ramped[w] # 0
                   PROVE  DownStep * Applied' + Magnitude(Ramped[w]) <= Full
        OBVIOUS
      <4>1. Magnitude(Ramped[w]) + MaxStep = Magnitude(current[w])
        BY <3>5
      <4>2. current[w] # 0
        BY <4>1, <1>t, <2>2, <3>1, <3>2 DEF Ramp, Magnitude, Speeds
      <4>3. DownStep * Applied + Magnitude(current[w]) <= Full
        BY <1>0, <2>0, <4>2 DEF RampInv, Looping
      <4> QED BY <1>t, <3>1, <3>3, <3>4, <3>6, <4>1, <4>3
    <3> QED BY <1>0, <2>0, <2>1, <3>7 DEF RampInv
  <2> QED BY <2>3, <2>4
<1>8. CASE Tick
  <2>1. Looping => Applied' <= Applied /\ Applied' \in Int
    BY <1>8, <1>t DEF Tick, Applied, snapVars, Looping
  <2>2. Looping => DownStep * Applied' <= DownStep * Applied
                     /\ DownStep * Applied' \in Int
    BY <1>a, <2>1, ProductMono
  <2>3. DownStep * Applied \in Int
    BY <1>a
  <2> QED BY <1>0, <1>8, <1>t, <2>2, <2>3
          DEF Tick, RampInv, Looping, snapVars
<1>9. CASE UNCHANGED vars
  BY <1>0, <1>9 DEF vars, cmdVars, snapVars, RampInv, Looping, Applied
<1> QED BY <1>1, <1>2, <1>3, <1>4, <1>5, <1>6, <1>8, <1>9
        DEF Next, BusNext, LoopNext, WritesRamped

-----------------------------------------------------------------------------
(* The theorems *)

\* The inductive invariant of the control loop.
THEOREM Invariance == Spec => []IInv
<1>1. Init => IInv
  <2> SUFFICES ASSUME Init PROVE IInv
    OBVIOUS
  <2>1. TypeOK
    <3>1. sinceDisarm \in 0..MaxSince /\ dt \in 0..Period /\ sinceIter \in 0..Period
      BY ConstantFacts DEF Init
    <3>2. current \in Speeds /\ motors \in Speeds
      BY ConstantFacts DEF Init
    <3> QED BY <3>1, <3>2 DEF Init, TypeOK
  <2>2. PhaseInv /\ RampInv
    BY DEF Init, PhaseInv, RampInv, Looping
  <2> QED BY <2>1, <2>2 DEF IInv
<1>2. IInv /\ [Next]_vars => IInv'
  BY TypeStep, PhaseStep, RampStepInv DEF IInv
<1> QED BY <1>1, <1>2, PTL DEF Spec

\* Every speed the loop holds or the backend is given is within -Full..Full.
THEOREM TypeCorrect == Spec => []TypeOK
<1>1. IInv => TypeOK
  BY DEF IInv
<1> QED BY <1>1, Invariance, PTL

\* The invariant bounds what is left of a speed.
LEMMA RampBound == IInv => RampsDownAfterDisarm
<1> SUFFICES ASSUME IInv, ~armed, Looping PROVE RampsDownAfterDisarm
  BY DEF RampsDownAfterDisarm
<1>1. TypeOK /\ PhaseInv /\ RampInv
  BY DEF IInv
<1>2. \A w \in Wheels : RampedDown(current[w])
  <2> SUFFICES ASSUME NEW w \in Wheels, current[w] # 0
               PROVE  DownStep * (sinceDisarm - 2 * Period)
                        + Magnitude(current[w]) <= Full
    BY DEF RampedDown
  <2>1. DownStep * Applied + Magnitude(current[w]) <= Full
    BY <1>1 DEF RampInv
  <2>2. sinceDisarm - 2 * Period <= Applied
          /\ sinceDisarm - 2 * Period \in Int /\ Applied \in Int
    BY <1>1, ConstantFacts DEF TypeOK, Applied
  <2>3. /\ DownStep * (sinceDisarm - 2 * Period) <= DownStep * Applied
        /\ DownStep * (sinceDisarm - 2 * Period) \in Int
        /\ DownStep * Applied \in Int
    BY <2>2, ProductMono, ConstantFacts
  <2>4. Magnitude(current[w]) \in Int /\ Full \in Int
    BY <1>1, ConstantFacts DEF TypeOK, Speeds, Magnitude
  <2> QED BY <2>1, <2>3, <2>4
<1>3. \A w \in Wheels : w \in lost \/ RampedDown(motors[w])
  BY <1>1, <1>2 DEF PhaseInv
<1>4. lost # {} => backend \in Swallowing
  BY <1>1 DEF PhaseInv
<1> QED BY <1>2, <1>3, <1>4 DEF RampsDownAfterDisarm

\* drive_node.py: the speeds a live disarmed loop holds ramp down in bounded
\* time, for every ramp, period and mixer, and so does every motor whose last
\* write was not swallowed; with gpio_pwm these are all of them.
THEOREM RampDown == Spec => []RampsDownAfterDisarm
BY RampBound, Invariance, PTL

\* drive_node.py: after on_shutdown the motors stay stopped, but for a channel
\* the hardware refused to stop.
THEOREM Quiet == Spec => []QuietAfterShutdown
<1>1. IInv => QuietAfterShutdown
  BY DEF IInv, PhaseInv, QuietAfterShutdown
<1> QED BY <1>1, Invariance, PTL

\* Every step that does not write the output of an iteration leaves the speeds
\* the loop holds alone, and, before the last stop of the backend, the motors.
LEMMA OtherSteps ==
    ASSUME IInv, [Next]_vars, ~WritesRamped
    PROVE  /\ current' = current
           /\ motors' = motors \/ (mainPc' = "done" /\ ~Looping)
<1>1. TypeOK /\ PhaseInv
  BY DEF IInv
<1> USE <1>1 DEF PhaseInv, outVars, cmdVars, snapVars, Looping
<1>2. CASE MainNext
  <2>1. CASE Configure
    <3>1. \A w \in Wheels : motors[w] = 0
      BY <2>1 DEF Configure, Stopped
    <3>2. motors = Stopped
      BY <3>1 DEF TypeOK, Speeds, Stopped
    <3> QED BY <2>1, <3>2 DEF Configure
  <2>2. CASE Activate \/ ClearRunning \/ Join \/ StopBackend
    BY <2>2 DEF Activate, ClearRunning, Join, StopBackend
  <2> QED BY <1>2, <2>1, <2>2 DEF MainNext
<1>3. CASE BusNext
  BY <1>3 DEF BusNext, OnJoystick, OnSafety
<1>4. CASE LoopTest \/ LoopSnapshot \/ MixDies \/ LoopWake
  BY <1>4 DEF LoopTest, LoopSnapshot, MixDies, LoopWake
<1>5. CASE Tick \/ UNCHANGED vars
  BY <1>5 DEF Tick, vars
<1> QED BY <1>2, <1>3, <1>4, <1>5 DEF Next, LoopNext, WritesRamped

\* No change at all is within any bound.
LEMMA NoStep ==
    ASSUME NEW n \in Int, TypeOK
    PROVE  Step(n, n) /\ Slows(n, n)
<1>1. Period * (IF armedSnap THEN RampStep ELSE DownStep) \in Nat
  BY ConstantFacts
<1>2. Magnitude(n - n) = 0 /\ Magnitude(n) \in Int
  BY DEF Magnitude
<1>3. n * n >= 0
  OBVIOUS
<1> QED BY <1>1, <1>2, <1>3 DEF Step, Slows

\* One step of the loop, or of anything else, moves a speed by at most what the
\* ramp allows for the longest iteration, and a motor that has it by as much.
LEMMA JumpStep ==
    ASSUME IInv, [Next]_vars, NEW w \in Wheels
    PROVE  /\ Step(current[w], current'[w])
           /\ Step(motors[w], motors'[w]) \/ w \in lost \/ mainPc' = "done"
<1> DEFINE bound == Period * (IF armedSnap THEN RampStep ELSE DownStep)
<1>0. TypeOK /\ PhaseInv
  BY DEF IInv
<1>1. bound \in Nat
  BY ConstantFacts
<1>2. current[w] \in (-Full)..Full /\ motors[w] \in Int /\ current[w] \in Int
  BY <1>0, ConstantFacts DEF TypeOK, Speeds
<1>3. Step(current[w], current[w]) /\ Step(motors[w], motors[w])
  BY <1>0, <1>2, NoStep
<1>4. CASE WritesRamped
  <2>1. /\ ~MixRaises /\ loopPc = "drive" /\ current' = Ramped
        /\ motors'[w] = Ramped[w] \/ motors'[w] = motors[w]
    BY <1>0, <1>4, RampedWritten
  <2>2. MaxStep \in Nat /\ MaxStep <= bound
    BY <1>0, <2>1, RampedFacts
  <2>3. Magnitude(Ramped[w] - current[w]) <= MaxStep
    BY <1>0, <1>2, <2>1, <2>2, RampedFacts, RampFacts DEF Speeds
  <2>4. Ramped[w] \in Int
    BY <1>0, <2>1, RampedFacts, ConstantFacts DEF Speeds
  <2>5. Magnitude(Ramped[w] - current[w]) <= bound
    <3> HIDE DEF bound
    <3> QED BY <1>1, <1>2, <2>2, <2>3, <2>4 DEF Magnitude
  <2>6. w \in lost \/ motors[w] = current[w]
    BY <1>0, <2>1 DEF PhaseInv, Looping
  <2> QED BY <1>3, <2>1, <2>5, <2>6 DEF Step
<1>5. CASE ~WritesRamped
  BY <1>3, <1>5, OtherSteps
<1> QED BY <1>4, <1>5

\* drive_node.py: no interleaving and no late iteration makes a speed jump, nor
\* a motor, unless its driver has swallowed the writes before.
THEOREM NoJump == Spec => NoSpeedJump
<1>1. IInv /\ [Next]_vars =>
         [\A w \in Wheels :
             /\ Step(current[w], current'[w])
             /\ \/ Step(motors[w], motors'[w])
                \/ w \in lost
                \/ mainPc' = "done"]_vars
  BY JumpStep
<1> QED BY <1>1, Invariance, PTL DEF Spec, NoSpeedJump

\* Two speeds on the same side of rest, or one of them at rest.
LEMMA SameSign ==
    ASSUME NEW m \in Int, NEW n \in Int,
           m = 0 \/ (m > 0 /\ n > 0) \/ (m < 0 /\ n < 0)
    PROVE  m * n >= 0
OBVIOUS

\* A step of a loop that works with "disarmed" slows a speed or leaves it alone.
LEMMA SlowStep ==
    ASSUME IInv, [Next]_vars, ~armedSnap, Looping, NEW w \in Wheels
    PROVE  /\ Slows(current[w], current'[w])
           /\ w \in lost \/ Slows(motors[w], motors'[w])
<1>0. TypeOK /\ PhaseInv
  BY DEF IInv
<1>1. motors[w] \in Int /\ current[w] \in Int
  BY <1>0, ConstantFacts DEF TypeOK, Speeds
<1>2. Slows(current[w], current[w]) /\ Slows(motors[w], motors[w])
  BY <1>0, <1>1, NoStep
<1>3. CASE WritesRamped
  <2>1. /\ ~MixRaises /\ current' = Ramped
        /\ motors'[w] = Ramped[w] \/ motors'[w] = motors[w]
    BY <1>0, <1>3, RampedWritten
  <2>2. Target[w] = 0
    BY DEF Target, Stopped
  <2>3. Ramped[w] = Ramp(current[w], 0, MaxStep) /\ MaxStep \in Nat
    BY <1>0, <2>1, <2>2, RampedFacts
  <2>4. /\ Ramped[w] \in Int
        /\ Magnitude(Ramped[w]) <= Magnitude(current[w])
        /\ \/ Ramped[w] = 0
           \/ Ramped[w] > 0 /\ current[w] > 0
           \/ Ramped[w] < 0 /\ current[w] < 0
    BY <1>1, <2>3, RampToZero
  <2>5. Ramped[w] * current[w] >= 0
    BY <1>1, <2>4, SameSign
  <2>6. w \in lost \/ motors[w] = current[w]
    BY <1>0 DEF PhaseInv
  <2> QED BY <1>2, <2>1, <2>4, <2>5, <2>6 DEF Slows
<1>4. CASE ~WritesRamped
  <2>1. motors' = motors
    BY <1>0, <1>4, OtherSteps
  <2> QED BY <1>2, <1>4, <2>1, OtherSteps
<1> QED BY <1>3, <1>4

\* drive_node.py: once the loop has seen the disarming no speed grows or
\* changes sign, whatever the joystick says and whether or not the hardware
\* fails, and no motor does unless its last write was swallowed.
THEOREM OnlySlows == Spec => DisarmedOnlySlows
<1>1. IInv /\ [Next]_vars =>
         [~armedSnap /\ Looping =>
             \A w \in Wheels :
                 /\ Slows(current[w], current'[w])
                 /\ w \in lost \/ Slows(motors[w], motors'[w])]_vars
  BY SlowStep
<1> QED BY <1>1, Invariance, PTL DEF Spec, DisarmedOnlySlows

-----------------------------------------------------------------------------
(* The values: mixers and motor drivers *)

ArcadeConfigs == [invertSpeed : BOOLEAN, invertSteer : BOOLEAN,
                  maxSpeed : Int, sensitivity : Int]
TankConfigs == [invertLeft : BOOLEAN, invertRight : BOOLEAN]

\* The axes of a message: any names, any integers; some may be missing.
IntegerAxes(axes) == \A name \in DOMAIN axes : axes[name] \in Int

-----------------------------------------------------------------------------
(* Lemmas about the arithmetic *)

\* A missing axis reads as 0, so an axis is always a number.
LEMMA AxisType ==
    ASSUME NEW axes, NEW name, IntegerAxes(axes)
    PROVE  Axis(axes, name) \in Int
BY DEF Axis, IntegerAxes

\* Clamping keeps within the scale and is odd.
LEMMA ClampFacts ==
    ASSUME Full \in Nat, NEW n \in Int
    PROVE  /\ Clamp(n) \in (-Full)..Full
           /\ Clamp(-n) = -Clamp(n)
           /\ n \in (-Full)..Full => Clamp(n) = n
BY DEF Clamp

\* The solver is not told that a product of naturals is a natural.
LEMMA ProductOfNaturals ==
    ASSUME NEW a \in Int, NEW b \in Int, a >= 0, b >= 0
    PROVE  a * b >= 0
OBVIOUS

\* The division rounds toward zero: it is odd, and off by less than one.
LEMMA QuotientFacts ==
    ASSUME NEW num \in Int, NEW den \in Nat \ {0}
    PROVE  /\ Quotient(num, den) \in Int
           /\ Quotient(-num, den) = -Quotient(num, den)
           /\ num - den * Quotient(num, den) \in (-(den - 1))..(den - 1)
           /\ num >= 0 => Quotient(num, den) >= 0
           /\ num <= 0 => Quotient(num, den) <= 0
<1>1. ASSUME NEW m \in Int, m >= 0
      PROVE  /\ m \div den \in Int
             /\ m \div den >= 0
             /\ m - den * (m \div den) >= 0
             /\ m - den * (m \div den) <= den - 1
  <2>1. /\ m = den * (m \div den) + (m % den)
        /\ m % den \in 0..(den - 1)
        /\ m \div den \in Int
    BY SMT
  <2> DEFINE q == m \div den
             r == m % den
  <2>2. q \in Int /\ r \in Int /\ m = den * q + r /\ 0 <= r /\ r <= den - 1
    BY <2>1
  <2> HIDE DEF q, r
  <2>3. q >= 0
    <3>1. SUFFICES ASSUME -q - 1 >= 0
                   PROVE  FALSE
      BY <2>2
    <3>2. den * (-q - 1) >= 0
      BY <2>2, <3>1, ProductOfNaturals
    <3>3. den * (-q - 1) = -(den * q) - den
      BY <2>2
    <3> QED BY <1>1, <2>2, <3>2, <3>3
  <2> QED BY <2>2, <2>3 DEF q, r
<1>2. CASE num < 0
  BY <1>1, <1>2 DEF Quotient
<1>3. CASE num = 0
  BY <1>1, <1>3 DEF Quotient
<1>4. CASE num > 0
  BY <1>1, <1>4 DEF Quotient
<1> QED BY <1>2, <1>3, <1>4

\* A positive factor on both sides can go.
LEMMA Cancellation ==
    ASSUME NEW d \in Nat \ {0}, NEW x \in Int, NEW y \in Int, d * x <= d * y
    PROVE  x <= y
<1>1. SUFFICES ASSUME x - y - 1 >= 0
               PROVE  FALSE
  OBVIOUS
<1>2. d * (x - y - 1) >= 0
  BY <1>1, ProductOfNaturals
<1>3. d * (x - y - 1) = d * x - d * y - d
  OBVIOUS
<1> QED BY <1>2, <1>3

\* A factor of bounded size bounds the product.
LEMMA ProductBound ==
    ASSUME NEW d \in Nat, NEW e \in (-d)..d, NEW a \in Int
    PROVE  -(d * Abs(a)) <= e * a /\ e * a <= d * Abs(a)
<1>1. CASE a >= 0
  <2>1. (d - e) * a >= 0 /\ (d + e) * a >= 0
    BY <1>1, ProductOfNaturals
  <2>2. (d - e) * a = d * a - e * a /\ (d + e) * a = d * a + e * a
    OBVIOUS
  <2>3. Abs(a) = a
    BY <1>1 DEF Abs
  <2> QED BY <2>1, <2>2, <2>3
<1>2. CASE a < 0
  <2>1. (d - e) * (-a) >= 0 /\ (d + e) * (-a) >= 0
    BY <1>2, ProductOfNaturals
  <2>2. /\ (d - e) * (-a) = d * (-a) + e * a
        /\ (d + e) * (-a) = d * (-a) - e * a
    OBVIOUS
  <2>3. Abs(a) = -a
    BY <1>2 DEF Abs
  <2> QED BY <2>1, <2>2, <2>3
<1> QED BY <1>1, <1>2

\* A quotient of something no larger than the divisor is at most Full.
LEMMA QuotientInRange ==
    ASSUME Full \in Nat, NEW d \in Nat \ {0}, NEW a \in Int, Abs(a) <= d
    PROVE  Quotient(a * Full, d) \in (-Full)..Full
<1> DEFINE num == a * Full
           q == Quotient(num, d)
<1>1. num \in Int /\ num <= d * Full /\ -(d * Full) <= num
  <2>1. a \in (-d)..d
    BY DEF Abs
  <2>2. Abs(Full) = Full
    BY DEF Abs
  <2> QED BY <2>1, <2>2, ProductBound
<1> HIDE DEF num
<1>2. q \in Int /\ num - d * q \in (-(d - 1))..(d - 1)
  BY <1>1, QuotientFacts
<1> HIDE DEF q
<1>3. q <= Full
  <2>1. d * q <= num + d - 1
    BY <1>1, <1>2
  <2>2. SUFFICES ASSUME q - Full - 1 >= 0
                 PROVE  FALSE
    BY <1>2
  <2>3. d * (q - Full - 1) >= 0
    BY <1>2, <2>2, ProductOfNaturals
  <2>4. d * (q - Full - 1) = d * q - d * Full - d
    BY <1>2
  <2> QED BY <1>1, <1>2, <2>1, <2>3, <2>4
<1>4. -Full <= q
  <2>1. num - d + 1 <= d * q
    BY <1>1, <1>2
  <2>2. SUFFICES ASSUME -q - Full - 1 >= 0
                 PROVE  FALSE
    BY <1>2
  <2>3. d * (-q - Full - 1) >= 0
    BY <1>2, <2>2, ProductOfNaturals
  <2>4. d * (-q - Full - 1) = -(d * q) - d * Full - d
    BY <1>2
  <2> QED BY <1>1, <1>2, <2>1, <2>3, <2>4
<1> QED BY <1>2, <1>3, <1>4 DEF q, num

\* Scaling is odd, which is why inversion and scaling can come in any order.
LEMMA ScaleFacts ==
    ASSUME Full \in Nat \ {0}, NEW n \in Int, NEW factor \in Int
    PROVE  /\ Scale(n, factor) \in Int
           /\ Scale(-n, factor) = -Scale(n, factor)
<1> DEFINE product == n * factor
<1>1. product \in Int /\ (-n) * factor = -product
  OBVIOUS
<1> HIDE DEF product
<1>2. /\ Quotient(product, Full) \in Int
      /\ Quotient(-product, Full) = -Quotient(product, Full)
  BY <1>1, QuotientFacts
<1>3. /\ Scale(n, factor) = Quotient(product, Full)
      /\ Scale(-n, factor) = Quotient(-product, Full)
  BY <1>1 DEF Scale, product
<1> QED BY <1>2, <1>3

\* What ArcadeMix divides by: the larger of the two sums, at least Full.
Divisor(speed, steer) ==
    Larger(Larger(Abs(speed + steer), Abs(speed - steer)), Full)

\* The divisor is positive and at least as large as what it divides.
LEMMA DivisorFacts ==
    ASSUME Full \in Nat \ {0}, NEW s \in Int, NEW t \in Int
    PROVE  /\ Divisor(s, t) \in Nat \ {0}
           /\ Divisor(s, t) >= Full
           /\ Abs(s + t) <= Divisor(s, t)
           /\ Abs(s - t) <= Divisor(s, t)
           /\ Divisor(s, -t) = Divisor(s, t)
BY DEF Divisor, Larger, Abs

-----------------------------------------------------------------------------
(* Arcade steering *)

\* mixer.py:28.  Whatever axes a message carries and however the sensitivities
\* are set, the motors are asked for no more than full power either way.
THEOREM ArcadeInRange ==
    ASSUME Full \in Nat \ {0}, NEW axes, IntegerAxes(axes),
           NEW cfg \in ArcadeConfigs
    PROVE  LET out == ArcadeCommand(axes, cfg)
           IN  out.left \in (-Full)..Full /\ out.right \in (-Full)..Full
<1> DEFINE speed == Axis(axes, "speed")
           steer == Axis(axes, "steer")
           s == Scale(IF cfg.invertSpeed THEN -speed ELSE speed, cfg.maxSpeed)
           t == Scale(IF cfg.invertSteer THEN -steer ELSE steer,
                      cfg.sensitivity)
<1>1. s \in Int /\ t \in Int
  <2>1. /\ cfg.maxSpeed \in Int /\ cfg.sensitivity \in Int
        /\ speed \in Int /\ steer \in Int
    BY AxisType DEF ArcadeConfigs
  <2> HIDE DEF speed, steer
  <2>2. /\ (IF cfg.invertSpeed THEN -speed ELSE speed) \in Int
        /\ (IF cfg.invertSteer THEN -steer ELSE steer) \in Int
    BY <2>1
  <2> QED BY <2>1, <2>2, ScaleFacts
<1>2. ArcadeCommand(axes, cfg) = ArcadeMix(s, t)
  BY DEF ArcadeCommand
<1> HIDE DEF s, t
<1>3. /\ Quotient((s + t) * Full, Divisor(s, t)) \in Int
      /\ Quotient((s - t) * Full, Divisor(s, t)) \in Int
  <2>1. (s + t) * Full \in Int /\ (s - t) * Full \in Int
    BY <1>1
  <2>2. Divisor(s, t) \in Nat \ {0}
    BY <1>1, DivisorFacts
  <2> QED BY <2>1, <2>2, QuotientFacts
<1>4. /\ ArcadeMix(s, t).left
             = Clamp(Quotient((s + t) * Full, Divisor(s, t)))
      /\ ArcadeMix(s, t).right
             = Clamp(Quotient((s - t) * Full, Divisor(s, t)))
  BY DEF ArcadeMix, Divisor
<1> QED BY <1>2, <1>3, <1>4, ClampFacts

\* mixer.py:24-27, "preserve ratio".  Saturation slows both motors down without
\* bending the curve: the outputs are in the ratio of speed + steer and
\* speed - steer, up to the rounding of each output by less than one unit.
THEOREM ArcadePreservesRatio ==
    ASSUME Full \in Nat \ {0}, NEW speed \in Int, NEW steer \in Int
    PROVE  LET out == ArcadeMix(speed, steer)
               a   == speed + steer
               b   == speed - steer
           IN  Abs(out.left * b - out.right * a) <= Abs(a) + Abs(b)
<1> DEFINE a == speed + steer
           b == speed - steer
           d == Divisor(speed, steer)
           l == Quotient(a * Full, d)
           r == Quotient(b * Full, d)
<1>1. a \in Int /\ b \in Int /\ d \in Nat \ {0} /\ Abs(a) <= d /\ Abs(b) <= d
  BY DivisorFacts
<1>2. ArcadeMix(speed, steer) = [left |-> Clamp(l), right |-> Clamp(r)]
  BY DEF ArcadeMix, Divisor
<1> HIDE DEF a, b, d
<1>3. l \in (-Full)..Full /\ r \in (-Full)..Full
  BY <1>1, QuotientInRange
<1>4. Clamp(l) = l /\ Clamp(r) = r
  BY <1>3, ClampFacts
<1> DEFINE x == a * Full - d * l
           y == b * Full - d * r
<1>5. x \in (-d)..d /\ y \in (-d)..d
  <2>1. a * Full \in Int /\ b * Full \in Int
    BY <1>1
  <2>2. x \in (-(d - 1))..(d - 1) /\ y \in (-(d - 1))..(d - 1)
    BY <1>1, <2>1, QuotientFacts
  <2> QED BY <1>1, <2>2
<1> HIDE DEF l, r
<1>6. d * (l * b - r * a) = y * a - x * b
  <2>1. /\ y * a = (b * Full) * a - (d * r) * a
        /\ x * b = (a * Full) * b - (d * l) * b
    BY <1>1, <1>3
  <2>2. (b * Full) * a = (a * Full) * b
    BY <1>1
  <2>3. d * (l * b - r * a) = (d * l) * b - (d * r) * a
    BY <1>1, <1>3
  <2>4. /\ (b * Full) * a \in Int
        /\ (d * r) * a \in Int
        /\ (d * l) * b \in Int
    BY <1>1, <1>3
  <2> QED BY <2>1, <2>2, <2>3, <2>4
<1> HIDE DEF x, y
<1>7. /\ -(d * Abs(a)) <= y * a /\ y * a <= d * Abs(a)
      /\ -(d * Abs(b)) <= x * b /\ x * b <= d * Abs(b)
  BY <1>1, <1>5, ProductBound
<1> DEFINE z == l * b - r * a
           bound == Abs(a) + Abs(b)
<1>8. z \in Int /\ bound \in Int /\ x \in Int /\ y \in Int
  BY <1>1, <1>3, <1>5 DEF Abs
<1>9. d * bound = d * Abs(a) + d * Abs(b)
  BY <1>1 DEF Abs
<1>10. d * z <= d * bound /\ d * (-z) <= d * bound
  <2>1. d * z = y * a - x * b /\ d * (-z) = -(d * z)
    BY <1>1, <1>6, <1>8
  <2>2. y * a \in Int /\ x * b \in Int /\ d * Abs(a) \in Int /\ d * Abs(b) \in Int
    BY <1>1, <1>8 DEF Abs
  <2> QED BY <1>7, <1>9, <2>1, <2>2
<1> HIDE DEF z, bound
<1>11. z <= bound /\ -z <= bound
  BY <1>1, <1>8, <1>10, Cancellation
<1>12. Abs(z) <= bound
  BY <1>8, <1>11 DEF Abs
<1> QED BY <1>2, <1>4, <1>12 DEF z, bound, a, b

\* mixer.py:20-28.  Steering the other way exchanges the two motors, saturated
\* or not.
LEMMA MirroredMix ==
    ASSUME Full \in Nat \ {0}, NEW s \in Int, NEW t \in Int
    PROVE  /\ ArcadeMix(s, -t).left  = ArcadeMix(s, t).right
           /\ ArcadeMix(s, -t).right = ArcadeMix(s, t).left
<1>1. Divisor(s, -t) = Divisor(s, t)
  BY DivisorFacts
<1>2. s + (-t) = s - t /\ s - (-t) = s + t
  OBVIOUS
<1> QED BY <1>1, <1>2 DEF ArcadeMix, Divisor

\* drive_node.py:166-170.  Toggling invert_steer exchanges the two motors and
\* changes nothing else: scaling after the inversion introduces no bias.
THEOREM SteeringMirrors ==
    ASSUME Full \in Nat \ {0}, NEW axes, IntegerAxes(axes),
           NEW cfg \in ArcadeConfigs
    PROVE  LET out   == ArcadeCommand(axes, cfg)
               other == ArcadeCommand(axes, [cfg EXCEPT !.invertSteer = ~@])
           IN  other.left = out.right /\ other.right = out.left
<1> DEFINE mirrored == [cfg EXCEPT !.invertSteer = ~@]
           speed == Axis(axes, "speed")
           steer == Axis(axes, "steer")
           s == Scale(IF cfg.invertSpeed THEN -speed ELSE speed, cfg.maxSpeed)
           u == Scale(steer, cfg.sensitivity)
<1>1. /\ cfg.invertSteer \in BOOLEAN
      /\ mirrored.invertSteer = ~cfg.invertSteer
      /\ mirrored.invertSpeed = cfg.invertSpeed
      /\ mirrored.maxSpeed = cfg.maxSpeed
      /\ mirrored.sensitivity = cfg.sensitivity
      /\ cfg.sensitivity \in Int /\ cfg.maxSpeed \in Int
  BY DEF ArcadeConfigs
<1>2. s \in Int /\ u \in Int /\ steer \in Int
  <2>1. speed \in Int /\ steer \in Int
    BY AxisType
  <2> HIDE DEF speed, steer
  <2>2. (IF cfg.invertSpeed THEN -speed ELSE speed) \in Int
    BY <2>1
  <2> QED BY <1>1, <2>1, <2>2, ScaleFacts
<1>3. Scale(-steer, cfg.sensitivity) = -u
  BY <1>1, <1>2, ScaleFacts
<1>4. CASE cfg.invertSteer
  <2>1. /\ ArcadeCommand(axes, cfg) = ArcadeMix(s, -u)
        /\ ArcadeCommand(axes, mirrored) = ArcadeMix(s, u)
    BY <1>1, <1>3, <1>4 DEF ArcadeCommand
  <2> QED BY <1>2, <2>1, MirroredMix
<1>5. CASE ~cfg.invertSteer
  <2>1. /\ ArcadeCommand(axes, cfg) = ArcadeMix(s, u)
        /\ ArcadeCommand(axes, mirrored) = ArcadeMix(s, -u)
    BY <1>1, <1>3, <1>5 DEF ArcadeCommand
  <2> QED BY <1>2, <2>1, MirroredMix
<1> QED BY <1>1, <1>4, <1>5

-----------------------------------------------------------------------------
(* Tank steering *)

\* drive_node.py:192-195, mixer.py:39-45.  An inverted tank channel runs the
\* other way at the same speed and leaves the other channel alone, so that a
\* centred throttle, "0.5 = stop", stays a stop when it is inverted.
THEOREM TankInversionNegates ==
    ASSUME Full \in Nat \ {0}, NEW axes, IntegerAxes(axes),
           NEW cfg \in TankConfigs
    PROVE  LET out   == TankCommand(axes, cfg)
               other == TankCommand(axes, [cfg EXCEPT !.invertLeft = ~@])
           IN  other.left = -out.left /\ other.right = out.right
<1> DEFINE inverted == [cfg EXCEPT !.invertLeft = ~@]
           left == Axis(axes, "left")
<1>1. /\ cfg.invertLeft \in BOOLEAN
      /\ inverted.invertLeft = ~cfg.invertLeft
      /\ inverted.invertRight = cfg.invertRight
      /\ left \in Int
  BY AxisType DEF TankConfigs
<1>2. Clamp(2 * (Full - left) - Full) = -Clamp(2 * left - Full)
  <2>1. 2 * (Full - left) - Full = -(2 * left - Full)
    BY <1>1
  <2> QED BY <1>1, <2>1, ClampFacts
<1>3. Clamp(2 * left - Full) \in Int
  BY <1>1, ClampFacts
<1>4. TankCommand(axes, inverted).left = -TankCommand(axes, cfg).left
  <2> DEFINE plain == Clamp(2 * left - Full)
             turned == Clamp(2 * (Full - left) - Full)
  <2>1. CASE cfg.invertLeft
    <3>1. /\ TankCommand(axes, inverted).left = plain
          /\ TankCommand(axes, cfg).left = turned
      BY <1>1, <2>1 DEF TankCommand, TankMix
    <3> HIDE DEF plain, turned
    <3> QED BY <1>2, <1>3, <3>1 DEF plain, turned
  <2>2. CASE ~cfg.invertLeft
    <3>1. /\ TankCommand(axes, inverted).left = turned
          /\ TankCommand(axes, cfg).left = plain
      BY <1>1, <2>2 DEF TankCommand, TankMix
    <3> QED BY <1>2, <3>1
  <2> QED BY <1>1, <2>1, <2>2
<1>5. TankCommand(axes, inverted).right = TankCommand(axes, cfg).right
  BY <1>1 DEF TankCommand, TankMix
<1> QED BY <1>4, <1>5

-----------------------------------------------------------------------------
(* Division, by the drivers *)

\* Dividing by a positive number loses less than that number.
LEMMA DivisionFacts ==
    ASSUME NEW n \in Int, NEW d \in Int, d > 0
    PROVE  /\ n \div d \in Int
           /\ d * (n \div d) <= n /\ d * (n \div d) > n - d
OBVIOUS

\* Division by a positive number keeps the order.
LEMMA DivisionMono ==
    ASSUME NEW m \in Int, NEW n \in Int, NEW d \in Int, d > 0, m <= n
    PROVE  m \div d <= n \div d
<1> DEFINE p == m \div d  q == n \div d
<1>1. /\ p \in Int /\ q \in Int
      /\ d * p <= m /\ d * q > n - d
  BY DivisionFacts
<1> HIDE DEF p, q
<1>2. CASE p >= q + 1
  <2>1. d * p >= d * (q + 1) /\ d * (q + 1) = d * q + d
    BY <1>1, <1>2
  <2>2. d * p \in Int /\ d * q \in Int
    BY <1>1
  <2> QED BY <1>1, <2>1, <2>2
<1>3. p <= q
  BY <1>1, <1>2
<1> QED BY <1>3 DEF p, q

\* A whole number of divisors comes back.
LEMMA DivisionExact ==
    ASSUME NEW n \in Int, NEW d \in Int, d > 0
    PROVE  (d * n) \div d = n
<1> DEFINE q == (d * n) \div d
<1>1. d * n \in Int
  OBVIOUS
<1>2. q \in Int /\ d * q <= d * n /\ d * q > d * n - d
  BY <1>1, DivisionFacts
<1> HIDE DEF q
<1>3. q <= n
  BY <1>1, <1>2
<1>4. CASE q <= n - 1
  <2>1. d * q <= d * (n - 1) /\ d * (n - 1) = d * n - d
    BY <1>2, <1>4
  <2> QED BY <1>1, <1>2, <2>1
<1> QED BY <1>2, <1>3, <1>4 DEF q

-----------------------------------------------------------------------------
(* gpio_pwm *)

\* gpio_pwm.py:77-83.  Whatever min_duty and max_duty the file holds, the duty
\* cycle is a percentage, and below the dead band, at rest in particular, none.
THEOREM DutyIsPercentage ==
    ASSUME Full \in Nat \ {0}, NEW speed \in Int,
           NEW minDuty \in Int, NEW maxDuty \in Int
    PROVE  /\ GpioDuty(speed, minDuty, maxDuty) \in 0..100
           /\ 100 * Size(speed) < Full => GpioDuty(speed, minDuty, maxDuty) = 0
<1> DEFINE q == (Size(speed) * (maxDuty - minDuty)) \div Full
<1>1. Size(speed) \in Int /\ Size(speed) * (maxDuty - minDuty) \in Int
  BY DEF Size
<1>2. q \in Int
  BY <1>1, DivisionFacts
<1>3. Within(q + minDuty, 0, 100) \in 0..100
  <2> HIDE DEF q
  <2> QED BY <1>2 DEF Within
<1>4. GpioDuty(speed, minDuty, maxDuty)
        = IF 100 * Size(speed) < Full THEN 0 ELSE Within(q + minDuty, 0, 100)
  BY Zenon DEF GpioDuty
<1> HIDE DEF q
<1>5. CASE 100 * Size(speed) < Full
  <2>1. GpioDuty(speed, minDuty, maxDuty) = 0
    BY <1>4, <1>5, Zenon
  <2> QED BY <2>1
<1>6. CASE ~(100 * Size(speed) < Full)
  <2>1. GpioDuty(speed, minDuty, maxDuty) = Within(q + minDuty, 0, 100)
    BY <1>4, <1>6, Zenon
  <2> QED BY <2>1, <1>3, <1>6, Zenon
<1> QED BY <1>5, <1>6, Zenon

-----------------------------------------------------------------------------
(* pca9685 *)

\* pca9685.py:62-67.  A faster speed never gets a shorter pulse, across rest
\* too, where the two halves of the calibration meet.
THEOREM PulseFollowsSpeed ==
    ASSUME Full \in Nat \ {0},
           NEW low \in Int, NEW center \in Int, NEW high \in Int,
           low <= center, center <= high,
           NEW s \in Int, NEW t \in Int, s <= t
    PROVE  SpeedToPulse(s, low, center, high)
             <= SpeedToPulse(t, low, center, high)
<1> DEFINE Share(x) == IF x >= 0 THEN x * (high - center) ELSE x * (center - low)
<1>1. Share(s) \in Int /\ Share(t) \in Int
  OBVIOUS
<1>2. Share(s) <= Share(t)
  <2>1. CASE s >= 0
    <3>1. s * (high - center) <= t * (high - center)
      OBVIOUS
    <3> QED BY <2>1, <3>1
  <2>2. CASE t < 0
    <3>1. s * (center - low) <= t * (center - low)
      OBVIOUS
    <3> QED BY <2>2, <3>1
  <2>3. CASE s < 0 /\ t >= 0
    <3>1. s * (center - low) <= 0
      BY <2>3
    <3>2. t * (high - center) >= 0
      BY <2>3
    <3> QED BY <2>3, <3>1, <3>2, <1>1
  <2> QED BY <2>1, <2>2, <2>3
<1>3. Share(s) \div Full <= Share(t) \div Full
  <2> HIDE DEF Share
  <2> QED BY <1>1, <1>2, DivisionMono
<1>4. Share(s) \div Full \in Int /\ Share(t) \div Full \in Int
  <2> HIDE DEF Share
  <2> QED BY <1>1, DivisionFacts
<1> QED BY <1>3, <1>4 DEF SpeedToPulse

\* pca9685.py:62-67.  No speed the control loop sends leaves the calibrated
\* range, and the ends of the scale reach its ends.
THEOREM PulseInRange ==
    ASSUME Full \in Nat \ {0},
           NEW low \in Int, NEW center \in Int, NEW high \in Int,
           low <= center, center <= high,
           NEW speed \in (-Full)..Full
    PROVE  /\ SpeedToPulse(speed, low, center, high) \in low..high
           /\ SpeedToPulse(Full, low, center, high) = high
           /\ SpeedToPulse(-Full, low, center, high) = low
<1>1. (Full * (high - center)) \div Full = high - center
  BY DivisionExact
<1>2. (Full * (low - center)) \div Full = low - center
  BY DivisionExact
<1>3. (-Full) * (center - low) = Full * (low - center)
  OBVIOUS
<1>4. SpeedToPulse(Full, low, center, high) = high
  BY <1>1 DEF SpeedToPulse
<1>5. SpeedToPulse(-Full, low, center, high) = low
  BY <1>2, <1>3 DEF SpeedToPulse
<1>6. /\ SpeedToPulse(-Full, low, center, high)
           <= SpeedToPulse(speed, low, center, high)
      /\ SpeedToPulse(speed, low, center, high)
           <= SpeedToPulse(Full, low, center, high)
  BY PulseFollowsSpeed
<1>7. SpeedToPulse(speed, low, center, high) \in Int
  <2>1. /\ speed * (high - center) \in Int
        /\ speed * (center - low) \in Int
    OBVIOUS
  <2> QED BY <2>1, DivisionFacts DEF SpeedToPulse
<1> QED BY <1>4, <1>5, <1>6, <1>7

\* pca9685.py:90-100.  stop() and a speed of zero write the same value: the
\* shutdown and a loop at rest do not fight over the neutral pulse.
THEOREM StopIsRest ==
    ASSUME Full \in Nat \ {0},
           NEW low \in Int, NEW center \in Int, NEW high \in Int, NEW period
    PROVE  PcaDuty(0, low, center, high, period) = PcaStop(center, period)
<1>1. (0 * (high - center)) \div Full = 0
  <2>1. 0 * (high - center) = Full * 0
    OBVIOUS
  <2> QED BY <2>1, DivisionExact
<1> QED BY <1>1 DEF PcaDuty, PcaStop, SpeedToPulse
=============================================================================
