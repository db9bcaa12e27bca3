---------------------------- MODULE UgvStop_proofs ----------------------------
(***************************************************************************)
(* Theorems about the safety chain for every value of its constants.       *)
(*                                                                         *)
(* Every step of the composition is a step of each of the two nodes or     *)
(* leaves it alone, so their inductive invariants hold here.  CoupleInv    *)
(* adds what joins them: the drive node's flag is the last status, and a   *)
(* status or a flag still set has a heartbeat of known age behind it.      *)
(***************************************************************************)
EXTENDS UgvStop, TLAPS

SafetyP == INSTANCE SafetyNode_proofs
           WITH mainPc <- safetyPc, running <- watching
DriveP  == INSTANCE DriveNode_proofs
           WITH mainPc <- drivePc, running <- driving,
                Drivers <- {"gpio_pwm"}

CoupleInv ==
    /\ armed <=> status.armed
    /\ Starting => ~armed /\ sinceDisarm = MaxSince
    /\ drivePc \in {"active", "join", "stop"} => safetyPc = "run"
    /\ drivePc # "done" => Starting \/ safetyPc \in {"active", "run"}
    /\ status.armed /\ safetyPc \in {"active", "run"} =>
           hbAge <= heartbeatTimeout + Jitter + Poll - timer
    /\ drivePc # "done" /\ ~armed =>
           sinceDisarm = MaxSince \/ hbAge <= ArmedBound + sinceDisarm

ChainInv == SafetyP!IInv /\ DriveP!IInv /\ CoupleInv

-----------------------------------------------------------------------------
(* The two nodes inside the composition *)

\* The assumptions of the theorems about the nodes.
LEMMA NodeAssumptions == SafetyP!SafetyAssumption /\ DriveP!DriveAssumption
BY UgvAssumption
   DEF Safety!SafetyAssumption, SafetyP!SafetyAssumption,
       Safety!HeartbeatTimeout, SafetyP!HeartbeatTimeout,
       Safety!EngageBound, SafetyP!EngageBound,
       Drive!DriveAssumption, DriveP!DriveAssumption, Drive!NoJoystick,
       DriveP!NoJoystick, Drive!Speeds, DriveP!Speeds, Drive!Period,
       DriveP!Period

\* The chain starts as both nodes do.
LEMMA NodesInit == Init => SafetyP!Init /\ DriveP!Init
BY DEF Init, Safety!Init, SafetyP!Init, Safety!HeartbeatTimeout,
       SafetyP!HeartbeatTimeout, Drive!Init, DriveP!Init, Drive!NoJoystick,
       DriveP!NoJoystick, Drive!Stopped, DriveP!Stopped

\* A step of SafetyNode, named as in UgvStop and as in the proofs about it.
LEMMA SafetyActions ==
    /\ Safety!Next => SafetyP!Next
    /\ UNCHANGED Safety!vars => UNCHANGED SafetyP!vars
<1> USE DEF Safety!threadVars, SafetyP!threadVars, Safety!configVars,
            SafetyP!configVars, Safety!stateVars, SafetyP!stateVars,
            Safety!vars, SafetyP!vars, Safety!SetEstop, SafetyP!SetEstop,
            Safety!PublishStatus, SafetyP!PublishStatus,
            Safety!HeartbeatTimeout, SafetyP!HeartbeatTimeout,
            Safety!Expired, SafetyP!Expired, Safety!Resumed, SafetyP!Resumed,
            Safety!Looping, SafetyP!Looping, Safety!MainUrgent,
            SafetyP!MainUrgent
<1>1. Safety!MainNext => SafetyP!MainNext
  BY DEF Safety!MainNext, SafetyP!MainNext,
         Safety!Configure, SafetyP!Configure, Safety!Activate,
         SafetyP!Activate, Safety!MqttConnected, SafetyP!MqttConnected,
         Safety!StopMqtt, SafetyP!StopMqtt, Safety!ClearRunning,
         SafetyP!ClearRunning, Safety!ShutdownEngage, SafetyP!ShutdownEngage,
         Safety!JoinAndCleanup, SafetyP!JoinAndCleanup
<1>2. ASSUME NEW l \in Links PROVE Safety!PahoNext(l) => SafetyP!PahoNext(l)
  BY DEF Safety!PahoNext, SafetyP!PahoNext,
         Safety!HeartbeatRefresh, SafetyP!HeartbeatRefresh,
         Safety!HeartbeatArm, SafetyP!HeartbeatArm,
         Safety!HeartbeatRelease, SafetyP!HeartbeatRelease,
         Safety!HeartbeatPublish, SafetyP!HeartbeatPublish
<1>3. Safety!WatchdogNext => SafetyP!WatchdogNext
  BY DEF Safety!WatchdogNext, SafetyP!WatchdogNext,
         Safety!WatchdogTest, SafetyP!WatchdogTest,
         Safety!WatchdogExpire, SafetyP!WatchdogExpire,
         Safety!WatchdogResume, SafetyP!WatchdogResume,
         Safety!WatchdogNothing, SafetyP!WatchdogNothing,
         Safety!WatchdogSetEstop, SafetyP!WatchdogSetEstop,
         Safety!WatchdogPublish, SafetyP!WatchdogPublish,
         Safety!WatchdogWake, SafetyP!WatchdogWake
<1>4. Safety!Tick => SafetyP!Tick
  BY DEF Safety!Tick, SafetyP!Tick
<1>5. Safety!Terminated => SafetyP!Terminated
  BY DEF Safety!Terminated, SafetyP!Terminated
<1>6. UNCHANGED Safety!vars => UNCHANGED SafetyP!vars
  OBVIOUS
<1> QED BY <1>1, <1>2, <1>3, <1>4, <1>5, <1>6 DEF Safety!Next, SafetyP!Next

\* A step of DriveNode likewise.
LEMMA DriveActions ==
    /\ Drive!Next => DriveP!Next
    /\ Drive!LoopDrive => DriveP!LoopDrive
    /\ Drive!BackendDies => DriveP!BackendDies
    /\ Drive!BackendSwallows => DriveP!BackendSwallows
    /\ UNCHANGED Drive!vars => UNCHANGED DriveP!vars
    /\ Drive!Looping <=> DriveP!Looping
    /\ Drive!Period = DriveP!Period
<1> USE DEF Drive!cmdVars, DriveP!cmdVars, Drive!snapVars, DriveP!snapVars,
            Drive!outVars, DriveP!outVars, Drive!vars, DriveP!vars,
            Drive!Write, DriveP!Write, Drive!ForgetSnapshot,
            DriveP!ForgetSnapshot, Drive!Swallowing, DriveP!Swallowing,
            Drive!Stopped, DriveP!Stopped,
            Drive!NoJoystick, DriveP!NoJoystick, Drive!Looping, DriveP!Looping,
            Drive!Period, DriveP!Period
<1>1. Drive!MainNext => DriveP!MainNext
  BY DEF Drive!MainNext, DriveP!MainNext, Drive!Configure, DriveP!Configure,
         Drive!Activate, DriveP!Activate, Drive!ClearRunning,
         DriveP!ClearRunning, Drive!Join, DriveP!Join, Drive!StopBackend,
         DriveP!StopBackend
<1>2. Drive!BusNext => DriveP!BusNext
  BY DEF Drive!BusNext, DriveP!BusNext, Drive!OnJoystick, DriveP!OnJoystick,
         Drive!OnSafety, DriveP!OnSafety
<1>3. Drive!Ramped = DriveP!Ramped
  BY DEF Drive!Ramped, DriveP!Ramped, Drive!Ramp, DriveP!Ramp, Drive!Target,
         DriveP!Target, Drive!MaxStep, DriveP!MaxStep
<1>4. /\ Drive!LoopNext => DriveP!LoopNext
      /\ Drive!LoopDrive => DriveP!LoopDrive
      /\ Drive!BackendDies => DriveP!BackendDies
      /\ Drive!BackendSwallows => DriveP!BackendSwallows
  BY <1>3 DEF Drive!LoopNext, DriveP!LoopNext, Drive!LoopTest,
         DriveP!LoopTest, Drive!LoopSnapshot, DriveP!LoopSnapshot,
         Drive!LoopDrive, DriveP!LoopDrive, Drive!MixDies, DriveP!MixDies,
         Drive!BackendDies, DriveP!BackendDies, Drive!BackendSwallows,
         DriveP!BackendSwallows, Drive!LoopWake, DriveP!LoopWake,
         Drive!MixRaises, DriveP!MixRaises
<1>5. Drive!Tick => DriveP!Tick
  BY DEF Drive!Tick, DriveP!Tick
<1>6. /\ UNCHANGED Drive!vars => UNCHANGED DriveP!vars
      /\ Drive!Looping <=> DriveP!Looping
      /\ Drive!Period = DriveP!Period
  OBVIOUS
<1> QED BY <1>1, <1>2, <1>4, <1>5, <1>6 DEF Drive!Next, DriveP!Next

\* Every step of the chain is a step of the safety node or leaves it alone.
LEMMA SafetySim == [Next]_vars => [Safety!Next]_(Safety!vars)
<1> SUFFICES ASSUME [Next]_vars PROVE [Safety!Next]_(Safety!vars)
  OBVIOUS
<1> USE DEF Safety!Next, Safety!MainNext, Safety!PahoNext, Safety!WatchdogNext
<1>1. CASE PublishStatus
  BY <1>1 DEF PublishStatus, Publishes
<1>2. CASE StartUp
  BY <1>2 DEF StartUp, safetyVars, Safety!vars, Safety!threadVars,
              Safety!configVars, Safety!stateVars
<1>3. CASE Stop \/ Joystick \/ Control
  BY <1>3 DEF Stop, Joystick, Control, safetyVars, Safety!vars,
              Safety!threadVars, Safety!configVars, Safety!stateVars
<1>4. CASE ShutDown
  BY <1>4 DEF ShutDown, safetyVars, Safety!vars, Safety!threadVars,
              Safety!configVars, Safety!stateVars
<1>5. ASSUME NEW l \in Links, Heartbeat(l) PROVE Safety!Next
  BY <1>5 DEF Heartbeat
<1>6. CASE WatchdogLocks \/ WatchdogRuns
  BY <1>6 DEF WatchdogLocks, WatchdogRuns
<1>7. CASE Tick
  BY <1>7 DEF Tick
<1>8. CASE UNCHANGED vars
  BY <1>8 DEF vars, safetyVars, Safety!vars, Safety!threadVars,
              Safety!configVars, Safety!stateVars
<1> QED BY <1>1, <1>2, <1>3, <1>4, <1>5, <1>6, <1>7, <1>8 DEF Next

\* And of the drive node.
LEMMA DriveSim == [Next]_vars => [Drive!Next]_(Drive!vars)
<1> SUFFICES ASSUME [Next]_vars PROVE [Drive!Next]_(Drive!vars)
  OBVIOUS
<1> USE DEF Drive!Next, Drive!MainNext, Drive!BusNext, driveVars, Drive!vars,
            Drive!cmdVars, Drive!snapVars, Drive!outVars
<1>1. CASE PublishStatus
  <2>1. \E reason : status' = [armed  |-> watchdogState' = "ARMED",
                               reason |-> reason]
    BY <1>1 DEF PublishStatus, Publishes, Safety!Activate,
       Safety!HeartbeatPublish, Safety!WatchdogPublish, Safety!PublishStatus
  <2>2. status'.armed = (watchdogState' = "ARMED")
    BY <2>1
  <2>3. PICK b \in BOOLEAN : b = status'.armed
    BY <2>2
  <2>4. Drive!OnSafety(b)
    BY <1>1, <2>3 DEF PublishStatus
  <2> QED BY <2>4
<1>2. CASE StartUp \/ Stop \/ ShutDown
  BY <1>2 DEF StartUp, Stop, ShutDown
<1>3. CASE Joystick
  BY <1>3 DEF Joystick
<1>4. ASSUME NEW l \in Links, Heartbeat(l) PROVE UNCHANGED Drive!vars
  BY <1>4 DEF Heartbeat
<1>5. CASE WatchdogLocks \/ WatchdogRuns
  BY <1>5 DEF WatchdogLocks, WatchdogRuns
<1>6. CASE Control
  BY <1>6 DEF Control
<1>7. CASE Tick
  BY <1>7 DEF Tick
<1>8. CASE UNCHANGED vars
  BY <1>8 DEF vars
<1>9. CASE Safety!Terminated /\ UNCHANGED driveVars
  BY <1>9
<1> QED BY <1>1, <1>2, <1>3, <1>4, <1>5, <1>6, <1>7, <1>8, <1>9 DEF Next

-----------------------------------------------------------------------------
(* What joins the nodes *)

\* The numbers CoupleInv is about.
LEMMA ChainFacts ==
    ASSUME ChainInv
    PROVE  /\ hbAge \in Nat /\ timer \in Int /\ timer <= Poll
           /\ -Jitter <= timer /\ heartbeatTimeout \in Nat
           /\ Poll \in Nat /\ Jitter \in Nat /\ MaxAge \in Nat
           /\ ArmedBound = heartbeatTimeout + Poll + 2 * Jitter
           /\ sinceDisarm \in Nat /\ armed \in BOOLEAN /\ MaxSince \in Nat
           /\ armed => sinceDisarm = 0
           /\ status.armed \in BOOLEAN
<1>1. SafetyP!TypeOK /\ DriveP!TypeOK /\ DriveP!RampInv
  BY DEF ChainInv, SafetyP!IInv, DriveP!IInv
<1>2. /\ heartbeatTimeout \in Nat /\ hbAge \in Nat
      /\ timer \in Int /\ -Jitter <= timer /\ timer <= Poll
      /\ status.armed \in BOOLEAN
  BY <1>1, SafetyP!TypeFacts, NodeAssumptions
<1>3. Poll \in Nat /\ Jitter \in Nat /\ MaxAge \in Nat
  BY SafetyP!ConstantFacts, NodeAssumptions
<1>4. MaxSince \in Nat /\ sinceDisarm \in Nat
  BY <1>1, NodeAssumptions DEF DriveP!TypeOK, DriveP!DriveAssumption
<1>5. ArmedBound = heartbeatTimeout + Poll + 2 * Jitter
  BY <1>2, <1>3 DEF ArmedBound, Safety!EngageBound
<1> QED BY <1>1, <1>2, <1>3, <1>4, <1>5 DEF DriveP!TypeOK, DriveP!RampInv

\* _publish_status says armed exactly when the state machine is ARMED.
LEMMA StatusSays ==
    Publishes => (status'.armed <=> (watchdogState' = "ARMED"))
<1> SUFFICES ASSUME Publishes
             PROVE  status'.armed <=> (watchdogState' = "ARMED")
  OBVIOUS
<1>1. \E reason : Safety!PublishStatus(reason)
  BY Zenon DEF Publishes, Safety!Activate, Safety!HeartbeatPublish,
               Safety!WatchdogPublish
<1>2. PICK reason : Safety!PublishStatus(reason)
  BY <1>1
<1>3. status'.armed = (watchdogState' = "ARMED")
  BY <1>2 DEF Safety!PublishStatus
<1> QED BY <1>3

\* A publish hands the status to the drive node in the same step, and a status
\* that says armed has a recent heartbeat behind it.
LEMMA PublishStep ==
    ASSUME ChainInv, PublishStatus, drivePc # "new"
    PROVE  CoupleInv'
<1>0. /\ hbAge \in Nat /\ timer \in Int /\ timer <= Poll /\ -Jitter <= timer
      /\ heartbeatTimeout \in Nat /\ Poll \in Nat /\ Jitter \in Nat
      /\ sinceDisarm \in Nat
      /\ armed => sinceDisarm = 0
  BY ChainFacts
<1> USE <1>0 DEF CoupleInv, Starting, ArmedBound, Safety!EngageBound
<1>1. /\ armed' <=> status'.armed
      /\ drivePc' = drivePc
      /\ armed' => sinceDisarm' = 0
      /\ ~armed' => sinceDisarm' = sinceDisarm
  BY DEF PublishStatus, Drive!OnSafety
<1>2. /\ SafetyP!PhaseInv /\ SafetyP!ReleaseInv /\ SafetyP!RelayInv
      /\ SafetyP!HighInv /\ SafetyP!TypeOK /\ CoupleInv
  BY DEF ChainInv, SafetyP!IInv
<1>3. CASE Safety!Activate
  <2>1. /\ safetyPc = "configured" /\ safetyPc' = "active" /\ timer' = 0
        /\ heartbeatTimeout' = heartbeatTimeout
        /\ startupArmed => hbAge' = 0 /\ watchdogState' = "ARMED"
        /\ ~startupArmed => watchdogState' = "DISARMED"
    BY <1>3 DEF Safety!Activate, Safety!configVars
  <2>2. status'.armed <=> (watchdogState' = "ARMED")
    BY <1>3, StatusSays DEF Publishes
  <2> QED BY <1>1, <1>2, <2>1, <2>2
<1>4. ASSUME NEW l \in Links, Safety!HeartbeatPublish(l) PROVE CoupleInv'
  <2>1. /\ UNCHANGED <<safetyPc, hbAge, timer, heartbeatTimeout>>
        /\ status'.armed <=> (watchdogState = "ARMED")
        /\ pahoPc[l] = "publish"
    BY <1>4 DEF Safety!HeartbeatPublish, Safety!PublishStatus, Safety!configVars
  <2>2. /\ watchdogState = "ARMED" /\ hbAge <= Poll - timer
        /\ safetyPc = "run"
    BY <1>2, <2>1 DEF SafetyP!ReleaseInv, SafetyP!PhaseInv
  <2> QED BY <1>1, <1>2, <2>1, <2>2
<1>5. CASE Safety!WatchdogPublish
  <2>1. /\ UNCHANGED <<safetyPc, hbAge, heartbeatTimeout>>
        /\ timer' = Poll
        /\ status'.armed <=> (watchdogState = "ARMED")
        /\ watchdogPc = "publish"
    BY <1>5 DEF Safety!WatchdogPublish, Safety!PublishStatus, Safety!configVars
  <2>2. ~Starting
    BY <1>2, <2>1 DEF SafetyP!PhaseInv, SafetyP!Started
  <2>3. safetyPc \in {"active", "run"} /\ watchdogState = "ARMED" =>
            hbAge <= heartbeatTimeout - timer
    BY <1>2, <2>1 DEF SafetyP!PhaseInv, SafetyP!RelayInv, SafetyP!HighInv
  <2>4. status'.armed /\ safetyPc' \in {"active", "run"} =>
            hbAge' <= heartbeatTimeout' + Jitter + Poll - timer'
    BY <2>1, <2>3
  <2>5. drivePc' # "done" /\ ~armed' =>
            sinceDisarm' = MaxSince \/ hbAge' <= ArmedBound' + sinceDisarm'
    <3>1. CASE armed /\ drivePc # "done"
      <4>1. status.armed /\ safetyPc \in {"active", "run"}
        BY <1>2, <2>2, <3>1
      <4>2. hbAge <= heartbeatTimeout + Poll + 2 * Jitter /\ sinceDisarm = 0
        BY <1>2, <3>1, <4>1
      <4> QED BY <1>1, <2>1, <4>2
    <3>2. CASE ~armed
      BY <1>1, <1>2, <2>1, <3>2
    <3> QED BY <1>1, <3>1, <3>2
  <2> QED BY <1>1, <1>2, <2>1, <2>2, <2>4, <2>5
<1> QED BY <1>3, <1>4, <1>5 DEF PublishStatus, Publishes

\* The clock: every bound that counts from the last heartbeat keeps up with it.
LEMMA TickStep == ASSUME ChainInv, Tick PROVE CoupleInv'
<1>0. /\ hbAge \in Nat /\ timer \in Int /\ timer <= Poll /\ -Jitter <= timer
      /\ heartbeatTimeout \in Nat /\ Poll \in Nat /\ Jitter \in Nat
      /\ sinceDisarm \in Nat /\ MaxAge \in Nat /\ MaxSince \in Nat
  BY ChainFacts
<1>1. SafetyP!PhaseInv /\ CoupleInv
  BY DEF ChainInv, SafetyP!IInv
<1>2. /\ hbAge' <= hbAge + 1 /\ hbAge' \in Nat
      /\ UNCHANGED <<safetyPc, heartbeatTimeout, status>>
      /\ safetyPc \in {"active", "run"} => timer' = timer - 1
  BY <1>0, <1>1 DEF Tick, Safety!Tick, Safety!threadVars, Safety!configVars,
                    Safety!Looping, SafetyP!PhaseInv, SafetyP!Started
<1>3. /\ UNCHANGED <<armed, drivePc>>
      /\ sinceDisarm' = sinceDisarm \/ sinceDisarm' = sinceDisarm + 1
      /\ sinceDisarm = MaxSince => sinceDisarm' = MaxSince
      /\ drivePc # "done" /\ ~armed /\ sinceDisarm' # MaxSince =>
             sinceDisarm' = sinceDisarm + 1
  <2>1. CASE drivePc = "done"
    BY <1>0, <2>1 DEF Tick, driveVars
  <2>2. CASE drivePc # "done"
    <3>1. /\ UNCHANGED <<armed, drivePc>>
          /\ sinceDisarm' = IF ~armed /\ sinceDisarm < MaxSince
                            THEN sinceDisarm + 1 ELSE sinceDisarm
      BY <2>2 DEF Tick, Drive!Tick
    <3>2. sinceDisarm <= MaxSince
      BY DEF ChainInv, DriveP!IInv, DriveP!TypeOK
    <3> QED BY <1>0, <3>1, <3>2
  <2> QED BY <2>1, <2>2
<1> QED BY <1>0, <1>1, <1>2, <1>3
        DEF CoupleInv, Starting, ArmedBound, Safety!EngageBound

\* The steps of the safety node that publish nothing and take no time.
LEMMA QuietStep ==
    ASSUME ChainInv, UNCHANGED driveVars, UNCHANGED status,
           \/ Safety!Configure \/ Safety!MqttConnected
           \/ drivePc = "done" /\ \/ Safety!StopMqtt \/ Safety!ClearRunning
                                  \/ Safety!ShutdownEngage
                                  \/ Safety!JoinAndCleanup
           \/ \E l \in Links : Heartbeat(l)
           \/ WatchdogLocks \/ WatchdogRuns
    PROVE  CoupleInv'
<1>0. /\ hbAge \in Nat /\ timer \in Int /\ timer <= Poll /\ -Jitter <= timer
      /\ heartbeatTimeout \in Nat /\ Poll \in Nat /\ Jitter \in Nat
      /\ sinceDisarm \in Nat
  BY ChainFacts
<1>1. SafetyP!PhaseInv /\ SafetyP!RelayInv /\ SafetyP!TypeOK /\ CoupleInv
  BY DEF ChainInv, SafetyP!IInv
<1> USE <1>0, <1>1 DEF CoupleInv, Starting, ArmedBound, Safety!EngageBound,
            Safety!threadVars, Safety!configVars, Safety!stateVars, driveVars
<1>2. CASE Safety!Configure
  BY <1>2 DEF Safety!Configure
<1>3. CASE Safety!MqttConnected
  BY <1>3 DEF Safety!MqttConnected
<1>4. CASE drivePc = "done" /\ \/ Safety!StopMqtt \/ Safety!ClearRunning
                               \/ Safety!ShutdownEngage
                               \/ Safety!JoinAndCleanup
  BY <1>4 DEF Safety!StopMqtt, Safety!ClearRunning, Safety!ShutdownEngage,
              Safety!JoinAndCleanup
<1>5. ASSUME NEW l \in Links, Heartbeat(l) PROVE CoupleInv'
  BY <1>5 DEF Heartbeat, Safety!HeartbeatRefresh, Safety!HeartbeatArm,
              Safety!HeartbeatRelease, Safety!SetEstop
<1>6. CASE Safety!WatchdogExpire \/ Safety!WatchdogResume \/ WatchdogRuns
  BY <1>6 DEF WatchdogRuns, Safety!WatchdogExpire, Safety!WatchdogResume,
              Safety!WatchdogTest, Safety!WatchdogSetEstop,
              Safety!WatchdogWake, Safety!SetEstop
<1>7. CASE Safety!WatchdogNothing
  \* Armed and not expired, so the next sleep begins with a recent heartbeat.
  <2>1. status.armed /\ safetyPc \in {"active", "run"} =>
            hbAge <= heartbeatTimeout
    BY <1>7 DEF Safety!WatchdogNothing, Safety!Expired, SafetyP!RelayInv,
                SafetyP!Started
  <2> QED BY <1>7, <2>1 DEF Safety!WatchdogNothing
<1> QED BY <1>2, <1>3, <1>4, <1>5, <1>6, <1>7 DEF WatchdogLocks

\* The steps of the drive node leave the safety node and the flag alone.
LEMMA DriveOnlyStep ==
    ASSUME ChainInv, UNCHANGED safetyVars,
           \/ safetyPc = "configured" /\ Drive!Configure
           \/ safetyPc = "run" /\ Drive!Activate
           \/ Drive!ClearRunning \/ Drive!Join \/ Drive!StopBackend
           \/ Joystick \/ Control
    PROVE  CoupleInv'
<1>1. UNCHANGED <<armed, sinceDisarm>>
  BY DEF Drive!Configure, Drive!Activate, Drive!ClearRunning, Drive!Join,
         Drive!StopBackend, Joystick, Drive!OnJoystick, Control,
         Drive!LoopNext, Drive!LoopTest, Drive!LoopSnapshot, Drive!LoopDrive,
         Drive!MixDies, Drive!BackendDies, Drive!BackendSwallows,
         Drive!LoopWake, Drive!cmdVars
<1>2. /\ drivePc' # "done" => drivePc # "done"
      /\ drivePc' \in {"active", "join", "stop"} => safetyPc = "run"
  BY DEF ChainInv, CoupleInv, Drive!Configure, Drive!Activate,
         Drive!ClearRunning, Drive!Join, Drive!StopBackend, Joystick,
         Drive!OnJoystick, Control, Drive!LoopNext, Drive!LoopTest,
         Drive!LoopSnapshot, Drive!LoopDrive, Drive!MixDies,
         Drive!BackendDies, Drive!BackendSwallows, Drive!LoopWake
<1> QED BY <1>1, <1>2
        DEF ChainInv, CoupleInv, Starting, ArmedBound, safetyVars

-----------------------------------------------------------------------------
(* The theorems *)

\* CoupleInv is inductive, given the invariants of the two nodes.
LEMMA CoupleStep == ChainInv /\ [Next]_vars => CoupleInv'
<1> SUFFICES ASSUME ChainInv, [Next]_vars PROVE CoupleInv'
  OBVIOUS
<1>1. CASE PublishStatus /\ drivePc # "new"
  BY <1>1, PublishStep
<1>2. CASE Tick
  BY <1>2, TickStep
<1>3. CASE StartUp
  BY <1>3, QuietStep, DriveOnlyStep
     DEF StartUp, Safety!Configure, Safety!MqttConnected, Safety!stateVars,
         safetyVars
<1>4. CASE ShutDown
  BY <1>4, QuietStep, DriveOnlyStep
     DEF ShutDown, Safety!StopMqtt, Safety!ClearRunning,
         Safety!ShutdownEngage, Safety!JoinAndCleanup, Safety!stateVars
<1>5. CASE Stop \/ Joystick \/ Control
  BY <1>5, DriveOnlyStep DEF Stop, Joystick, Control
<1>6. ASSUME NEW l \in Links, Heartbeat(l) PROVE CoupleInv'
  <2>1. UNCHANGED status
    BY <1>6 DEF Heartbeat, Safety!HeartbeatRefresh, Safety!HeartbeatArm,
                Safety!HeartbeatRelease
  <2> QED BY <1>6, <2>1, QuietStep DEF Heartbeat
<1>7. CASE WatchdogLocks \/ WatchdogRuns
  <2>1. UNCHANGED status
    BY <1>7 DEF WatchdogLocks, WatchdogRuns, Safety!WatchdogExpire,
                Safety!WatchdogResume, Safety!WatchdogNothing,
                Safety!WatchdogTest, Safety!WatchdogSetEstop,
                Safety!WatchdogWake, Safety!stateVars
  <2> QED BY <1>7, <2>1, QuietStep DEF WatchdogLocks, WatchdogRuns
<1>8. CASE UNCHANGED vars \/ (Safety!Terminated /\ UNCHANGED driveVars)
  BY <1>8 DEF vars, safetyVars, driveVars, Safety!Terminated, Safety!vars,
     Safety!threadVars, Safety!configVars, Safety!stateVars, ChainInv,
     CoupleInv, Starting, ArmedBound
<1> QED BY <1>1, <1>2, <1>3, <1>4, <1>5, <1>6, <1>7, <1>8 DEF Next

\* The chain keeps the invariants of both nodes and what joins them.
THEOREM Invariance == Spec => []ChainInv
<1>1. Spec => []SafetyP!IInv
  <2>1. [Next]_vars => [SafetyP!Next]_(SafetyP!vars)
    BY SafetySim, SafetyActions
  <2>2. Init => SafetyP!Init
    BY NodesInit
  <2>3. Spec => SafetyP!Spec
    BY <2>1, <2>2, PTL DEF Spec, SafetyP!Spec
  <2> QED BY <2>3, SafetyP!Invariance, NodeAssumptions, PTL
<1>2. Spec => []DriveP!IInv
  <2>1. [Next]_vars => [DriveP!Next]_(DriveP!vars)
    BY DriveSim, DriveActions
  <2>2. Init => DriveP!Init
    BY NodesInit
  <2>3. Spec => DriveP!Spec
    BY <2>1, <2>2, PTL DEF Spec, DriveP!Spec
  <2> QED BY <2>3, DriveP!Invariance, NodeAssumptions, PTL
<1>3. Init => CoupleInv
  BY DEF Init, Safety!Init, Drive!Init, CoupleInv, Starting
<1>4. ChainInv <=> SafetyP!IInv /\ DriveP!IInv /\ CoupleInv
  BY DEF ChainInv
<1> QED BY <1>1, <1>2, <1>3, <1>4, CoupleStep, PTL DEF Spec

\* gpio_pwm.py: a wheel that is told to rest gets no duty cycle, whatever
\* min_duty is.
LEMMA RestIsOff ==
    ASSUME NEW w \in Wheels, motors[w] = 0
    PROVE  Duty(w) = 0
<1>1. Full \in Nat /\ Full > 0
  BY DriveP!ConstantFacts, NodeAssumptions DEF DriveP!DriveAssumption
<1> QED BY <1>1 DEF Duty, Output!GpioDuty, Output!Size

\* Where the phases of the two nodes meet.
LEMMA PhaseFacts ==
    ASSUME ChainInv
    PROVE  /\ Drive!Looping => safetyPc = "run" /\ drivePc \in {"active", "join"}
           /\ drivePc \in {"stop", "done"} => ~Drive!Looping
           /\ loopPc = "notstarted" => \A w \in Wheels : motors[w] = 0
           /\ Drive!Looping => motors = current /\ lost = {}
           /\ (pin = "HIGH") => ~Starting
           /\ motors \in [Wheels -> (-Full)..Full]
           /\ sinceIter \in Nat /\ sinceIter <= Drive!Period
           /\ Drive!Period \in Nat
<1>1. DriveP!TypeOK /\ DriveP!PhaseInv /\ CoupleInv /\ SafetyP!HighInv
  BY DEF ChainInv, DriveP!IInv, SafetyP!IInv
<1>2. /\ Drive!Looping <=> DriveP!Looping
      /\ Drive!Period = DriveP!Period
      /\ DriveP!Period \in Nat
  BY DriveActions, DriveP!ConstantFacts, NodeAssumptions
<1>3. \A w \in Wheels : DriveP!Stopped[w] = 0
  BY DEF DriveP!Stopped
<1>4. /\ DriveP!Looping => drivePc \in {"active", "join"}
      /\ loopPc = "notstarted" => \A w \in Wheels : motors[w] = 0
      /\ DriveP!Looping => motors = current /\ lost = {}
  <2>1. DriveP!Looping => drivePc \in {"active", "join"}
    BY <1>1 DEF DriveP!PhaseInv, DriveP!TypeOK, DriveP!Looping
  <2>2. loopPc = "notstarted" => \A w \in Wheels : motors[w] = 0
    BY <1>1, <1>3 DEF DriveP!PhaseInv
  <2>3. DriveP!Looping => lost = {}
    \* gpio_pwm swallows nothing.
    BY <1>1 DEF DriveP!PhaseInv, DriveP!TypeOK, DriveP!Swallowing
  <2>4. DriveP!Looping => \A w \in Wheels : motors[w] = current[w]
    BY <1>1, <2>3 DEF DriveP!PhaseInv
  <2>5. DriveP!Looping => motors = current
    BY <1>1, <2>4 DEF DriveP!TypeOK, DriveP!Speeds
  <2> QED BY <2>1, <2>2, <2>3, <2>5
<1>5. drivePc \in {"stop", "done"} => ~DriveP!Looping
  BY <1>1 DEF DriveP!PhaseInv
<1>6. (pin = "HIGH") => ~Starting
  BY <1>1 DEF SafetyP!HighInv, SafetyP!Started, Starting
<1> QED BY <1>1, <1>2, <1>3, <1>4, <1>5, <1>6
        DEF CoupleInv, DriveP!TypeOK, DriveP!Speeds

\* When the last heartbeat is older than everything it has to wait for, the
\* loop has seen the disarming long enough ago.
LEMMA LateMeansRest ==
    ASSUME ChainInv, Drive!Looping,
           DownStep * (hbAge - ArmedBound - 2 * Drive!Period) >= Full
    PROVE  \A w \in Wheels : motors[w] = 0
<1> SUFFICES ASSUME NEW w \in Wheels PROVE motors[w] = 0
  OBVIOUS
<1> DEFINE late == hbAge - ArmedBound - 2 * DriveP!Period
           since == sinceDisarm - 2 * DriveP!Period
           most == MaxSince - 2 * DriveP!Period
<1>1. /\ Full \in Nat /\ Full > 0 /\ DownStep \in Nat
      /\ DriveP!Period \in Nat /\ MaxSince \in Nat
      /\ DownStep * most >= Full
  BY DriveP!ConstantFacts, NodeAssumptions DEF DriveP!DriveAssumption
<1>2. DownStep * late >= Full
  BY DriveActions
<1>3. /\ hbAge \in Nat /\ ArmedBound \in Nat /\ sinceDisarm \in Nat
      /\ timer \in Int /\ -Jitter <= timer /\ Jitter \in Nat /\ Poll \in Nat
      /\ heartbeatTimeout \in Nat
      /\ ArmedBound = heartbeatTimeout + Poll + 2 * Jitter
  BY ChainFacts
<1>4. DriveP!Looping /\ safetyPc = "run" /\ drivePc # "done"
  <2>1. DriveP!Looping
    BY DriveActions
  <2>2. DriveP!PhaseInv /\ drivePc \in {"new", "configured", "active",
                                        "join", "stop", "done"}
    BY DEF ChainInv, DriveP!IInv, DriveP!TypeOK
  <2>3. drivePc \in {"active", "join"}
    BY <2>1, <2>2 DEF DriveP!PhaseInv, DriveP!Looping
  <2> QED BY <2>1, <2>3 DEF ChainInv, CoupleInv
<1>5. late \in Int /\ since \in Int /\ most \in Int
  BY <1>1, <1>3
<1>6. ~armed
  <2> SUFFICES ASSUME armed PROVE FALSE
    OBVIOUS
  <2>1. hbAge <= heartbeatTimeout + Jitter + Poll - timer
    BY <1>4 DEF ChainInv, CoupleInv
  <2>2. late <= 0
    BY <1>1, <1>3, <2>1
  <2>3. DownStep * late <= 0 /\ DownStep * late \in Int
    BY <1>1, <1>5, <2>2, DriveP!ProductNotPositive
  <2> QED BY <1>1, <1>2, <2>3
<1>7. late <= since \/ most <= since
  <2>1. sinceDisarm = MaxSince \/ hbAge <= ArmedBound + sinceDisarm
    BY <1>4, <1>6 DEF ChainInv, CoupleInv
  <2> QED BY <1>1, <1>3, <2>1
<1>8. DownStep * since >= Full /\ DownStep * since \in Int
  <2>1. /\ DownStep * late \in Int /\ DownStep * most \in Int
        /\ DownStep * since \in Int
    BY <1>1, <1>5
  <2>2. DownStep * late <= DownStep * since \/ DownStep * most <= DownStep * since
    BY <1>1, <1>5, <1>7, DriveP!ProductMono
  <2> QED BY <1>1, <1>2, <2>1, <2>2
<1>9. DriveP!RampsDownAfterDisarm
  BY DriveP!RampBound, NodeAssumptions DEF ChainInv
<1>10. motors[w] \in Int /\ w \notin lost
  BY <1>1, PhaseFacts DEF ChainInv, DriveP!IInv, DriveP!TypeOK, DriveP!Speeds
<1>11. \/ motors[w] = 0
       \/ DownStep * since + DriveP!Magnitude(motors[w]) <= Full
  BY <1>4, <1>6, <1>9, <1>10 DEF DriveP!RampsDownAfterDisarm, DriveP!RampedDown
<1> QED BY <1>1, <1>8, <1>10, <1>11 DEF DriveP!Magnitude

\* watchdog_node.py and drive_node.py: for every time-out, period, ramp and
\* mixer, a live control loop has every duty cycle at zero once the bound has
\* passed since the last heartbeat; README.md:119 allows the time-out alone.
THEOREM MotorsOff == Spec => []MotorsOffAfterLoss
<1>1. ChainInv => MotorsOffAfterLoss
  BY LateMeansRest, RestIsOff DEF MotorsOffAfterLoss
<1> QED BY <1>1, Invariance, PTL

\* The drive node's flag and the relay agree outside the critical sections.
THEOREM FollowsRelay == Spec => []DriveFollowsRelay
<1>1. ChainInv => DriveFollowsRelay
  BY DEF ChainInv, CoupleInv, SafetyP!IInv, SafetyP!PhaseInv,
         SafetyP!RelayInv, SafetyP!Started, DriveFollowsRelay
<1> QED BY <1>1, Invariance, PTL

-----------------------------------------------------------------------------
(* The chain implements HaltingVehicle *)

\* The copy of the flag the loop works with is at most one iteration older.
SnapInv ==
    loopPc = "drive" /\ armedSnap => hbAge <= ArmedBound + sinceIter

\* A step keeps what an iteration copied true of what it was copied from.
LEMMA SnapStep == ChainInv /\ SnapInv /\ [Next]_vars => SnapInv'
<1> SUFFICES ASSUME ChainInv, SnapInv, [Next]_vars PROVE SnapInv'
  OBVIOUS
<1>0. /\ hbAge \in Nat /\ timer \in Int /\ -Jitter <= timer
      /\ heartbeatTimeout \in Nat /\ Poll \in Nat /\ Jitter \in Nat
      /\ MaxAge \in Nat /\ sinceIter \in Nat
      /\ ArmedBound = heartbeatTimeout + Poll + 2 * Jitter
  BY ChainFacts, PhaseFacts
<1>1. loopPc = "drive" => safetyPc = "run"
  BY PhaseFacts DEF Drive!Looping
<1> USE <1>0 DEF SnapInv, ArmedBound, Safety!EngageBound
<1>2. CASE Control
  <2>1. CASE Drive!LoopSnapshot
    <3>1. armed => hbAge <= ArmedBound
      BY <2>1, PhaseFacts
         DEF ChainInv, CoupleInv, Drive!LoopSnapshot, Drive!Looping
    <3> QED BY <1>2, <2>1, <3>1 DEF Control, Drive!LoopSnapshot, safetyVars
  <2>2. CASE ~Drive!LoopSnapshot
    BY <1>2, <2>2 DEF Control, safetyVars, Drive!LoopNext, Drive!LoopTest,
       Drive!LoopDrive, Drive!MixDies, Drive!BackendDies,
       Drive!BackendSwallows, Drive!LoopWake
  <2> QED BY <2>1, <2>2
<1>3. CASE Tick
  <2>1. drivePc # "done" \/ loopPc # "drive"
    BY PhaseFacts DEF Drive!Looping
  <2>2. /\ hbAge' <= hbAge + 1 /\ hbAge' \in Nat
        /\ heartbeatTimeout' = heartbeatTimeout
    BY <1>3 DEF Tick, Safety!Tick, Safety!configVars
  <2>3. CASE drivePc # "done"
    <3>1. /\ UNCHANGED <<loopPc, armedSnap>>
          /\ loopPc = "drive" => sinceIter' = sinceIter + 1
      BY <1>3, <2>3 DEF Tick, Drive!Tick, Drive!snapVars, Drive!Looping
    <3> QED BY <2>2, <3>1
  <2>4. CASE drivePc = "done"
    BY <1>3, <2>1, <2>4 DEF Tick, driveVars
  <2> QED BY <2>3, <2>4
<1>4. CASE PublishStatus /\ drivePc # "new"
  <2>1. /\ UNCHANGED <<loopPc, armedSnap, sinceIter, heartbeatTimeout>>
        /\ hbAge' \in {hbAge, 0}
    BY <1>4 DEF PublishStatus, Publishes, Drive!OnSafety, Drive!snapVars,
       Safety!Activate, Safety!HeartbeatPublish, Safety!WatchdogPublish,
       Safety!configVars
  <2> QED BY <2>1
<1>5. CASE StartUp \/ ShutDown
  <2>1. CASE UNCHANGED driveVars
    <3>1. loopPc = "drive" => UNCHANGED <<heartbeatTimeout, hbAge>>
      BY <1>1, <1>5, <2>1 DEF StartUp, ShutDown, driveVars,
         Safety!Configure, Safety!MqttConnected, Safety!StopMqtt,
         Safety!ClearRunning, Safety!ShutdownEngage, Safety!JoinAndCleanup,
         Safety!configVars, Safety!stateVars, safetyVars
    <3> QED BY <2>1, <3>1 DEF driveVars
  <2>2. CASE UNCHANGED safetyVars
    BY <1>5, <2>2 DEF StartUp, ShutDown, safetyVars, driveVars,
       Drive!Configure, Drive!Activate, Drive!Join, Drive!StopBackend,
       Drive!snapVars
  <2> QED BY <1>5, <2>1, <2>2 DEF StartUp, ShutDown
<1>6. CASE Stop \/ Joystick
  BY <1>6 DEF Stop, Joystick, safetyVars, Drive!ClearRunning,
     Drive!OnJoystick, Drive!snapVars
<1>7. ASSUME NEW l \in Links, Heartbeat(l) PROVE SnapInv'
  <2>1. /\ UNCHANGED <<loopPc, armedSnap, sinceIter, heartbeatTimeout>>
        /\ hbAge' \in {hbAge, 0}
    BY <1>7 DEF Heartbeat, driveVars, Safety!HeartbeatRefresh,
       Safety!HeartbeatArm, Safety!HeartbeatRelease, Safety!configVars
  <2> QED BY <2>1
<1>8. CASE WatchdogLocks \/ WatchdogRuns
  BY <1>8 DEF WatchdogLocks, WatchdogRuns, driveVars, Safety!WatchdogExpire,
     Safety!WatchdogResume, Safety!WatchdogNothing, Safety!WatchdogTest,
     Safety!WatchdogSetEstop, Safety!WatchdogWake, Safety!configVars,
     Safety!stateVars
<1>9. CASE UNCHANGED vars \/ (Safety!Terminated /\ UNCHANGED driveVars)
  BY <1>9 DEF vars, safetyVars, driveVars, Safety!Terminated, Safety!vars,
     Safety!threadVars, Safety!configVars, Safety!stateVars
<1> QED BY <1>2, <1>3, <1>4, <1>5, <1>6, <1>7, <1>8, <1>9 DEF Next

\* Dividing by a positive number loses less than that number.
LEMMA DivisionFacts ==
    ASSUME NEW n \in Int, NEW d \in Int, d > 0
    PROVE  n \div d \in Int /\ d * (n \div d) > n - d
OBVIOUS

\* Once the last heartbeat is old enough, a live loop has its wheels at rest.
LEMMA OldMeansRest ==
    ASSUME ChainInv, Drive!Looping,
           hbAge >= ArmedBound + 2 * Drive!Period + RampTicks
    PROVE  \A w \in Wheels : motors[w] = 0
<1> DEFINE late == hbAge - ArmedBound - 2 * Drive!Period
<1>1. /\ Full \in Nat /\ DownStep \in Nat /\ DownStep > 0
  BY DriveP!ConstantFacts, NodeAssumptions
<1>2. /\ RampTicks \in Int /\ DownStep * RampTicks \in Int
      /\ DownStep * RampTicks >= Full
  <2> DEFINE n == Full + DownStep - 1
  <2>1. n \in Int
    BY <1>1
  <2>2. n \div DownStep \in Int /\ DownStep * (n \div DownStep) > n - DownStep
    <3> HIDE DEF n
    <3> QED BY <1>1, <2>1, DivisionFacts
  <2>3. DownStep * (n \div DownStep) \in Int
    BY <1>1, <2>2
  <2> QED BY <1>1, <2>2, <2>3 DEF RampTicks
<1>3. late \in Int /\ late >= RampTicks
  BY <1>2, ChainFacts, PhaseFacts
<1>4. DownStep * RampTicks <= DownStep * late /\ DownStep * late \in Int
      /\ DownStep * RampTicks \in Int
  <2> HIDE DEF late
  <2> QED BY <1>1, <1>2, <1>3, DriveP!ProductMono
<1>5. DownStep * late >= Full
  <2> HIDE DEF late
  <2> QED BY <1>1, <1>2, <1>4
<1> QED BY <1>5, LateMeansRest

\* An iteration that has seen the disarming only slows the wheels down.
LEMMA DisarmedSlows ==
    ASSUME ChainInv, loopPc = "drive", ~armedSnap, NEW w \in Wheels
    PROVE  /\ Vehicle!Abs(DriveP!Ramped[w]) <= Vehicle!Abs(motors[w])
           /\ DriveP!Ramped[w] * motors[w] >= 0
<1>1. ~DriveP!MixRaises
  BY DEF DriveP!MixRaises
<1>2. /\ DriveP!MaxStep \in Nat
      /\ DriveP!Ramped[w] = DriveP!Ramp(current[w], DriveP!Target[w],
                                        DriveP!MaxStep)
  BY <1>1, DriveP!RampedFacts, NodeAssumptions DEF ChainInv, DriveP!IInv
<1>3. DriveP!Target[w] = 0
  BY DEF DriveP!Target, DriveP!Stopped
<1>4. motors = current /\ motors[w] \in Int
  BY PhaseFacts, DriveP!ConstantFacts, NodeAssumptions DEF Drive!Looping
<1> DEFINE r == DriveP!Ramp(motors[w], 0, DriveP!MaxStep)
<1>5. /\ r \in Int
      /\ DriveP!Magnitude(r) <= DriveP!Magnitude(motors[w])
      /\ \/ r = 0
         \/ r > 0 /\ motors[w] > 0
         \/ r < 0 /\ motors[w] < 0
  BY <1>2, <1>4, DriveP!RampToZero, NodeAssumptions
<1>6. DriveP!Ramped[w] = r
  BY <1>2, <1>3, <1>4
<1> HIDE DEF r
<1>7. r * motors[w] >= 0
  BY <1>4, <1>5
<1> QED BY <1>4, <1>5, <1>6, <1>7 DEF Vehicle!Abs, DriveP!Magnitude

\* The start of the chain is one of the vehicle's.
LEMMA VehicleStart == Init => Vehicle!VehicleInit
BY DEF Init, Safety!Init, Drive!Init, Drive!Stopped, Drive!Looping,
       Vehicle!VehicleInit, Starting

\* What an iteration that has seen the operator's status may rest on.
LEMMA Supervision ==
    ASSUME ChainInv, SnapInv, loopPc = "drive", armedSnap
    PROVE  hbAge <= heartbeatTimeout + (Safety!EngageBound + Drive!Period)
<1>1. hbAge <= ArmedBound + sinceIter
  BY DEF SnapInv
<1> QED BY <1>1, ChainFacts, PhaseFacts DEF ArmedBound, Safety!EngageBound

\* The iterations of the control loop steer the vehicle, whatever they raise.
LEMMA ControlStep ==
    ASSUME ChainInv, SnapInv, Control
    PROVE  [Vehicle!VehicleNext]_(Vehicle!vehicleVars)
<1> USE DEF Vehicle!VehicleNext, Vehicle!vehicleVars, Vehicle!setup
<1>0. UNCHANGED <<pin, hbAge, heartbeatTimeout, startupArmed, Starting>>
  BY DEF Control, safetyVars, Starting
<1>1. CASE \/ loopPc = "snapshot" /\ Drive!LoopSnapshot
           \/ Drive!LoopWake
  BY <1>0, <1>1 DEF Drive!LoopSnapshot, Drive!LoopWake, Drive!outVars,
     Drive!Looping
<1>2. CASE \/ Drive!LoopTest \/ Drive!MixDies \/ Drive!LoopDrive
           \/ Drive!BackendDies \/ Drive!BackendSwallows
  <2>1. /\ Drive!Looping
        /\ Drive!Looping' \in BOOLEAN
        /\ loopPc = "drive" \/ motors' = motors
    BY <1>2 DEF Drive!LoopTest, Drive!MixDies, Drive!LoopDrive,
       Drive!BackendDies, Drive!BackendSwallows, Drive!outVars,
       Drive!Looping
  <2>2. motors \in [Wheels -> (-Full)..Full] /\ Full \in Nat
    BY PhaseFacts, DriveP!ConstantFacts, NodeAssumptions
  <2>3. /\ motors' \in [Wheels -> (-Full)..Full]
        /\ \A w \in Wheels : \/ motors'[w] = motors[w]
                             \/ /\ loopPc = "drive"
                                /\ motors'[w] = DriveP!Ramped[w]
    <3>1. CASE Drive!LoopTest \/ Drive!MixDies
      BY <2>2, <3>1 DEF Drive!LoopTest, Drive!MixDies, Drive!outVars
    <3>2. CASE Drive!LoopDrive \/ Drive!BackendDies \/ Drive!BackendSwallows
      <4>1. DriveP!WritesRamped /\ DriveP!TypeOK
        BY <3>2, DriveActions
           DEF DriveP!WritesRamped, ChainInv, DriveP!IInv
      <4>2. loopPc = "drive" /\ motors' \in DriveP!Speeds
            /\ \A w \in Wheels : motors'[w] = IF w \in lost' THEN motors[w]
                                              ELSE DriveP!Ramped[w]
        BY <4>1, DriveP!RampedWritten, NodeAssumptions
      <4> QED BY <4>2 DEF DriveP!Speeds
    <3> QED BY <1>2, <3>1, <3>2
  <2>4. \/ hbAge <= heartbeatTimeout + (Safety!EngageBound + Drive!Period)
        \/ Vehicle!SlowsTo(motors')
    <3>1. CASE loopPc = "drive" /\ armedSnap
      BY <3>1, Supervision
    <3>2. CASE ~(loopPc = "drive" /\ armedSnap)
      <4> SUFFICES ASSUME NEW w \in Wheels
                   PROVE  /\ Vehicle!Abs(motors'[w]) <= Vehicle!Abs(motors[w])
                          /\ motors'[w] * motors[w] >= 0
        BY DEF Vehicle!SlowsTo
      <4>1. CASE motors'[w] = motors[w]
        <5>1. motors[w] \in Int
          BY <2>2
        <5>2. motors[w] * motors[w] >= 0
          BY <5>1
        <5> QED BY <4>1, <5>1, <5>2 DEF Vehicle!Abs
      <4>2. CASE loopPc = "drive" /\ motors'[w] = DriveP!Ramped[w]
        BY <3>2, <4>2, DisarmedSlows
      <4> QED BY <2>3, <4>1, <4>2
    <3> QED BY <3>1, <3>2
  <2> QED BY <1>0, <2>1, <2>3, <2>4 DEF Vehicle!Steer
<1> QED BY <1>1, <1>2 DEF Control, Drive!LoopNext, Drive!LoopSnapshot

\* The main thread prepares the vehicle and hands it over.
LEMMA MainStep ==
    ASSUME ChainInv, StartUp \/ Stop \/ ShutDown
    PROVE  [Vehicle!VehicleNext]_(Vehicle!vehicleVars)
<1> USE DEF Vehicle!VehicleNext, Vehicle!vehicleVars, Vehicle!setup
<1>1. CASE Safety!Configure /\ UNCHANGED driveVars
  <2>1. pin # "HIGH" /\ pin' # "HIGH"
    BY <1>1, PhaseFacts DEF Safety!Configure, Starting
  <2>2. /\ heartbeatTimeout' \in {Safety!HeartbeatTimeout(c) :
                                      c \in ConfigTimeouts}
        /\ startupArmed' \in BOOLEAN /\ Starting /\ Starting'
        /\ UNCHANGED <<motors, hbAge>>
        /\ Drive!Looping' = Drive!Looping
    BY <1>1 DEF Safety!Configure, driveVars, Drive!Looping, Starting
  <2> QED BY <2>1, <2>2 DEF Vehicle!Prepare
<1>2. CASE \/ Safety!MqttConnected /\ UNCHANGED driveVars
           \/ (Safety!StopMqtt \/ Safety!ClearRunning) /\ UNCHANGED driveVars
           \/ (Drive!ClearRunning \/ Drive!Join) /\ UNCHANGED safetyVars
  BY <1>2 DEF Safety!MqttConnected, Safety!StopMqtt, Safety!ClearRunning,
     Safety!configVars, Safety!stateVars, Drive!ClearRunning, Drive!Join,
     Drive!snapVars, Drive!outVars, driveVars, safetyVars, Drive!Looping,
     Starting
<1>3. CASE (Safety!ShutdownEngage \/ Safety!JoinAndCleanup)
           /\ UNCHANGED driveVars
  <2>1. /\ pin' # "HIGH"
        /\ UNCHANGED <<motors, hbAge, heartbeatTimeout, startupArmed, Starting>>
        /\ Drive!Looping' = Drive!Looping
    BY <1>3 DEF Safety!ShutdownEngage, Safety!JoinAndCleanup,
       Safety!SetEstop, Safety!configVars, driveVars, Drive!Looping, Starting
  <2> QED BY <2>1 DEF Vehicle!PowerOff
<1>4. CASE (Drive!Configure \/ Drive!Activate \/ Drive!StopBackend)
           /\ UNCHANGED safetyVars
  <2>1. ~Drive!Looping
    BY <1>4, PhaseFacts DEF Drive!Configure, Drive!Activate,
       Drive!StopBackend, ChainInv, DriveP!IInv, DriveP!PhaseInv,
       Drive!Looping
  <2>2. DriveP!PhaseInv /\ motors \in [Wheels -> (-Full)..Full] /\ Full \in Nat
    BY PhaseFacts, DriveP!ConstantFacts, NodeAssumptions
       DEF ChainInv, DriveP!IInv
  <2>3. /\ motors' \in [Wheels -> (-Full)..Full]
        /\ \A w \in Wheels : motors'[w] \in {motors[w], 0}
        /\ Drive!Looping' => \A w \in Wheels : motors'[w] = 0
    <3>1. CASE Drive!Configure
      BY <2>1, <2>2, <3>1 DEF Drive!Configure, Drive!Stopped, Drive!Looping
    <3>2. CASE Drive!Activate
      <4>1. loopPc = "notstarted" /\ motors' = motors
        BY <2>2, <3>2 DEF Drive!Activate, Drive!outVars, DriveP!PhaseInv
      <4> QED BY <2>2, <4>1, PhaseFacts
    <3>3. CASE Drive!StopBackend
      <4>1. PICK missed \in SUBSET Wheels :
                motors' = [w \in Wheels |-> IF w \in missed THEN motors[w]
                                           ELSE Drive!Stopped[w]]
        BY <3>3 DEF Drive!StopBackend, Drive!Write
      <4>2. \A w \in Wheels : Drive!Stopped[w] = 0
        BY DEF Drive!Stopped
      <4>3. ~Drive!Looping'
        BY <2>1, <3>3 DEF Drive!StopBackend, Drive!Looping
      <4> QED BY <2>2, <4>1, <4>2, <4>3
    <3> QED BY <1>4, <3>1, <3>2, <3>3
  <2>4. UNCHANGED <<pin, hbAge, heartbeatTimeout, startupArmed, Starting>>
    BY <1>4 DEF safetyVars, Starting
  <2>5. Drive!Looping' \in BOOLEAN
    BY DEF Drive!Looping
  <2> QED BY <2>1, <2>3, <2>4, <2>5 DEF Vehicle!HandOver
<1> QED BY <1>1, <1>2, <1>3, <1>4 DEF StartUp, Stop, ShutDown

\* A step of the safety node hears the operator or moves the power.
LEMMA SafetyStep ==
    ASSUME ChainInv,
           \/ PublishStatus
           \/ \E l \in Links : Heartbeat(l)
           \/ WatchdogLocks \/ WatchdogRuns
    PROVE  [Vehicle!VehicleNext]_(Vehicle!vehicleVars)
<1> USE DEF Vehicle!VehicleNext, Vehicle!vehicleVars, Vehicle!setup, Safety!SetEstop,
            Safety!configVars, Safety!stateVars
<1>0. /\ SafetyP!PhaseInv /\ SafetyP!ReleaseInv
      /\ Poll \in Nat /\ Jitter \in Nat /\ heartbeatTimeout \in Nat
      /\ timer \in Int /\ -Jitter <= timer /\ hbAge \in Nat
      /\ Poll + Jitter <= heartbeatTimeout
  <2>1. SafetyP!TypeOK /\ SafetyP!PhaseInv /\ SafetyP!ReleaseInv
    BY DEF ChainInv, SafetyP!IInv
  <2>2. MinTimeout <= heartbeatTimeout /\ MinTimeout \in Nat
        /\ Poll + Jitter <= MinTimeout
    BY <2>1, SafetyP!TypeFacts, SafetyP!ConstantFacts, NodeAssumptions
  <2> QED BY <2>1, <2>2, ChainFacts
<1>1. /\ UNCHANGED <<motors, loopPc>>
      /\ Drive!Looping' = Drive!Looping
  BY DEF PublishStatus, Drive!OnSafety, Drive!outVars, Heartbeat,
     WatchdogLocks, WatchdogRuns, driveVars, Drive!Looping
<1>2. CASE Safety!Activate
  <2>1. /\ UNCHANGED <<heartbeatTimeout, startupArmed>>
        /\ Starting /\ ~Starting'
        /\ (pin' = "HIGH") <=> startupArmed
        /\ hbAge' = IF startupArmed THEN 0 ELSE hbAge
    BY <1>2 DEF Safety!Activate, Starting
  <2>2. startupArmed \in BOOLEAN
    BY DEF ChainInv, SafetyP!IInv, SafetyP!TypeOK
  <2>3. (pin' = "HIGH") = startupArmed
    BY <2>1, <2>2
  <2> QED BY <1>1, <2>1, <2>3 DEF Vehicle!SetOut
<1>s. ASSUME \/ \E l \in Links : Heartbeat(l) \/ Safety!HeartbeatPublish(l)
             \/ Safety!WatchdogPublish \/ WatchdogLocks \/ WatchdogRuns
      PROVE  ~Starting /\ UNCHANGED <<startupArmed, Starting>>
  <2>1. ASSUME NEW l \in Links, Heartbeat(l) \/ Safety!HeartbeatPublish(l)
        PROVE  ~Starting /\ UNCHANGED <<startupArmed, Starting>>
    BY <1>0, <2>1 DEF Heartbeat, Safety!HeartbeatRefresh, Safety!HeartbeatArm,
       Safety!HeartbeatRelease, Safety!HeartbeatPublish, SafetyP!PhaseInv,
       SafetyP!Started, Starting, Safety!threadVars
  <2>2. CASE Safety!WatchdogPublish \/ WatchdogLocks \/ WatchdogRuns
    BY <1>0, <2>2 DEF Safety!WatchdogPublish, WatchdogLocks, WatchdogRuns,
       Safety!WatchdogExpire, Safety!WatchdogResume, Safety!WatchdogNothing,
       Safety!WatchdogTest, Safety!WatchdogSetEstop, Safety!WatchdogWake,
       SafetyP!PhaseInv, SafetyP!Started, Starting
  <2> QED BY <1>s, <2>1, <2>2
<1>3. ASSUME NEW l \in Links, Heartbeat(l),
             Safety!HeartbeatRefresh(l) \/ Safety!HeartbeatArm(l)
      PROVE  Vehicle!Hear
  BY <1>1, <1>3, <1>s DEF Safety!HeartbeatRefresh, Safety!HeartbeatArm,
                          Vehicle!Hear
<1>4. ASSUME NEW l \in Links, Heartbeat(l), Safety!HeartbeatRelease(l)
      PROVE  Vehicle!PowerOn
  <2>1. hbAge <= heartbeatTimeout + Safety!EngageBound
    BY <1>0, <1>4 DEF Safety!HeartbeatRelease, SafetyP!ReleaseInv,
                      Safety!EngageBound
  <2> QED BY <1>1, <1>4, <1>s, <2>1 DEF Safety!HeartbeatRelease, Vehicle!PowerOn
<1>5. CASE Safety!WatchdogSetEstop /\ WatchdogRuns
  <2>1. CASE watchdogPc = "engage"
    BY <1>1, <1>5, <1>s, <2>1 DEF Safety!WatchdogSetEstop, Vehicle!PowerOff
  <2>2. CASE watchdogPc = "release"
    <3>1. hbAge <= heartbeatTimeout + Safety!EngageBound
      BY <1>0, <2>2 DEF SafetyP!ReleaseInv, Safety!EngageBound
    <3> QED BY <1>1, <1>5, <1>s, <2>2, <3>1 DEF Safety!WatchdogSetEstop, Vehicle!PowerOn
  <2> QED BY <1>5, <2>1, <2>2 DEF Safety!WatchdogSetEstop
<1>6. ASSUME \/ \E l \in Links : Safety!HeartbeatPublish(l)
             \/ Safety!WatchdogPublish \/ WatchdogLocks
             \/ WatchdogRuns /\ (Safety!WatchdogTest \/ Safety!WatchdogWake)
      PROVE  UNCHANGED <<pin, hbAge, heartbeatTimeout, startupArmed, Starting>>
  BY <1>6, <1>s DEF Safety!HeartbeatPublish, Safety!WatchdogPublish, WatchdogLocks,
     Safety!WatchdogExpire, Safety!WatchdogResume, Safety!WatchdogNothing,
     Safety!WatchdogTest, Safety!WatchdogWake
<1>7. UNCHANGED <<pin, hbAge, heartbeatTimeout, startupArmed, Starting>> =>
          UNCHANGED Vehicle!vehicleVars
  BY <1>1
<1> QED BY <1>2, <1>3, <1>4, <1>5, <1>6, <1>7
        DEF PublishStatus, Publishes, Heartbeat, WatchdogRuns

\* The clock does not pass the bounds of the vehicle.
LEMMA ClockStep ==
    ASSUME ChainInv, Tick
    PROVE  Vehicle!VehicleTick
<1>1. /\ SafetyP!PhaseInv /\ SafetyP!HighInv
  BY DEF ChainInv, SafetyP!IInv
<1>2. /\ hbAge' = IF hbAge < MaxAge THEN hbAge + 1 ELSE MaxAge
      /\ UNCHANGED <<pin, heartbeatTimeout, startupArmed, Starting>>
      /\ ~Safety!MainUrgent
      /\ Safety!Looping => timer > -Jitter
  BY DEF Tick, Safety!Tick, Safety!configVars, Safety!threadVars, Starting
<1>3. /\ UNCHANGED <<motors, loopPc>>
      /\ Drive!Looping' = Drive!Looping
  BY DEF Tick, Drive!Tick, Drive!outVars, driveVars, Drive!Looping
<1>4. pin = "HIGH" => hbAge < heartbeatTimeout + Safety!EngageBound
  <2> SUFFICES ASSUME pin = "HIGH"
               PROVE  hbAge < heartbeatTimeout + Safety!EngageBound
    OBVIOUS
  <2>1. Safety!Looping
    BY <1>1, <1>2 DEF SafetyP!PhaseInv, SafetyP!HighInv, Safety!Looping,
       Safety!MainUrgent, SafetyP!MainUrgent
  <2>2. hbAge <= heartbeatTimeout + Jitter + Poll - timer
    BY <1>1, <2>1 DEF SafetyP!HighInv, SafetyP!Looping, Safety!Looping
  <2> QED BY <1>2, <2>1, <2>2, ChainFacts DEF Safety!EngageBound
<1>5. Drive!Looping /\ ~Vehicle!AtRest =>
          hbAge < heartbeatTimeout
                    + (Safety!EngageBound + 2 * Drive!Period + RampTicks)
  <2> SUFFICES ASSUME Drive!Looping, ~Vehicle!AtRest
               PROVE  hbAge < heartbeatTimeout
                        + (Safety!EngageBound + 2 * Drive!Period + RampTicks)
    OBVIOUS
  <2>1. ~(hbAge >= ArmedBound + 2 * Drive!Period + RampTicks)
    BY OldMeansRest DEF Vehicle!AtRest
  <2>2. /\ RampTicks \in Int /\ Drive!Period \in Nat /\ hbAge \in Nat
        /\ Safety!EngageBound \in Nat /\ heartbeatTimeout \in Nat
    <3>1. /\ Full \in Nat /\ DownStep \in Nat /\ DownStep > 0
      BY DriveP!ConstantFacts, NodeAssumptions
    <3>2. Full + DownStep - 1 \in Int
      BY <3>1
    <3>3. RampTicks \in Int
      BY <3>1, <3>2, DivisionFacts DEF RampTicks
    <3> QED BY <3>3, ChainFacts, PhaseFacts DEF Safety!EngageBound
  <2> QED BY <2>1, <2>2 DEF ArmedBound
<1> QED BY <1>2, <1>3, <1>4, <1>5 DEF Vehicle!VehicleTick, Vehicle!setup

\* Every step of the chain is a step of the vehicle or leaves it alone.
LEMMA VehicleStep ==
    ChainInv /\ SnapInv /\ [Next]_vars =>
        [Vehicle!VehicleNext]_(Vehicle!vehicleVars)
<1> SUFFICES ASSUME ChainInv, SnapInv, [Next]_vars
             PROVE  [Vehicle!VehicleNext]_(Vehicle!vehicleVars)
  OBVIOUS
<1>1. CASE Joystick \/ UNCHANGED vars \/ (Safety!Terminated /\ UNCHANGED driveVars)
  BY <1>1 DEF Joystick, Drive!OnJoystick, vars, safetyVars, driveVars,
     Safety!Terminated, Safety!vars, Safety!configVars, Safety!stateVars,
     Safety!threadVars, Drive!outVars, Drive!Looping, Starting,
     Vehicle!vehicleVars, Vehicle!setup
<1>2. CASE Tick
  BY <1>2, ClockStep DEF Vehicle!VehicleNext
<1> QED BY <1>1, <1>2, ControlStep, MainStep, SafetyStep DEF Next

\* watchdog_node.py and drive_node.py: for every value of the constants the
\* chain is a vehicle that gains power and speed only while its operator is
\* heard, or as it arms itself on its start, and that halts.
THEOREM Refinement == Spec => ImplementsHaltingVehicle
<1>1. Init => SnapInv
  BY DEF Init, Drive!Init, SnapInv
<1>2. Spec => [](ChainInv /\ SnapInv)
  BY <1>1, SnapStep, Invariance, PTL DEF Spec
<1> QED BY <1>2, VehicleStart, VehicleStep, PTL
        DEF Spec, ImplementsHaltingVehicle, Vehicle!VehicleSpec
=============================================================================
