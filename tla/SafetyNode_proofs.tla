-------------------------- MODULE SafetyNode_proofs --------------------------
(***************************************************************************)
(* Theorems about SafetyNode for every time-out, floor, poll period,       *)
(* jitter and set of links.                                                *)
(*                                                                         *)
(* EstopWithinBound is not inductive: whether an old heartbeat may still   *)
(* hold the relay depends on how long the watchdog has been asleep, on     *)
(* which thread is inside the critical section and on how far main is in   *)
(* the shutdown.  IInv says so.                                            *)
(***************************************************************************)
EXTENDS SafetyNode, TLAPS

InCritical == watchdogPc \in {"engage", "release", "publish"}

\* The holder of the lock is the thread that is in its critical section.
LockInv ==
    /\ \A l \in Links : (pahoPc[l] # "idle") <=> (lock = l)
    /\ InCritical <=> (lock = "watchdog")

\* Which threads exist, and where they are, follows main.
PhaseInv ==
    /\ \A l \in Links : pahoPc[l] # "idle" => mainPc = "run"
    /\ running <=> (mainPc \in {"active", "run", "stopping"})
    /\ (watchdogPc = "notstarted") <=> ~Started
    /\ watchdogPc = "exited" => mainPc \in {"engage", "join", "done"}
    /\ mainPc = "done" => pin = "INPUT" /\ watchdogPc = "exited"
    /\ watchdogPc # "sleep" => timer <= 0

\* A release under way has a fresh heartbeat behind it.
ReleaseInv ==
    /\ \A l \in Links : pahoPc[l] # "idle" =>
           watchdogState = "ARMED" /\ hbAge <= Poll - timer
    /\ watchdogPc = "release" =>
           watchdogState = "ARMED" /\ hbAge <= heartbeatTimeout - timer
    /\ watchdogPc = "engage" => watchdogState = "ESTOP_ACTIVE"

\* How old the heartbeat behind a released relay can be.
HighInv ==
    pin = "HIGH" =>
        /\ Started
        /\ watchdogState = "ARMED" \/ watchdogPc = "engage"
        /\ Looping => hbAge <= heartbeatTimeout + Jitter + Poll - timer
        /\ watchdogPc = "publish" => hbAge <= heartbeatTimeout - timer
        /\ watchdogPc = "exited" =>
               MainUrgent /\ hbAge <= heartbeatTimeout + EngageBound

\* What the critical sections still owe to RelayFollowsState.
RelayInv ==
    /\ running /\ lock = "free" => ((pin = "HIGH") <=> (watchdogState = "ARMED"))
    /\ running /\ watchdogPc = "publish" =>
           ((pin = "HIGH") <=> (watchdogState = "ARMED"))
    /\ \A l \in Links : pahoPc[l] = "publish" => pin = "HIGH"
    /\ Started /\ lock = "free" =>
           /\ status.armed <=> (watchdogState = "ARMED")
           /\ status.armed <=> (status.reason = "ok")

IInv == /\ TypeOK
        /\ LockInv
        /\ PhaseInv
        /\ ReleaseInv
        /\ HighInv
        /\ RelayInv

-----------------------------------------------------------------------------
\* What the proofs need to know of the constants.
LEMMA ConstantFacts ==
    /\ Poll \in Nat /\ Poll > 0 /\ Jitter \in Nat /\ MaxAge \in Nat
    /\ MinTimeout \in Nat /\ Poll + Jitter <= MinTimeout
    /\ Links \cap {"free", "watchdog"} = {}
BY SafetyAssumption DEF SafetyAssumption

\* on_configure's floor: whatever the file says, the time-out in force is an
\* integer of at least MinTimeout, and ages up to its bound are told apart.
LEMMA TimeoutFacts ==
    ASSUME NEW t \in {HeartbeatTimeout(c) : c \in ConfigTimeouts}
    PROVE  /\ t \in Nat
           /\ MinTimeout <= t
           /\ t + EngageBound < MaxAge
<1>1. PICK c \in ConfigTimeouts : t = HeartbeatTimeout(c)
  OBVIOUS
<1>2. c \in Int
  BY SafetyAssumption DEF SafetyAssumption
<1>3. t \in Nat /\ MinTimeout <= t
  BY <1>1, <1>2, ConstantFacts DEF HeartbeatTimeout
<1>4. t + EngageBound < MaxAge
  BY <1>1, SafetyAssumption DEF SafetyAssumption
<1> QED BY <1>3, <1>4

\* The arithmetic facts of TypeOK, without the sets it is written with.
LEMMA TypeFacts ==
    ASSUME TypeOK
    PROVE  /\ heartbeatTimeout \in Nat /\ MinTimeout <= heartbeatTimeout
           /\ heartbeatTimeout + EngageBound < MaxAge
           /\ hbAge \in Nat /\ hbAge <= MaxAge
           /\ timer \in Int /\ -Jitter <= timer /\ timer <= Poll
           /\ pahoPc \in [Links -> {"idle", "release", "publish"}]
           /\ running \in BOOLEAN /\ status.armed \in BOOLEAN
BY TimeoutFacts, ConstantFacts DEF TypeOK

\* Every action keeps the types; hbAge saturates, timer stays in its range.
LEMMA TypeStep == IInv /\ [Next]_vars => TypeOK'
<1> SUFFICES ASSUME IInv, [Next]_vars PROVE TypeOK'
  OBVIOUS
<1> USE ConstantFacts DEF IInv, TypeOK
<1>1. CASE Configure
  BY <1>1 DEF Configure, MainPcs
<1>2. CASE Activate
  BY <1>2 DEF Activate, SetEstop, PublishStatus, configVars, MainPcs,
              WatchdogPcs, WatchdogStates, Reasons
<1>3. CASE MqttConnected
  BY <1>3 DEF MqttConnected, configVars, stateVars, MainPcs
<1>4. CASE StopMqtt
  BY <1>4 DEF StopMqtt, configVars, stateVars, MainPcs
<1>5. CASE ClearRunning
  BY <1>5 DEF ClearRunning, configVars, MainPcs
<1>6. CASE ShutdownEngage
  BY <1>6 DEF ShutdownEngage, SetEstop, configVars, MainPcs
<1>7. CASE JoinAndCleanup
  BY <1>7 DEF JoinAndCleanup, configVars, MainPcs
<1>8. CASE Tick
  BY <1>8 DEF Tick, Looping, MainUrgent, threadVars, configVars
<1>9. CASE Terminated
  BY <1>9 DEF Terminated, vars, threadVars, configVars, stateVars
<1>10. ASSUME NEW l \in Links, HeartbeatRefresh(l) PROVE TypeOK'
  BY <1>10 DEF HeartbeatRefresh, threadVars, configVars
<1>11. ASSUME NEW l \in Links, HeartbeatArm(l) PROVE TypeOK'
  BY <1>11 DEF HeartbeatArm, configVars, WatchdogStates
<1>12. ASSUME NEW l \in Links, HeartbeatRelease(l) PROVE TypeOK'
  BY <1>12 DEF HeartbeatRelease, SetEstop, configVars
<1>13. ASSUME NEW l \in Links, HeartbeatPublish(l) PROVE TypeOK'
  BY <1>13 DEF HeartbeatPublish, PublishStatus, configVars, Reasons
<1>14. CASE WatchdogTest
  BY <1>14 DEF WatchdogTest, configVars, stateVars, WatchdogPcs
<1>15. CASE WatchdogExpire
  BY <1>15 DEF WatchdogExpire, Expired, configVars, WatchdogPcs,
              WatchdogStates
<1>16. CASE WatchdogResume
  BY <1>16 DEF WatchdogResume, Resumed, configVars, WatchdogPcs,
              WatchdogStates
<1>17. CASE WatchdogNothing
  BY <1>17 DEF WatchdogNothing, Expired, Resumed, configVars, stateVars,
              WatchdogPcs
<1>18. CASE WatchdogSetEstop
  BY <1>18 DEF WatchdogSetEstop, SetEstop, configVars, WatchdogPcs
<1>19. CASE WatchdogPublish
  BY <1>19 DEF WatchdogPublish, PublishStatus, configVars, WatchdogPcs,
              Reasons
<1>20. CASE WatchdogWake
  BY <1>20 DEF WatchdogWake, configVars, stateVars, WatchdogPcs
<1>21. CASE UNCHANGED vars
  BY <1>21 DEF vars, threadVars, configVars, stateVars
<1> QED BY <1>1, <1>2, <1>3, <1>4, <1>5, <1>6, <1>7, <1>8, <1>9, <1>10,
           <1>11, <1>12, <1>13, <1>14, <1>15, <1>16, <1>17, <1>18,
           <1>19, <1>20, <1>21
        DEF Next, MainNext, PahoNext, WatchdogNext

\* Only the thread that took the lock is in a critical section.
LEMMA LockStep == IInv /\ [Next]_vars => LockInv'
<1> SUFFICES ASSUME IInv, [Next]_vars PROVE LockInv'
  OBVIOUS
<1> USE ConstantFacts DEF LockInv, InCritical, PhaseInv, Started
<1>0. TypeOK /\ LockInv /\ PhaseInv
  BY DEF IInv
<1> USE <1>0, TypeFacts
<1>1. CASE Configure
  BY <1>1 DEF Configure
<1>2. CASE Activate
  BY <1>2 DEF Activate, SetEstop, PublishStatus, configVars
<1>3. CASE MqttConnected
  BY <1>3 DEF MqttConnected, configVars, stateVars
<1>4. CASE StopMqtt
  BY <1>4 DEF StopMqtt, configVars, stateVars
<1>5. CASE ClearRunning
  BY <1>5 DEF ClearRunning, configVars
<1>6. CASE ShutdownEngage
  BY <1>6 DEF ShutdownEngage, SetEstop, configVars
<1>7. CASE JoinAndCleanup
  BY <1>7 DEF JoinAndCleanup, configVars
<1>8. CASE Tick
  BY <1>8 DEF Tick, Looping, MainUrgent, threadVars, configVars
<1>9. CASE Terminated
  BY <1>9 DEF Terminated, vars, threadVars, configVars, stateVars
<1>10. ASSUME NEW l \in Links, HeartbeatRefresh(l) PROVE LockInv'
  BY <1>10 DEF HeartbeatRefresh, threadVars, configVars
<1>11. ASSUME NEW l \in Links, HeartbeatArm(l) PROVE LockInv'
  BY <1>11 DEF HeartbeatArm, configVars
<1>12. ASSUME NEW l \in Links, HeartbeatRelease(l) PROVE LockInv'
  BY <1>12 DEF HeartbeatRelease, SetEstop, configVars
<1>13. ASSUME NEW l \in Links, HeartbeatPublish(l) PROVE LockInv'
  BY <1>13 DEF HeartbeatPublish, PublishStatus, configVars
<1>14. CASE WatchdogTest
  BY <1>14 DEF WatchdogTest, configVars, stateVars
<1>15. CASE WatchdogExpire
  BY <1>15 DEF WatchdogExpire, Expired, configVars
<1>16. CASE WatchdogResume
  BY <1>16 DEF WatchdogResume, Resumed, configVars
<1>17. CASE WatchdogNothing
  BY <1>17 DEF WatchdogNothing, Expired, Resumed, configVars, stateVars
<1>18. CASE WatchdogSetEstop
  BY <1>18 DEF WatchdogSetEstop, SetEstop, configVars
<1>19. CASE WatchdogPublish
  BY <1>19 DEF WatchdogPublish, PublishStatus, configVars
<1>20. CASE WatchdogWake
  BY <1>20 DEF WatchdogWake, configVars, stateVars
<1>21. CASE UNCHANGED vars
  BY <1>21 DEF vars, threadVars, configVars, stateVars
<1> QED BY <1>1, <1>2, <1>3, <1>4, <1>5, <1>6, <1>7, <1>8, <1>9, <1>10,
           <1>11, <1>12, <1>13, <1>14, <1>15, <1>16, <1>17, <1>18,
           <1>19, <1>20, <1>21
        DEF Next, MainNext, PahoNext, WatchdogNext

\* Threads start after on_activate and are gone before the clean-up.
LEMMA PhaseStep == IInv /\ [Next]_vars => PhaseInv'
<1> SUFFICES ASSUME IInv, [Next]_vars PROVE PhaseInv'
  OBVIOUS
<1> USE ConstantFacts DEF LockInv, InCritical, PhaseInv, Started
<1>0. TypeOK /\ LockInv /\ PhaseInv
  BY DEF IInv
<1> USE <1>0, TypeFacts
<1>1. CASE Configure
  BY <1>1 DEF Configure, Looping, MainPcs, TypeOK
<1>2. CASE Activate
  BY <1>2 DEF Activate, SetEstop, PublishStatus, configVars, Looping,
              MainPcs, TypeOK
<1>3. CASE MqttConnected
  BY <1>3 DEF MqttConnected, configVars, stateVars, Looping, MainPcs,
              TypeOK
<1>4. CASE StopMqtt
  BY <1>4 DEF StopMqtt, configVars, stateVars, Looping, MainPcs, TypeOK
<1>5. CASE ClearRunning
  BY <1>5 DEF ClearRunning, configVars, Looping, MainPcs, TypeOK
<1>6. CASE ShutdownEngage
  BY <1>6 DEF ShutdownEngage, SetEstop, configVars, Looping, MainPcs,
              TypeOK
<1>7. CASE JoinAndCleanup
  BY <1>7 DEF JoinAndCleanup, configVars, Looping, MainPcs, TypeOK
<1>8. CASE Tick
  BY <1>8 DEF Tick, Looping, MainUrgent, threadVars, configVars,
              MainPcs, TypeOK
<1>9. CASE Terminated
  BY <1>9 DEF Terminated, vars, threadVars, configVars, stateVars,
              Looping, MainPcs, TypeOK
<1>10. ASSUME NEW l \in Links, HeartbeatRefresh(l) PROVE PhaseInv'
  BY <1>10 DEF HeartbeatRefresh, threadVars, configVars, Looping,
              MainPcs, TypeOK
<1>11. ASSUME NEW l \in Links, HeartbeatArm(l) PROVE PhaseInv'
  BY <1>11 DEF HeartbeatArm, configVars, Looping, MainPcs, TypeOK
<1>12. ASSUME NEW l \in Links, HeartbeatRelease(l) PROVE PhaseInv'
  BY <1>12 DEF HeartbeatRelease, SetEstop, configVars, Looping, MainPcs,
              TypeOK
<1>13. ASSUME NEW l \in Links, HeartbeatPublish(l) PROVE PhaseInv'
  BY <1>13 DEF HeartbeatPublish, PublishStatus, configVars, Looping,
              MainPcs, TypeOK
<1>14. CASE WatchdogTest
  BY <1>14 DEF WatchdogTest, configVars, stateVars, Looping, MainPcs,
              TypeOK
<1>15. CASE WatchdogExpire
  BY <1>15 DEF WatchdogExpire, Expired, configVars, Looping, MainPcs,
              TypeOK
<1>16. CASE WatchdogResume
  BY <1>16 DEF WatchdogResume, Resumed, configVars, Looping, MainPcs,
              TypeOK
<1>17. CASE WatchdogNothing
  BY <1>17 DEF WatchdogNothing, Expired, Resumed, configVars, stateVars,
              Looping, MainPcs, TypeOK
<1>18. CASE WatchdogSetEstop
  BY <1>18 DEF WatchdogSetEstop, SetEstop, configVars, Looping, MainPcs,
              TypeOK
<1>19. CASE WatchdogPublish
  BY <1>19 DEF WatchdogPublish, PublishStatus, configVars, Looping,
              MainPcs, TypeOK
<1>20. CASE WatchdogWake
  BY <1>20 DEF WatchdogWake, configVars, stateVars, Looping, MainPcs,
              TypeOK
<1>21. CASE UNCHANGED vars
  BY <1>21 DEF vars, threadVars, configVars, stateVars, Looping, MainPcs,
              TypeOK
<1> QED BY <1>1, <1>2, <1>3, <1>4, <1>5, <1>6, <1>7, <1>8, <1>9, <1>10,
           <1>11, <1>12, <1>13, <1>14, <1>15, <1>16, <1>17, <1>18,
           <1>19, <1>20, <1>21
        DEF Next, MainNext, PahoNext, WatchdogNext

\* Time passing in a critical section keeps the heartbeat fresh enough.
LEMMA ReleaseStep == IInv /\ [Next]_vars => ReleaseInv'
<1> SUFFICES ASSUME IInv, [Next]_vars PROVE ReleaseInv'
  OBVIOUS
<1> USE ConstantFacts DEF LockInv, InCritical, PhaseInv, Started, ReleaseInv
<1>0. TypeOK /\ LockInv /\ PhaseInv /\ ReleaseInv
  BY DEF IInv
<1> USE <1>0, TypeFacts
<1>1. CASE Configure
  BY <1>1 DEF Configure, Looping
<1>2. CASE Activate
  BY <1>2 DEF Activate, SetEstop, PublishStatus, configVars, Looping
<1>3. CASE MqttConnected
  BY <1>3 DEF MqttConnected, configVars, stateVars, Looping
<1>4. CASE StopMqtt
  BY <1>4 DEF StopMqtt, configVars, stateVars, Looping
<1>5. CASE ClearRunning
  BY <1>5 DEF ClearRunning, configVars, Looping
<1>6. CASE ShutdownEngage
  BY <1>6 DEF ShutdownEngage, SetEstop, configVars, Looping
<1>7. CASE JoinAndCleanup
  BY <1>7 DEF JoinAndCleanup, configVars, Looping
<1>8. CASE Tick
  BY <1>8 DEF Tick, Looping, MainUrgent, threadVars, configVars
<1>9. CASE Terminated
  BY <1>9 DEF Terminated, vars, threadVars, configVars, stateVars,
              Looping
<1>10. ASSUME NEW l \in Links, HeartbeatRefresh(l) PROVE ReleaseInv'
  BY <1>10 DEF HeartbeatRefresh, threadVars, configVars, Looping
<1>11. ASSUME NEW l \in Links, HeartbeatArm(l) PROVE ReleaseInv'
  BY <1>11 DEF HeartbeatArm, configVars, Looping
<1>12. ASSUME NEW l \in Links, HeartbeatRelease(l) PROVE ReleaseInv'
  BY <1>12 DEF HeartbeatRelease, SetEstop, configVars, Looping
<1>13. ASSUME NEW l \in Links, HeartbeatPublish(l) PROVE ReleaseInv'
  BY <1>13 DEF HeartbeatPublish, PublishStatus, configVars, Looping
<1>14. CASE WatchdogTest
  BY <1>14 DEF WatchdogTest, configVars, stateVars, Looping
<1>15. CASE WatchdogExpire
  BY <1>15 DEF WatchdogExpire, Expired, configVars, Looping
<1>16. CASE WatchdogResume
  BY <1>16 DEF WatchdogResume, Resumed, configVars, Looping
<1>17. CASE WatchdogNothing
  BY <1>17 DEF WatchdogNothing, Expired, Resumed, configVars, stateVars,
              Looping
<1>18. CASE WatchdogSetEstop
  BY <1>18 DEF WatchdogSetEstop, SetEstop, configVars, Looping
<1>19. CASE WatchdogPublish
  BY <1>19 DEF WatchdogPublish, PublishStatus, configVars, Looping
<1>20. CASE WatchdogWake
  BY <1>20 DEF WatchdogWake, configVars, stateVars, Looping
<1>21. CASE UNCHANGED vars
  BY <1>21 DEF vars, threadVars, configVars, stateVars, Looping
<1> QED BY <1>1, <1>2, <1>3, <1>4, <1>5, <1>6, <1>7, <1>8, <1>9, <1>10,
           <1>11, <1>12, <1>13, <1>14, <1>15, <1>16, <1>17, <1>18,
           <1>19, <1>20, <1>21
        DEF Next, MainNext, PahoNext, WatchdogNext

\* What keeps EstopWithinBound: each step, and each tick, leaves the
\* heartbeat behind a released relay within what the watchdog has left.
LEMMA HighStep == IInv /\ [Next]_vars => HighInv'
<1> SUFFICES ASSUME IInv, [Next]_vars PROVE HighInv'
  OBVIOUS
<1> USE ConstantFacts DEF LockInv, InCritical, PhaseInv, Started,
        ReleaseInv, HighInv, Looping, MainUrgent, EngageBound
<1>0. TypeOK /\ LockInv /\ PhaseInv /\ ReleaseInv /\ HighInv
  BY DEF IInv
<1> USE <1>0, TypeFacts
<1>1. CASE Configure
  BY <1>1 DEF Configure
<1>2. CASE Activate
  BY <1>2 DEF Activate, SetEstop, PublishStatus, configVars
<1>3. CASE MqttConnected
  BY <1>3 DEF MqttConnected, configVars, stateVars
<1>4. CASE StopMqtt
  BY <1>4 DEF StopMqtt, configVars, stateVars
<1>5. CASE ClearRunning
  BY <1>5 DEF ClearRunning, configVars
<1>6. CASE ShutdownEngage
  BY <1>6 DEF ShutdownEngage, SetEstop, configVars
<1>7. CASE JoinAndCleanup
  BY <1>7 DEF JoinAndCleanup, configVars
<1>8. CASE Tick
  BY <1>8 DEF Tick, Looping, MainUrgent, threadVars, configVars
<1>9. CASE Terminated
  BY <1>9 DEF Terminated, vars, threadVars, configVars, stateVars
<1>10. ASSUME NEW l \in Links, HeartbeatRefresh(l) PROVE HighInv'
  BY <1>10 DEF HeartbeatRefresh, threadVars, configVars
<1>11. ASSUME NEW l \in Links, HeartbeatArm(l) PROVE HighInv'
  BY <1>11 DEF HeartbeatArm, configVars
<1>12. ASSUME NEW l \in Links, HeartbeatRelease(l) PROVE HighInv'
  BY <1>12 DEF HeartbeatRelease, SetEstop, configVars
<1>13. ASSUME NEW l \in Links, HeartbeatPublish(l) PROVE HighInv'
  BY <1>13 DEF HeartbeatPublish, PublishStatus, configVars
<1>14. CASE WatchdogTest
  BY <1>14 DEF WatchdogTest, configVars, stateVars, MainPcs, TypeOK
<1>15. CASE WatchdogExpire
  BY <1>15 DEF WatchdogExpire, Expired, configVars
<1>16. CASE WatchdogResume
  BY <1>16 DEF WatchdogResume, Resumed, configVars
<1>17. CASE WatchdogNothing
  BY <1>17 DEF WatchdogNothing, Expired, Resumed, configVars, stateVars
<1>18. CASE WatchdogSetEstop
  BY <1>18 DEF WatchdogSetEstop, SetEstop, configVars
<1>19. CASE WatchdogPublish
  BY <1>19 DEF WatchdogPublish, PublishStatus, configVars
<1>20. CASE WatchdogWake
  BY <1>20 DEF WatchdogWake, configVars, stateVars
<1>21. CASE UNCHANGED vars
  BY <1>21 DEF vars, threadVars, configVars, stateVars
<1> QED BY <1>1, <1>2, <1>3, <1>4, <1>5, <1>6, <1>7, <1>8, <1>9, <1>10,
           <1>11, <1>12, <1>13, <1>14, <1>15, <1>16, <1>17, <1>18,
           <1>19, <1>20, <1>21
        DEF Next, MainNext, PahoNext, WatchdogNext

\* Each critical section ends with relay, state and status agreeing.
LEMMA RelayStep == IInv /\ [Next]_vars => RelayInv'
<1> SUFFICES ASSUME IInv, [Next]_vars PROVE RelayInv'
  OBVIOUS
<1> USE ConstantFacts DEF LockInv, InCritical, PhaseInv, Started,
        ReleaseInv, HighInv, RelayInv
<1>0. TypeOK /\ LockInv /\ PhaseInv /\ ReleaseInv /\ HighInv /\ RelayInv
  BY DEF IInv
<1> USE <1>0, TypeFacts
<1>1. CASE Configure
  BY <1>1 DEF Configure
<1>2. CASE Activate
  <2>1. \A l \in Links : pahoPc'[l] = "idle"
    BY <1>2 DEF Activate
  <2>2. CASE startupArmed
    <3>1. /\ watchdogState' = "ARMED" /\ pin' = "HIGH" /\ watchdogPc' = "test"
          /\ status' = [armed |-> TRUE, reason |-> "ok"]
      BY <1>2, <2>2 DEF Activate, SetEstop, PublishStatus
    <3> QED BY <2>1, <3>1
  <2>3. CASE ~startupArmed
    BY <1>2, <2>1, <2>3 DEF Activate, SetEstop, PublishStatus
  <2> QED BY <2>2, <2>3
<1>3. CASE MqttConnected
  BY <1>3 DEF MqttConnected, configVars, stateVars
<1>4. CASE StopMqtt
  BY <1>4 DEF StopMqtt, configVars, stateVars
<1>5. CASE ClearRunning
  BY <1>5 DEF ClearRunning, configVars
<1>6. CASE ShutdownEngage
  BY <1>6 DEF ShutdownEngage, SetEstop, configVars
<1>7. CASE JoinAndCleanup
  BY <1>7 DEF JoinAndCleanup, configVars
<1>8. CASE Tick
  BY <1>8 DEF Tick, Looping, MainUrgent, threadVars, configVars
<1>9. CASE Terminated
  BY <1>9 DEF Terminated, vars, threadVars, configVars, stateVars
<1>10. ASSUME NEW l \in Links, HeartbeatRefresh(l) PROVE RelayInv'
  BY <1>10 DEF HeartbeatRefresh, threadVars, configVars
<1>11. ASSUME NEW l \in Links, HeartbeatArm(l) PROVE RelayInv'
  BY <1>11 DEF HeartbeatArm, configVars
<1>12. ASSUME NEW l \in Links, HeartbeatRelease(l) PROVE RelayInv'
  BY <1>12 DEF HeartbeatRelease, SetEstop, configVars
<1>13. ASSUME NEW l \in Links, HeartbeatPublish(l) PROVE RelayInv'
  BY <1>13 DEF HeartbeatPublish, PublishStatus, configVars
<1>14. CASE WatchdogTest
  BY <1>14 DEF WatchdogTest, configVars, stateVars
<1>15. CASE WatchdogExpire
  BY <1>15 DEF WatchdogExpire, Expired, configVars
<1>16. CASE WatchdogResume
  BY <1>16 DEF WatchdogResume, Resumed, configVars
<1>17. CASE WatchdogNothing
  BY <1>17 DEF WatchdogNothing, Expired, Resumed, configVars, stateVars
<1>18. CASE WatchdogSetEstop
  BY <1>18 DEF WatchdogSetEstop, SetEstop, configVars
<1>19. CASE WatchdogPublish
  BY <1>19 DEF WatchdogPublish, PublishStatus, configVars
<1>20. CASE WatchdogWake
  BY <1>20 DEF WatchdogWake, configVars, stateVars
<1>21. CASE UNCHANGED vars
  BY <1>21 DEF vars, threadVars, configVars, stateVars
<1> QED BY <1>1, <1>2, <1>3, <1>4, <1>5, <1>6, <1>7, <1>8, <1>9, <1>10,
           <1>11, <1>12, <1>13, <1>14, <1>15, <1>16, <1>17, <1>18,
           <1>19, <1>20, <1>21
        DEF Next, MainNext, PahoNext, WatchdogNext

-----------------------------------------------------------------------------
(* The theorems *)

\* The node starts disarmed, with no thread but main and the lock free.
LEMMA IInvInit == Init => IInv
<1> SUFFICES ASSUME Init PROVE IInv
  OBVIOUS
<1> USE ConstantFacts DEF Init
<1>1. TypeOK
  <2>1. /\ hbAge \in 0..MaxAge
        /\ timer \in (-Jitter)..Poll
        /\ status \in [armed : BOOLEAN, reason : Reasons]
    BY DEF Reasons
  <2>2. pahoPc \in [Links -> {"idle", "release", "publish"}]
    OBVIOUS
  <2> QED BY <2>1, <2>2
          DEF TypeOK, MainPcs, WatchdogPcs, WatchdogStates
<1>2. LockInv
  BY DEF LockInv, InCritical
<1>3. PhaseInv /\ ReleaseInv /\ HighInv
  BY DEF PhaseInv, ReleaseInv, HighInv, Started
<1>4. RelayInv
  BY DEF RelayInv, Started
<1> QED BY <1>1, <1>2, <1>3, <1>4 DEF IInv

\* The inductive invariant of the three kinds of threads.
THEOREM Invariance == Spec => []IInv
<1>1. IInv /\ [Next]_vars => IInv'
  BY TypeStep, LockStep, PhaseStep, ReleaseStep, HighStep, RelayStep DEF IInv
<1> QED BY IInvInit, <1>1, PTL DEF Spec

\* Every variable of the watchdog keeps its type, hbAge and timer their ranges.
THEOREM TypeCorrect == Spec => []TypeOK
<1>1. IInv => TypeOK
  BY DEF IInv
<1> QED BY <1>1, Invariance, PTL

\* watchdog_node.py: for every time-out the file may hold, the relay never
\* stays released longer than the time-out plus one late iteration of the loop.
THEOREM EstopBound == Spec => []EstopWithinBound
<1>1. IInv => EstopWithinBound
  <2> SUFFICES ASSUME IInv, pin = "HIGH"
               PROVE  hbAge <= heartbeatTimeout + EngageBound
    BY DEF EstopWithinBound
  <2>1. TypeOK /\ PhaseInv /\ HighInv
    BY DEF IInv
  <2>2. Looping \/ watchdogPc = "exited"
    BY <2>1 DEF PhaseInv, HighInv, Looping
  <2>3. CASE Looping
    BY <2>1, <2>3, ConstantFacts, TypeFacts DEF HighInv, EngageBound
  <2>4. CASE watchdogPc = "exited"
    BY <2>1, <2>4 DEF HighInv
  <2> QED BY <2>2, <2>3, <2>4
<1> QED BY <1>1, Invariance, PTL

\* watchdog_node.py: outside the critical sections the relay, the state machine
\* and the last published SafetyStatus agree until the shutdown begins.
THEOREM RelayAgreement == Spec => []RelayFollowsState
<1>1. IInv => RelayFollowsState
  BY DEF IInv, PhaseInv, RelayInv, RelayFollowsState, Started
<1> QED BY <1>1, Invariance, PTL

-----------------------------------------------------------------------------
(* SafetyNode implements DeadManSwitch *)

\* The relay is not released, and no thread but main runs, at the start.
LEMMA SwitchInit == Init => Switch!DmsInit
BY DEF Init, Started, Switch!DmsInit

\* Each step of a thread is a step of the switch or leaves it alone.
LEMMA SwitchStep ==
    IInv /\ [Next]_vars => [Switch!DmsNext]_(Switch!dmsVars)
<1> SUFFICES ASSUME IInv, [Next]_vars
             PROVE  [Switch!DmsNext]_(Switch!dmsVars)
  OBVIOUS
<1>0. TypeOK /\ PhaseInv /\ ReleaseInv /\ HighInv
  BY DEF IInv
<1> USE <1>0, TypeFacts, ConstantFacts
    DEF Switch!DmsNext, Switch!dmsVars, configVars, threadVars, stateVars,
        Started
<1>1. CASE Configure
  BY <1>1 DEF Configure, HighInv, Switch!Setup
<1>2. CASE Activate
  BY <1>2 DEF Activate, HighInv, SetEstop, Switch!Start, TypeOK
<1>3. CASE ClearRunning \/ MqttConnected \/ StopMqtt
  BY <1>3 DEF ClearRunning, MqttConnected, StopMqtt
<1>4. CASE ShutdownEngage
  BY <1>4 DEF ShutdownEngage, SetEstop, Switch!Engage
<1>5. CASE JoinAndCleanup
  BY <1>5 DEF JoinAndCleanup, Switch!Engage
<1>6. ASSUME NEW l \in Links, HeartbeatRefresh(l) \/ HeartbeatArm(l)
      PROVE  [Switch!DmsNext]_(Switch!dmsVars)
  BY <1>6 DEF HeartbeatRefresh, HeartbeatArm, Switch!Renew
<1>7. ASSUME NEW l \in Links, HeartbeatRelease(l)
      PROVE  [Switch!DmsNext]_(Switch!dmsVars)
  \* The heartbeat under way is at most Poll + Jitter old.
  <2>1. hbAge <= heartbeatTimeout + Jitter
    BY <1>7 DEF HeartbeatRelease, ReleaseInv
  <2>2. mainPc = "run"
    BY <1>7 DEF HeartbeatRelease, PhaseInv
  <2> QED BY <1>7, <2>1, <2>2 DEF HeartbeatRelease, SetEstop, Switch!Release
<1>8. ASSUME NEW l \in Links, HeartbeatPublish(l)
      PROVE  [Switch!DmsNext]_(Switch!dmsVars)
  BY <1>8 DEF HeartbeatPublish
<1>9. CASE WatchdogSetEstop
  <2>1. CASE watchdogPc = "engage"
    BY <1>9, <2>1 DEF WatchdogSetEstop, SetEstop, Switch!Engage
  <2>2. CASE watchdogPc = "release"
    <3>1. hbAge <= heartbeatTimeout + Jitter
      BY <2>2 DEF ReleaseInv
    <3>2. Started
      BY <2>2 DEF PhaseInv
    <3> QED BY <1>9, <2>2, <3>1, <3>2 DEF WatchdogSetEstop, SetEstop, Switch!Release
  <2> QED BY <1>9, <2>1, <2>2 DEF WatchdogSetEstop
<1>10. CASE \/ WatchdogTest \/ WatchdogExpire \/ WatchdogResume
            \/ WatchdogNothing \/ WatchdogPublish \/ WatchdogWake
  BY <1>10 DEF WatchdogTest, WatchdogExpire, WatchdogResume, WatchdogNothing,
               WatchdogPublish, WatchdogWake
<1>11. CASE Tick
  <2>1. pin = "HIGH" => hbAge < heartbeatTimeout + EngageBound
    BY <1>11 DEF Tick, PhaseInv, HighInv, Looping, MainUrgent, EngageBound
  <2> QED BY <1>11, <2>1 DEF Tick, Switch!DmsTick
<1>12. CASE UNCHANGED vars
  BY <1>12 DEF vars
<1> QED BY <1>1, <1>2, <1>3, <1>4, <1>5, <1>6, <1>7, <1>8, <1>9, <1>10, <1>11,
           <1>12 DEF Next, MainNext, PahoNext, WatchdogNext, Terminated

\* watchdog_node.py: whatever the threads do, the node is a dead man's switch.
\* It engages the relay in time, and releases it only on a recent heartbeat,
\* with the one exception of a start with startup_armed set.
THEOREM Refinement == Spec => ImplementsDeadManSwitch
<1> QED BY SwitchInit, SwitchStep, Invariance, PTL
        DEF Spec, ImplementsDeadManSwitch, Switch!DmsSpec
=============================================================================
