----------------------------- MODULE SafetyNode -----------------------------
(***************************************************************************)
(* safety/watchdog_node.py: the heartbeat watchdog and its E-stop relay.   *)
(*                                                                         *)
(* The threads: the main thread runs the lifecycle of the node, one paho   *)
(* network thread per MQTT link runs _on_heartbeat, the watchdog thread    *)
(* runs _watchdog_loop.  _lock serialises the last two kinds; on_activate  *)
(* and on_shutdown do not take it.  Time is counted in ticks.  An          *)
(* iteration of the watchdog sleeps Poll ticks, and everything else it     *)
(* does (waking up late, waiting for the lock, its body) takes at most     *)
(* Jitter ticks.                                                           *)
(***************************************************************************)
EXTENDS Integers

CONSTANTS Links,           \* the MQTT links a heartbeat may come by
          ConfigTimeouts,  \* values safety.heartbeat_timeout may be given
          MinTimeout,      \* the 1.0 s floor of on_configure
          Poll,            \* time.sleep(0.1) of the watchdog loop
          Jitter,          \* lateness of one iteration of the loop
          MaxAge           \* bound at which hbAge stops counting; "never"

\* Faulty variant: no floor under the configured time-out.
HeartbeatTimeoutNoFloor(c) == c

HeartbeatTimeout(c) == IF c > MinTimeout THEN c ELSE MinTimeout

EngageBound == Poll + 2 * Jitter

ASSUME SafetyAssumption ==
    /\ {"free", "watchdog"} \cap Links = {}
    /\ ConfigTimeouts \subseteq Int /\ ConfigTimeouts # {}
    /\ MinTimeout \in Nat
    /\ Poll \in Nat \ {0}
    /\ Jitter \in Nat
    /\ Poll + Jitter <= MinTimeout
    /\ MaxAge \in Nat
    /\ \A c \in ConfigTimeouts : HeartbeatTimeout(c) + EngageBound < MaxAge

VARIABLES
    mainPc,            \* where the main thread is in the node's life
    pahoPc,            \* where each network thread is in _on_heartbeat
    watchdogPc,        \* where the watchdog thread is in _watchdog_loop
    lock,              \* holder of self._lock
    heartbeatTimeout,  \* self._heartbeat_timeout
    startupArmed,      \* self._startup_armed
    watchdogState,     \* self._watchdog_state
    hbAge,             \* time.monotonic() - self._last_heartbeat
    running,           \* self._running
    pin,               \* the E-stop GPIO; "HIGH" releases the relay
    status,            \* the last SafetyStatus published on safety.status
    timer              \* ticks of sleep the watchdog has left; negative: late

threadVars == <<mainPc, pahoPc, watchdogPc, lock>>
configVars == <<heartbeatTimeout, startupArmed>>
stateVars  == <<watchdogState, hbAge, running, pin, status>>
vars       == <<threadVars, configVars, stateVars, timer>>

MainPcs == {"unconfigured", "configured", "active", "run", "stopping",
            "engage", "join", "done"}
WatchdogPcs == {"notstarted", "test", "acquire", "engage", "release",
                "publish", "sleep", "exited"}
WatchdogStates == {"DISARMED", "ARMED", "ESTOP_ACTIVE"}
Reasons == {"none", "ok", "waiting_for_heartbeat", "heartbeat_timeout"}

TypeOK ==
    /\ mainPc \in MainPcs
    /\ pahoPc \in [Links -> {"idle", "release", "publish"}]
    /\ watchdogPc \in WatchdogPcs
    /\ lock \in {"free", "watchdog"} \cup Links
    /\ heartbeatTimeout \in {HeartbeatTimeout(c) : c \in ConfigTimeouts}
    /\ startupArmed \in BOOLEAN
    /\ watchdogState \in WatchdogStates
    /\ hbAge \in 0..MaxAge
    /\ running \in BOOLEAN
    /\ pin \in {"unset", "LOW", "HIGH", "INPUT"}
    /\ status \in [armed : BOOLEAN, reason : Reasons]
    /\ timer \in (-Jitter)..Poll

\* heartbeatTimeout and startupArmed are read from the file by Configure; no
\* action looks at them before it.
Init ==
    /\ mainPc = "unconfigured"
    /\ pahoPc = [l \in Links |-> "idle"]
    /\ watchdogPc = "notstarted"
    /\ lock = "free"
    /\ heartbeatTimeout \in {HeartbeatTimeout(c) : c \in ConfigTimeouts}
    /\ startupArmed \in BOOLEAN
    /\ watchdogState = "DISARMED"
    /\ hbAge = MaxAge
    /\ running = FALSE
    /\ pin = "unset"
    /\ status = [armed |-> FALSE, reason |-> "none"]
    /\ timer = 0

-----------------------------------------------------------------------------
(* Helpers of the class *)

SetEstop(engaged) == pin' = IF engaged THEN "LOW" ELSE "HIGH"

PublishStatus(reason) ==
    status' = [armed |-> watchdogState' = "ARMED", reason |-> reason]

-----------------------------------------------------------------------------
(* The main thread *)

\* on_configure: the floor on the time-out, and the pin driven LOW from the
\* moment it becomes an output.
Configure ==
    /\ mainPc = "unconfigured"
    /\ mainPc' = "configured"
    /\ \E c \in ConfigTimeouts : heartbeatTimeout' = HeartbeatTimeout(c)
    /\ startupArmed' \in BOOLEAN
    /\ pin' = "LOW"
    /\ UNCHANGED <<pahoPc, watchdogPc, lock, watchdogState, hbAge, running,
                   status, timer>>

\* on_activate.  It takes no lock, but no other thread of the node exists yet.
Activate ==
    /\ mainPc = "configured"
    /\ mainPc' = "active"
    /\ IF startupArmed
       THEN /\ watchdogState' = "ARMED"
            /\ hbAge' = 0
            /\ SetEstop(FALSE)
            /\ PublishStatus("ok")
       ELSE /\ watchdogState' = "DISARMED"
            /\ SetEstop(TRUE)
            /\ PublishStatus("waiting_for_heartbeat")
            /\ UNCHANGED hbAge
    /\ running' = TRUE
    /\ watchdogPc' = "test"
    /\ timer' = 0
    /\ UNCHANGED <<pahoPc, lock, configVars>>

\* The MQTT bridge, registered after the safety node, connects: heartbeats can
\* arrive from now on.  Until then main sits in its connection retries.
MqttConnected ==
    /\ mainPc = "active"
    /\ mainPc' = "run"
    /\ UNCHANGED <<pahoPc, watchdogPc, lock, configVars, stateVars, timer>>

\* shutdown_all, after a signal or because a later node failed to start.  It
\* goes in reverse order, so the MQTT bridge has joined paho's threads first.
StopMqtt ==
    /\ mainPc \in {"active", "run"}
    /\ \A l \in Links : pahoPc[l] = "idle"
    /\ mainPc' = "stopping"
    /\ UNCHANGED <<pahoPc, watchdogPc, lock, configVars, stateVars, timer>>

\* Faulty variant: the flag the watchdog tests is not cleared.
ClearRunningForgotten ==
    /\ mainPc = "stopping"
    /\ mainPc' = "engage"
    /\ UNCHANGED <<pahoPc, watchdogPc, lock, configVars, stateVars, timer>>

\* on_shutdown, first statement.
ClearRunning ==
    /\ mainPc = "stopping"
    /\ mainPc' = "engage"
    /\ running' = FALSE
    /\ UNCHANGED <<pahoPc, watchdogPc, lock, configVars, watchdogState, hbAge,
                   pin, status, timer>>

\* on_shutdown, second statement: without the lock.
ShutdownEngage ==
    /\ mainPc = "engage"
    /\ mainPc' = "join"
    /\ SetEstop(TRUE)
    /\ UNCHANGED <<pahoPc, watchdogPc, lock, configVars, watchdogState, hbAge,
                   running, status, timer>>

\* on_shutdown, the rest: the 2 s join is longer than an iteration of the
\* watchdog, so it returns once that thread has left its loop; GPIO.cleanup
\* then turns the pin into an input.
JoinAndCleanup ==
    /\ mainPc = "join"
    /\ watchdogPc = "exited"
    /\ mainPc' = "done"
    /\ pin' = "INPUT"
    /\ UNCHANGED <<pahoPc, watchdogPc, lock, configVars, watchdogState, hbAge,
                   running, status, timer>>

-----------------------------------------------------------------------------
(* paho's network threads: _on_heartbeat *)

\* Faulty variant: any heartbeat arms, but only the first one moves the relay.
HeartbeatRefreshArms(l) ==
    /\ mainPc = "run"
    /\ pahoPc[l] = "idle"
    /\ lock = "free"
    /\ watchdogState # "DISARMED"
    /\ hbAge' = 0
    /\ watchdogState' = "ARMED"
    /\ UNCHANGED <<threadVars, configVars, running, pin, status, timer>>

\* A heartbeat when the node is not DISARMED only moves _last_heartbeat: the
\* critical section is that one assignment.
HeartbeatRefresh(l) ==
    /\ mainPc = "run"
    /\ pahoPc[l] = "idle"
    /\ lock = "free"
    /\ watchdogState # "DISARMED"
    /\ hbAge' = 0
    /\ UNCHANGED <<threadVars, configVars, watchdogState, running, pin, status,
                   timer>>

HeartbeatArm(l) ==
    /\ mainPc = "run"
    /\ pahoPc[l] = "idle"
    /\ lock = "free"
    /\ watchdogState = "DISARMED"
    /\ lock' = l
    /\ hbAge' = 0
    /\ watchdogState' = "ARMED"
    /\ pahoPc' = [pahoPc EXCEPT ![l] = "release"]
    /\ UNCHANGED <<mainPc, watchdogPc, configVars, running, pin, status, timer>>

HeartbeatRelease(l) ==
    /\ pahoPc[l] = "release"
    /\ SetEstop(FALSE)
    /\ pahoPc' = [pahoPc EXCEPT ![l] = "publish"]
    /\ UNCHANGED <<mainPc, watchdogPc, lock, configVars, watchdogState, hbAge,
                   running, status, timer>>

HeartbeatPublish(l) ==
    /\ pahoPc[l] = "publish"
    /\ UNCHANGED watchdogState
    /\ PublishStatus("ok")
    /\ lock' = "free"
    /\ pahoPc' = [pahoPc EXCEPT ![l] = "idle"]
    /\ UNCHANGED <<mainPc, watchdogPc, configVars, hbAge, running, pin, timer>>

-----------------------------------------------------------------------------
(* The watchdog thread: _watchdog_loop *)

WatchdogTest ==
    /\ watchdogPc = "test"
    /\ watchdogPc' = IF running THEN "acquire" ELSE "exited"
    /\ UNCHANGED <<mainPc, pahoPc, lock, configVars, stateVars, timer>>

Expired == watchdogState = "ARMED" /\ hbAge > heartbeatTimeout
\* Faulty variant: the node re-arms without looking at the age.
ResumedAnyAge == watchdogState = "ESTOP_ACTIVE"

Resumed == watchdogState = "ESTOP_ACTIVE" /\ hbAge <= heartbeatTimeout

\* Faulty variant: the time-out is published but the relay is not engaged.
WatchdogExpireNoRelay ==
    /\ watchdogPc = "acquire"
    /\ lock = "free"
    /\ Expired
    /\ lock' = "watchdog"
    /\ watchdogState' = "ESTOP_ACTIVE"
    /\ watchdogPc' = "publish"
    /\ UNCHANGED <<mainPc, pahoPc, configVars, hbAge, running, pin, status,
                   timer>>

\* The lock is taken and the age compared; what follows runs under the lock.
WatchdogExpire ==
    /\ watchdogPc = "acquire"
    /\ lock = "free"
    /\ Expired
    /\ lock' = "watchdog"
    /\ watchdogState' = "ESTOP_ACTIVE"
    /\ watchdogPc' = "engage"
    /\ UNCHANGED <<mainPc, pahoPc, configVars, hbAge, running, pin, status,
                   timer>>

WatchdogResume ==
    /\ watchdogPc = "acquire"
    /\ lock = "free"
    /\ Resumed
    /\ lock' = "watchdog"
    /\ watchdogState' = "ARMED"
    /\ watchdogPc' = "release"
    /\ UNCHANGED <<mainPc, pahoPc, configVars, hbAge, running, pin, status,
                   timer>>

\* Neither branch: the lock is given back at once.
WatchdogNothing ==
    /\ watchdogPc = "acquire"
    /\ lock = "free"
    /\ ~Expired /\ ~Resumed
    /\ watchdogPc' = "sleep"
    /\ timer' = Poll
    /\ UNCHANGED <<mainPc, pahoPc, lock, configVars, stateVars>>

WatchdogSetEstop ==
    /\ watchdogPc \in {"engage", "release"}
    /\ SetEstop(watchdogPc = "engage")
    /\ watchdogPc' = "publish"
    /\ UNCHANGED <<mainPc, pahoPc, lock, configVars, watchdogState, hbAge,
                   running, status, timer>>

WatchdogPublish ==
    /\ watchdogPc = "publish"
    /\ UNCHANGED watchdogState
    /\ PublishStatus(IF watchdogState = "ARMED" THEN "ok"
                                                ELSE "heartbeat_timeout")
    /\ lock' = "free"
    /\ watchdogPc' = "sleep"
    /\ timer' = Poll
    /\ UNCHANGED <<mainPc, pahoPc, configVars, hbAge, running, pin>>

WatchdogWake ==
    /\ watchdogPc = "sleep"
    /\ timer <= 0
    /\ watchdogPc' = "test"
    /\ UNCHANGED <<mainPc, pahoPc, lock, configVars, stateVars, timer>>

-----------------------------------------------------------------------------
(* Time *)

Looping == watchdogPc \notin {"notstarted", "exited"}

\* The statement after `self._running = False' follows at once, and so does
\* the clean-up after the join.
MainUrgent == \/ mainPc = "engage"
              \/ mainPc = "join" /\ watchdogPc = "exited"

Tick ==
    /\ mainPc # "done"
    /\ ~MainUrgent
    /\ Looping => timer > -Jitter
    /\ hbAge' = IF hbAge < MaxAge THEN hbAge + 1 ELSE MaxAge
    /\ timer' = IF Looping THEN timer - 1 ELSE timer
    /\ UNCHANGED <<threadVars, configVars, watchdogState, running, pin, status>>

-----------------------------------------------------------------------------
\* The process has ended; nothing runs any more.
Terminated == mainPc = "done" /\ UNCHANGED vars

MainNext == \/ Configure \/ Activate \/ MqttConnected \/ StopMqtt
            \/ ClearRunning \/ ShutdownEngage \/ JoinAndCleanup
PahoNext(l) == \/ HeartbeatRefresh(l) \/ HeartbeatArm(l)
               \/ HeartbeatRelease(l) \/ HeartbeatPublish(l)
WatchdogNext == \/ WatchdogTest \/ WatchdogExpire \/ WatchdogResume
                \/ WatchdogNothing \/ WatchdogSetEstop \/ WatchdogPublish
                \/ WatchdogWake

Next == \/ MainNext
        \/ \E l \in Links : PahoNext(l)
        \/ WatchdogNext
        \/ Tick
        \/ Terminated

Spec == Init /\ [][Next]_vars

\* The operating system runs every thread that can run; a lock held for a few
\* instructions a few times per second is eventually obtained (SF).  Nothing
\* makes a heartbeat arrive, a broker answer or a signal come.
Fairness ==
    /\ WF_vars(Configure \/ Activate)
    /\ WF_vars(ClearRunning \/ ShutdownEngage \/ JoinAndCleanup)
    /\ \A l \in Links : WF_vars(HeartbeatRelease(l) \/ HeartbeatPublish(l))
    /\ WF_vars(WatchdogTest \/ WatchdogSetEstop \/ WatchdogPublish
               \/ WatchdogWake)
    /\ SF_vars(WatchdogExpire \/ WatchdogResume \/ WatchdogNothing)
    /\ WF_vars(Tick)

FairSpec == Spec /\ Fairness

-----------------------------------------------------------------------------
(* Properties *)

\* watchdog_node.py:135-156.  However the three threads interleave, and through
\* start-up and shutdown, the relay is never left released once the last
\* heartbeat is older than the time-out plus one late iteration of the loop.
EstopWithinBound ==
    pin = "HIGH" => hbAge <= heartbeatTimeout + EngageBound

\* Outside the critical sections the relay, the state machine and the last
\* SafetyStatus the other nodes received say the same thing.
RelayFollowsState ==
    lock = "free" /\ mainPc \in {"active", "run", "stopping"} =>
        /\ (pin = "HIGH") <=> (watchdogState = "ARMED")
        /\ status.armed <=> (watchdogState = "ARMED")
        /\ status.armed <=> (status.reason = "ok")

\* watchdog_node.py:91-107, 119-156.  The node implements the abstract dead
\* man's switch: once on_activate has returned, the relay is released only by a
\* heartbeat that is recent when the pin moves.  on_activate itself releases it
\* with no heartbeat at all when safety.startup_armed is set, which README.md:117
\* ("motors are locked until the first heartbeat") does not say; with the
\* setting off, the default, no step before the first heartbeat releases it.
Started == mainPc \notin {"unconfigured", "configured"}

Switch == INSTANCE DeadManSwitch WITH
    Timeouts     <- {HeartbeatTimeout(c) : c \in ConfigTimeouts},
    ReleaseSlack <- Jitter,
    EngageSlack  <- EngageBound,
    released     <- pin = "HIGH",
    age          <- hbAge,
    timeout      <- heartbeatTimeout,
    selfArmed    <- startupArmed,
    started      <- Started

ImplementsDeadManSwitch == Switch!DmsSpec

\* watchdog_node.py:150-154.  A heartbeat that arrives after a time-out re-arms
\* the node, unless the process is being shut down.
RearmsOnHeartbeat ==
    (watchdogState = "ESTOP_ACTIVE" /\ hbAge = 0 /\ mainPc = "run")
        ~> (pin = "HIGH" \/ mainPc # "run")

\* watchdog_node.py:109-117.  Once begun, the shutdown ends: the join cannot
\* wait for ever on a watchdog that waits for the lock.
ShutdownCompletes == mainPc = "stopping" ~> mainPc = "done"
=============================================================================
