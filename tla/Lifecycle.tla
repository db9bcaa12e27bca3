------------------------------ MODULE Lifecycle ------------------------------
(***************************************************************************)
(* main.py, core/launcher.py and core/node.py: one process that configures *)
(* and activates its nodes in order, waits for a signal and shuts them     *)
(* down in reverse, under systemd (ugv.service, Restart=always).           *)
(*                                                                         *)
(* Of the nodes only what the order matters for is kept: the safety node   *)
(* drives the relay pin, and the MQTT node brings heartbeats, the first    *)
(* possibly before its on_activate returns.  GPIO.cleanup makes the pin an *)
(* input, which nobody drives.  A killed process leaves the pin at the     *)
(* level it had.                                                           *)
(***************************************************************************)
EXTENDS Sequences, Integers

CONSTANTS Nodes,            \* in the order main registers them
          RaisesOnStart,    \* nodes whose on_configure or on_activate may raise
          RaisesOnShutdown, \* nodes whose on_shutdown may raise
          StartupArmed,     \* safety.startup_armed
          MaxCrashes        \* bound: crashes of the process in a behaviour

ASSUME LifecycleAssumption ==
    /\ Nodes \in Seq(STRING) /\ Nodes # <<>>
    /\ Nodes[1] = "safety"
    /\ \A i, j \in DOMAIN Nodes : Nodes[i] = Nodes[j] => i = j
    /\ StartupArmed \in BOOLEAN
    /\ MaxCrashes \in Nat

VARIABLES
    pc,         \* "configure", "activate", "wait", "shutdown", "exited", "dead"
    next,       \* index of the node the launcher turns to
    nodeState,  \* BaseNode.state of each node
    inCall,     \* a node's on_activate is under way
    handlers,   \* the signal handlers of main are installed
    stopEvent,  \* stop_event is set
    unitStop,   \* systemd was asked to stop the unit: it restarts nothing
    relay,      \* the pin: "engaged" (LOW), "released" (HIGH) or an "input"
    crashes,
    failures    \* history: nodes whose on_shutdown raised in this process

process == <<pc, next, nodeState, inCall, handlers, stopEvent>>
vars == <<process, unitStop, relay, crashes, failures>>

Names == {Nodes[i] : i \in DOMAIN Nodes}

TypeOK ==
    /\ pc \in {"configure", "activate", "wait", "shutdown", "exited", "dead"}
    /\ next \in 0..(IF pc = "shutdown" THEN Len(Nodes) ELSE Len(Nodes) + 1)
    /\ nodeState \in [Names -> {"CREATED", "CONFIGURED", "ACTIVE", "SHUTDOWN"}]
    /\ inCall \in BOOLEAN
    /\ handlers \in BOOLEAN
    /\ stopEvent \in BOOLEAN
    /\ unitStop \in BOOLEAN
    /\ relay \in {"engaged", "released", "input"}
    /\ crashes \in 0..MaxCrashes
    /\ failures \subseteq Names

\* A fresh process, after a boot.
Init ==
    /\ pc = "configure"
    /\ next = 1
    /\ nodeState = [n \in Names |-> "CREATED"]
    /\ inCall = FALSE
    /\ handlers = FALSE
    /\ stopEvent = FALSE
    /\ failures = {}
    /\ unitStop = FALSE
    /\ relay = "input"
    /\ crashes = 0

-----------------------------------------------------------------------------
(* Launcher.start_all *)

Alive == pc \notin {"exited", "dead"}

\* Faulty variant: GPIO.setup without initial.
ConfigureKeepsLevel ==
    /\ pc = "configure"
    /\ next <= Len(Nodes)
    /\ nodeState' = [nodeState EXCEPT ![Nodes[next]] = "CONFIGURED"]
    /\ next' = next + 1
    /\ UNCHANGED <<pc, inCall, handlers, stopEvent, unitStop, relay, crashes,
                   failures>>

\* SafetyNode.on_configure sets the pin up LOW.
Configure ==
    /\ pc = "configure"
    /\ next <= Len(Nodes)
    /\ nodeState' = [nodeState EXCEPT ![Nodes[next]] = "CONFIGURED"]
    /\ relay' = IF Nodes[next] = "safety" THEN "engaged" ELSE relay
    /\ next' = next + 1
    /\ UNCHANGED <<pc, inCall, handlers, stopEvent, unitStop, crashes, failures>>

AllConfigured ==
    /\ pc = "configure"
    /\ next > Len(Nodes)
    /\ pc' = "activate"
    /\ next' = 1
    /\ UNCHANGED <<nodeState, inCall, handlers, stopEvent, unitStop, relay,
                   crashes, failures>>

\* on_activate takes time: MqttBridgeNode may retry for half a minute.
ActivateBegins ==
    /\ pc = "activate"
    /\ ~inCall
    /\ next <= Len(Nodes)
    /\ inCall' = TRUE
    /\ UNCHANGED <<pc, next, nodeState, handlers, stopEvent, unitStop, relay,
                   crashes, failures>>

\* SafetyNode.on_activate engages or, armed on start-up, releases the relay.
ActivateLevel == IF StartupArmed THEN "released" ELSE "engaged"

ActivateEnds ==
    /\ pc = "activate"
    /\ inCall
    /\ nodeState' = [nodeState EXCEPT ![Nodes[next]] = "ACTIVE"]
    /\ next' = next + 1
    /\ inCall' = FALSE
    /\ relay' = IF Nodes[next] = "safety" THEN ActivateLevel ELSE relay
    /\ UNCHANGED <<pc, handlers, stopEvent, unitStop, crashes, failures>>

\* main goes on to signal.signal; until then a signal has its default effect.
AllActive ==
    /\ pc = "activate"
    /\ next > Len(Nodes)
    /\ pc' = "wait"
    /\ handlers' = TRUE
    /\ UNCHANGED <<next, nodeState, inCall, stopEvent, unitStop, relay, crashes,
                   failures>>

\* Faulty variant: only the nodes before the one that raised are shut down.
StartRaisesPrevious ==
    /\ \/ pc = "configure" /\ next <= Len(Nodes)
       \/ pc = "activate" /\ inCall
    /\ Nodes[next] \in RaisesOnStart
    /\ pc' = "shutdown"
    /\ next' = next - 1
    /\ inCall' = FALSE
    /\ UNCHANGED <<nodeState, handlers, stopEvent, unitStop, relay, crashes,
                   failures>>

\* An exception out of start_all: main calls shutdown_all.  The pin may raise
\* before it is set up; the thread of the watchdog may not start after it is set.
StartRaises ==
    /\ \/ pc = "configure" /\ next <= Len(Nodes)
       \/ pc = "activate" /\ inCall
    /\ Nodes[next] \in RaisesOnStart
    /\ pc' = "shutdown"
    /\ next' = Len(Nodes)
    /\ inCall' = FALSE
    /\ \/ UNCHANGED relay
       \/ inCall /\ Nodes[next] = "safety" /\ relay' = ActivateLevel
    /\ UNCHANGED <<nodeState, handlers, stopEvent, unitStop, crashes, failures>>

-----------------------------------------------------------------------------
(* main after start_all, and Launcher.shutdown_all *)

Woken ==
    /\ pc = "wait"
    /\ stopEvent
    /\ pc' = "shutdown"
    /\ next' = Len(Nodes)
    /\ UNCHANGED <<nodeState, inCall, handlers, stopEvent, unitStop, relay,
                   crashes, failures>>

\* Faulty variant: in registration order.
ShutdownNodeForward ==
    /\ pc = "shutdown"
    /\ next >= 1
    /\ LET n == Nodes[Len(Nodes) + 1 - next]
       IN  /\ nodeState' = [nodeState EXCEPT ![n] = "SHUTDOWN"]
           /\ relay' = IF n = "safety" THEN "input" ELSE relay
    /\ next' = next - 1
    /\ UNCHANGED <<pc, inCall, handlers, stopEvent, unitStop, crashes, failures>>

\* BaseNode.shutdown of the next node.  SafetyNode engages the relay, joins its
\* thread and gives the pin back; it cannot if the pin was never set up.
ShutdownNode ==
    /\ pc = "shutdown"
    /\ next >= 1
    /\ Nodes[next] # "safety" \/ nodeState["safety"] # "CREATED"
    /\ nodeState' = [nodeState EXCEPT ![Nodes[next]] = "SHUTDOWN"]
    /\ relay' = IF Nodes[next] = "safety" THEN "input" ELSE relay
    /\ next' = next - 1
    /\ UNCHANGED <<pc, inCall, handlers, stopEvent, unitStop, crashes, failures>>

\* GPIO.output raises on a pin that was never set up.
MayRaiseOnShutdown ==
    \/ Nodes[next] \in RaisesOnShutdown
    \/ Nodes[next] = "safety" /\ nodeState["safety"] = "CREATED"

\* Faulty variant: shutdown_all continues at the given node.
ShutdownRaisesTo(from) ==
    /\ pc = "shutdown"
    /\ next >= 1
    /\ MayRaiseOnShutdown
    /\ failures' = failures \cup {Nodes[next]}
    /\ next' = from
    /\ UNCHANGED <<pc, nodeState, inCall, handlers, stopEvent, unitStop, relay,
                   crashes>>

\* The exception ends the loop; the loop starts over.
ShutdownRaisesOut == ShutdownRaisesTo(0)
ShutdownRaisesAgain == ShutdownRaisesTo(Len(Nodes))

\* on_shutdown raises; shutdown_all logs it and takes the next node.  That of
\* SafetyNode raises before the relay is engaged, or after it.
ShutdownRaises ==
    /\ pc = "shutdown"
    /\ next >= 1
    /\ MayRaiseOnShutdown
    /\ failures' = failures \cup {Nodes[next]}
    /\ next' = next - 1
    /\ \/ UNCHANGED relay
       \/ Nodes[next] = "safety" /\ relay' = "engaged"
    /\ UNCHANGED <<pc, nodeState, inCall, handlers, stopEvent, unitStop, crashes>>

Exit ==
    /\ pc = "shutdown"
    /\ next = 0
    /\ pc' = "exited"
    /\ UNCHANGED <<next, nodeState, inCall, handlers, stopEvent, unitStop, relay,
                   crashes, failures>>

-----------------------------------------------------------------------------
(* What the nodes' threads do to the relay meanwhile *)

\* A client of DualClient is subscribed: from within on_activate to on_shutdown.
MqttRuns ==
    /\ Alive
    /\ \/ nodeState["mqtt"] = "ACTIVE"
       \/ inCall /\ Nodes[next] = "mqtt"

\* A heartbeat arms the safety node, which has listened since on_configure and
\* gives the pin back in on_shutdown.
Armed ==
    /\ nodeState["safety"] \in {"CONFIGURED", "ACTIVE"}
    /\ MqttRuns
    /\ relay' = "released"
    /\ UNCHANGED <<process, unitStop, crashes, failures>>

\* The watchdog runs into its time-out.
TimesOut ==
    /\ Alive
    /\ nodeState["safety"] = "ACTIVE"
    /\ relay' = "engaged"
    /\ UNCHANGED <<process, unitStop, crashes, failures>>

-----------------------------------------------------------------------------
(* Signals, crashes and systemd *)

\* systemctl stop, or a shutdown of the machine: SIGTERM.  Without handlers
\* Python does not get to run anything: neither except nor finally.
Terminate ==
    /\ ~unitStop
    /\ Alive
    /\ unitStop' = TRUE
    /\ IF handlers
       THEN stopEvent' = TRUE /\ UNCHANGED pc
       ELSE pc' = "dead" /\ UNCHANGED stopEvent
    /\ UNCHANGED <<next, nodeState, inCall, handlers, relay, crashes, failures>>

\* Killed, out of memory (MemoryMax), or a fault.
Crash ==
    /\ Alive
    /\ crashes < MaxCrashes
    /\ crashes' = crashes + 1
    /\ pc' = "dead"
    /\ UNCHANGED <<next, nodeState, inCall, handlers, stopEvent, unitStop, relay,
                   failures>>

Restart ==
    /\ ~Alive
    /\ ~unitStop
    /\ pc' = "configure"
    /\ next' = 1
    /\ nodeState' = [n \in Names |-> "CREATED"]
    /\ inCall' = FALSE
    /\ handlers' = FALSE
    /\ stopEvent' = FALSE
    /\ failures' = {}
    /\ UNCHANGED <<unitStop, relay, crashes>>

Stopped == ~Alive /\ unitStop /\ UNCHANGED vars

-----------------------------------------------------------------------------
Main == \/ Configure \/ AllConfigured \/ ActivateBegins \/ ActivateEnds
        \/ AllActive \/ StartRaises \/ Woken \/ ShutdownNode \/ ShutdownRaises
        \/ Exit

Next == Main \/ Armed \/ TimesOut \/ Terminate \/ Crash \/ Restart \/ Stopped

Spec == Init /\ [][Next]_vars

\* Main runs, systemd restarts the unit after RestartSec, and GPIO.setup does not
\* raise in every process.
FairSpec == Spec /\ WF_vars(Main) /\ WF_vars(Restart) /\ SF_vars(Configure)

-----------------------------------------------------------------------------
(* Properties *)

\* main.py:65-71 and :85-92.  A process that ends by itself leaves no node that
\* was created but not shut down, except one whose own on_shutdown raised.
NothingLeftRunning ==
    pc = "exited" =>
        \A n \in Names : nodeState[n] = "SHUTDOWN" \/ n \in failures

Up(n) == nodeState[n] \in {"CONFIGURED", "ACTIVE"}

\* main.py:57, "First to start, last to stop".  The relay's node is up before
\* and down after every node that could need it, failures included.
SafetyOutlivesOthers ==
    \A n \in Names : Up(n) /\ n \notin failures => Up("safety")

\* watchdog_node.py:109-117 and core/launcher.py:33-40.  A process that ends by
\* itself does not leave the relay released, although nodes raise and heartbeats
\* arrive until the end, except when on_shutdown of the safety node itself
\* raised.  README.md:118 makes no exception, and says "engages": for the last
\* moment of the process, since the pin it leaves is an input.
NeverExitsReleased == pc = "exited" => relay # "released" \/ "safety" \in failures

\* A stop that finds the handlers in place runs the whole shutdown, unless the
\* process is killed meanwhile.
StopCompletes == stopEvent ~> pc \in {"exited", "dead"}

\* ugv.service:17, "if the process is killed, systemd restarts it".  Whatever was
\* killed, a start engages the relay in the end, unless the unit is stopped: then
\* nothing does.  Until then the pin keeps its level, though README.md:115 has it
\* "if the Pi loses power or crashes, GPIO goes LOW and the E-stop engages".
CrashRecovers == (pc = "dead" /\ ~unitStop) ~> (relay = "engaged" \/ unitStop)

\* README.md:118, "On shutdown, the E-stop always engages".
StopEngages == (~Alive /\ unitStop /\ crashes = 0) => relay # "released"
=============================================================================
