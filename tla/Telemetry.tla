------------------------------ MODULE Telemetry ------------------------------
(***************************************************************************)
(* telemetry/telemetry_node.py over the bridge of DualClient: the status   *)
(* that SafetyNode publishes on changes only is repeated in every payload, *)
(* sent over each link that is UP, and reaches the operator's console.     *)
(*                                                                         *)
(* Of a payload only "armed" is kept.  qos_telemetry is 1: paho keeps what *)
(* is not acknowledged and sends it again after a reconnection; with 0 it  *)
(* is lost.                                                                *)
(***************************************************************************)
EXTENDS DualClient

VARIABLES
    node,    \* where main is with the telemetry node
    at,      \* where its thread is in _publish_loop: "test" is the sleep too
    armed,   \* _safety.armed, which the callback from the bus keeps current
    held,    \* the payload assembled and not yet sent to every target, or None
    targets, \* the clients it is still to be handed to
    wire,    \* wire[s]: what client s has not had acknowledged, or None
    shown    \* what the console shows, at first from an earlier run

payloadVars == <<held, targets>>
nodeVars == <<node, at, armed, payloadVars>>
networkVars == <<wire, shown>>
dualVars == vars
allVars == <<dualVars, nodeVars, networkVars>>

PipelineTypeOK ==
    /\ TypeOK
    /\ node \in {"configured", "running", "joined"}
    /\ at \in {"none", "test", "publish", "send", "ended"}
    /\ armed \in BOOLEAN
    /\ held \in BOOLEAN \cup {None}
    /\ targets \subseteq Names
    /\ wire \in [Names -> BOOLEAN \cup {None}]
    /\ shown \in BOOLEAN

\* Every node is configured, and so subscribed, before SafetyNode publishes its
\* first status in on_activate.
PipelineInit ==
    /\ Init
    /\ node = "configured"
    /\ at = "none"
    /\ armed = FALSE
    /\ held = None
    /\ targets = {}
    /\ wire = [s \in Names |-> None]
    /\ shown \in BOOLEAN

-----------------------------------------------------------------------------
(* TelemetryNode *)

\* _on_safety: the watchdog or a heartbeat has changed the state.  What comes
\* before the thread runs is in the choice of Activate, and nobody reads what
\* comes later.
OnSafety ==
    /\ node = "running"
    /\ armed' = ~armed
    /\ UNCHANGED <<dualVars, node, at, payloadVars, networkVars>>

Activate ==
    /\ mainPc = "run"
    /\ node = "configured"
    /\ node' = "running"
    /\ at' = "test"
    /\ armed' \in BOOLEAN
    /\ UNCHANGED <<dualVars, payloadVars, networkVars>>

\* on_shutdown.  The join gives up after 2 s, wherever the thread is: in a sleep
\* of up to 10 s, or in a publication that takes longer.  Its loop ends without
\* another look at armed, which is dead from here on.
ClearAndJoin ==
    /\ node = "running"
    /\ node' = "joined"
    /\ armed' = FALSE
    /\ UNCHANGED <<dualVars, at, payloadVars, networkVars>>

\* while self._running; the latest values are copied under the lock.
Assemble ==
    /\ at = "test"
    /\ node = "running"
    /\ at' = "publish"
    /\ held' = armed
    /\ UNCHANGED <<dualVars, node, armed, targets, networkVars>>

LoopEnds ==
    /\ at = "test"
    /\ node # "running"
    /\ at' = "ended"
    /\ UNCHANGED <<dualVars, node, armed, payloadVars, networkVars>>

\* What is left of the publication under way.
Remaining(clients) ==
    /\ targets' = clients
    /\ IF clients = {} THEN at' = "test" /\ held' = None
                      ELSE at' = "send" /\ UNCHANGED held

\* The bus, _on_telemetry_outbound, and DualClient.publish as far as the choice
\* of the clients.
Publish ==
    /\ at = "publish"
    /\ Remaining(Targets)
    /\ UNCHANGED <<dualVars, node, armed, networkVars>>

\* c.publish of each of them in turn; by now it may be down, or stopped.  Bound:
\* one message per client in flight.  At the
\* bound a client that is not connected drops the message.
Send(s) ==
    /\ at = "send"
    /\ s \in targets
    /\ s = "vps" => "local" \notin targets
    /\ \/ wire[s] = None /\ wire' = [wire EXCEPT ![s] = held]
       \/ wire[s] # None /\ conn[s] # "up" /\ UNCHANGED wire
    /\ Remaining(targets \ {s})
    /\ UNCHANGED <<dualVars, node, armed, shown>>

-----------------------------------------------------------------------------
(* The network and the console *)

Arrives(s) ==
    /\ wire[s] # None
    /\ conn[s] = "up"
    /\ shown' = wire[s]
    /\ UNCHANGED <<dualVars, nodeVars>>

Deliver(s) == Arrives(s) /\ wire' = [wire EXCEPT ![s] = None]

\* The acknowledgement is lost: the message will come once more.
DeliverUnacked(s) == Arrives(s) /\ UNCHANGED wire

Lose(s) ==
    /\ wire[s] # None
    /\ conn[s] # "up"
    /\ wire' = [wire EXCEPT ![s] = None]
    /\ UNCHANGED <<dualVars, nodeVars, shown>>

-----------------------------------------------------------------------------
(* The bridge.  launcher.shutdown_all stops it after the telemetry node. *)

Starting == \/ Start \/ ConnectOk \/ ConnectFails \/ ConnectRaises
            \/ Subscribe \/ Activated

Stopping == (Shutdown /\ node \in {"configured", "joined"}) \/ StopClient \/ StopNotify

BridgeStep == /\ Starting \/ Stopping \/ \E s \in Names : PahoNext(s)
              /\ UNCHANGED <<nodeVars, networkVars>>

Loop == Assemble \/ LoopEnds \/ Publish \/ \E s \in Names : Send(s)

PipelineNext ==
    \/ BridgeStep \/ Loop
    \/ OnSafety \/ Activate \/ ClearAndJoin
    \/ \E s \in Names : Deliver(s) \/ DeliverUnacked(s) \/ Lose(s)
    \/ (Stopped /\ UNCHANGED <<nodeVars, networkVars>>)

\* The threads run; a client that is connected again and again gets its message
\* acknowledged in the end.
PipelineSpec ==
    /\ PipelineInit /\ [][PipelineNext]_allVars
    /\ WF_allVars((StopClient \/ StopNotify)
                  /\ UNCHANGED <<nodeVars, networkVars>>)
    /\ \A s \in Names :
           /\ WF_allVars(NotifyLink(s) /\ UNCHANGED <<nodeVars, networkVars>>)
           /\ SF_allVars(Deliver(s))
    /\ WF_allVars(Loop)

-----------------------------------------------------------------------------
(* Properties *)

\* telemetry_node.py:120-150 and dual_client.py:88-102.  A status that stays is
\* what the console shows in the end, and then for good, if one link stays up:
\* whatever the other link does, and although older payloads wait in it, are
\* repeated, or overtake newer ones.
ConsoleLearns ==
    \A a \in BOOLEAN, s \in Names :
        <>[](/\ node = "running" /\ armed = a
             /\ mode # "vps" /\ s \in Slots /\ conn[s] = "up")
            => <>[](shown = a)

\* telemetry_node.py:63-67 and dual_client.py:76-98.  Once stop() has ended the
\* console hears nothing more, although on_shutdown has given up on a thread in
\* the middle of a publication, which goes on into clients that it chose while
\* they were UP.
SilentOnceStopped == [][mainPc = "stopped" => UNCHANGED shown]_allVars
=============================================================================
