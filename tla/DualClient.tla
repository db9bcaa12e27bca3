------------------------------ MODULE DualClient ------------------------------
(***************************************************************************)
(* mqtt/dual_client.py and the lifecycle of mqtt/mqtt_bridge.py: up to two *)
(* paho clients run as one bridge.  A client sits in a slot, "local" or    *)
(* "vps"; it reports under the name of its endpoint.                       *)
(*                                                                         *)
(* Main runs start(), subscribe() and stop(); each client has a paho       *)
(* thread that connects, reconnects and calls back.  _update_link_state    *)
(* changes the snapshot under _lock and hands the copy to the bus after    *)
(* releasing it, in two steps.                                             *)
(***************************************************************************)
EXTENDS Sequences, Integers

CONSTANTS Modes,    \* which endpoints are configured: "dual", "local", "vps"
          Topics,   \* the inbound topics, in the order on_activate takes them
          Retries,  \* length of RECONNECT_BACKOFF
          None

VARIABLES
    mode,        \* what the configuration enables
    mainPc,      \* where main is in on_activate and on_shutdown
    slot,        \* the client start() or stop() is working on
    attempts,    \* failed attempts of _connect_with_retry
    topic,       \* index of the next topic to subscribe
    loop,        \* loop[s]: the paho thread of the client runs
    conn,        \* conn[s]: "none", "connecting" (no CONNACK yet) or "up"
    subscribed,  \* subscribed[s]: topics the broker has for the session
    dropped,     \* dropped[s]: the first connection of the client was lost
    snapshot,    \* self._snapshot, by endpoint name
    pending,     \* pending[t]: the copy thread t has yet to give to the bus
    view         \* the snapshot TelemetryNode holds

mainVars == <<mainPc, slot, attempts, topic>>
connVars == <<loop, conn, subscribed, dropped>>
linkVars == <<snapshot, pending, view>>
vars == <<mode, mainVars, connVars, linkVars>>

Names == {"local", "vps"}
Slots == IF mode = "dual" THEN Names ELSE {"local"}
Threads == Names \cup {"main"}
LinkStates == {"UP", "DOWN", "DEGRADED"}
Snapshots == [Names -> LinkStates]

ASSUME DualAssumption ==
    /\ Modes \subseteq {"dual", "local", "vps"}
    /\ Topics \in Seq(STRING)
    /\ Retries \in Nat
    /\ None \notin Snapshots

AllDown == [n \in Names |-> "DOWN"]

TypeOK ==
    /\ mode \in Modes
    /\ mainPc \in {"new", "connect", "subscribe", "run", "stop", "notify",
                   "stopped"}
    /\ slot \in Names
    /\ attempts \in 0..Retries
    /\ topic \in 1..(Len(Topics) + 1)
    /\ loop \in [Names -> BOOLEAN]
    /\ conn \in [Names -> {"none", "connecting", "up"}]
    /\ subscribed \in [Names -> SUBSET {Topics[i] : i \in DOMAIN Topics}]
    /\ dropped \in [Names -> BOOLEAN]
    /\ snapshot \in Snapshots
    /\ pending \in [Threads -> Snapshots \cup {None}]
    /\ view \in Snapshots

Init ==
    /\ mode \in Modes
    /\ mainPc = "new"
    /\ slot = "local"
    /\ attempts = 0
    /\ topic = 1
    /\ loop = [n \in Names |-> FALSE]
    /\ conn = [n \in Names |-> "none"]
    /\ subscribed = [n \in Names |-> {}]
    /\ dropped = [n \in Names |-> FALSE]
    /\ snapshot = AllDown
    /\ pending = [t \in Threads |-> None]
    /\ view = AllDown

-----------------------------------------------------------------------------
\* on_configure: a lone VPS endpoint is promoted to the local slot, under its
\* own name.
EndpointName(s) == IF mode = "vps" THEN "vps" ELSE s

\* Faulty variant: the copy is taken before the change.
UpdateLinkStateCopiedFirst(thread, s, state) ==
    /\ snapshot' = [snapshot EXCEPT ![EndpointName(s)] = state]
    /\ pending' = [pending EXCEPT ![thread] = snapshot]

\* _update_link_state, up to the release of the lock.
UpdateLinkState(thread, s, state) ==
    /\ snapshot' = [snapshot EXCEPT ![EndpointName(s)] = state]
    /\ pending' = [pending EXCEPT ![thread] = snapshot']

\* The rest of it: _on_link_change, the bus, TelemetryNode._on_link_state.
Notify(thread) ==
    /\ pending[thread] # None
    /\ view' = pending[thread]
    /\ pending' = [pending EXCEPT ![thread] = None]

-----------------------------------------------------------------------------
(* The main thread: on_activate *)

Start ==
    /\ mainPc = "new"
    /\ mainPc' = "connect"
    /\ UNCHANGED <<mode, slot, attempts, topic, connVars, linkVars>>

\* connect() has sent CONNECT; loop_start() follows.
ConnectOk ==
    /\ mainPc = "connect"
    /\ conn' = [conn EXCEPT ![slot] = "connecting"]
    /\ loop' = [loop EXCEPT ![slot] = TRUE]
    /\ attempts' = 0
    /\ IF slot = "local" /\ "vps" \in Slots
       THEN slot' = "vps" /\ UNCHANGED mainPc
       ELSE mainPc' = "subscribe" /\ UNCHANGED slot
    /\ UNCHANGED <<mode, topic, subscribed, dropped, linkVars>>

ConnectFails ==
    /\ mainPc = "connect"
    /\ attempts < Retries
    /\ attempts' = attempts + 1
    /\ UNCHANGED <<mode, mainPc, slot, topic, connVars, linkVars>>

\* The attempt after the last back-off raises out of on_activate, and main's
\* start_all handler shuts every node down.
ConnectRaises ==
    /\ mainPc = "connect"
    /\ attempts = Retries
    /\ mainPc' = "stop"
    /\ slot' = "local"
    /\ UNCHANGED <<mode, attempts, topic, connVars, linkVars>>

\* Faulty variant: the local client only.
SubscribeLocal ==
    /\ mainPc = "subscribe"
    /\ topic <= Len(Topics)
    /\ subscribed' = [subscribed EXCEPT !["local"] =
                         IF conn["local"] # "none" THEN @ \cup {Topics[topic]}
                                                   ELSE @]
    /\ topic' = topic + 1
    /\ UNCHANGED <<mode, mainPc, slot, attempts, loop, conn, dropped,
                   linkVars>>

\* One client.subscribe per client; paho drops it when there is no socket.
Subscribe ==
    /\ mainPc = "subscribe"
    /\ topic <= Len(Topics)
    /\ subscribed' = [s \in Names |->
                         IF s \in Slots /\ conn[s] # "none"
                         THEN subscribed[s] \cup {Topics[topic]}
                         ELSE subscribed[s]]
    /\ topic' = topic + 1
    /\ UNCHANGED <<mode, mainPc, slot, attempts, loop, conn, dropped,
                   linkVars>>

Activated ==
    /\ mainPc = "subscribe"
    /\ topic > Len(Topics)
    /\ mainPc' = "run"
    /\ UNCHANGED <<mode, slot, attempts, topic, connVars, linkVars>>

-----------------------------------------------------------------------------
(* The main thread: on_shutdown *)

Shutdown ==
    /\ mainPc = "run"
    /\ mainPc' = "stop"
    /\ slot' = "local"
    /\ UNCHANGED <<mode, attempts, topic, connVars, linkVars>>

NextStop == IF slot = "local" /\ "vps" \in Slots
            THEN slot' = "vps" /\ mainPc' = "stop"
            ELSE mainPc' = "stopped" /\ UNCHANGED slot

\* Faulty variant: disconnect() without loop_stop().
StopClientLeavesThread ==
    /\ mainPc = "stop"
    /\ conn' = [conn EXCEPT ![slot] = "none"]
    /\ subscribed' = [subscribed EXCEPT ![slot] = {}]
    /\ NextStop
    /\ UNCHANGED <<mode, attempts, topic, loop, dropped, linkVars>>

\* loop_stop() tells the paho thread to end and joins it; disconnect() then calls
\* on_disconnect in this thread if there is a connection.
StopClient ==
    /\ mainPc = "stop"
    /\ pending[slot] = None
    /\ loop' = [loop EXCEPT ![slot] = FALSE]
    /\ conn' = [conn EXCEPT ![slot] = "none"]
    /\ subscribed' = [subscribed EXCEPT ![slot] = {}]
    /\ IF conn[slot] = "none"
       THEN NextStop /\ UNCHANGED linkVars
       ELSE /\ mainPc' = "notify"
            /\ UpdateLinkState("main", slot, "DOWN")
            /\ UNCHANGED <<slot, view>>
    /\ UNCHANGED <<mode, attempts, topic, dropped>>

StopNotify ==
    /\ mainPc = "notify"
    /\ Notify("main")
    /\ NextStop
    /\ UNCHANGED <<mode, attempts, topic, connVars, snapshot>>

-----------------------------------------------------------------------------
(* The paho thread of client s *)

\* It takes no new event once loop_stop() has told it to end.
Serving(s) == /\ s \in Slots
              /\ loop[s]
              /\ pending[s] = None
              /\ ~(mainPc = "stop" /\ slot = s)

\* Faulty variant: a link that was lost stays DEGRADED after a reconnection.
OnConnectFirst(s) ==
    /\ Serving(s)
    /\ conn[s] = "connecting"
    /\ conn' = [conn EXCEPT ![s] = "up"]
    /\ UpdateLinkState(s, s, IF dropped[s] THEN "DEGRADED" ELSE "UP")
    /\ UNCHANGED <<mode, mainVars, loop, subscribed, dropped, view>>

\* CONNACK with rc 0: on_connect.  Nothing is subscribed here.
OnConnect(s) ==
    /\ Serving(s)
    /\ conn[s] = "connecting"
    /\ conn' = [conn EXCEPT ![s] = "up"]
    /\ UpdateLinkState(s, s, "UP")
    /\ UNCHANGED <<mode, mainVars, loop, subscribed, dropped, view>>

\* CONNACK with an error, or a lost connection: on_connect or on_disconnect
\* with a failure code.  The session is clean, so the broker forgets it.
OnDisconnect(s) ==
    /\ Serving(s)
    /\ conn[s] # "none"
    /\ conn' = [conn EXCEPT ![s] = "none"]
    /\ subscribed' = [subscribed EXCEPT ![s] = {}]
    /\ dropped' = [dropped EXCEPT ![s] = TRUE]
    /\ UpdateLinkState(s, s, "DEGRADED")
    /\ UNCHANGED <<mode, mainVars, loop, view>>

\* paho's loop reconnects by itself.
Reconnect(s) ==
    /\ Serving(s)
    /\ conn[s] = "none"
    /\ conn' = [conn EXCEPT ![s] = "connecting"]
    /\ UNCHANGED <<mode, mainVars, loop, subscribed, dropped, linkVars>>

NotifyLink(s) ==
    /\ s \in Slots
    /\ Notify(s)
    /\ UNCHANGED <<mode, mainVars, connVars, snapshot>>

-----------------------------------------------------------------------------
\* publish(): the clients an outbound message is handed to.
Targets == {s \in Slots : snapshot[s] = "UP"}

Stopped == mainPc = "stopped" /\ UNCHANGED vars

MainNext == \/ Start \/ ConnectOk \/ ConnectFails \/ ConnectRaises
            \/ Subscribe \/ Activated \/ Shutdown \/ StopClient \/ StopNotify
PahoNext(s) == OnConnect(s) \/ OnDisconnect(s) \/ Reconnect(s) \/ NotifyLink(s)

Next == MainNext \/ (\E s \in Names : PahoNext(s)) \/ Stopped

Spec == Init /\ [][Next]_vars

-----------------------------------------------------------------------------
(* Properties *)

Quiet == \A t \in Threads : pending[t] = None

\* dual_client.py:192-200 and telemetry_node.py:85.  With one client, once no
\* callback is under way, telemetry shows the state of the link.
OneLinkViewCurrent == mode # "dual" /\ Quiet => view = snapshot

\* mqtt_bridge.py:121-128.  A client whose first connection is still up has
\* every inbound topic once the bridge is active.
SubscribedUnlessDropped ==
    mainPc = "run" =>
        \A s \in Slots : \/ dropped[s]
                         \/ \A i \in DOMAIN Topics : Topics[i] \in subscribed[s]

\* dual_client.py:76-86.  stop() ends although it joins the paho threads, and
\* then no thread is left to call back and no link is reported UP.
StopEnds ==
    mainPc = "stop"
        ~> (/\ mainPc = "stopped" /\ Quiet
            /\ \A s \in Names : ~loop[s] /\ snapshot[s] # "UP")

\* mqtt_bridge.py:121, "Subscribe to all inbound topics on every active link."
ActiveLinksSubscribed ==
    mainPc = "run" =>
        \A s \in Slots : conn[s] = "up" =>
            \A i \in DOMAIN Topics : Topics[i] \in subscribed[s]
=============================================================================
