------------------------------- MODULE Monitor -------------------------------
(***************************************************************************)
(* monitor.py: one or two MQTT clients, each with a paho thread, push what *)
(* they hear into one bounded queue per browser; a handler thread per      *)
(* browser writes its queue to the event stream.                           *)
(*                                                                         *)
(* A callback is cut where it gives up a lock: it changes _state under     *)
(* _state_lock, and then _push goes to the queues under _sse_lock.         *)
(***************************************************************************)
EXTENDS Sequences, Naturals

CONSTANTS Browsers,
          QueueSize,  \* maxsize of a browser's queue: 64
          MaxRx,      \* bound: messages received in a behaviour
          MaxPings    \* bound: pings received in a behaviour

ASSUME MonitorAssumption ==
    /\ QueueSize \in Nat \ {0}
    /\ MaxRx \in Nat /\ MaxPings \in Nat

Clients == {"main", "rcs"}

VARIABLES
    clients,     \* "main", and "rcs" if its password is configured
    link,        \* link[c]: client c and the broker: "up", "refused" or "down"
    thread,      \* thread[c]: "idle", "push", "prune", "torn" or "dead"
    event,       \* event[c]: the event thread c is about to push
    connected,   \* _state["connected"]
    rxCount,     \* _state["rx_count"]
    pings,       \* _ping_times: the seqs of the pings not yet answered
    pinged,      \* pings received so far
    handler,     \* handler[b]: "none", "new" or "stream"
    registered,  \* the browsers whose queue is in _sse_queues
    queue,       \* queue[b]
    status       \* status[b]: the connection the browser displays, or "blank"

clientVars ==
    <<clients, link, thread, event, connected, rxCount, pings, pinged>>
browserVars == <<handler, registered, queue, status>>
monitorVars == <<clientVars, browserVars>>

\* What a browser displays.
Shown(ok) == IF ok THEN "connected" ELSE "offline"
Status(ok) == [type |-> "status", shown |-> Shown(ok)]
\* Joystick commands, telemetry and latencies: no status of theirs is displayed.
Other == [type |-> "other"]
Events == {Status(ok) : ok \in BOOLEAN} \cup {Other}

MonitorTypeOK ==
    /\ clients \in {{"main"}, Clients}
    /\ link \in [Clients -> {"up", "refused", "down"}]
    /\ thread \in [Clients -> {"idle", "push", "prune", "torn", "dead"}]
    /\ event \in [Clients -> Events]
    /\ connected \in BOOLEAN
    /\ rxCount \in 0..MaxRx
    /\ pings \subseteq 1..MaxPings
    /\ pinged \in 0..MaxPings
    /\ handler \in [Browsers -> {"none", "new", "stream"}]
    /\ registered \subseteq Browsers
    /\ queue \in [Browsers -> Seq(Events)]
    /\ \A b \in Browsers : Len(queue[b]) <= QueueSize
    /\ status \in [Browsers -> {"connected", "offline", "blank"}]

MonitorInit ==
    /\ clients \in {{"main"}, Clients}
    /\ link = [c \in Clients |-> "down"]
    /\ thread = [c \in Clients |-> "idle"]
    /\ event = [c \in Clients |-> Other]
    /\ connected = FALSE
    /\ rxCount = 0
    /\ pings = {}
    /\ pinged = 0
    /\ handler = [b \in Browsers |-> "none"]
    /\ registered = {}
    /\ queue = [b \in Browsers |-> <<>>]
    /\ status = [b \in Browsers |-> "blank"]

-----------------------------------------------------------------------------
(* The paho threads *)

WillPush(c, e) ==
    /\ thread' = [thread EXCEPT ![c] = "push"]
    /\ event' = [event EXCEPT ![c] = e]

\* _on_connect, and _on_connect_rcs, which tells nobody.  The broker may refuse.
Connect(c) ==
    /\ c \in clients
    /\ thread[c] = "idle"
    /\ link[c] = "down"
    /\ \E ok \in BOOLEAN :
          /\ link' = [link EXCEPT ![c] = IF ok THEN "up" ELSE "refused"]
          /\ IF c = "main"
             THEN connected' = ok /\ WillPush(c, Status(ok))
             ELSE UNCHANGED <<connected, thread, event>>
    /\ UNCHANGED <<clients, rxCount, pings, pinged, browserVars>>

\* _on_disconnect is the callback of both clients; paho calls it after a refusal
\* as well.
Disconnect(c) ==
    /\ thread[c] = "idle"
    /\ link[c] # "down"
    /\ link' = [link EXCEPT ![c] = "down"]
    /\ connected' = FALSE
    /\ WillPush(c, Status(FALSE))
    /\ UNCHANGED <<clients, rxCount, pings, pinged, browserVars>>

\* _on_message counts every message that is JSON, whatever it is, and no other.
Receives(c) ==
    /\ thread[c] = "idle"
    /\ link[c] = "up"
    /\ rxCount < MaxRx
    /\ rxCount' = rxCount + 1

OnJoystick ==
    /\ Receives("main")
    /\ WillPush("main", Other)
    /\ UNCHANGED <<clients, link, connected, pings, pinged, browserVars>>

OnTelemetry ==
    /\ Receives("rcs")
    /\ WillPush("rcs", Other)
    /\ UNCHANGED <<clients, link, connected, pings, pinged, browserVars>>

\* A ping or pong without a seq is counted and logged, a message on another
\* topic counted.  One that is no object, or whose seq is null, raises TypeError,
\* which _on_message does not catch: paho raises it again and the thread ends,
\* and nobody is told.
OnMalformed(c) ==
    /\ Receives(c)
    /\ thread' \in {thread, [thread EXCEPT ![c] = "dead"]}
    /\ UNCHANGED <<clients, link, event, connected, pings, pinged, browserVars>>

\* The ping is recorded, and the thread goes over _ping_times without a lock.
OnPing ==
    /\ Receives("main")
    /\ pinged < MaxPings
    /\ pinged' = pinged + 1
    /\ pings' = pings \cup {pinged'}
    /\ thread' = [thread EXCEPT !["main"] = "prune"]
    /\ UNCHANGED <<clients, link, event, connected, browserVars>>

\* Entries older than 10 s go.
PruneEnds ==
    /\ thread["main"] = "prune"
    /\ \E stale \in SUBSET pings : pings' = pings \ stale
    /\ thread' = [thread EXCEPT !["main"] = "idle"]
    /\ UNCHANGED <<clients, link, event, connected, rxCount, pinged,
                   browserVars>>

\* The dictionary changed under the iteration: RuntimeError ends the thread, too.
PruneRaises ==
    /\ thread["main"] = "torn"
    /\ thread' = [thread EXCEPT !["main"] = "dead"]
    /\ UNCHANGED <<clients, link, event, connected, rxCount, pings, pinged,
                   browserVars>>

\* A pong answers a ping that is recorded, or one that is not.
OnPong ==
    /\ Receives("rcs")
    /\ \/ \E p \in pings :
             /\ pings' = pings \ {p}
             /\ event' = [event EXCEPT !["rcs"] = Other]
             /\ thread' = [c \in Clients |->
                              IF c = "rcs" THEN "push"
                              ELSE IF thread[c] = "prune" THEN "torn" ELSE thread[c]]
       \/ UNCHANGED <<pings, event, thread>>
    /\ UNCHANGED <<clients, link, connected, pinged, browserVars>>

\* Faulty variant: a full queue misses the event but stays in the list.
PushSkipsFull(c) ==
    /\ thread[c] = "push"
    /\ thread' = [thread EXCEPT ![c] = "idle"]
    /\ queue' = [b \in Browsers |->
                    IF b \in registered /\ Len(queue[b]) < QueueSize
                    THEN Append(queue[b], event[c]) ELSE queue[b]]
    /\ UNCHANGED registered
    /\ UNCHANGED <<clients, link, event, connected, rxCount, pings, pinged,
                   handler, status>>

\* _push: a queue that is full is dropped from the list.
Push(c) ==
    /\ thread[c] = "push"
    /\ thread' = [thread EXCEPT ![c] = "idle"]
    /\ LET full == {b \in registered : Len(queue[b]) = QueueSize}
       IN  /\ registered' = registered \ full
           /\ queue' = [b \in Browsers |-> IF b \in registered'
                                           THEN Append(queue[b], event[c])
                                           ELSE queue[b]]
    /\ UNCHANGED <<clients, link, event, connected, rxCount, pings, pinged,
                   handler, status>>

-----------------------------------------------------------------------------
(* do_GET for /events, of browser b *)

Register(b) ==
    /\ handler[b] = "none"
    /\ handler' = [handler EXCEPT ![b] = "new"]
    /\ registered' = registered \cup {b}
    /\ queue' = [queue EXCEPT ![b] = <<>>]
    /\ UNCHANGED <<clientVars, status>>

\* _state is read after the queue is in the list.
SendStatus(b) ==
    /\ handler[b] = "new"
    /\ handler' = [handler EXCEPT ![b] = "stream"]
    /\ status' = [status EXCEPT ![b] = Shown(connected)]
    /\ UNCHANGED <<clientVars, registered, queue>>

SendEvent(b) ==
    /\ handler[b] = "stream"
    /\ queue[b] # <<>>
    /\ queue' = [queue EXCEPT ![b] = Tail(@)]
    /\ LET e == Head(queue[b])
       IN  status' = IF e.type = "status" THEN [status EXCEPT ![b] = e.shown]
                                          ELSE status
    /\ UNCHANGED <<clientVars, handler, registered>>

\* The browser is gone: a write fails.
Close(b) ==
    /\ handler[b] # "none"
    /\ handler' = [handler EXCEPT ![b] = "none"]
    /\ registered' = registered \ {b}
    /\ queue' = [queue EXCEPT ![b] = <<>>]
    /\ status' = [status EXCEPT ![b] = "blank"]
    /\ UNCHANGED clientVars

-----------------------------------------------------------------------------
Message == OnJoystick \/ OnPing \/ PruneEnds \/ PruneRaises
           \/ OnTelemetry \/ OnPong

MonitorNext ==
    \/ Message
    \/ \E c \in Clients : Connect(c) \/ Disconnect(c) \/ OnMalformed(c) \/ Push(c)
    \/ \E b \in Browsers : Register(b) \/ SendStatus(b) \/ SendEvent(b) \/ Close(b)

MonitorSpec == MonitorInit /\ [][MonitorNext]_monitorVars

-----------------------------------------------------------------------------
(* Properties *)

Idle == \A c \in Clients : thread[c] # "push"

\* monitor.py:513-519.  A browser that is still fed and has read its queue
\* displays the status the monitor has, whenever it came and whatever happened
\* between its registration and its first write.  A second client may overtake
\* the first between _state and the queues.
DisplayedStatusIsStates ==
    clients = {"main"} =>
        \A b \in Browsers :
            (handler[b] = "stream" /\ b \in registered /\ queue[b] = <<>> /\ Idle)
                => status[b] = Shown(connected)
=============================================================================
