---------------------------- MODULE Console_proofs ----------------------------
(***************************************************************************)
(* What the operator is told.  On the vehicle: the bridge of DualClient,   *)
(* with which of its links are up, and the telemetry that goes over them,  *)
(* for every set of configurations, topics and retries.  At the operator:  *)
(* the monitor, for any browsers and any size of their queues.             *)
(*                                                                         *)
(* The argument for the bridge is about who may hold a snapshot that is    *)
(* not on the bus yet: main only while it waits in "notify", for a client  *)
(* whose thread has been joined.  The one for the monitor is about what    *)
(* each queue still holds: it ends in the status of the monitor, unless    *)
(* that status is on its way.                                              *)
(***************************************************************************)
EXTENDS Telemetry, Monitor, SequenceTheorems, TLAPS

-----------------------------------------------------------------------------
(* The bridge *)

Resting(s) == ~loop[s] /\ conn[s] = "none" /\ pending[s] = None

\* The client's first connection has been asked for.
Started(s) ==
    \/ mainPc \in {"subscribe", "run"}
    \/ mainPc = "connect" /\ slot = "vps" /\ s = "local"

\* Clients that are not there, not there yet, or joined, do nothing.
JoinInv ==
    /\ slot \in Slots
    /\ \A s \in Names : s \notin Slots => Resting(s)
    /\ mainPc = "new" => slot = "local"
    /\ mainPc \in {"new", "connect"} => \A s \in Names : Started(s) \/ Resting(s)
    /\ pending["main"] # None <=> mainPc = "notify"
    /\ mainPc = "notify" => Resting(slot)
    /\ mainPc \in {"stop", "notify"} /\ slot = "vps" => Resting("local")
    /\ mainPc = "stopped" => \A s \in Names : Resting(s)

\* A link is reported UP only while its client is connected, and nobody writes
\* the state of a link without a client.
UpInv ==
    \A n \in Names : snapshot[n] = "UP" =>
        \E s \in Slots : n = EndpointName(s) /\ conn[s] = "up"

\* One client: what is under way to the bus is the newest snapshot.
NewestInv ==
    mode # "dual" =>
        /\ \A t \in Threads : pending[t] # None => pending[t] = snapshot
        /\ Quiet => view = snapshot

\* A client that has not lost its first connection has the topics so far.
TopicInv ==
    /\ \A s \in Slots : Started(s) /\ ~dropped[s] =>
           /\ conn[s] # "none"
           /\ mainPc = "subscribe" =>
                  \A i \in DOMAIN Topics : i < topic => Topics[i] \in subscribed[s]
           /\ mainPc = "run" => \A i \in DOMAIN Topics : Topics[i] \in subscribed[s]
    /\ mainPc \in {"new", "connect"} => topic = 1

BridgeInv == TypeOK /\ JoinInv /\ UpInv /\ NewestInv /\ TopicInv

\* An endpoint has one client.
LEMMA ModeFacts ==
    ASSUME TypeOK
    PROVE  /\ mode \in {"dual", "local", "vps"}
           /\ mode = "dual" => Slots = Names
           /\ mode # "dual" => Slots = {"local"}
           /\ "local" \in Slots
           /\ \A s \in Slots : s \in Names /\ EndpointName(s) \in Names
           /\ \A s, r \in Slots : EndpointName(s) = EndpointName(r) => s = r
           /\ \A s \in Names : s # "main" /\ s \in Threads
BY DualAssumption DEF TypeOK, Slots, Names, Threads, EndpointName

\* What _update_link_state leaves of the types.
LEMMA UpdateFacts ==
    ASSUME TypeOK, NEW t \in Threads, NEW s \in Slots, NEW state \in LinkStates,
           UpdateLinkState(t, s, state)
    PROVE  /\ snapshot' \in Snapshots /\ snapshot' # None
           /\ snapshot' = [snapshot EXCEPT ![EndpointName(s)] = state]
           /\ pending' = [pending EXCEPT ![t] = snapshot']
           /\ pending' \in [Threads -> Snapshots \cup {None}]
<1>1. EndpointName(s) \in Names
  BY ModeFacts
<1>2. snapshot' \in Snapshots
  BY <1>1 DEF TypeOK, UpdateLinkState, Snapshots
<1> QED BY <1>2, DualAssumption DEF TypeOK, UpdateLinkState

LEMMA NotifyFacts ==
    ASSUME TypeOK, NEW t \in Threads, Notify(t)
    PROVE  /\ view' \in Snapshots /\ view' = pending[t] /\ pending[t] # None
           /\ pending' = [pending EXCEPT ![t] = None]
           /\ pending' \in [Threads -> Snapshots \cup {None}]
BY DEF TypeOK, Notify

\* Every step keeps the types.
LEMMA BridgeTypes ==
    ASSUME TypeOK, slot \in Slots, [Next]_vars
    PROVE  TypeOK'
<1> USE DEF mainVars, connVars, linkVars
<1>0. /\ "main" \in Threads /\ Len(Topics) \in Nat /\ Slots \subseteq Names
      /\ {"local", "vps"} = Names /\ Slots' = Slots
      /\ \A s \in Slots : s \in Threads
  BY ModeFacts, DualAssumption, LenProperties
     DEF Threads, Names, Slots, Next, MainNext, PahoNext, Start, ConnectOk,
         ConnectFails, ConnectRaises, Subscribe, Activated, Shutdown, StopClient,
         StopNotify, OnConnect, OnDisconnect, Reconnect, NotifyLink, Stopped, vars
<1>1. CASE Start \/ ConnectFails \/ ConnectRaises \/ Activated \/ Shutdown
           \/ Stopped \/ UNCHANGED vars
  BY <1>0, <1>1, DualAssumption
     DEF TypeOK, Start, ConnectFails, ConnectRaises, Activated, Shutdown, Stopped, vars
<1>2. CASE ConnectOk
  BY <1>0, <1>2, DualAssumption DEF TypeOK, ConnectOk
<1>3. CASE Subscribe
  <2>1. topic \in DOMAIN Topics
    BY <1>0, <1>3 DEF TypeOK, Subscribe
  <2>2. subscribed' \in [Names -> SUBSET {Topics[i] : i \in DOMAIN Topics}]
    BY <1>3, <2>1 DEF TypeOK, Subscribe
  <2>3. topic' \in 1..(Len(Topics) + 1)
    BY <1>0, <1>3 DEF TypeOK, Subscribe
  <2> QED BY <1>3, <2>2, <2>3 DEF TypeOK, Subscribe
<1>4. CASE StopClient
  <2>1. /\ snapshot' \in Snapshots /\ view' \in Snapshots
        /\ pending' \in [Threads -> Snapshots \cup {None}]
    BY <1>0, <1>4, UpdateFacts DEF TypeOK, StopClient, LinkStates
  <2> QED BY <1>0, <1>4, <2>1 DEF TypeOK, StopClient, NextStop
<1>5. CASE StopNotify
  BY <1>0, <1>5, NotifyFacts DEF TypeOK, StopNotify, NextStop
<1>6. ASSUME NEW s \in Names, OnConnect(s) PROVE TypeOK'
  BY <1>0, <1>6, UpdateFacts DEF TypeOK, OnConnect, Serving, LinkStates
<1>7. ASSUME NEW s \in Names, OnDisconnect(s) PROVE TypeOK'
  BY <1>0, <1>7, UpdateFacts DEF TypeOK, OnDisconnect, Serving, LinkStates
<1>8. ASSUME NEW s \in Names, Reconnect(s) \/ NotifyLink(s) PROVE TypeOK'
  BY <1>0, <1>8, NotifyFacts DEF TypeOK, Reconnect, NotifyLink
<1> QED BY <1>1, <1>2, <1>3, <1>4, <1>5, <1>6, <1>7, <1>8 DEF Next, MainNext, PahoNext

\* Every action leaves the configuration alone.
LEMMA SameMode ==
    ASSUME [Next]_vars
    PROVE  mode' = mode /\ Slots' = Slots /\ \A s : EndpointName(s)' = EndpointName(s)
<1>1. mode' = mode
  BY DEF Next, MainNext, PahoNext, Start, ConnectOk, ConnectFails, ConnectRaises,
         Subscribe, Activated, Shutdown, StopClient, StopNotify, OnConnect,
         OnDisconnect, Reconnect, NotifyLink, Stopped, vars
<1> QED BY <1>1 DEF Slots, EndpointName

\* dual_client.py:76-86.  loop_stop() joins the thread before main calls back.
LEMMA JoinStep ==
    ASSUME TypeOK, JoinInv, [Next]_vars
    PROVE  JoinInv'
<1> USE DEF JoinInv, Resting, Started, mainVars, connVars, linkVars
<1>0. /\ slot \in Slots /\ "local" \in Slots /\ Slots' = Slots
      /\ \A s \in Slots : s \in {"local", "vps"} /\ s \in Names
      /\ Names = {"local", "vps"} /\ Threads = {"local", "vps", "main"}
      /\ mode # "dual" => Slots = {"local"}
      /\ mode = "dual" => Slots = Names
  BY ModeFacts, SameMode DEF Names, Threads
<1>a. /\ loop \in [Names -> BOOLEAN] /\ conn \in [Names -> {"none", "connecting", "up"}]
      /\ pending \in [Threads -> Snapshots \cup {None}] /\ slot \in Names
  BY DEF TypeOK
<1>1. CASE Start \/ ConnectFails \/ ConnectRaises \/ Activated \/ Shutdown
           \/ Subscribe \/ Stopped \/ UNCHANGED vars
  BY <1>0, <1>1
     DEF Start, ConnectFails, ConnectRaises, Activated, Shutdown, Subscribe, Stopped, vars
<1>2. CASE ConnectOk
  BY <1>0, <1>a, <1>2 DEF ConnectOk
<1>3. CASE StopClient
  <2>1. /\ loop'[slot] = FALSE /\ conn'[slot] = "none" /\ pending[slot] = None
        /\ \A s \in Names \ {slot} : loop'[s] = loop[s] /\ conn'[s] = conn[s]
    BY <1>0, <1>a, <1>3 DEF StopClient
  <2>2. CASE conn[slot] = "none"
    <3>1. NextStop /\ pending' = pending /\ mainPc = "stop"
      BY <1>3, <2>2 DEF StopClient
    <3> QED BY <1>0, <2>1, <3>1 DEF NextStop
  <2>3. CASE conn[slot] # "none"
    <3>1. /\ mainPc = "stop" /\ mainPc' = "notify" /\ slot' = slot
          /\ snapshot' # None /\ pending' = [pending EXCEPT !["main"] = snapshot']
      BY <1>0, <1>3, <2>3, UpdateFacts DEF StopClient, LinkStates
    <3> QED BY <1>0, <1>a, <2>1, <3>1
  <2> QED BY <2>2, <2>3
<1>4. CASE StopNotify
  <2>1. /\ mainPc = "notify" /\ NextStop /\ UNCHANGED <<loop, conn>>
        /\ pending' = [pending EXCEPT !["main"] = None]
    BY <1>4 DEF StopNotify, Notify
  <2> QED BY <1>0, <1>a, <2>1 DEF NextStop
<1>5. ASSUME NEW s \in Names, OnConnect(s) \/ OnDisconnect(s) PROVE JoinInv'
  <2>1. /\ Serving(s) /\ UNCHANGED <<mainPc, slot, loop>>
        /\ pending' = [pending EXCEPT ![s] = snapshot']
        /\ \A r \in Names \ {s} : conn'[r] = conn[r]
    BY <1>0, <1>a, <1>5 DEF OnConnect, OnDisconnect, UpdateLinkState
  <2>2. s \in Slots /\ loop[s] /\ s # "main"
    BY <2>1, <1>0 DEF Serving
  <2> QED BY <1>0, <1>a, <2>1, <2>2
<1>6. ASSUME NEW s \in Names, Reconnect(s) PROVE JoinInv'
  <2>1. /\ s \in Slots /\ loop[s] /\ UNCHANGED <<mainPc, slot, loop, pending>>
        /\ \A r \in Names \ {s} : conn'[r] = conn[r]
    BY <1>0, <1>a, <1>6 DEF Reconnect, Serving
  <2> QED BY <1>0, <1>a, <2>1
<1>7. ASSUME NEW s \in Names, NotifyLink(s) PROVE JoinInv'
  <2>1. /\ s \in Slots /\ UNCHANGED <<mainPc, slot, loop, conn>>
        /\ pending' = [pending EXCEPT ![s] = None]
    BY <1>7 DEF NotifyLink, Notify
  <2> QED BY <1>0, <1>a, <2>1
<1> QED BY <1>1, <1>2, <1>3, <1>4, <1>5, <1>6, <1>7 DEF Next, MainNext, PahoNext

\* dual_client.py:136-200.  UP is written on a CONNACK, and something else
\* whenever the connection goes.
LEMMA UpStep ==
    ASSUME TypeOK, JoinInv, UpInv, [Next]_vars
    PROVE  UpInv'
<1> USE DEF UpInv, mainVars, connVars, linkVars
<1>0. /\ slot \in Slots /\ Slots' = Slots /\ Slots \subseteq Names
      /\ \A s \in Slots : EndpointName(s) \in Names
      /\ \A s, r \in Slots : EndpointName(s) = EndpointName(r) => s = r
      /\ \A s : EndpointName(s)' = EndpointName(s)
  BY ModeFacts, SameMode DEF JoinInv
<1>a. snapshot \in [Names -> LinkStates]
      /\ conn \in [Names -> {"none", "connecting", "up"}]
  BY DEF TypeOK, Snapshots
<1>1. CASE UNCHANGED <<snapshot, conn>>
  BY <1>0, <1>1
<1>2. ASSUME NEW s \in Slots, snapshot' = snapshot, conn[s] # "up",
             \E c : conn' = [conn EXCEPT ![s] = c]
      PROVE  UpInv'
  BY <1>0, <1>a, <1>2
<1>3. ASSUME NEW s \in Slots, NEW state \in LinkStates,
             snapshot' = [snapshot EXCEPT ![EndpointName(s)] = state],
             \E c : conn' = [conn EXCEPT ![s] = c],
             state = "UP" => conn'[s] = "up"
      PROVE  UpInv'
  <2> SUFFICES ASSUME NEW n \in Names, snapshot'[n] = "UP"
               PROVE  \E r \in Slots : n = EndpointName(r) /\ conn'[r] = "up"
    BY <1>0
  <2>1. CASE n = EndpointName(s)
    BY <1>0, <1>a, <1>3, <2>1
  <2>2. CASE n # EndpointName(s)
    BY <1>0, <1>a, <1>3, <2>2
  <2> QED BY <2>1, <2>2
<1>4. CASE ConnectOk
  <2>1. conn[slot] # "up"
    BY <1>0, <1>4 DEF ConnectOk, JoinInv, Started, Resting, Names
  <2> QED BY <1>0, <1>2, <1>4, <2>1 DEF ConnectOk
<1>5. CASE StopClient
  BY <1>0, <1>2, <1>3, <1>5 DEF StopClient, UpdateLinkState, LinkStates
<1>6. ASSUME NEW s \in Names, OnConnect(s) PROVE UpInv'
  <2>1. s \in Slots /\ conn'[s] = "up"
    BY <1>0, <1>a, <1>6 DEF OnConnect, Serving
  <2> QED BY <1>3, <1>6, <2>1 DEF OnConnect, UpdateLinkState, LinkStates
<1>7. ASSUME NEW s \in Names, OnDisconnect(s) PROVE UpInv'
  BY <1>3, <1>7 DEF OnDisconnect, Serving, UpdateLinkState, LinkStates
<1>8. ASSUME NEW s \in Names, Reconnect(s) PROVE UpInv'
  BY <1>2, <1>8 DEF Reconnect, Serving
<1>9. ASSUME NEW s \in Names, NotifyLink(s) PROVE UpInv'
  BY <1>1, <1>9 DEF NotifyLink
<1> QED
  BY <1>1, <1>4, <1>5, <1>6, <1>7, <1>8, <1>9
     DEF Next, MainNext, PahoNext, Start, ConnectFails, ConnectRaises, Subscribe,
         Activated, Shutdown, StopNotify, Stopped, vars

\* dual_client.py:192-200.  With one client two copies are never under way.
LEMMA NewestStep ==
    ASSUME TypeOK, JoinInv, NewestInv, [Next]_vars
    PROVE  NewestInv'
<1> USE DEF NewestInv, Quiet, mainVars, connVars, linkVars
<1> SUFFICES ASSUME mode # "dual" PROVE NewestInv'
  BY SameMode
<1>0. /\ slot = "local" /\ Slots = {"local"} /\ Names = {"local", "vps"}
      /\ Threads = {"local", "vps", "main"}
      /\ pending["vps"] = None
      /\ pending["main"] = None \/ (mainPc = "notify" /\ Resting("local"))
      /\ mode' = mode
  BY ModeFacts, SameMode DEF JoinInv, Names, Threads, Resting
<1>a. pending \in [Threads -> Snapshots \cup {None}]
  BY DEF TypeOK
<1>1. CASE UNCHANGED linkVars
  BY <1>0, <1>1
<1>2. ASSUME NEW t \in Threads, \A r \in Threads \ {t} : pending[r] = None,
             snapshot' # None, pending' = [pending EXCEPT ![t] = snapshot']
      PROVE  NewestInv'
  BY <1>0, <1>a, <1>2
<1>3. ASSUME NEW t \in Threads, Notify(t), UNCHANGED snapshot
      PROVE  NewestInv'
  <2>1. /\ pending[t] # None /\ view' = pending[t]
        /\ pending' = [pending EXCEPT ![t] = None]
    BY <1>3, NotifyFacts
  <2>2. pending[t] = snapshot /\ \A r \in Threads : pending'[r] = None
    BY <1>0, <1>a, <2>1 DEF Resting
  <2> QED BY <1>3, <2>1, <2>2
<1>4. CASE StopClient
  <2>1. CASE conn[slot] = "none"
    BY <1>1, <1>4, <2>1 DEF StopClient
  <2>2. CASE conn[slot] # "none"
    <3>1. /\ pending["local"] = None /\ snapshot' # None
          /\ pending' = [pending EXCEPT !["main"] = snapshot']
      BY <1>0, <1>4, <2>2, UpdateFacts DEF StopClient, LinkStates
    <3> QED BY <1>0, <1>2, <3>1
  <2> QED BY <2>1, <2>2
<1>5. CASE StopNotify
  BY <1>0, <1>3, <1>5 DEF StopNotify
<1>6. ASSUME NEW s \in Names, OnConnect(s) \/ OnDisconnect(s) PROVE NewestInv'
  <2>1. s = "local" /\ loop[s] /\ pending[s] = None
    BY <1>0, <1>6 DEF OnConnect, OnDisconnect, Serving
  <2>2. snapshot' # None /\ pending' = [pending EXCEPT ![s] = snapshot']
    BY <1>0, <1>6, <2>1, UpdateFacts DEF OnConnect, OnDisconnect, LinkStates
  <2>3. pending["main"] = None
    BY <1>0, <2>1 DEF Resting
  <2> QED BY <1>0, <1>2, <2>1, <2>2, <2>3
<1>7. ASSUME NEW s \in Names, NotifyLink(s) PROVE NewestInv'
  BY <1>0, <1>3, <1>7 DEF NotifyLink
<1> QED
  BY <1>1, <1>4, <1>5, <1>6, <1>7
     DEF Next, MainNext, PahoNext, Start, ConnectOk, ConnectFails, ConnectRaises,
         Subscribe, Activated, Shutdown, Reconnect, Stopped, vars

\* mqtt_bridge.py:121-128.  A client leaves "none" before main subscribes, and
\* comes back there only by losing a connection.
LEMMA TopicStep ==
    ASSUME TypeOK, JoinInv, TopicInv, [Next]_vars
    PROVE  TopicInv'
<1> USE DEF TopicInv, Started, mainVars, connVars, linkVars
<1>0. /\ slot \in Slots /\ "local" \in Slots /\ Slots' = Slots
      /\ Slots \subseteq Names /\ Names = {"local", "vps"}
      /\ Len(Topics) \in Nat /\ DOMAIN Topics = 1..Len(Topics)
      /\ mainPc = "new" => slot = "local"
  BY ModeFacts, SameMode, DualAssumption, LenProperties DEF JoinInv, Names
<1>a. /\ conn \in [Names -> {"none", "connecting", "up"}]
      /\ subscribed \in [Names -> SUBSET {Topics[i] : i \in DOMAIN Topics}]
      /\ dropped \in [Names -> BOOLEAN] /\ topic \in Nat
  BY <1>0 DEF TypeOK
<1>1. CASE Start \/ ConnectFails \/ ConnectRaises \/ Shutdown \/ Stopped
           \/ StopNotify \/ UNCHANGED vars
  BY <1>0, <1>1
     DEF Start, ConnectFails, ConnectRaises, Shutdown, Stopped, StopNotify, NextStop,
         vars
<1>2. CASE ConnectOk
  <2>1. /\ mainPc = "connect" /\ topic = 1 /\ topic' = 1
        /\ conn' = [conn EXCEPT ![slot] = "connecting"]
        /\ UNCHANGED <<subscribed, dropped>>
        /\ \/ /\ slot = "local" /\ "vps" \in Slots
              /\ slot' = "vps" /\ mainPc' = "connect"
           \/ /\ slot = "vps" \/ Slots = {"local"}
              /\ mainPc' = "subscribe" /\ slot' = slot
    BY <1>0, <1>2 DEF ConnectOk
  <2>2. \A i \in DOMAIN Topics : ~(i < 1)
    BY <1>0
  <2>3. \A s \in Slots : Started(s)' /\ ~dropped[s] => conn'[s] # "none"
    BY <1>0, <1>a, <2>1
  <2> QED BY <1>0, <2>1, <2>2, <2>3
<1>3. CASE Subscribe
  <2>1. /\ mainPc = "subscribe" /\ mainPc' = mainPc /\ topic' = topic + 1
        /\ UNCHANGED <<conn, dropped>>
        /\ subscribed' = [s \in Names |->
                             IF s \in Slots /\ conn[s] # "none"
                             THEN subscribed[s] \cup {Topics[topic]}
                             ELSE subscribed[s]]
    BY <1>3 DEF Subscribe
  <2>2. ASSUME NEW s \in Slots, ~dropped[s], NEW i \in DOMAIN Topics, i < topic + 1
        PROVE  Topics[i] \in subscribed'[s]
    <3>1. conn[s] # "none" /\ (i < topic => Topics[i] \in subscribed[s])
      BY <2>1, <2>2
    <3>2. i < topic \/ i = topic
      BY <1>0, <1>a, <2>2
    <3> QED BY <1>0, <2>1, <3>1, <3>2
  <2> QED BY <1>0, <2>1, <2>2
<1>4. CASE Activated
  <2>1. /\ mainPc = "subscribe" /\ topic > Len(Topics) /\ mainPc' = "run"
        /\ UNCHANGED <<conn, dropped, subscribed>>
    BY <1>4 DEF Activated
  <2>2. \A i \in DOMAIN Topics : i < topic
    BY <1>0, <1>a, <2>1
  <2> QED BY <1>0, <2>1, <2>2
<1>5. CASE StopClient
  BY <1>5 DEF StopClient, NextStop
<1>6. ASSUME NEW s \in Names, OnDisconnect(s) PROVE TopicInv'
  <2>1. /\ UNCHANGED mainVars
        /\ dropped' = [dropped EXCEPT ![s] = TRUE]
        /\ \A r \in Names \ {s} : conn'[r] = conn[r] /\ subscribed'[r] = subscribed[r]
    BY <1>a, <1>6 DEF OnDisconnect
  <2> QED BY <1>0, <1>a, <2>1
<1>7. ASSUME NEW s \in Names, OnConnect(s) \/ Reconnect(s) PROVE TopicInv'
  <2>1. /\ UNCHANGED <<mainVars, dropped, subscribed>>
        /\ \A r \in Names : conn[r] # "none" => conn'[r] # "none"
    BY <1>a, <1>7 DEF OnConnect, Reconnect
  <2> QED BY <1>0, <2>1
<1>8. ASSUME NEW s \in Names, NotifyLink(s) PROVE TopicInv'
  BY <1>0, <1>8 DEF NotifyLink
<1> QED BY <1>1, <1>2, <1>3, <1>4, <1>5, <1>6, <1>7, <1>8 DEF Next, MainNext, PahoNext

\* The invariant of the bridge.
THEOREM BridgeInvariance == Spec => []BridgeInv
<1>1. Init => BridgeInv
  <2> SUFFICES ASSUME Init PROVE BridgeInv
    OBVIOUS
  <2>1. Len(Topics) \in Nat
    BY DualAssumption, LenProperties
  <2>2. TypeOK
    BY <2>1, DualAssumption
       DEF Init, TypeOK, Names, Threads, Snapshots, AllDown, LinkStates
  <2>3. JoinInv /\ TopicInv
    BY ModeFacts, <2>2
       DEF Init, JoinInv, Resting, Started, TopicInv, Names, Threads
  <2>4. UpInv /\ NewestInv
    BY DEF Init, UpInv, NewestInv, AllDown
  <2> QED BY <2>2, <2>3, <2>4 DEF BridgeInv
<1>2. BridgeInv /\ [Next]_vars => BridgeInv'
  BY BridgeTypes, JoinStep, UpStep, NewestStep, TopicStep DEF BridgeInv, JoinInv
<1> QED BY <1>1, <1>2, PTL DEF Spec

-----------------------------------------------------------------------------
(* The telemetry over the bridge *)

\* dual_client.py and mqtt_bridge.py under telemetry_node.py: with its caller the
\* bridge does nothing that it does not do alone.
THEOREM BridgeInPipeline == PipelineSpec => Spec
<1>1. PipelineInit => Init
  BY DEF PipelineInit
<1>2. [PipelineNext]_allVars => [Next]_vars
  BY DEF PipelineNext, BridgeStep, Starting, Stopping, Loop, Assemble, LoopEnds,
         Publish, Send, OnSafety, Activate, ClearAndJoin, Deliver, DeliverUnacked,
         Arrives, Lose, Stopped, allVars, dualVars, Next, MainNext
<1> QED BY <1>1, <1>2, PTL DEF PipelineSpec, Spec

\* mqtt_bridge.py:121-128.  For every list of topics and however often the links
\* drop while the bridge starts, a client that has not lost its first
\* connection is subscribed to all of them.
THEOREM Subscribed == PipelineSpec => []SubscribedUnlessDropped
<1>1. BridgeInv => SubscribedUnlessDropped
  BY DEF BridgeInv, TopicInv, Started, SubscribedUnlessDropped
<1> QED BY <1>1, BridgeInvariance, BridgeInPipeline, PTL

\* dual_client.py:192-200 and telemetry_node.py:85.  With one link telemetry
\* does not stay behind it, although the snapshot travels outside the lock.
THEOREM ViewCurrent == PipelineSpec => []OneLinkViewCurrent
<1>1. BridgeInv => OneLinkViewCurrent
  BY DEF BridgeInv, NewestInv, OneLinkViewCurrent
<1> QED BY <1>1, BridgeInvariance, BridgeInPipeline, PTL

\* dual_client.py:192-200.  No link is recorded as UP whose client is not
\* connected, with one client or two, during retries and after the stop.
THEOREM UpIsConnected == PipelineSpec => []UpInv
<1> QED BY BridgeInvariance, BridgeInPipeline, PTL DEF BridgeInv

\* dual_client.py:76-86.  What stop() leaves, whatever state the start or the
\* links were in: no thread that could call back, nothing under way to the bus
\* and no link reported UP.
THEOREM StoppedIsQuiet ==
    PipelineSpec =>
        [](mainPc = "stopped" =>
               Quiet /\ \A s \in Names : ~loop[s] /\ snapshot[s] # "UP")
<1>1. ASSUME BridgeInv, mainPc = "stopped"
      PROVE  Quiet /\ \A s \in Names : ~loop[s] /\ snapshot[s] # "UP"
  <2>1. /\ \A s \in Names : Resting(s)
        /\ pending["main"] = None
    BY <1>1 DEF BridgeInv, JoinInv
  <2>2. \A s \in Names : snapshot[s] # "UP"
    BY <1>1, <2>1, ModeFacts DEF BridgeInv, UpInv, Resting
  <2> QED BY <2>1, <2>2 DEF Quiet, Threads, Resting
<1> QED BY <1>1, BridgeInvariance, BridgeInPipeline, PTL

\* telemetry_node.py:63-67 and dual_client.py:76-98.  Wherever the join of the
\* telemetry thread gave up, the console hears nothing once stop() has ended: a
\* message that is still sent goes into a client without a connection.
THEOREM NothingLate == PipelineSpec => SilentOnceStopped
<1>1. ASSUME BridgeInv, [PipelineNext]_allVars, mainPc = "stopped"
      PROVE  UNCHANGED shown
  <2>1. \A s \in Names : ~Arrives(s)
    BY <1>1 DEF BridgeInv, JoinInv, Resting, Arrives
  <2> QED
    BY <1>1, <2>1
       DEF PipelineNext, BridgeStep, Loop, Assemble, LoopEnds, Publish, Send,
           OnSafety, Activate, ClearAndJoin, Deliver, DeliverUnacked, Lose,
           networkVars, allVars
<1>2. BridgeInv /\ [PipelineNext]_allVars
          => [mainPc = "stopped" => UNCHANGED shown]_allVars
  BY <1>1
<1> QED
  BY <1>2, BridgeInvariance, BridgeInPipeline, PTL DEF PipelineSpec, SilentOnceStopped

-----------------------------------------------------------------------------
(* The monitor: what is left in a queue *)

NoStatus(q) == \A i \in 1..Len(q) : q[i].type # "status"

\* The last status in q, if there is one, is x.
LastStatus(q, x) ==
    \A i \in 1..Len(q) :
        q[i].type = "status" /\ (\A j \in 1..Len(q) : i < j => q[j].type # "status")
            => q[i].shown = x

\* The two kinds of events.
LEMMA EventFacts ==
    ASSUME NEW e \in Events
    PROVE  e.type = "status" => e.shown \in {"connected", "offline"}
BY DEF Events, Status, Shown, Other

\* And the other way round.
LEMMA EventKinds ==
    /\ \A ok \in BOOLEAN : /\ Status(ok) \in Events /\ Status(ok).type = "status"
                           /\ Status(ok).shown = Shown(ok)
    /\ Other \in Events /\ Other.type = "other"
<1>1. \A ok \in BOOLEAN : /\ Status(ok) \in Events /\ Status(ok).type = "status"
                          /\ Status(ok).shown = Shown(ok)
  BY DEF Events, Status
<1>2. Other \in Events /\ Other.type = "other"
  BY DEF Events, Other
<1> QED BY <1>1, <1>2

\* The places of a queue after one more event, and after one less.
LEMMA AppendPlaces ==
    ASSUME NEW q \in Seq(Events), NEW e \in Events
    PROVE  /\ Append(q, e) \in Seq(Events) /\ Len(q) \in Nat
           /\ Len(Append(q, e)) = Len(q) + 1
           /\ Append(q, e)[Len(q) + 1] = e
           /\ \A i \in 1..Len(q) : Append(q, e)[i] = q[i] /\ q[i] \in Events
BY AppendProperties, LenProperties, ElementOfSeq

LEMMA TailPlaces ==
    ASSUME NEW q \in Seq(Events), q # <<>>
    PROVE  /\ Tail(q) \in Seq(Events) /\ Len(q) \in Nat \ {0}
           /\ Len(Tail(q)) = Len(q) - 1
           /\ Head(q) = q[1] /\ Head(q) \in Events
           /\ \A i \in 1..Len(Tail(q)) : Tail(q)[i] = q[i + 1] /\ q[i + 1] \in Events
<1>1. /\ Tail(q) \in Seq(Events) /\ Len(Tail(q)) = Len(q) - 1
      /\ Head(q) = q[1] /\ Head(q) \in Events /\ Len(q) \in Nat \ {0}
      /\ \A i \in 1..Len(Tail(q)) : Tail(q)[i] = q[i + 1]
  OBVIOUS
<1>2. \A i \in 1..Len(Tail(q)) : i + 1 \in 1..Len(q)
  BY <1>1
<1>3. \A i \in 1..Len(q) : q[i] \in Events
  BY ElementOfSeq
<1> QED BY <1>1, <1>2, <1>3

\* monitor.py:61-70.  An event at the end of a queue.
LEMMA AppendTells ==
    ASSUME NEW q \in Seq(Events), NEW e \in Events, NEW x
    PROVE  /\ e.type = "status" /\ e.shown = x =>
                  LastStatus(Append(q, e), x) /\ ~NoStatus(Append(q, e))
           /\ e.type # "status" /\ LastStatus(q, x) => LastStatus(Append(q, e), x)
           /\ e.type # "status" /\ NoStatus(Append(q, e)) => NoStatus(q)
<1> DEFINE a == Append(q, e)
<1>1. /\ Len(q) \in Nat /\ Len(a) = Len(q) + 1 /\ a[Len(q) + 1] = e
      /\ \A i \in 1..Len(q) : a[i] = q[i]
  BY AppendPlaces
<1>2. \A i \in 1..Len(a) : i \in 1..Len(q) \/ i = Len(a)
  BY <1>1
<1>3. 1..Len(q) \subseteq 1..Len(a) /\ Len(a) \in 1..Len(a)
  BY <1>1
<1>4. \A i \in 1..Len(q) : i < Len(a)
  BY <1>1
<1> HIDE DEF a
<1>5. ASSUME e.type = "status", e.shown = x PROVE LastStatus(a, x) /\ ~NoStatus(a)
  BY <1>1, <1>2, <1>3, <1>4, <1>5 DEF LastStatus, NoStatus
<1>6. ASSUME e.type # "status", LastStatus(q, x) PROVE LastStatus(a, x)
  BY <1>1, <1>2, <1>3, <1>6 DEF LastStatus
<1>7. ASSUME e.type # "status", NoStatus(a) PROVE NoStatus(q)
  BY <1>1, <1>3, <1>7 DEF NoStatus
<1> QED BY <1>5, <1>6, <1>7 DEF a

\* monitor.py:513-522.  The event that is written leaves the queue.
LEMMA TailTells ==
    ASSUME NEW q \in Seq(Events), q # <<>>, NEW x, LastStatus(q, x)
    PROVE  /\ LastStatus(Tail(q), x)
           /\ NoStatus(Tail(q)) /\ Head(q).type = "status" => Head(q).shown = x
           /\ NoStatus(Tail(q)) /\ Head(q).type # "status" => NoStatus(q)
<1> DEFINE t == Tail(q)
<1>1. /\ Len(q) \in Nat \ {0} /\ Len(t) = Len(q) - 1 /\ Head(q) = q[1]
      /\ \A i \in 1..Len(t) : t[i] = q[i + 1]
  BY TailPlaces
<1>2. \A i \in 1..Len(q) : i = 1 \/ (i > 1 /\ i - 1 \in 1..Len(t) /\ t[i - 1] = q[i])
  BY <1>1
<1>3. \A i \in 1..Len(t) : i + 1 \in 1..Len(q)
  BY <1>1
<1> HIDE DEF t
<1>4. LastStatus(t, x)
  <2> SUFFICES ASSUME NEW i \in 1..Len(t), t[i].type = "status",
                      \A j \in 1..Len(t) : i < j => t[j].type # "status"
               PROVE  t[i].shown = x
    BY DEF LastStatus
  <2>1. \A j \in 1..Len(q) : i + 1 < j => q[j].type # "status"
    <3> SUFFICES ASSUME NEW j \in 1..Len(q), i + 1 < j PROVE q[j].type # "status"
      OBVIOUS
    <3>1. j - 1 \in 1..Len(t) /\ t[j - 1] = q[j] /\ i < j - 1
      BY <1>2
    <3> QED BY <3>1
  <2> QED BY <1>1, <1>3, <2>1 DEF LastStatus
<1>5. ASSUME NoStatus(t) PROVE \A j \in 1..Len(q) : 1 < j => q[j].type # "status"
  BY <1>2, <1>5 DEF NoStatus
<1>6. 1 \in 1..Len(q)
  BY <1>1
<1>7. ASSUME NoStatus(t), Head(q).type = "status" PROVE Head(q).shown = x
  BY <1>1, <1>5, <1>6, <1>7 DEF LastStatus
<1>8. ASSUME NoStatus(t), Head(q).type # "status" PROVE NoStatus(q)
  BY <1>1, <1>2, <1>5, <1>8 DEF NoStatus
<1> QED BY <1>4, <1>7, <1>8 DEF t

-----------------------------------------------------------------------------
(* The monitor: its invariant *)

\* A client without a password does nothing.
AloneInv == clients = {"main"} => link["rcs"] = "down" /\ thread["rcs"] = "idle"

Telling == thread["main"] = "push" /\ event["main"].type = "status"

\* Whatever a browser has still to read ends in the status of the monitor; if it
\* is not in the queue, it is under way to it, or displayed already.
Told(b) ==
    /\ LastStatus(queue[b], Shown(connected))
    /\ (handler[b] = "stream" /\ NoStatus(queue[b])) => status[b] = Shown(connected)

ToldInv ==
    clients = {"main"} =>
        IF Telling THEN event["main"].shown = Shown(connected)
        ELSE \A b \in registered : Told(b)

MonitorInv == MonitorTypeOK /\ AloneInv /\ ToldInv

\* What a push does to the queue of one browser.
LEMMA PushQueues ==
    ASSUME MonitorTypeOK, NEW c \in Clients, Push(c)
    PROVE  /\ event[c] \in Events /\ registered' \subseteq registered
           /\ \A b \in registered' : /\ Len(queue[b]) < QueueSize
                                     /\ queue'[b] = Append(queue[b], event[c])
           /\ \A b \in Browsers \ registered' : queue'[b] = queue[b]
           /\ queue' = [b \in Browsers |-> queue'[b]]
<1>1. \A b \in Browsers : Len(queue[b]) \in Nat /\ Len(queue[b]) <= QueueSize
  BY LenProperties DEF MonitorTypeOK
<1>2. /\ registered' = registered \ {b \in registered : Len(queue[b]) = QueueSize}
      /\ queue' = [b \in Browsers |-> IF b \in registered'
                                      THEN Append(queue[b], event[c]) ELSE queue[b]]
  BY DEF Push
<1>3. registered \subseteq Browsers /\ event[c] \in Events
  BY DEF MonitorTypeOK
<1> QED BY <1>1, <1>2, <1>3, MonitorAssumption

\* The two halves of the types.
ClientsOK ==
    /\ clients \in {{"main"}, Clients}
    /\ link \in [Clients -> {"up", "refused", "down"}]
    /\ thread \in [Clients -> {"idle", "push", "prune", "torn", "dead"}]
    /\ event \in [Clients -> Events]
    /\ connected \in BOOLEAN
    /\ rxCount \in 0..MaxRx
    /\ pings \subseteq 1..MaxPings
    /\ pinged \in 0..MaxPings

BrowsersOK ==
    /\ handler \in [Browsers -> {"none", "new", "stream"}]
    /\ registered \subseteq Browsers
    /\ queue \in [Browsers -> Seq(Events)]
    /\ \A b \in Browsers : Len(queue[b]) <= QueueSize
    /\ status \in [Browsers -> {"connected", "offline", "blank"}]

\* The callbacks keep the types of what the clients share.
LEMMA ClientTypes ==
    ASSUME ClientsOK, [MonitorNext]_monitorVars
    PROVE  ClientsOK'
<1> USE MonitorAssumption DEF ClientsOK, browserVars, clientVars
<1>0. "main" \in Clients /\ "rcs" \in Clients
  BY DEF Clients
<1>1. ASSUME NEW c \in Clients, NEW e \in Events, WillPush(c, e)
      PROVE  /\ event' \in [Clients -> Events]
             /\ thread' \in [Clients -> {"idle", "push", "prune", "torn", "dead"}]
  BY <1>1 DEF WillPush
<1>2. ASSUME NEW c \in Clients, Receives(c) PROVE rxCount' \in 1..MaxRx
  BY <1>2 DEF Receives
<1>3. ASSUME NEW c \in Clients, Connect(c) PROVE ClientsOK'
  <2>1. PICK ok \in BOOLEAN :
            /\ link' = [link EXCEPT ![c] = IF ok THEN "up" ELSE "refused"]
            /\ IF c = "main" THEN connected' = ok /\ WillPush(c, Status(ok))
               ELSE UNCHANGED <<connected, thread, event>>
    BY <1>3 DEF Connect
  <2>2. event' \in [Clients -> Events]
        /\ thread' \in [Clients -> {"idle", "push", "prune", "torn", "dead"}]
    BY <1>1, <2>1, EventKinds
  <2>3. connected' \in BOOLEAN
    BY <2>1
  <2>4. link' \in [Clients -> {"up", "refused", "down"}]
    BY <2>1
  <2> QED BY <1>3, <2>2, <2>3, <2>4 DEF Connect
<1>4. ASSUME NEW c \in Clients, Disconnect(c) PROVE ClientsOK'
  <2>1. event' \in [Clients -> Events]
        /\ thread' \in [Clients -> {"idle", "push", "prune", "torn", "dead"}]
    BY <1>1, <1>4, EventKinds DEF Disconnect
  <2> QED BY <1>4, <2>1 DEF Disconnect
<1>5. CASE OnJoystick
  <2>1. rxCount' \in 1..MaxRx
    BY <1>0, <1>2, <1>5 DEF OnJoystick
  <2>2. event' \in [Clients -> Events]
        /\ thread' \in [Clients -> {"idle", "push", "prune", "torn", "dead"}]
    BY <1>0, <1>1, <1>5, <2>1, EventKinds DEF OnJoystick
  <2> QED BY <1>5, <2>1, <2>2 DEF OnJoystick
<1>6. CASE OnTelemetry
  <2>1. rxCount' \in 1..MaxRx
    BY <1>0, <1>2, <1>6 DEF OnTelemetry
  <2>2. event' \in [Clients -> Events]
        /\ thread' \in [Clients -> {"idle", "push", "prune", "torn", "dead"}]
    BY <1>0, <1>1, <1>6, EventKinds DEF OnTelemetry
  <2> QED BY <1>6, <2>1, <2>2 DEF OnTelemetry
<1>7. ASSUME NEW c \in Clients, OnMalformed(c) PROVE ClientsOK'
  <2>1. rxCount' \in 1..MaxRx
    BY <1>2, <1>7 DEF OnMalformed
  <2>2. thread' \in [Clients -> {"idle", "push", "prune", "torn", "dead"}]
    BY <1>7 DEF OnMalformed
  <2> QED BY <1>7, <2>1, <2>2 DEF OnMalformed
<1>8. CASE OnPing
  <2>1. rxCount' \in 1..MaxRx
    BY <1>0, <1>2, <1>8 DEF OnPing
  <2>2. pinged' \in 1..MaxPings /\ pings' = pings \cup {pinged'}
    BY <1>8 DEF OnPing
  <2>3. thread' \in [Clients -> {"idle", "push", "prune", "torn", "dead"}]
    BY <1>8 DEF OnPing
  <2> QED BY <1>8, <2>1, <2>2, <2>3 DEF OnPing
<1>9. CASE PruneEnds \/ PruneRaises
  <2>1. pings' \subseteq pings
    BY <1>9 DEF PruneEnds, PruneRaises
  <2>2. thread' \in [Clients -> {"idle", "push", "prune", "torn", "dead"}]
    BY <1>9 DEF PruneEnds, PruneRaises
  <2>3. pings' \subseteq 1..MaxPings
    BY <2>1
  <2> QED BY <1>9, <2>2, <2>3 DEF PruneEnds, PruneRaises
<1>10. CASE OnPong
  <2>1. rxCount' \in 1..MaxRx
    BY <1>0, <1>2, <1>10 DEF OnPong
  <2>2. /\ pings' \subseteq pings
        /\ \/ /\ event' = [event EXCEPT !["rcs"] = Other]
              /\ thread' = [c \in Clients |->
                               IF c = "rcs" THEN "push"
                               ELSE IF thread[c] = "prune" THEN "torn" ELSE thread[c]]
           \/ UNCHANGED <<event, thread>>
    BY <1>10 DEF OnPong
  <2>3. event' \in [Clients -> Events]
    BY <1>0, <2>2, EventKinds
  <2>4. thread' \in [Clients -> {"idle", "push", "prune", "torn", "dead"}]
    BY <2>2
  <2>5. pings' \subseteq 1..MaxPings
    BY <2>2
  <2> QED BY <1>10, <2>1, <2>3, <2>4, <2>5 DEF OnPong
<1>11. ASSUME NEW c \in Clients, Push(c) PROVE ClientsOK'
  <2>1. thread' \in [Clients -> {"idle", "push", "prune", "torn", "dead"}]
    BY <1>11 DEF Push
  <2> QED BY <1>11, <2>1 DEF Push
<1>12. CASE UNCHANGED clientVars
  BY <1>12
<1> QED
  BY <1>3, <1>4, <1>5, <1>6, <1>7, <1>8, <1>9, <1>10, <1>11, <1>12
     DEF MonitorNext, Message, Register, SendStatus, SendEvent, Close, monitorVars

\* Pushes and handlers keep the types of what the browsers have.
LEMMA BrowserTypes ==
    ASSUME ClientsOK, BrowsersOK, [MonitorNext]_monitorVars
    PROVE  BrowsersOK'
<1> USE DEF BrowsersOK, browserVars, clientVars
<1>1. CASE UNCHANGED browserVars
  BY <1>1
<1>2. ASSUME NEW c \in Clients, Push(c) PROVE BrowsersOK'
  <2>1. /\ event[c] \in Events /\ registered' \subseteq registered
        /\ \A b \in registered' : /\ Len(queue[b]) < QueueSize
                                  /\ queue'[b] = Append(queue[b], event[c])
        /\ \A b \in Browsers \ registered' : queue'[b] = queue[b]
        /\ queue' = [b \in Browsers |-> queue'[b]]
    BY <1>2, PushQueues DEF ClientsOK, MonitorTypeOK
  <2>2. ASSUME NEW b \in Browsers
        PROVE  queue'[b] \in Seq(Events) /\ Len(queue'[b]) <= QueueSize
    <3>1. CASE b \in registered'
      <4>1. /\ Append(queue[b], event[c]) \in Seq(Events) /\ Len(queue[b]) \in Nat
            /\ Len(Append(queue[b], event[c])) = Len(queue[b]) + 1
        BY <2>1, AppendPlaces
      <4>2. Len(queue[b]) + 1 <= QueueSize
        BY <2>1, <3>1, <4>1, MonitorAssumption
      <4> QED BY <2>1, <3>1, <4>1, <4>2, Zenon
    <3>2. CASE b \notin registered'
      BY <2>1, <3>2
    <3> QED BY <3>1, <3>2
  <2>3. queue' \in [Browsers -> Seq(Events)]
    BY <2>1, <2>2, Zenon
  <2> QED BY <1>2, <2>1, <2>2, <2>3 DEF Push
<1>3. ASSUME NEW b \in Browsers, Register(b) \/ Close(b) PROVE BrowsersOK'
  <2>1. queue' = [queue EXCEPT ![b] = <<>>] /\ <<>> \in Seq(Events) /\ Len(<<>>) = 0
    BY <1>3, EmptySeq DEF Register, Close
  <2>2. queue' \in [Browsers -> Seq(Events)]
    BY <2>1
  <2>3. \A d \in Browsers : Len(queue'[d]) <= QueueSize
    BY <2>1, MonitorAssumption
  <2>4. /\ handler' \in [Browsers -> {"none", "new", "stream"}]
        /\ registered' \subseteq Browsers
    BY <1>3 DEF Register, Close
  <2>5. status' \in [Browsers -> {"connected", "offline", "blank"}]
    BY <1>3 DEF Register, Close
  <2> QED BY <2>2, <2>3, <2>4, <2>5
<1>4. ASSUME NEW b \in Browsers, SendStatus(b) PROVE BrowsersOK'
  BY <1>4 DEF SendStatus, Shown
<1>5. ASSUME NEW b \in Browsers, SendEvent(b) PROVE BrowsersOK'
  <2> DEFINE e == Head(queue[b])
  <2>1. /\ queue[b] # <<>> /\ queue' = [queue EXCEPT ![b] = Tail(queue[b])]
        /\ UNCHANGED <<handler, registered>>
        /\ status' = IF e.type = "status" THEN [status EXCEPT ![b] = e.shown]
                                          ELSE status
    BY <1>5 DEF SendEvent
  <2>2. /\ e \in Events /\ Tail(queue[b]) \in Seq(Events)
        /\ Len(queue[b]) \in Nat \ {0} /\ Len(Tail(queue[b])) = Len(queue[b]) - 1
    BY <2>1, TailPlaces
  <2>3. queue' \in [Browsers -> Seq(Events)]
    BY <2>1, <2>2
  <2>4. \A d \in Browsers : Len(queue'[d]) <= QueueSize
    BY <2>1, <2>2, MonitorAssumption
  <2>5. e.type = "status" => e.shown \in {"connected", "offline"}
    BY <2>2, EventFacts
  <2> HIDE DEF e
  <2>6. status' \in [Browsers -> {"connected", "offline", "blank"}]
    BY <2>1, <2>5
  <2> QED BY <2>1, <2>3, <2>4, <2>6
<1> QED
  BY <1>1, <1>2, <1>3, <1>4, <1>5
     DEF MonitorNext, Message, Connect, Disconnect, OnMalformed, OnJoystick,
         OnTelemetry, OnPing, PruneEnds, PruneRaises, OnPong, monitorVars

LEMMA AloneStep ==
    ASSUME ClientsOK, AloneInv, [MonitorNext]_monitorVars
    PROVE  AloneInv'
<1> SUFFICES ASSUME clients' = {"main"}
             PROVE  link'["rcs"] = "down" /\ thread'["rcs"] = "idle"
  BY DEF AloneInv
<1> USE DEF clientVars
<1>1. clients = {"main"}
  BY DEF MonitorNext, Message, Connect, Disconnect, OnMalformed, Push, OnJoystick,
         OnTelemetry, OnPing, PruneEnds, PruneRaises, OnPong, Register, SendStatus,
         SendEvent, Close, monitorVars
<1>2. link["rcs"] = "down" /\ thread["rcs"] = "idle"
  BY <1>1 DEF AloneInv
<1>3. ASSUME NEW c \in Clients, Connect(c) \/ Disconnect(c)
      PROVE  link'["rcs"] = "down" /\ thread'["rcs"] = "idle"
  <2>1. c = "main"
    BY <1>1, <1>2, <1>3 DEF Connect, Disconnect, Clients
  <2>2. thread' = thread \/ thread' = [thread EXCEPT !["main"] = "push"]
    BY <1>3, <2>1 DEF Connect, Disconnect, WillPush
  <2>3. \E x : link' = [link EXCEPT !["main"] = x]
    BY <1>3, <2>1 DEF Connect, Disconnect
  <2> QED BY <1>2, <2>2, <2>3 DEF ClientsOK, Clients
<1>4. ASSUME NEW c \in Clients, Push(c)
      PROVE  link'["rcs"] = "down" /\ thread'["rcs"] = "idle"
  BY <1>2, <1>4 DEF Push, ClientsOK, Clients
<1>5. CASE OnJoystick \/ OnPing \/ PruneEnds \/ PruneRaises
  BY <1>2, <1>5 DEF OnJoystick, OnPing, PruneEnds, PruneRaises, WillPush, ClientsOK,
     Clients
<1>6. ~OnTelemetry /\ ~OnPong
  BY <1>2 DEF OnTelemetry, OnPong, Receives
<1>7. ASSUME NEW c \in Clients, OnMalformed(c)
      PROVE  link'["rcs"] = "down" /\ thread'["rcs"] = "idle"
  <2>1. c # "rcs"
    BY <1>2, <1>7 DEF OnMalformed, Receives
  <2> QED BY <1>2, <1>7, <2>1 DEF OnMalformed, ClientsOK, Clients
<1> QED
  BY <1>2, <1>3, <1>4, <1>5, <1>6, <1>7
     DEF MonitorNext, Message, Register, SendStatus, SendEvent, Close,
         monitorVars

LEMMA ToldStep ==
    ASSUME ClientsOK, BrowsersOK, AloneInv, ToldInv, [MonitorNext]_monitorVars
    PROVE  ToldInv'
<1> SUFFICES ASSUME clients' = {"main"}
             PROVE  IF Telling' THEN event'["main"].shown = Shown(connected')
                    ELSE \A b \in registered' : Told(b)'
  BY DEF ToldInv
<1> USE DEF clientVars, browserVars
<1>1. clients = {"main"}
  BY DEF MonitorNext, Message, Connect, Disconnect, OnMalformed, Push, OnJoystick,
         OnTelemetry, OnPing, PruneEnds, PruneRaises, OnPong, Register, SendStatus,
         SendEvent, Close, monitorVars
<1>2. /\ link["rcs"] = "down" /\ thread["rcs"] = "idle"
      /\ Telling => event["main"].shown = Shown(connected)
      /\ ~Telling => \A b \in registered : Told(b)
  BY <1>1 DEF AloneInv, ToldInv
<1>3. "main" \in Clients /\ \A c \in Clients : c = "main" \/ c = "rcs"
  BY DEF Clients
<1>4. CASE UNCHANGED <<connected, browserVars>> /\ ~Telling /\ ~Telling'
  BY <1>2, <1>4 DEF Told
<1>5. CASE UNCHANGED <<thread, event, connected, browserVars>>
  BY <1>2, <1>5 DEF Told, Telling
<1>6. ASSUME NEW c \in Clients, Connect(c) \/ Disconnect(c)
      PROVE  Telling' /\ event'["main"].shown = Shown(connected')
  <2>1. c = "main"
    BY <1>1, <1>2, <1>3, <1>6 DEF Connect, Disconnect
  <2>2. PICK ok \in BOOLEAN : connected' = ok /\ WillPush("main", Status(ok))
    BY <1>6, <2>1 DEF Connect, Disconnect
  <2>3. thread'["main"] = "push" /\ event'["main"] = Status(ok)
    BY <1>3, <2>2 DEF WillPush, ClientsOK
  <2> QED BY <2>2, <2>3, EventKinds DEF Telling
<1>7. CASE OnJoystick
  <2>1. ~Telling
    BY <1>7 DEF OnJoystick, Receives, Telling
  <2>2. event'["main"] = Other
    BY <1>3, <1>7 DEF OnJoystick, WillPush, ClientsOK
  <2>3. ~Telling'
    BY <2>2 DEF Telling, Other
  <2> QED BY <1>4, <1>7, <2>1, <2>3 DEF OnJoystick
<1>8. CASE OnPing \/ PruneEnds \/ PruneRaises
  <2>1. thread["main"] # "push" /\ thread'["main"] # "push"
    BY <1>3, <1>8 DEF OnPing, PruneEnds, PruneRaises, Receives, ClientsOK
  <2> QED BY <1>4, <1>8, <2>1 DEF OnPing, PruneEnds, PruneRaises, Telling
<1>9. ~OnTelemetry /\ ~OnPong
  BY <1>2 DEF OnTelemetry, OnPong, Receives
<1>10. ASSUME NEW c \in Clients, Push(c)
       PROVE  ~Telling' /\ \A b \in registered' : Told(b)'
  <2>1. c = "main" /\ thread["main"] = "push"
    BY <1>2, <1>3, <1>10 DEF Push
  <2>2. thread'["main"] = "idle" /\ UNCHANGED <<connected, handler, status>>
    BY <1>3, <1>10, <2>1 DEF Push, ClientsOK
  <2>3. /\ event["main"] \in Events /\ registered' \subseteq registered
        /\ \A b \in registered' : queue'[b] = Append(queue[b], event["main"])
    BY <1>10, <2>1, PushQueues DEF ClientsOK, BrowsersOK, MonitorTypeOK
  <2>4. ASSUME NEW b \in registered' PROVE Told(b)'
    <3> DEFINE q == queue[b]
               e == event["main"]
               x == Shown(connected)
    <3>1. /\ e.type = "status" /\ e.shown = x =>
                 LastStatus(Append(q, e), x) /\ ~NoStatus(Append(q, e))
          /\ e.type # "status" /\ LastStatus(q, x) => LastStatus(Append(q, e), x)
          /\ e.type # "status" /\ NoStatus(Append(q, e)) => NoStatus(q)
      <4>1. q \in Seq(Events) /\ e \in Events
        BY <2>3 DEF BrowsersOK
      <4> HIDE DEF q, e, x
      <4> QED BY <4>1, AppendTells
    <3>2. /\ queue'[b] = Append(q, e) /\ Shown(connected') = x
          /\ b \in registered /\ handler'[b] = handler[b] /\ status'[b] = status[b]
      BY <2>2, <2>3
    <3>3. e.type = "status" <=> Telling
      BY <2>1 DEF Telling
    <3>4. e.type = "status" => e.shown = x
      BY <1>2, <3>3
    <3>5. e.type # "status" =>
              /\ LastStatus(q, x)
              /\ (handler[b] = "stream" /\ NoStatus(q)) => status[b] = x
      BY <1>2, <3>2, <3>3 DEF Told
    <3> HIDE DEF q, e, x
    <3>6. LastStatus(queue'[b], Shown(connected'))
      BY <3>1, <3>2, <3>4, <3>5, Zenon
    <3>7. ASSUME handler'[b] = "stream", NoStatus(queue'[b])
          PROVE  status'[b] = Shown(connected')
      BY <3>1, <3>2, <3>4, <3>5, <3>7, Zenon
    <3> QED BY <3>6, <3>7 DEF Told, NoStatus, LastStatus
  <2> QED BY <2>2, <2>4 DEF Telling
<1>11. ASSUME UNCHANGED clientVars,
              ~Telling => \A b \in registered' : Told(b)'
       PROVE  IF Telling' THEN event'["main"].shown = Shown(connected')
              ELSE \A b \in registered' : Told(b)'
  BY <1>2, <1>11 DEF Telling
<1>12. ASSUME NEW b \in Browsers, Register(b)
       PROVE  ~Telling => \A d \in registered' : Told(d)'
  <2> SUFFICES ASSUME ~Telling, NEW d \in registered' PROVE Told(d)'
    OBVIOUS
  <2>1. /\ queue' = [queue EXCEPT ![b] = <<>>] /\ Len(<<>>) = 0
        /\ handler' = [handler EXCEPT ![b] = "new"] /\ registered' = registered \cup {b}
        /\ UNCHANGED <<connected, status>>
    BY <1>12, EmptySeq DEF Register
  <2>2. CASE d = b
    <3>1. queue'[d] = <<>> /\ handler'[d] = "new"
      BY <2>1, <2>2 DEF BrowsersOK
    <3> QED BY <2>1, <3>1 DEF Told, LastStatus
  <2>3. CASE d # b
    <3>1. queue'[d] = queue[d] /\ handler'[d] = handler[d] /\ Told(d)
      BY <1>2, <2>1, <2>3 DEF BrowsersOK
    <3> QED BY <2>1, <3>1 DEF Told
  <2> QED BY <2>2, <2>3
<1>13. ASSUME NEW b \in Browsers, SendStatus(b)
       PROVE  ~Telling => \A d \in registered' : Told(d)'
  <2> SUFFICES ASSUME ~Telling, NEW d \in registered' PROVE Told(d)'
    OBVIOUS
  <2>1. /\ handler' = [handler EXCEPT ![b] = "stream"]
        /\ status' = [status EXCEPT ![b] = Shown(connected)]
        /\ UNCHANGED <<connected, registered, queue>> /\ Told(d) /\ d \in Browsers
    BY <1>2, <1>13 DEF SendStatus, BrowsersOK
  <2>2. CASE d = b
    BY <2>1, <2>2 DEF Told, BrowsersOK
  <2>3. CASE d # b
    BY <2>1, <2>3 DEF Told, BrowsersOK
  <2> QED BY <2>2, <2>3
<1>14. ASSUME NEW b \in Browsers, SendEvent(b)
       PROVE  ~Telling => \A d \in registered' : Told(d)'
  <2> SUFFICES ASSUME ~Telling, NEW d \in registered' PROVE Told(d)'
    OBVIOUS
  <2> DEFINE q == queue[b]
             e == Head(q)
             x == Shown(connected)
  <2>1. /\ q # <<>> /\ queue' = [queue EXCEPT ![b] = Tail(q)] /\ handler[b] = "stream"
        /\ UNCHANGED <<connected, handler, registered>>
        /\ e.type = "status" => status' = [status EXCEPT ![b] = e.shown]
    BY <1>14 DEF SendEvent
  <2>2. e.type # "status" => status' = status
    BY <1>14 DEF SendEvent
  <2>3. Told(d) /\ d \in registered /\ d \in Browsers
    BY <1>2, <2>1 DEF BrowsersOK
  <2>4. CASE d = b
    <3>1. LastStatus(q, x) /\ q \in Seq(Events) /\ (NoStatus(q) => status[b] = x)
      BY <2>1, <2>3, <2>4 DEF Told, BrowsersOK
    <3>2. /\ queue'[b] = Tail(q) /\ Shown(connected') = x
          /\ e.type = "status" => status'[b] = e.shown
          /\ e.type # "status" => status'[b] = status[b]
      BY <2>1, <2>2, <2>3, <2>4 DEF BrowsersOK
    <3> HIDE DEF q, x
    <3>3. /\ LastStatus(Tail(q), x)
          /\ NoStatus(Tail(q)) /\ e.type = "status" => e.shown = x
          /\ NoStatus(Tail(q)) /\ e.type # "status" => NoStatus(q)
      BY <2>1, <3>1, TailTells
    <3> HIDE DEF e
    <3>4. LastStatus(queue'[b], Shown(connected'))
      BY <3>2, <3>3, Zenon
    <3>5. ASSUME NoStatus(queue'[b]) PROVE status'[b] = Shown(connected')
      BY <3>1, <3>2, <3>3, <3>5, Zenon
    <3> QED BY <2>4, <3>4, <3>5 DEF Told, NoStatus, LastStatus
  <2>5. CASE d # b
    <3>1. queue'[d] = queue[d] /\ status'[d] = status[d]
      BY <2>1, <2>2, <2>3, <2>5 DEF BrowsersOK
    <3> QED BY <2>1, <2>3, <3>1 DEF Told
  <2> QED BY <2>4, <2>5
<1>15. ASSUME NEW b \in Browsers, Close(b)
       PROVE  ~Telling => \A d \in registered' : Told(d)'
  <2> SUFFICES ASSUME ~Telling, NEW d \in registered' PROVE Told(d)'
    OBVIOUS
  <2>1. d # b /\ d \in registered /\ d \in Browsers /\ Told(d) /\ UNCHANGED connected
    BY <1>2, <1>15 DEF Close, BrowsersOK
  <2>2. queue'[d] = queue[d] /\ status'[d] = status[d] /\ handler'[d] = handler[d]
    BY <1>15, <2>1 DEF Close, BrowsersOK
  <2> QED BY <2>1, <2>2 DEF Told
<1>16. \A b \in Browsers : Register(b) \/ SendStatus(b) \/ SendEvent(b) \/ Close(b)
                            => UNCHANGED clientVars
  BY DEF Register, SendStatus, SendEvent, Close
<1>17. ASSUME NEW c \in Clients, OnMalformed(c)
       PROVE  UNCHANGED <<connected, browserVars>> /\ ~Telling /\ ~Telling'
  <2>1. c = "main" /\ thread["main"] = "idle"
    BY <1>2, <1>3, <1>17 DEF OnMalformed, Receives
  <2>2. thread'["main"] # "push"
    BY <1>3, <1>17, <2>1 DEF OnMalformed, ClientsOK
  <2> QED BY <1>17, <2>1, <2>2 DEF OnMalformed, Telling
<1>18. UNCHANGED monitorVars => UNCHANGED <<thread, event, connected, browserVars>>
  BY DEF monitorVars
<1> QED
  BY <1>4, <1>5, <1>6, <1>7, <1>8, <1>9, <1>10, <1>11, <1>12, <1>13, <1>14, <1>15,
     <1>16, <1>17, <1>18 DEF MonitorNext, Message

LEMMA MonitorInvariance == MonitorSpec => []MonitorInv
<1>1. MonitorInit => MonitorInv
  <2> SUFFICES ASSUME MonitorInit PROVE MonitorInv
    OBVIOUS
  <2> USE MonitorAssumption DEF MonitorInit
  <2>1. Other \in Events /\ Other.type = "other"
    BY EventKinds
  <2>2. <<>> \in Seq(Events) /\ Len(<<>>) = 0
    BY EmptySeq
  <2>3. MonitorTypeOK
    <3>1. event \in [Clients -> Events] /\ queue \in [Browsers -> Seq(Events)]
      BY <2>1, <2>2
    <3>2. \A b \in Browsers : Len(queue[b]) <= QueueSize
      <4>1. \A b \in Browsers : queue[b] = <<>>
        OBVIOUS
      <4>2. 0 <= QueueSize
        OBVIOUS
      <4> HIDE DEF MonitorInit
      <4> QED BY <2>2, <4>1, <4>2
    <3>3. 0 \in 0..MaxRx /\ 0 \in 0..MaxPings
      OBVIOUS
    <3> QED BY <3>1, <3>2, <3>3 DEF MonitorTypeOK
  <2>4. AloneInv /\ ToldInv
    BY DEF AloneInv, ToldInv, Telling, Clients
  <2> QED BY <2>3, <2>4 DEF MonitorInv
<1>2. MonitorInv /\ [MonitorNext]_monitorVars => MonitorInv'
  <2> SUFFICES ASSUME MonitorInv, [MonitorNext]_monitorVars PROVE MonitorInv'
    OBVIOUS
  <2>1. ClientsOK /\ BrowsersOK
    BY DEF MonitorInv, MonitorTypeOK, ClientsOK, BrowsersOK
  <2>2. ClientsOK' /\ BrowsersOK'
    BY <2>1, ClientTypes, BrowserTypes
  <2>3. MonitorTypeOK'
    BY <2>2 DEF MonitorTypeOK, ClientsOK, BrowsersOK
  <2>4. AloneInv' /\ ToldInv'
    BY <2>1, AloneStep, ToldStep DEF MonitorInv
  <2> QED BY <2>3, <2>4 DEF MonitorInv
<1> QED BY <1>1, <1>2, PTL DEF MonitorSpec

\* monitor.py:513-519.  With one client, a browser that is fed and has read its
\* queue displays the status the monitor has, whenever it came.
THEOREM StatusShown == MonitorSpec => []DisplayedStatusIsStates
<1>1. MonitorInv => DisplayedStatusIsStates
  <2> SUFFICES ASSUME MonitorInv, clients = {"main"}, NEW b \in Browsers,
                      handler[b] = "stream", b \in registered, queue[b] = <<>>, Idle
               PROVE  status[b] = Shown(connected)
    BY DEF DisplayedStatusIsStates
  <2>1. ~Telling
    BY DEF Telling, Idle, Clients
  <2>2. Told(b)
    BY <2>1 DEF MonitorInv, ToldInv
  <2>3. NoStatus(queue[b])
    BY EmptySeq DEF NoStatus
  <2> QED BY <2>2, <2>3 DEF Told
<1> QED BY <1>1, MonitorInvariance, PTL

=============================================================================
