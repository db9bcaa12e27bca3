--------------------------- MODULE Lifecycle_proofs ---------------------------
(***************************************************************************)
(* Theorems about Lifecycle for every sequence of nodes with the safety    *)
(* node first, whatever nodes raise and however often the process is       *)
(* killed.                                                                 *)
(*                                                                         *)
(* None of the three properties is inductive: what a node's state is when  *)
(* the process ends depends on how far the launcher had come.              *)
(***************************************************************************)
EXTENDS Lifecycle, TLAPS

\* A node that shutdown_all has been at.
Over(n) == nodeState[n] = "SHUTDOWN" \/ n \in failures

\* Launcher.start_all: the nodes before `next' are configured, then all are.
StartInv ==
    /\ pc = "configure" =>
           \A i \in DOMAIN Nodes :
               nodeState[Nodes[i]] = IF i < next THEN "CONFIGURED" ELSE "CREATED"
    /\ pc \in {"configure", "activate"} => next >= 1
    /\ pc = "activate" /\ inCall => next <= Len(Nodes)
    /\ pc \in {"activate", "wait"} =>
           \A n \in Names : nodeState[n] \in {"CONFIGURED", "ACTIVE"}

\* Launcher.shutdown_all: the nodes after `next' are done with, and the first
\* one, which is the safety node, is not until the end.
StopInv ==
    /\ pc = "shutdown" =>
           /\ \A i \in DOMAIN Nodes : i > next => Over(Nodes[i])
           /\ next >= 1 => nodeState["safety"] # "SHUTDOWN"
    /\ pc = "exited" => \A n \in Names : Over(n)

\* A safety node that was shut down has given the pin back.
PinInv == nodeState["safety"] = "SHUTDOWN" => relay = "input"

IInv == TypeOK /\ StartInv /\ StopInv /\ PinInv /\ SafetyOutlivesOthers
-----------------------------------------------------------------------------
\* The constants are what LifecycleAssumption says.
LEMMA NodeFacts ==
    /\ Len(Nodes) \in Nat /\ Len(Nodes) >= 1
    /\ DOMAIN Nodes = 1..Len(Nodes)
    /\ Nodes[1] = "safety" /\ "safety" \in Names
    /\ \A i \in 1..Len(Nodes) : Nodes[i] \in Names
    /\ \A n \in Names : \E i \in 1..Len(Nodes) : n = Nodes[i]
    /\ \A i, j \in 1..Len(Nodes) : Nodes[i] = Nodes[j] => i = j
    /\ StartupArmed \in BOOLEAN /\ MaxCrashes \in Nat
BY LifecycleAssumption DEF LifecycleAssumption, Names

\* The first node is the safety node and no other is.
LEMMA SafetyFirst ==
    ASSUME NEW i \in 1..Len(Nodes)
    PROVE  Nodes[i] = "safety" <=> i = 1
BY NodeFacts

-----------------------------------------------------------------------------
(* The steps *)

\* Every action keeps the types: the index never leaves the sequence of nodes.
LEMMA TypeStep == IInv /\ [Next]_vars => TypeOK'
<1> SUFFICES ASSUME IInv, [Next]_vars PROVE TypeOK'
  OBVIOUS
<1>0. TypeOK /\ StartInv
  BY DEF IInv
<1>a. /\ next \in Nat /\ next <= Len(Nodes) + 1
      /\ pc = "shutdown" => next <= Len(Nodes)
  BY <1>0, NodeFacts DEF TypeOK
<1>b. ASSUME next' \in Nat, next' <= Len(Nodes) + 1,
             pc' = "shutdown" => next' <= Len(Nodes)
      PROVE  next' \in 0..(IF pc' = "shutdown" THEN Len(Nodes) ELSE Len(Nodes) + 1)
  BY <1>b, NodeFacts
<1> USE NodeFacts DEF process
<1>1. CASE Configure \/ AllConfigured
  BY <1>0, <1>1 DEF Configure, AllConfigured, TypeOK
<1>2. CASE ActivateBegins \/ AllActive
  BY <1>0, <1>2 DEF ActivateBegins, AllActive, TypeOK
<1>3. CASE ActivateEnds
  <2>1. next' \in Nat /\ next' <= Len(Nodes) + 1 /\ pc' # "shutdown"
    BY <1>0, <1>a, <1>3 DEF ActivateEnds, StartInv
  <2> QED BY <1>0, <1>b, <1>3, <2>1 DEF ActivateEnds, ActivateLevel, TypeOK
<1>4. CASE StartRaises \/ Woken
  <2>1. next' = Len(Nodes) /\ pc' = "shutdown"
    BY <1>4 DEF StartRaises, Woken
  <2>2. next' \in 0..(IF pc' = "shutdown" THEN Len(Nodes) ELSE Len(Nodes) + 1)
    BY <1>b, <2>1
  <2>3. /\ UNCHANGED <<nodeState, handlers, stopEvent, unitStop, crashes, failures>>
        /\ inCall' \in BOOLEAN /\ relay' \in {"engaged", "released", "input"}
    BY <1>0, <1>4 DEF StartRaises, ActivateLevel, Woken, TypeOK
  <2> QED BY <1>0, <2>1, <2>2, <2>3 DEF TypeOK
<1>5. CASE ShutdownNode \/ ShutdownRaises \/ Exit
  BY <1>0, <1>5 DEF ShutdownNode, ShutdownRaises, Exit, TypeOK
<1>6. CASE Armed \/ TimesOut
  BY <1>0, <1>6 DEF Armed, TimesOut, TypeOK
<1>7. CASE Terminate \/ Crash
  <2>1. next' = next /\ pc' \in {pc, "dead"} /\ crashes' \in 0..MaxCrashes
    BY <1>0, <1>7 DEF Terminate, Crash, TypeOK
  <2>2. next' \in 0..(IF pc' = "shutdown" THEN Len(Nodes) ELSE Len(Nodes) + 1)
    BY <1>a, <1>b, <2>1
  <2> QED BY <1>0, <1>7, <2>1, <2>2 DEF Terminate, Crash, TypeOK
<1>8. CASE Restart
  <2>1. next' = 1 /\ pc' = "configure"
    BY <1>8 DEF Restart
  <2>2. next' \in 0..(IF pc' = "shutdown" THEN Len(Nodes) ELSE Len(Nodes) + 1)
    BY <1>b, <2>1
  <2> QED BY <1>0, <1>8, <2>1, <2>2 DEF Restart, TypeOK
<1>9. CASE Stopped \/ UNCHANGED vars
  BY <1>0, <1>9 DEF Stopped, vars, TypeOK
<1> QED BY <1>1, <1>2, <1>3, <1>4, <1>5, <1>6, <1>7, <1>8, <1>9 DEF Next, Main

\* start_all goes through the nodes in their order.
LEMMA StartStep == IInv /\ [Next]_vars => StartInv'
<1> SUFFICES ASSUME IInv, [Next]_vars PROVE StartInv'
  OBVIOUS
<1>0. TypeOK /\ StartInv
  BY DEF IInv
<1> USE <1>0, NodeFacts DEF TypeOK, StartInv, process
<1>1. CASE Configure
  <2>1. pc' = "configure" /\ next \in 1..Len(Nodes) /\ next' = next + 1
    BY <1>1 DEF Configure
  <2>2. ASSUME NEW i \in DOMAIN Nodes
        PROVE  nodeState'[Nodes[i]]
                 = IF i < next' THEN "CONFIGURED" ELSE "CREATED"
    <3>1. CASE i = next
      BY <1>1, <2>1, <3>1 DEF Configure
    <3>2. CASE i # next
      <4>1. Nodes[i] # Nodes[next]
        BY <2>1, <3>2
      <4>2. nodeState'[Nodes[i]] = nodeState[Nodes[i]]
        BY <1>1, <4>1 DEF Configure
      <4> QED BY <1>1, <2>1, <3>2, <4>2 DEF Configure
    <3> QED BY <3>1, <3>2
  <2> QED BY <2>1, <2>2
<1>2. CASE AllConfigured
  <2>1. \A n \in Names : nodeState'[n] = "CONFIGURED"
    BY <1>2 DEF AllConfigured
  <2> QED BY <1>2, <2>1 DEF AllConfigured
<1>3. CASE ActivateBegins \/ AllActive
  BY <1>3 DEF ActivateBegins, AllActive
<1>4. CASE ActivateEnds
  BY <1>4 DEF ActivateEnds
<1>5. CASE StartRaises \/ Woken \/ ShutdownNode \/ ShutdownRaises \/ Exit
  BY <1>5 DEF StartRaises, Woken, ShutdownNode, ShutdownRaises, Exit
<1>6. CASE Armed \/ TimesOut \/ Terminate \/ Crash
  BY <1>6 DEF Armed, TimesOut, Terminate, Crash
<1>7. CASE Restart
  BY <1>7 DEF Restart, Names
<1>8. CASE Stopped \/ UNCHANGED vars
  BY <1>8 DEF Stopped, vars
<1> QED BY <1>1, <1>2, <1>3, <1>4, <1>5, <1>6, <1>7, <1>8 DEF Next, Main

\* shutdown_all goes through them backwards, whatever they raise.
LEMMA StopStep == IInv /\ [Next]_vars => StopInv'
<1> SUFFICES ASSUME IInv, [Next]_vars PROVE StopInv'
  OBVIOUS
<1>0. TypeOK /\ StartInv /\ StopInv
  BY DEF IInv
<1> USE <1>0, NodeFacts DEF TypeOK, StopInv, Over, process
<1>1. CASE Configure \/ AllConfigured \/ ActivateBegins \/ AllActive \/ Restart
  BY <1>1 DEF Configure, AllConfigured, ActivateBegins, AllActive, Restart
<1>2. CASE ActivateEnds
  BY <1>2 DEF ActivateEnds
<1>3. CASE StartRaises
  BY <1>3 DEF StartRaises, StartInv
<1>4. CASE Woken
  BY <1>4 DEF Woken, StartInv
<1>5. CASE ShutdownNode
  <2>1. /\ next \in 1..Len(Nodes) /\ next' = next - 1
        /\ pc = "shutdown" /\ pc' = "shutdown" /\ failures' = failures
        /\ nodeState' = [nodeState EXCEPT ![Nodes[next]] = "SHUTDOWN"]
    BY <1>5 DEF ShutdownNode
  <2>2. \A i \in DOMAIN Nodes : i > next' => Over(Nodes[i])'
    BY <2>1
  <2>3. next' >= 1 => nodeState'["safety"] # "SHUTDOWN"
    <3>1. next' >= 1 => Nodes[next] # "safety"
      BY <2>1
    <3> QED BY <2>1, <3>1
  <2> QED BY <2>1, <2>2, <2>3
<1>6. CASE ShutdownRaises
  BY <1>6 DEF ShutdownRaises
<1>7. CASE Exit
  BY <1>7 DEF Exit
<1>8. CASE Armed \/ TimesOut \/ Terminate \/ Crash
  BY <1>8 DEF Armed, TimesOut, Terminate, Crash
<1>9. CASE Stopped \/ UNCHANGED vars
  BY <1>9 DEF Stopped, vars
<1> QED BY <1>1, <1>2, <1>3, <1>4, <1>5, <1>6, <1>7, <1>8, <1>9 DEF Next, Main

\* Nobody drives the pin after the shutdown of its node.
LEMMA PinStep == IInv /\ [Next]_vars => PinInv'
<1> SUFFICES ASSUME IInv, [Next]_vars PROVE PinInv'
  OBVIOUS
<1>0. TypeOK /\ StartInv /\ StopInv /\ PinInv
  BY DEF IInv
<1> USE NodeFacts DEF process, PinInv
<1>1. CASE Configure
  BY <1>0, <1>1 DEF Configure, TypeOK, StartInv
<1>2. CASE ActivateEnds
  <2>1. /\ nodeState' = [nodeState EXCEPT ![Nodes[next]] = "ACTIVE"]
        /\ Nodes[next] # "safety" => relay' = relay
    BY <1>2 DEF ActivateEnds
  <2>2. nodeState'["safety"] = "SHUTDOWN" =>
            nodeState["safety"] = "SHUTDOWN" /\ Nodes[next] # "safety"
    BY <1>0, <2>1 DEF TypeOK
  <2> QED BY <1>0, <2>1, <2>2
<1>3. CASE ShutdownNode
  BY <1>0, <1>3 DEF ShutdownNode, TypeOK
\* The safety node is the last to be shut down, and is not shut down twice.
<1>4. CASE ShutdownRaises
  <2>1. /\ next \in 1..Len(Nodes) /\ nodeState' = nodeState
        /\ Nodes[next] # "safety" => relay' = relay
    BY <1>0, <1>4 DEF ShutdownRaises, TypeOK
  <2>2. Nodes[next] = "safety" => nodeState["safety"] # "SHUTDOWN"
    BY <1>0, <1>4, <2>1, SafetyFirst DEF ShutdownRaises, StopInv
  <2> QED BY <1>0, <2>1, <2>2
<1>5. CASE Restart
  BY <1>5 DEF Restart
<1>6. CASE Armed \/ TimesOut
  BY <1>0, <1>6 DEF Armed, TimesOut
<1>7. CASE AllConfigured \/ ActivateBegins \/ AllActive \/ Woken
  BY <1>0, <1>7 DEF AllConfigured, ActivateBegins, AllActive, Woken
<1>8. CASE StartRaises
  <2>1. /\ nodeState' = nodeState /\ (inCall \/ UNCHANGED relay)
        /\ inCall => pc \in {"configure", "activate"}
    BY <1>8 DEF StartRaises
  <2>2. nodeState["safety"] # "SHUTDOWN"
    BY <1>0, <1>8 DEF StartRaises, StartInv
  <2> QED BY <2>1, <2>2
<1>9. CASE Exit \/ Terminate \/ Crash \/ Stopped \/ UNCHANGED vars
  BY <1>0, <1>9 DEF Exit, Terminate, Crash, Stopped, vars
<1> QED BY <1>1, <1>2, <1>3, <1>4, <1>5, <1>6, <1>7, <1>8, <1>9 DEF Next, Main

\* Configured first and shut down last, it is up whenever another node is.
LEMMA OrderStep == IInv /\ [Next]_vars => SafetyOutlivesOthers'
<1> SUFFICES ASSUME IInv, [Next]_vars PROVE SafetyOutlivesOthers'
  OBVIOUS
<1>0. TypeOK /\ StartInv /\ StopInv /\ SafetyOutlivesOthers
  BY DEF IInv
<1> USE NodeFacts DEF process, SafetyOutlivesOthers, Up
<1>1. CASE Configure
  <2>1. nodeState'["safety"] = "CONFIGURED"
    BY <1>0, <1>1 DEF Configure, TypeOK, StartInv
  <2> QED BY <2>1
<1>2. CASE ActivateEnds
  <2>1. nodeState'["safety"] \in {"CONFIGURED", "ACTIVE"}
    BY <1>0, <1>2 DEF ActivateEnds, TypeOK, StartInv
  <2> QED BY <2>1
<1>3. CASE ShutdownNode
  <2>1. /\ next \in 1..Len(Nodes) /\ pc = "shutdown" /\ failures' = failures
        /\ nodeState' = [nodeState EXCEPT ![Nodes[next]] = "SHUTDOWN"]
    BY <1>0, <1>3 DEF ShutdownNode, TypeOK
  <2>2. CASE next # 1
    BY <1>0, <2>1, <2>2 DEF TypeOK
  <2>3. CASE next = 1
    <3> SUFFICES ASSUME NEW n \in Names, Up(n)' PROVE n \in failures'
      OBVIOUS
    <3>1. PICK i \in 1..Len(Nodes) : n = Nodes[i]
      OBVIOUS
    <3>2. i > 1
      BY <1>0, <2>1, <2>3, <3>1 DEF TypeOK
    <3> QED BY <1>0, <2>1, <2>3, <3>1, <3>2 DEF TypeOK, StopInv, Over
  <2> QED BY <2>2, <2>3
<1>4. CASE ShutdownRaises
  BY <1>0, <1>4 DEF ShutdownRaises
<1>5. CASE Restart
  BY <1>5 DEF Restart
<1>6. CASE Armed \/ TimesOut
  BY <1>0, <1>6 DEF Armed, TimesOut
<1>7. CASE AllConfigured \/ ActivateBegins \/ AllActive \/ StartRaises \/ Woken
  BY <1>0, <1>7 DEF AllConfigured, ActivateBegins, AllActive, StartRaises, Woken
<1>8. CASE Exit \/ Terminate \/ Crash \/ Stopped \/ UNCHANGED vars
  BY <1>0, <1>8 DEF Exit, Terminate, Crash, Stopped, vars
<1> QED BY <1>1, <1>2, <1>3, <1>4, <1>5, <1>6, <1>7, <1>8 DEF Next, Main

-----------------------------------------------------------------------------
(* The theorems *)

\* The inductive invariant of the launcher.
THEOREM Invariance == Spec => []IInv
<1>1. Init => IInv
  <2> SUFFICES ASSUME Init PROVE IInv
    OBVIOUS
  <2> USE NodeFacts DEF Init
  <2>1. TypeOK
    <3>1. next \in 0..(IF pc = "shutdown" THEN Len(Nodes) ELSE Len(Nodes) + 1)
      OBVIOUS
    <3>2. nodeState \in [Names -> {"CREATED", "CONFIGURED", "ACTIVE", "SHUTDOWN"}]
      OBVIOUS
    <3>3. /\ pc = "configure" /\ inCall = FALSE /\ handlers = FALSE
          /\ stopEvent = FALSE /\ unitStop = FALSE
          /\ relay = "input" /\ crashes \in 0..MaxCrashes /\ failures = {}
      OBVIOUS
    <3> HIDE DEF Init
    <3> QED BY <3>1, <3>2, <3>3 DEF TypeOK
  <2>2. StartInv /\ StopInv /\ PinInv /\ SafetyOutlivesOthers
    BY DEF StartInv, StopInv, PinInv, SafetyOutlivesOthers, Up
  <2> QED BY <2>1, <2>2 DEF IInv
<1>2. IInv /\ [Next]_vars => IInv'
  BY TypeStep, StartStep, StopStep, PinStep, OrderStep DEF IInv
<1> QED BY <1>1, <1>2, PTL DEF Spec

\* core/launcher.py:33-40.  A process that ends by itself has shut every node
\* down, however far the start had come and whatever on_shutdown raised.
THEOREM ShutDownWhole == Spec => []NothingLeftRunning
<1>1. IInv => NothingLeftRunning
  BY DEF IInv, StopInv, Over, NothingLeftRunning
<1> QED BY <1>1, Invariance, PTL

\* main.py:57.  For every sequence of nodes that begins with it, the safety
\* node is up before and down after every other.
THEOREM FirstToStartLastToStop == Spec => []SafetyOutlivesOthers
<1>1. IInv => SafetyOutlivesOthers
  BY DEF IInv
<1> QED BY <1>1, Invariance, PTL

\* watchdog_node.py:109-117.  A process that ends by itself does not leave the
\* relay released, whatever else raised, unless the safety node did.
THEOREM ExitIsSafe == Spec => []NeverExitsReleased
<1>1. IInv => NeverExitsReleased
  BY NodeFacts DEF IInv, StopInv, PinInv, Over, NeverExitsReleased
<1> QED BY <1>1, Invariance, PTL
=============================================================================
