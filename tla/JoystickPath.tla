---------------------------- MODULE JoystickPath ----------------------------
(***************************************************************************)
(* The way of a joystick command from the brokers to its two consumers:    *)
(* DualClient's on_message (dedup by seq, check and set under _lock), then *)
(* MqttBridgeNode._on_dual_message and MessageBus.publish, outside the     *)
(* lock, in the paho thread of the link, one subscriber after the other.   *)
(*                                                                         *)
(* The operator's console and the brokers are external: the console        *)
(* publishes each command on the links that carry its commands, all or     *)
(* only some of them, a link delivers in order and may lose commands       *)
(* (QoS 0), and the console may start again with seq 0.                    *)
(***************************************************************************)
EXTENDS Sequences, Integers, FiniteSets

CONSTANTS Links,        \* the links of DualClient: one paho thread each
          MaxSent,      \* bound: commands sent in a behaviour
          MaxRestarts,  \* bound: restarts of the operator's console
          Seqless,      \* numbers of the payloads with no seq, or no JSON at all
          Malformed     \* numbers of the payloads that do not deserialize

ASSUME JoystickAssumption == /\ IsFiniteSet(Links)
                             /\ MaxSent \in Nat
                             /\ MaxRestarts \in Nat
                             /\ Seqless \cup Malformed \subseteq 1..MaxSent

VARIABLES
    carrying,   \* the links the console publishes on: both, or only one
    sent,       \* commands sent so far; a command is known by its number
    base,       \* number of the last command before the console's last start
    restarts,
    queue,      \* queue[l]: commands on their way on link l, with their seq
    last,       \* _last_seq_by_topic of the joystick topic
    hand,       \* hand[l]: the command in the paho thread of l and where it is
    state,      \* StateManager.joystick
    drive,      \* DriveNode._latest_joystick
    handed      \* history: handed[n], how often command n reached the bus

operator == <<carrying, sent, base, restarts>>
consumers == <<state, drive>>
vars == <<operator, queue, last, hand, consumers, handed>>

Numbers == 1..MaxSent
Command == [num : Numbers, seq : 0..(MaxSent - 1)]
Places == {"idle", "route", "state", "drive"}

TypeOK ==
    /\ carrying \subseteq Links
    /\ sent \in 0..MaxSent
    /\ base \in 0..sent
    /\ restarts \in 0..MaxRestarts
    /\ \A l \in Links : /\ Len(queue[l]) <= MaxSent
                        /\ \A i \in DOMAIN queue[l] : queue[l][i] \in Command
    /\ last \in -1..(MaxSent - 1)
    /\ hand \in [Links -> [num : 0..MaxSent, at : Places]]
    /\ state \in 0..MaxSent
    /\ drive \in 0..MaxSent
    /\ handed \in [Numbers -> 0..Cardinality(Links)]

Init ==
    /\ carrying \in SUBSET Links \ {{}}
    /\ sent = 0
    /\ base = 0
    /\ restarts = 0
    /\ queue = [l \in Links |-> <<>>]
    /\ last = -1
    /\ hand = [l \in Links |-> [num |-> 0, at |-> "idle"]]
    /\ state = 0
    /\ drive = 0
    /\ handed = [n \in Numbers |-> 0]

-----------------------------------------------------------------------------
(* The operator's console and the brokers *)

\* The next command; only the links in got deliver it.
Send(got) ==
    /\ sent < MaxSent
    /\ got \subseteq carrying
    /\ sent' = sent + 1
    /\ queue' = [l \in Links |->
                    IF l \in got
                    THEN Append(queue[l], [num |-> sent + 1, seq |-> sent - base])
                    ELSE queue[l]]
    /\ UNCHANGED <<carrying, base, restarts, last, hand, consumers, handed>>

\* The console starts again and counts from 0.
ConsoleRestart ==
    /\ restarts < MaxRestarts
    /\ restarts' = restarts + 1
    /\ base' = sent
    /\ UNCHANGED <<carrying, sent, queue, last, hand, consumers, handed>>

-----------------------------------------------------------------------------
(* The paho thread of link l *)

\* _extract_seq: a payload may have a seq although it does not deserialize.
HasSeq(c) == c.num \notin Seqless

\* on_message lets the first command of link l through.
LetThrough(l) ==
    LET c == Head(queue[l])
    IN  /\ hand[l].at = "idle"
        /\ queue[l] # <<>>
        /\ queue' = [queue EXCEPT ![l] = Tail(@)]
        /\ last' = IF HasSeq(c) THEN c.seq ELSE last
        /\ hand' = [hand EXCEPT ![l] = [num |-> c.num, at |-> "route"]]
        /\ UNCHANGED <<operator, consumers, handed>>

\* Faulty variant: waits for the next seq, as if no command were ever lost.
AcceptInSequence(l) ==
    /\ LetThrough(l)
    /\ HasSeq(Head(queue[l])) => Head(queue[l]).seq = last + 1

\* Faulty variant: seq < last drops, so an equal seq passes.
AcceptEqual(l) ==
    /\ LetThrough(l)
    /\ HasSeq(Head(queue[l])) => Head(queue[l]).seq >= last

\* on_message up to the release of the lock.
Accept(l) ==
    /\ LetThrough(l)
    /\ HasSeq(Head(queue[l])) => Head(queue[l]).seq > last

Discard(l) ==
    LET c == Head(queue[l])
    IN  /\ hand[l].at = "idle"
        /\ queue[l] # <<>>
        /\ HasSeq(c) /\ c.seq <= last
        /\ queue' = [queue EXCEPT ![l] = Tail(@)]
        /\ UNCHANGED <<operator, last, hand, consumers, handed>>

MoveTo(l, place) == hand' = [hand EXCEPT ![l].at = place]

\* Faulty variant: a payload that does not parse becomes an empty command.
RouteEmpty(l) ==
    LET n == hand[l].num
    IN  /\ hand[l].at = "route"
        /\ IF n \in Malformed
           THEN /\ hand' = [hand EXCEPT ![l] = [num |-> 0, at |-> "state"]]
                /\ UNCHANGED handed
           ELSE MoveTo(l, "state") /\ handed' = [handed EXCEPT ![n] = @ + 1]
        /\ UNCHANGED <<operator, queue, last, consumers>>

\* _on_dual_message: deserialize, then publish; an exception is logged.
Route(l) ==
    LET n == hand[l].num
    IN  /\ hand[l].at = "route"
        /\ IF n \in Malformed
           THEN MoveTo(l, "idle") /\ UNCHANGED handed
           ELSE MoveTo(l, "state") /\ handed' = [handed EXCEPT ![n] = @ + 1]
        /\ UNCHANGED <<operator, queue, last, consumers>>

\* Faulty variant: an exception of the first subscriber ends the delivery.
OnJoystickStateRaises(l) ==
    /\ hand[l].at = "state"
    /\ state' = hand[l].num
    /\ \E place \in {"idle", "drive"} : MoveTo(l, place)
    /\ UNCHANGED <<operator, queue, last, drive, handed>>

\* MessageBus.publish calls the subscribers in the order they subscribed in.
OnJoystickState(l) ==
    /\ hand[l].at = "state"
    /\ state' = hand[l].num
    /\ MoveTo(l, "drive")
    /\ UNCHANGED <<operator, queue, last, drive, handed>>

OnJoystickDrive(l) ==
    /\ hand[l].at = "drive"
    /\ drive' = hand[l].num
    /\ MoveTo(l, "idle")
    /\ UNCHANGED <<operator, queue, last, state, handed>>

-----------------------------------------------------------------------------
Paho(l) == \/ Accept(l) \/ Discard(l) \/ Route(l)
           \/ OnJoystickState(l) \/ OnJoystickDrive(l)

Next == \/ \E got \in SUBSET Links : Send(got)
        \/ ConsoleRestart
        \/ \E l \in Links : Paho(l)

Spec == Init /\ [][Next]_vars

\* The paho threads run; the operator owes nothing.
FairSpec == Spec /\ \A l \in Links : WF_vars(Paho(l))

-----------------------------------------------------------------------------
(* Properties *)

\* Each thread hands its commands on outside the lock, so that with two of them
\* the two consumers may see the commands in different orders.
OneLink == Cardinality(carrying) = 1

\* dual_client.py:10 and :169-181.  Although both links carry it, a command
\* with a seq reaches the bus once, however the two threads interleave.
NoDuplicateDelivery == \A n \in Numbers \ Seqless : handed[n] <= 1

\* dual_client.py:169-181.  Redundancy: the newest command reaches DriveNode as
\* soon as one link carries it, whatever the other link lost, kept or delayed,
\* unless the console has started again since the first command.
NewestGetsThrough ==
    MaxSent \notin Malformed =>
        (/\ base = 0
         /\ handed[MaxSent] = 0
         /\ \E l \in Links : \E i \in DOMAIN queue[l] : queue[l][i].num = MaxSent)
            ~> drive = MaxSent

\* message_bus.py:34-46.  With one link and no delivery under way the two
\* consumers hold the same command, although a payload may not parse.
ConsumersAgree ==
    OneLink /\ (\A l \in Links : hand[l].at = "idle") => state = drive

\* drive_node.py:94-96.  With one link the command DriveNode acts on follows
\* the operator: restarts, losses and commands without a seq never bring an
\* older one back.
Latest == INSTANCE LatestCommand WITH latest <- IF OneLink THEN drive ELSE 0
ImplementsLatestCommand == Latest!Spec
=============================================================================
