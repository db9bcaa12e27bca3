-------------------------- MODULE JoystickPath_proofs --------------------------
(***************************************************************************)
(* The dedup and the order of operator commands, for any number of links,  *)
(* commands and restarts of the console.                                   *)
(***************************************************************************)
EXTENDS JoystickPath, FiniteSetTheorems, TLAPS

Item == [num : Numbers, seq : Nat]

Types ==
    /\ carrying \subseteq Links
    /\ sent \in 0..MaxSent
    /\ base \in 0..sent
    /\ queue \in [Links -> Seq(Item)]
    /\ last \in Int
    /\ hand \in [Links -> [num : 0..MaxSent, at : Places]]
    /\ state \in 0..MaxSent
    /\ drive \in 0..MaxSent
    /\ handed \in [Numbers -> Nat]

\* What is on its way has been sent, and the copies of a command agree.
Copies ==
    /\ \A l \in Links : /\ hand[l].num <= sent
                        /\ hand[l].at # "idle" => hand[l].num \in Numbers
    /\ \A l \in Links : \A i \in 1..Len(queue[l]) : queue[l][i].num <= sent
    /\ \A k, l \in Links :
           \A i \in 1..Len(queue[k]), j \in 1..Len(queue[l]) :
               queue[k][i].num = queue[l][j].num => queue[k][i].seq = queue[l][j].seq
    /\ \A n \in Numbers : n > sent => handed[n] = 0

\* Command n was let through: it is on its way to the bus, or was there.
Passed(n) == handed[n] > 0 \/ \E l \in Links : hand[l].num = n /\ hand[l].at = "route"

\* A command with a seq is in one hand, or on the bus, and its other copies
\* are not newer than last.
Once ==
    \A n \in Numbers \ Seqless :
        /\ handed[n] \in {0, 1}
        /\ \A k \in Links : hand[k].at = "route" /\ hand[k].num = n =>
               /\ handed[n] = 0
               /\ \A l \in Links : hand[l].at = "route" /\ hand[l].num = n => l = k
        /\ Passed(n) =>
               \A l \in Links : \A i \in 1..Len(queue[l]) :
                   queue[l][i].num = n => queue[l][i].seq <= last

\* A payload that does not parse never reaches the bus.
Dropped == \A n \in Malformed : handed[n] = 0

DedupInv == Types /\ Copies /\ Once /\ Dropped

\* With one link, what it carries is newer than what its thread holds, which
\* is newer than what DriveNode has until it gets it.
InOrder(l) ==
    /\ \A i, j \in 1..Len(queue[l]) : i < j => queue[l][i].num < queue[l][j].num
    /\ \A i \in 1..Len(queue[l]) : hand[l].num < queue[l][i].num
    /\ drive <= hand[l].num
    /\ hand[l].at # "idle" => drive < hand[l].num
    /\ hand[l].at \in {"idle", "route", "state"} => state = drive
    /\ hand[l].at = "drive" => state = hand[l].num

OrderInv ==
    /\ \A l \in Links \ carrying : queue[l] = <<>> /\ hand[l].at = "idle"
    /\ \A l \in Links : carrying = {l} => InOrder(l)

-----------------------------------------------------------------------------
(* Queues *)

\* Append adds its element behind the others.
LEMMA AppendFacts ==
    ASSUME NEW S, NEW s \in Seq(S), NEW e \in S
    PROVE  /\ Append(s, e) \in Seq(S)
           /\ Len(Append(s, e)) = Len(s) + 1
           /\ \A i \in 1..Len(s) : Append(s, e)[i] = s[i]
           /\ Append(s, e)[Len(s) + 1] = e
OBVIOUS

\* Tail moves the elements up by one.
LEMMA TailFacts ==
    ASSUME NEW S, NEW s \in Seq(S), s # <<>>
    PROVE  /\ Tail(s) \in Seq(S)
           /\ Len(s) \in Nat /\ Len(s) >= 1
           /\ Len(Tail(s)) = Len(s) - 1
           /\ \A i \in 1..Len(Tail(s)) : i + 1 \in 1..Len(s) /\ Tail(s)[i] = s[i + 1]
           /\ Head(s) = s[1] /\ Head(s) \in S
OBVIOUS

\* The types, element by element.
LEMMA TypeFacts ==
    ASSUME Types
    PROVE  /\ sent \in Nat /\ sent <= MaxSent /\ last \in Int
           /\ state \in Int /\ drive \in Int /\ base \in 0..sent
           /\ \A l \in Links : /\ queue[l] \in Seq(Item)
                              /\ hand[l].num \in Int
                              /\ hand[l].at \in Places
           /\ \A l \in Links : \A i \in 1..Len(queue[l]) :
                  queue[l][i].num \in Int /\ queue[l][i].seq \in Int
           /\ \A n \in Numbers : handed[n] \in Nat /\ n \in Int
<1> USE JoystickAssumption
<1>1. \A l \in Links : queue[l] \in Seq(Item)
  BY DEF Types
<1>2. \A l \in Links : \A i \in 1..Len(queue[l]) : queue[l][i] \in Item
  BY <1>1
<1>3. \A c \in Item : c.num \in Int /\ c.seq \in Int
  BY DEF Item, Numbers
<1>4. \A l \in Links : hand[l] \in [num : 0..MaxSent, at : Places]
  BY DEF Types
<1> QED BY <1>1, <1>2, <1>3, <1>4 DEF Types, Numbers

-----------------------------------------------------------------------------
(* Every command passes once *)

\* Nothing has been sent.
LEMMA DedupInit == Init => DedupInv
<1> SUFFICES ASSUME Init PROVE DedupInv
  OBVIOUS
<1> USE JoystickAssumption DEF Init
<1>1. Types
  BY DEF Types, Places, Numbers
<1>2. \A l \in Links : queue[l] = <<>> /\ hand[l].at = "idle" /\ hand[l].num = 0
  OBVIOUS
<1>3. Copies /\ Once
  BY <1>2 DEF Copies, Once, Passed, Numbers
<1>4. Dropped
  BY DEF Dropped, Numbers
<1> QED BY <1>1, <1>3, <1>4 DEF DedupInv

\* A new command has a number of its own.
LEMMA SendStep ==
    ASSUME DedupInv, NEW got \in SUBSET Links, Send(got)
    PROVE  DedupInv'
<1> USE JoystickAssumption
<1> DEFINE c == [num |-> sent + 1, seq |-> sent - base]
<1>1. /\ sent < MaxSent /\ sent' = sent + 1
      /\ queue' = [l \in Links |-> IF l \in got THEN Append(queue[l], c) ELSE queue[l]]
      /\ UNCHANGED <<carrying, base, last, hand, state, drive, handed>>
  BY DEF Send, consumers
<1>0. /\ sent \in Nat /\ sent <= MaxSent /\ base \in 0..sent
      /\ \A l \in Links : hand[l].num \in Int
      /\ \A l \in Links : \A i \in 1..Len(queue[l]) :
             queue[l][i].num \in Int /\ queue[l][i].seq \in Int
      /\ \A n \in Numbers : handed[n] \in Nat /\ n \in Int
  BY TypeFacts DEF DedupInv
<1>2. c \in Item /\ c.num = sent + 1 /\ c.seq = sent - base
  BY <1>0, <1>1 DEF Item, Numbers
<1> HIDE DEF c
<1>3. Types'
  BY <1>1, <1>2, AppendFacts DEF DedupInv, Types
<1>4. \A l \in Links : \A i \in 1..Len(queue'[l]) :
          \/ i \in 1..Len(queue[l]) /\ queue'[l][i] = queue[l][i]
          \/ queue'[l][i] = c
  <2> TAKE l \in Links
  <2>1. queue[l] \in Seq(Item)
    BY DEF DedupInv, Types
  <2> QED BY <1>1, <1>2, <2>1, AppendFacts
<1>5. Copies'
  <2>1. \A l \in Links : \A i \in 1..Len(queue[l]) :
            queue[l][i].num < c.num /\ queue[l][i].num <= sent'
    BY <1>1, <1>2, <1>0 DEF DedupInv, Copies
  <2>2. \A l \in Links : \A i \in 1..Len(queue'[l]) : queue'[l][i].num <= sent'
    <3>1. c.num <= sent'
      BY <1>0, <1>1, <1>2
    <3> QED BY <1>4, <2>1, <3>1
  <2>3. \A k, l \in Links :
           \A i \in 1..Len(queue'[k]), j \in 1..Len(queue'[l]) :
               queue'[k][i].num = queue'[l][j].num =>
                   queue'[k][i].seq = queue'[l][j].seq
    <3> SUFFICES ASSUME NEW k \in Links, NEW l \in Links,
                        NEW i \in 1..Len(queue'[k]), NEW j \in 1..Len(queue'[l]),
                        queue'[k][i].num = queue'[l][j].num
                 PROVE  queue'[k][i].seq = queue'[l][j].seq
      OBVIOUS
    <3>1. c.num \in Int
      BY <1>0, <1>2
    <3>2. CASE /\ i \in 1..Len(queue[k]) /\ queue'[k][i] = queue[k][i]
               /\ j \in 1..Len(queue[l]) /\ queue'[l][j] = queue[l][j]
      BY <3>2 DEF DedupInv, Copies
    <3>3. CASE queue'[k][i] = c /\ queue'[l][j] = c
      BY <3>3
    <3>4. CASE /\ i \in 1..Len(queue[k]) /\ queue'[k][i] = queue[k][i]
               /\ queue'[l][j] = c
      BY <1>0, <2>1, <3>1, <3>4
    <3>5. CASE /\ queue'[k][i] = c
               /\ j \in 1..Len(queue[l]) /\ queue'[l][j] = queue[l][j]
      BY <1>0, <2>1, <3>1, <3>5
    <3> QED BY <1>4, <3>2, <3>3, <3>4, <3>5
  <2>4. \A l \in Links : /\ hand'[l].num <= sent'
                         /\ hand'[l].at # "idle" => hand'[l].num \in Numbers
    BY <1>1 DEF DedupInv, Copies, Types
  <2>5. \A n \in Numbers : n > sent' => handed'[n] = 0
    BY <1>1 DEF DedupInv, Copies, Types, Numbers
  <2> QED BY <2>2, <2>3, <2>4, <2>5 DEF Copies
<1>6. Once'
  <2>1. \A n \in Numbers : Passed(n) => n <= sent /\ n # c.num
    BY <1>0, <1>2 DEF DedupInv, Copies, Passed
  <2>2. \A n \in Numbers : Passed(n)' <=> Passed(n)
    BY <1>1 DEF Passed
  <2>3. ASSUME NEW n \in Numbers \ Seqless, Passed(n)
        PROVE  \A l \in Links : \A i \in 1..Len(queue'[l]) :
                   queue'[l][i].num = n => queue'[l][i].seq <= last'
    BY <1>1, <1>4, <2>1, <2>3 DEF DedupInv, Once
  <2>4. ASSUME NEW n \in Numbers \ Seqless
        PROVE  /\ handed'[n] \in {0, 1}
               /\ \A k \in Links : hand'[k].at = "route" /\ hand'[k].num = n =>
                      /\ handed'[n] = 0
                      /\ \A l \in Links :
                            hand'[l].at = "route" /\ hand'[l].num = n => l = k
    BY <1>1 DEF DedupInv, Once
  <2> QED BY <2>2, <2>3, <2>4 DEF Once
<1>7. Dropped'
  BY <1>1 DEF DedupInv, Dropped
<1> QED BY <1>3, <1>5, <1>6, <1>7 DEF DedupInv

\* on_message lets a command through that no other thread has had before it.
LEMMA AcceptStep ==
    ASSUME DedupInv, NEW l \in Links, Accept(l)
    PROVE  DedupInv'
<1> USE JoystickAssumption
<1> DEFINE c == Head(queue[l])
<1>1. /\ hand[l].at = "idle" /\ queue[l] # <<>>
      /\ queue' = [queue EXCEPT ![l] = Tail(queue[l])]
      /\ last' = IF HasSeq(c) THEN c.seq ELSE last
      /\ hand' = [hand EXCEPT ![l] = [num |-> c.num, at |-> "route"]]
      /\ UNCHANGED <<carrying, sent, base, state, drive, handed>>
      /\ HasSeq(c) => c.seq > last
  BY DEF Accept, LetThrough, operator, consumers
<1>2. /\ queue[l] \in Seq(Item) /\ c \in Item /\ c = queue[l][1] /\ 1 \in 1..Len(queue[l])
      /\ Tail(queue[l]) \in Seq(Item)
      /\ \A i \in 1..Len(Tail(queue[l])) :
             i + 1 \in 1..Len(queue[l]) /\ Tail(queue[l])[i] = queue[l][i + 1]
  <2>1. queue[l] \in Seq(Item)
    BY DEF DedupInv, Types
  <2> QED BY <1>1, <2>1, TailFacts
<1>3. c.num \in Numbers /\ c.num <= sent /\ c.seq \in Nat
  BY <1>2 DEF Item, DedupInv, Copies
<1> HIDE DEF c
<1>4. Types'
  <2>1. last' \in Int
    BY <1>1, <1>3 DEF DedupInv, Types
  <2>2. hand' \in [Links -> [num : 0..MaxSent, at : Places]]
    <3>1. [num |-> c.num, at |-> "route"] \in [num : 0..MaxSent, at : Places]
      BY <1>3 DEF Places, Numbers
    <3> QED BY <1>1, <3>1 DEF DedupInv, Types
  <2>3. queue' \in [Links -> Seq(Item)]
    BY <1>1, <1>2 DEF DedupInv, Types
  <2> QED BY <1>1, <2>1, <2>2, <2>3 DEF DedupInv, Types
<1>5. \A k \in Links : \A i \in 1..Len(queue'[k]) :
          \E j \in 1..Len(queue[k]) : queue'[k][i] = queue[k][j]
  BY <1>1, <1>2 DEF DedupInv, Types
<1>6. \A k \in Links : hand'[k] = (IF k = l THEN [num |-> c.num, at |-> "route"]
                                            ELSE hand[k])
  BY <1>1 DEF DedupInv, Types
<1>7. Copies'
  <2>1. \A k \in Links : \A i \in 1..Len(queue'[k]) : queue'[k][i].num <= sent'
    BY <1>1, <1>5 DEF DedupInv, Copies
  <2>2. \A k, m \in Links :
           \A i \in 1..Len(queue'[k]), j \in 1..Len(queue'[m]) :
               queue'[k][i].num = queue'[m][j].num =>
                   queue'[k][i].seq = queue'[m][j].seq
    <3> SUFFICES ASSUME NEW k \in Links, NEW m \in Links,
                        NEW i \in 1..Len(queue'[k]), NEW j \in 1..Len(queue'[m]),
                        queue'[k][i].num = queue'[m][j].num
                 PROVE  queue'[k][i].seq = queue'[m][j].seq
      OBVIOUS
    <3>1. PICK a \in 1..Len(queue[k]) : queue'[k][i] = queue[k][a]
      BY <1>5
    <3>2. PICK b \in 1..Len(queue[m]) : queue'[m][j] = queue[m][b]
      BY <1>5
    <3>3. queue[k][a].num = queue[m][b].num => queue[k][a].seq = queue[m][b].seq
      BY DEF DedupInv, Copies
    <3> QED BY <3>1, <3>2, <3>3
  <2>3. \A k \in Links : /\ hand'[k].num <= sent'
                         /\ hand'[k].at # "idle" => hand'[k].num \in Numbers
    BY <1>1, <1>3, <1>6 DEF DedupInv, Copies
  <2> QED BY <1>1, <2>1, <2>2, <2>3 DEF DedupInv, Copies
<1>8. last' >= last
  BY <1>1, <1>3 DEF DedupInv, Types
<1>9. HasSeq(c) => ~Passed(c.num)
  <2>1. last \in Int
    BY TypeFacts DEF DedupInv
  <2> QED BY <1>1, <1>2, <1>3, <2>1 DEF DedupInv, Once, HasSeq
<1>10. Once'
  <2> SUFFICES ASSUME NEW n \in Numbers \ Seqless
               PROVE  /\ handed'[n] \in {0, 1}
                      /\ \A k \in Links : hand'[k].at = "route" /\ hand'[k].num = n =>
                             /\ handed'[n] = 0
                             /\ \A m \in Links :
                                   hand'[m].at = "route" /\ hand'[m].num = n => m = k
                      /\ Passed(n)' =>
                             \A m \in Links : \A i \in 1..Len(queue'[m]) :
                                 queue'[m][i].num = n => queue'[m][i].seq <= last'
    BY DEF Once
  <2>1. /\ handed[n] \in {0, 1}
        /\ \A k \in Links : hand[k].at = "route" /\ hand[k].num = n =>
               /\ handed[n] = 0
               /\ \A m \in Links : hand[m].at = "route" /\ hand[m].num = n => m = k
        /\ Passed(n) =>
               \A m \in Links : \A i \in 1..Len(queue[m]) :
                   queue[m][i].num = n => queue[m][i].seq <= last
    BY DEF DedupInv, Once
  <2>2. CASE n # c.num
    <3>1. Passed(n)' => Passed(n)
      BY <1>1, <1>6, <2>2 DEF Passed
    <3>2. ASSUME NEW m \in Links, NEW i \in 1..Len(queue'[m]),
                 Passed(n)', queue'[m][i].num = n
          PROVE  queue'[m][i].seq <= last'
      <4>1. PICK j \in 1..Len(queue[m]) : queue'[m][i] = queue[m][j]
        BY <1>5
      <4>2. queue[m][j].seq <= last
        BY <2>1, <3>1, <3>2, <4>1
      <4>3. queue[m][j].seq \in Int /\ last \in Int /\ last' \in Int
        BY <1>4, TypeFacts DEF DedupInv, Types
      <4> QED BY <1>8, <4>1, <4>2, <4>3
    <3>3. handed'[n] \in {0, 1}
      BY <1>1, <2>1
    <3>4. \A k \in Links : hand'[k].at = "route" /\ hand'[k].num = n =>
              k # l /\ hand'[k] = hand[k]
      BY <1>6, <2>2
    <3>5. \A k \in Links : hand'[k].at = "route" /\ hand'[k].num = n =>
              /\ handed'[n] = 0
              /\ \A m \in Links : hand'[m].at = "route" /\ hand'[m].num = n => m = k
      BY <1>1, <2>1, <3>4
    <3> QED BY <3>2, <3>3, <3>5
  <2>3. CASE n = c.num
    <3>1. HasSeq(c) /\ ~Passed(n) /\ last' = c.seq
      BY <1>1, <1>9, <2>3 DEF HasSeq
    <3>2. handed[n] = 0 /\ \A k \in Links : ~(hand[k].at = "route" /\ hand[k].num = n)
      BY <2>1, <3>1 DEF Passed
    <3>3. \A m \in Links : \A i \in 1..Len(queue'[m]) :
              queue'[m][i].num = n => queue'[m][i].seq <= last'
      <4>1. \A m \in Links : \A i \in 1..Len(queue[m]) :
                queue[m][i].num = c.num => queue[m][i].seq = c.seq
        BY <1>2 DEF DedupInv, Copies
      <4> SUFFICES ASSUME NEW m \in Links, NEW i \in 1..Len(queue'[m]),
                          queue'[m][i].num = n
                   PROVE  queue'[m][i].seq <= last'
        OBVIOUS
      <4>2. PICK j \in 1..Len(queue[m]) : queue'[m][i] = queue[m][j]
        BY <1>5
      <4> QED BY <1>3, <2>3, <3>1, <4>1, <4>2
    <3>4. \A k \in Links : hand'[k].at = "route" /\ hand'[k].num = n => k = l
      BY <1>6, <3>2
    <3> QED BY <1>1, <3>2, <3>3, <3>4
  <2> QED BY <2>2, <2>3
<1>11. Dropped'
  BY <1>1 DEF DedupInv, Dropped
<1> QED BY <1>4, <1>7, <1>10, <1>11 DEF DedupInv

\* A copy that on_message drops is a loss of nothing.
LEMMA DiscardStep ==
    ASSUME DedupInv, NEW l \in Links, Discard(l)
    PROVE  DedupInv'
<1> USE JoystickAssumption
<1>1. /\ queue[l] # <<>>
      /\ queue' = [queue EXCEPT ![l] = Tail(queue[l])]
      /\ UNCHANGED <<carrying, sent, base, last, hand, state, drive, handed>>
  BY DEF Discard, operator, consumers
<1>2. /\ queue[l] \in Seq(Item) /\ Tail(queue[l]) \in Seq(Item)
      /\ \A i \in 1..Len(Tail(queue[l])) :
             i + 1 \in 1..Len(queue[l]) /\ Tail(queue[l])[i] = queue[l][i + 1]
  <2>1. queue[l] \in Seq(Item)
    BY DEF DedupInv, Types
  <2> QED BY <1>1, <2>1, TailFacts
<1>3. Types'
  BY <1>1, <1>2 DEF DedupInv, Types
<1>4. \A k \in Links : \A i \in 1..Len(queue'[k]) :
          \E j \in 1..Len(queue[k]) : queue'[k][i] = queue[k][j]
  BY <1>1, <1>2 DEF DedupInv, Types
<1>5. Copies'
  <2>1. \A k \in Links : \A i \in 1..Len(queue'[k]) : queue'[k][i].num <= sent'
    BY <1>1, <1>4 DEF DedupInv, Copies
  <2>2. \A k, m \in Links :
           \A i \in 1..Len(queue'[k]), j \in 1..Len(queue'[m]) :
               queue'[k][i].num = queue'[m][j].num =>
                   queue'[k][i].seq = queue'[m][j].seq
    <3> SUFFICES ASSUME NEW k \in Links, NEW m \in Links,
                        NEW i \in 1..Len(queue'[k]), NEW j \in 1..Len(queue'[m]),
                        queue'[k][i].num = queue'[m][j].num
                 PROVE  queue'[k][i].seq = queue'[m][j].seq
      OBVIOUS
    <3>1. PICK a \in 1..Len(queue[k]) : queue'[k][i] = queue[k][a]
      BY <1>4
    <3>2. PICK b \in 1..Len(queue[m]) : queue'[m][j] = queue[m][b]
      BY <1>4
    <3>3. queue[k][a].num = queue[m][b].num => queue[k][a].seq = queue[m][b].seq
      BY DEF DedupInv, Copies
    <3> QED BY <3>1, <3>2, <3>3
  <2> QED BY <1>1, <2>1, <2>2 DEF DedupInv, Copies
<1>6. Once'
  <2>1. \A n \in Numbers : Passed(n)' <=> Passed(n)
    BY <1>1 DEF Passed
  <2>2. ASSUME NEW n \in Numbers \ Seqless, Passed(n),
               NEW m \in Links, NEW i \in 1..Len(queue'[m]), queue'[m][i].num = n
        PROVE  queue'[m][i].seq <= last'
    <3>1. PICK j \in 1..Len(queue[m]) : queue'[m][i] = queue[m][j]
      BY <1>4
    <3> QED BY <1>1, <2>2, <3>1 DEF DedupInv, Once
  <2> QED BY <1>1, <2>1, <2>2 DEF DedupInv, Once
<1> QED BY <1>1, <1>3, <1>5, <1>6 DEF DedupInv, Dropped

\* The bus gets what was in the hand, and the hand is empty of it.
LEMMA RouteStep ==
    ASSUME DedupInv, NEW l \in Links, Route(l)
    PROVE  DedupInv'
<1> USE JoystickAssumption
<1> DEFINE n == hand[l].num
           parsed == n \notin Malformed
<1>1. /\ hand[l].at = "route"
      /\ hand' = [hand EXCEPT ![l].at = IF parsed THEN "state" ELSE "idle"]
      /\ handed' = IF parsed THEN [handed EXCEPT ![n] = @ + 1] ELSE handed
      /\ UNCHANGED <<carrying, sent, base, queue, last, state, drive>>
  BY DEF Route, MoveTo, operator, consumers
<1>2. n \in Numbers /\ n <= sent
  BY <1>1 DEF DedupInv, Copies
<1>3. \A k \in Links : /\ hand'[k].num = hand[k].num
                       /\ k # l => hand'[k] = hand[k]
                       /\ k = l => hand'[k].at # "route"
  BY <1>1 DEF DedupInv, Types
<1>4. \A m \in Numbers : /\ handed[m] \in Nat
                         /\ m \in Int
                         /\ handed'[m] = IF parsed /\ m = n THEN handed[m] + 1
                                         ELSE handed[m]
  BY <1>1, TypeFacts DEF DedupInv, Types
<1>5. Types'
  <2>1. hand' \in [Links -> [num : 0..MaxSent, at : Places]]
    BY <1>1 DEF DedupInv, Types, Places
  <2>2. handed' \in [Numbers -> Nat]
    BY <1>1, <1>2 DEF DedupInv, Types
  <2> QED BY <1>1, <2>1, <2>2 DEF DedupInv, Types
<1>6. Copies'
  <2>1. \A k \in Links : /\ hand'[k].num <= sent'
                         /\ hand'[k].at # "idle" => hand'[k].num \in Numbers
    BY <1>1, <1>2, <1>3 DEF DedupInv, Copies
  <2>2. \A m \in Numbers : m > sent' => handed'[m] = 0
    BY <1>1, <1>2, <1>4, TypeFacts DEF DedupInv, Copies
  <2> QED BY <1>1, <2>1, <2>2 DEF DedupInv, Copies
<1>7. Once'
  <2> SUFFICES ASSUME NEW m \in Numbers \ Seqless
               PROVE  /\ handed'[m] \in {0, 1}
                      /\ \A k \in Links : hand'[k].at = "route" /\ hand'[k].num = m =>
                             /\ handed'[m] = 0
                             /\ \A j \in Links :
                                   hand'[j].at = "route" /\ hand'[j].num = m => j = k
                      /\ Passed(m)' =>
                             \A j \in Links : \A i \in 1..Len(queue[j]) :
                                 queue[j][i].num = m => queue[j][i].seq <= last
    BY <1>1 DEF Once
  <2>1. /\ handed[m] \in {0, 1}
        /\ \A k \in Links : hand[k].at = "route" /\ hand[k].num = m =>
               /\ handed[m] = 0
               /\ \A j \in Links : hand[j].at = "route" /\ hand[j].num = m => j = k
        /\ Passed(m) =>
               \A j \in Links : \A i \in 1..Len(queue[j]) :
                   queue[j][i].num = m => queue[j][i].seq <= last
    BY DEF DedupInv, Once
  <2>2. Passed(m)' => Passed(m)
    BY <1>1, <1>3, <1>4 DEF Passed
  <2>3. m = n => handed[m] = 0
    BY <1>1, <2>1
  <2>4. handed'[m] \in {0, 1}
    BY <1>4, <2>1, <2>3
  <2>5. ASSUME NEW k \in Links, hand'[k].at = "route", hand'[k].num = m
        PROVE  /\ handed'[m] = 0
               /\ \A j \in Links : hand'[j].at = "route" /\ hand'[j].num = m => j = k
    <3>1. k # l /\ hand[k].at = "route" /\ hand[k].num = m
      BY <1>3, <2>5
    <3>2. m # n
      BY <1>1, <2>1, <3>1
    <3> QED BY <1>3, <1>4, <2>1, <3>1, <3>2
  <2> QED BY <2>1, <2>2, <2>4, <2>5
<1>8. Dropped'
  <2>1. \A m \in Malformed : m \in Numbers
    BY DEF Numbers
  <2> QED BY <1>4, <2>1 DEF DedupInv, Dropped
<1> QED BY <1>5, <1>6, <1>7, <1>8 DEF DedupInv

\* The subscribers are called with what has left the route.
LEMMA SubscriberStep ==
    ASSUME DedupInv, NEW l \in Links, OnJoystickState(l) \/ OnJoystickDrive(l)
    PROVE  DedupInv'
<1> USE JoystickAssumption
<1>1. /\ hand[l].at \in {"state", "drive"}
      /\ hand' = [hand EXCEPT ![l].at = IF hand[l].at = "state" THEN "drive" ELSE "idle"]
      /\ state' \in {state, hand[l].num} /\ drive' \in {drive, hand[l].num}
      /\ UNCHANGED <<carrying, sent, base, queue, last, handed>>
  BY DEF OnJoystickState, OnJoystickDrive, MoveTo, operator
<1>2. \A k \in Links : /\ hand'[k].num = hand[k].num
                       /\ hand'[k].at = "route" <=> hand[k].at = "route"
                       /\ hand'[k].at # "idle" => hand[k].at # "idle"
  BY <1>1 DEF DedupInv, Types
<1>3. hand' \in [Links -> [num : 0..MaxSent, at : Places]]
  BY <1>1 DEF DedupInv, Types, Places
<1>4. Types'
  BY <1>1, <1>3 DEF DedupInv, Types
<1>5. Copies'
  BY <1>1, <1>2 DEF DedupInv, Copies
<1>6. \A n \in Numbers : Passed(n)' <=> Passed(n)
  BY <1>1, <1>2 DEF Passed
<1>7. Once'
  BY <1>1, <1>2, <1>6 DEF DedupInv, Once
<1> QED BY <1>1, <1>4, <1>5, <1>7 DEF DedupInv, Dropped

\* A restart of the console changes no command that is on its way.
LEMMA RestartStep ==
    ASSUME DedupInv, ConsoleRestart
    PROVE  DedupInv'
<1>1. base' = sent /\ UNCHANGED <<carrying, sent, queue, last, hand, state, drive, handed>>
  BY DEF ConsoleRestart, consumers
<1>2. base' \in 0..sent'
  BY <1>1, TypeFacts DEF DedupInv
<1>3. Types'
  BY <1>1, <1>2 DEF DedupInv, Types
<1>4. Copies'
  BY <1>1 DEF DedupInv, Copies
<1>5. \A n \in Numbers : Passed(n)' <=> Passed(n)
  BY <1>1 DEF Passed
<1>6. Once'
  BY <1>1, <1>5 DEF DedupInv, Once
<1> QED BY <1>1, <1>3, <1>4, <1>6 DEF DedupInv, Dropped

\* Every step keeps it.
LEMMA DedupNext == DedupInv /\ [Next]_vars => DedupInv'
<1> SUFFICES ASSUME DedupInv, [Next]_vars PROVE DedupInv'
  OBVIOUS
<1>1. ASSUME NEW got \in SUBSET Links, Send(got) PROVE DedupInv'
  BY <1>1, SendStep
<1>2. CASE ConsoleRestart
  BY <1>2, RestartStep
<1>3. ASSUME NEW l \in Links, Paho(l) PROVE DedupInv'
  BY <1>3, AcceptStep, DiscardStep, RouteStep, SubscriberStep DEF Paho
<1>4. CASE UNCHANGED vars
  BY <1>4 DEF vars, operator, consumers, DedupInv, Types, Copies, Once, Passed, Dropped
<1> QED BY <1>1, <1>2, <1>3, <1>4 DEF Next

\* dual_client.py:169-181.  However many links carry it and however their
\* threads interleave, a command with a seq reaches the bus at most once.
THEOREM NoDuplicates == Spec => []NoDuplicateDelivery
<1>1. DedupInv => NoDuplicateDelivery
  BY DEF DedupInv, Once, NoDuplicateDelivery
<1> QED BY <1>1, DedupInit, DedupNext, PTL DEF Spec

-----------------------------------------------------------------------------
(* One link keeps the order *)

\* Nothing is on its way.
LEMMA OrderInit == Init => OrderInv
BY JoystickAssumption DEF Init, OrderInv, InOrder

\* A link the console does not use is silent.
LEMMA OneSpeaks ==
    ASSUME DedupInv, OrderInv, NEW l \in Links, carrying = {l}, NEW k \in Links, Paho(k)
    PROVE  k = l
BY DEF OrderInv, Paho, Accept, LetThrough, Discard, Route, OnJoystickState, OnJoystickDrive

\* The new command is the newest.
LEMMA SendOrder ==
    ASSUME DedupInv, OrderInv, NEW got \in SUBSET Links, Send(got)
    PROVE  OrderInv'
<1> USE JoystickAssumption
<1> DEFINE c == [num |-> sent + 1, seq |-> sent - base]
<1>1. /\ sent < MaxSent /\ got \subseteq carrying
      /\ queue' = [l \in Links |-> IF l \in got THEN Append(queue[l], c) ELSE queue[l]]
      /\ UNCHANGED <<carrying, hand, state, drive>>
  BY DEF Send, consumers
<1>2. c \in Item /\ c.num = sent + 1 /\ sent \in Nat
  BY <1>1, TypeFacts DEF DedupInv, Item, Numbers
<1> HIDE DEF c
<1>3. \A l \in Links \ carrying : queue'[l] = <<>> /\ hand'[l].at = "idle"
  BY <1>1 DEF OrderInv
<1>4. ASSUME NEW l \in Links, carrying = {l} PROVE InOrder(l)'
  <2>1. queue[l] \in Seq(Item) /\ InOrder(l) /\ hand[l].num \in Int
    BY <1>4, TypeFacts DEF DedupInv, OrderInv
  <2>2. CASE l \notin got
    BY <1>1, <2>1, <2>2 DEF InOrder
  <2>3. CASE l \in got
    <3>1. /\ queue'[l] = Append(queue[l], c)
          /\ Len(queue'[l]) = Len(queue[l]) + 1 /\ Len(queue[l]) \in Nat
          /\ \A i \in 1..Len(queue[l]) : queue'[l][i] = queue[l][i]
          /\ queue'[l][Len(queue[l]) + 1] = c
      BY <1>1, <1>2, <2>1, <2>3, AppendFacts
    <3>2. /\ \A i \in 1..Len(queue[l]) : queue[l][i].num \in Int /\ queue[l][i].num < c.num
          /\ hand[l].num < c.num
      BY <1>2, <2>1, TypeFacts DEF DedupInv, Copies
    <3>3. ASSUME NEW i \in 1..Len(queue'[l]), NEW j \in 1..Len(queue'[l]), i < j
          PROVE  queue'[l][i].num < queue'[l][j].num
      <4>1. i \in 1..Len(queue[l])
        BY <3>1, <3>3
      <4>2. CASE j \in 1..Len(queue[l])
        BY <2>1, <3>1, <3>3, <4>1, <4>2 DEF InOrder
      <4>3. CASE j = Len(queue[l]) + 1
        BY <3>1, <3>2, <4>1, <4>3
      <4> QED BY <3>1, <4>2, <4>3
    <3>4. ASSUME NEW i \in 1..Len(queue'[l]) PROVE hand[l].num < queue'[l][i].num
      <4>1. CASE i \in 1..Len(queue[l])
        BY <2>1, <3>1, <4>1 DEF InOrder
      <4>2. CASE i = Len(queue[l]) + 1
        BY <3>1, <3>2, <4>2
      <4> QED BY <3>1, <4>1, <4>2
    <3> QED BY <1>1, <2>1, <3>3, <3>4 DEF InOrder
  <2> QED BY <2>2, <2>3
<1> QED BY <1>1, <1>3, <1>4 DEF OrderInv

\* The thread of the one link takes the oldest command it carries, or drops it.
LEMMA TakeOrder ==
    ASSUME DedupInv, OrderInv, NEW l \in Links, carrying = {l},
           Accept(l) \/ Discard(l)
    PROVE  InOrder(l)'
<1>1. /\ hand[l].at = "idle" /\ queue[l] # <<>> /\ queue[l] \in Seq(Item)
      /\ queue'[l] = Tail(queue[l])
      /\ \/ hand'[l] = [num |-> Head(queue[l]).num, at |-> "route"]
         \/ hand'[l] = hand[l]
      /\ UNCHANGED <<state, drive>>
  BY DEF DedupInv, Types, Accept, LetThrough, Discard, consumers
<1>2. /\ Len(queue[l]) \in Nat /\ Len(queue[l]) >= 1
      /\ Len(Tail(queue[l])) = Len(queue[l]) - 1
      /\ \A i \in 1..Len(Tail(queue[l])) :
             i + 1 \in 1..Len(queue[l]) /\ Tail(queue[l])[i] = queue[l][i + 1]
      /\ Head(queue[l]) = queue[l][1]
  BY <1>1, TailFacts
<1>3. /\ InOrder(l) /\ hand[l].num \in Int /\ drive \in Int
      /\ \A i \in 1..Len(queue[l]) : queue[l][i].num \in Int
  BY TypeFacts DEF DedupInv, OrderInv
<1>4. hand[l].num < queue[l][1].num /\ drive < queue[l][1].num
  BY <1>2, <1>3 DEF InOrder
<1>5. \A i, j \in 1..Len(queue'[l]) : i < j => queue'[l][i].num < queue'[l][j].num
  BY <1>1, <1>2, <1>3 DEF InOrder
<1>6. ASSUME NEW i \in 1..Len(queue'[l])
      PROVE  /\ hand[l].num < queue'[l][i].num
             /\ queue[l][1].num < queue'[l][i].num
  <2>1. i + 1 \in 1..Len(queue[l]) /\ 1 \in 1..Len(queue[l]) /\ 1 < i + 1
        /\ queue'[l][i] = queue[l][i + 1]
    BY <1>1, <1>2
  <2> QED BY <1>3, <2>1 DEF InOrder
<1>7. CASE hand'[l] = [num |-> Head(queue[l]).num, at |-> "route"]
  BY <1>1, <1>2, <1>3, <1>4, <1>5, <1>6, <1>7 DEF InOrder
<1>8. CASE hand'[l] = hand[l]
  BY <1>1, <1>3, <1>5, <1>6, <1>8 DEF InOrder
<1> QED BY <1>1, <1>7, <1>8

\* It calls the subscribers with what it holds, one after the other.
LEMMA DeliverOrder ==
    ASSUME DedupInv, OrderInv, NEW l \in Links, carrying = {l},
           Route(l) \/ OnJoystickState(l) \/ OnJoystickDrive(l)
    PROVE  InOrder(l)'
<1>1. /\ queue' = queue
      /\ InOrder(l) /\ hand[l].num \in Int /\ drive \in Int
  BY TypeFacts DEF DedupInv, OrderInv, Route, OnJoystickState, OnJoystickDrive
<1>2. CASE Route(l)
  <2>1. /\ hand[l].at = "route" /\ hand'[l].num = hand[l].num
        /\ hand'[l].at \in {"idle", "state"}
        /\ UNCHANGED <<state, drive>>
    BY <1>2 DEF DedupInv, Types, Route, MoveTo, consumers
  <2> QED BY <1>1, <2>1 DEF InOrder
<1>3. CASE OnJoystickState(l)
  <2>1. /\ hand[l].at = "state" /\ hand'[l].num = hand[l].num
        /\ hand'[l].at = "drive"
        /\ state' = hand[l].num /\ drive' = drive
    BY <1>3 DEF DedupInv, Types, OnJoystickState, MoveTo
  <2> QED BY <1>1, <2>1 DEF InOrder
<1>4. CASE OnJoystickDrive(l)
  <2>1. /\ hand[l].at = "drive" /\ hand'[l].num = hand[l].num
        /\ hand'[l].at = "idle"
        /\ state' = state /\ drive' = hand[l].num
    BY <1>4 DEF DedupInv, Types, OnJoystickDrive, MoveTo
  <2> QED BY <1>1, <2>1 DEF InOrder
<1> QED BY <1>2, <1>3, <1>4

\* Every step keeps the order.
LEMMA OrderNext == DedupInv /\ OrderInv /\ [Next]_vars => OrderInv'
<1> SUFFICES ASSUME DedupInv, OrderInv, [Next]_vars PROVE OrderInv'
  OBVIOUS
<1>1. ASSUME NEW got \in SUBSET Links, Send(got) PROVE OrderInv'
  BY <1>1, SendOrder
<1>2. CASE ConsoleRestart
  BY <1>2 DEF ConsoleRestart, consumers, OrderInv, InOrder
<1>3. ASSUME NEW k \in Links, Paho(k) PROVE OrderInv'
  <2>1. carrying' = carrying /\ k \in carrying
        /\ \A l \in Links : l # k => queue'[l] = queue[l] /\ hand'[l] = hand[l]
    BY <1>3 DEF Paho, Accept, LetThrough, Discard, Route, OnJoystickState,
                OnJoystickDrive, MoveTo, operator, OrderInv, DedupInv, Types
  <2>2. ASSUME NEW l \in Links, carrying' = {l} PROVE InOrder(l)'
    <3>1. k = l
      BY <2>1, <2>2
    <3> QED BY <1>3, <2>1, <2>2, <3>1, TakeOrder, DeliverOrder DEF Paho
  <2>3. \A l \in Links \ carrying' : queue'[l] = <<>> /\ hand'[l].at = "idle"
    BY <2>1 DEF OrderInv
  <2> QED BY <2>2, <2>3 DEF OrderInv
<1>4. CASE UNCHANGED vars
  BY <1>4 DEF vars, operator, consumers, OrderInv, InOrder
<1> QED BY <1>1, <1>2, <1>3, <1>4 DEF Next

\* The dedup and the order of one link are invariants.
LEMMA Invariance == Spec => [](DedupInv /\ OrderInv)
BY DedupInit, DedupNext, OrderInit, OrderNext, PTL DEF Spec

\* A console that uses one link names it.
LEMMA TheLink ==
    ASSUME DedupInv, OneLink
    PROVE  \E l \in Links : carrying = {l}
<1>1. IsFiniteSet(carrying)
  BY JoystickAssumption, FS_Subset DEF DedupInv, Types
<1> QED BY <1>1, FS_Singleton DEF OneLink, DedupInv, Types

\* message_bus.py:34-46.  Whatever is lost, malformed or restarted, StateManager
\* and DriveNode hold the same command whenever no delivery is under way.
THEOREM Agreement == Spec => []ConsumersAgree
<1>1. DedupInv /\ OrderInv => ConsumersAgree
  BY TheLink DEF ConsumersAgree, OrderInv, InOrder
<1> QED BY <1>1, Invariance, PTL

\* drive_node.py:94-96.  The command DriveNode acts on is only ever replaced by
\* a later one of the operator, for any number of commands and restarts.
THEOREM LatestCommandImplemented == Spec => ImplementsLatestCommand
<1> USE JoystickAssumption
<1>1. Init => Latest!Init
  BY DEF Init, Latest!Init
<1>2. DedupInv /\ OrderInv /\ [Next]_vars => [Latest!Next]_(Latest!vars)
  <2> SUFFICES ASSUME DedupInv, OrderInv, [Next]_vars
               PROVE  [Latest!Next]_(Latest!vars)
    OBVIOUS
  <2> USE DEF Latest!Next, Latest!vars
  <2>1. ASSUME NEW got \in SUBSET Links, Send(got) PROVE Latest!Send
    BY <2>1 DEF Send, consumers, OneLink, Latest!Send
  <2>2. CASE UNCHANGED <<carrying, sent, drive>>
    BY <2>2 DEF OneLink
  <2>3. ASSUME NEW k \in Links, OnJoystickDrive(k) PROVE [Latest!Next]_(Latest!vars)
    <3>1. /\ hand[k].at = "drive" /\ drive' = hand[k].num
          /\ UNCHANGED <<carrying, sent>>
      BY <2>3 DEF OnJoystickDrive, operator
    <3>2. CASE ~OneLink
      BY <3>1, <3>2 DEF OneLink
    <3>3. CASE OneLink
      <4>1. drive < hand[k].num /\ hand[k].num <= sent
        <5>1. PICK l \in Links : carrying = {l}
          BY <3>3, TheLink
        <5>2. k = l
          BY <2>3, <5>1, OneSpeaks DEF Paho
        <5>3. InOrder(k) /\ hand[k].num <= sent
          BY <5>1, <5>2 DEF OrderInv, DedupInv, Copies
        <5> QED BY <3>1, <5>3 DEF InOrder
      <4>2. drive \in Nat /\ hand[k].num \in Nat /\ sent \in Nat
        BY DEF DedupInv, Types
      <4>3. drive' \in (drive + 1)..sent
        BY <3>1, <4>1, <4>2
      <4> QED BY <3>1, <3>3, <4>3 DEF OneLink, Latest!Take
    <3> QED BY <3>2, <3>3
  <2>4. ASSUME NEW k \in Links, Paho(k), ~OnJoystickDrive(k)
        PROVE  UNCHANGED <<carrying, sent, drive>>
    BY <2>4 DEF Paho, Accept, LetThrough, Discard, Route, OnJoystickState,
                operator, consumers
  <2>5. ConsoleRestart \/ UNCHANGED vars => UNCHANGED <<carrying, sent, drive>>
    BY DEF ConsoleRestart, vars, operator, consumers
  <2> QED BY <2>1, <2>2, <2>3, <2>4, <2>5 DEF Next
<1> QED BY <1>1, <1>2, Invariance, PTL DEF Spec, ImplementsLatestCommand, Latest!Spec
=============================================================================
