-------------------------- MODULE SensorNode_proofs --------------------------
(***************************************************************************)
(* The bound on the age of readings, for every set of sensors, interval    *)
(* and lateness, whatever the port delivers, and the order of the reported *)
(* sentences, for every number of them and every size of the port.         *)
(***************************************************************************)
EXTENDS SensorNode, SequenceTheorems, WellFoundedInduction, TLAPS

\* The turn of s in this iteration is over.
Passed(s) == \E i \in DOMAIN Order : Order[i] = s /\ i < turn

NodeTypeOK ==
    /\ phase \in {"configured", "running", "stopping", "stopped"}
    /\ at \in {"none", "test", "poll", "asleep", "ended"}
    /\ turn \in Nat \ {0}
    /\ clock \in Nat
    /\ since \in [Sensors -> 0..MaxAge]
    /\ age \in [Steady -> 0..MaxAge]

\* What the age of the last poll owes to the place of the thread.
SinceInv(s) ==
    /\ age[s] <= since[s]
    /\ at = "none" => phase # "running" /\ since[s] <= Interval[s]
    /\ at = "test" => since[s] <= Interval[s] + 2 * Late
    /\ at = "poll" =>
           /\ clock <= Late
           /\ since[s] <= Interval[s] + 2 * Late + clock
           /\ Passed(s) => since[s] <= Interval[s] + clock - 1
    /\ at = "asleep" =>
           /\ clock <= 1 + Late
           /\ since[s] <= Interval[s] + Late + clock - 1
    /\ at = "ended" => phase # "running"

\* There is a thread only after on_activate.
Begun == phase = "configured" => at = "none"

IInv == /\ NodeTypeOK
        /\ Begun
        /\ \A s \in Steady : SinceInv(s)

\* When the turn has passed all places, every sensor had its turn.
LEMMA AllPassed ==
    ASSUME DistinctOrder, turn \in Nat, turn > Len(Order), NEW s \in Sensors
    PROVE  Passed(s)
BY DEF DistinctOrder, Passed, Sensors

\* A step of the turn passes the sensor whose turn it was, and no other.
LEMMA TurnPasses ==
    ASSUME DistinctOrder, turn \in Nat, turn' = turn + 1,
           turn \in DOMAIN Order, NEW s \in Sensors
    PROVE  Passed(s)' <=> (Passed(s) \/ s = Order[turn])
BY DEF DistinctOrder, Passed, Sensors

\* Ageing by one tick, up to the cap.
LEMMA OlderFacts ==
    ASSUME NEW S, NEW ages \in [S -> 0..MaxAge], MaxAge \in Nat
    PROVE  /\ Older(ages) \in [S -> 0..MaxAge]
           /\ \A s \in S : /\ ages[s] < MaxAge => Older(ages)[s] = ages[s] + 1
                           /\ Older(ages)[s] <= ages[s] + 1
                           /\ Older(ages)[s] >= ages[s]
                           /\ ages[s] = MaxAge => Older(ages)[s] = MaxAge
BY DEF Older

\* sensor_node.py:61-73.  Main's steps leave the ages alone.
LEMMA MainStep ==
    ASSUME SensorAssumption, IInv, Activate \/ ClearRunning \/ JoinAndCleanup
    PROVE  IInv'
<1>1. CASE Activate
  BY <1>1 DEF IInv, NodeTypeOK, Begun, SinceInv, Activate, Passed, SensorAssumption, Steady
<1>2. CASE ClearRunning
  BY <1>2 DEF IInv, NodeTypeOK, Begun, SinceInv, ClearRunning, Passed
<1>3. CASE JoinAndCleanup
  BY <1>3 DEF IInv, NodeTypeOK, Begun, SinceInv, JoinAndCleanup, Passed
<1> QED BY <1>1, <1>2, <1>3

\* sensor_node.py:81-82 and :120.  The loop between two iterations.
LEMMA LoopStep ==
    ASSUME SensorAssumption, DistinctOrder, IInv, LoopTest \/ Sleep \/ Wake
    PROVE  IInv'
<1> USE DEF IInv, NodeTypeOK, Begun
<1>0. \A s \in Steady : s \in Sensors
  BY DEF Steady
<1>1. CASE LoopTest
  <2> SUFFICES ASSUME NEW s \in Steady
               PROVE  NodeTypeOK' /\ Begun' /\ SinceInv(s)'
    BY DEF SensorAssumption
  <2>1. ~Passed(s)'
    BY <1>1 DEF LoopTest, Passed, DistinctOrder
  <2>2. /\ Interval[s] \in Nat /\ Late \in Nat
        /\ age[s] \in Nat /\ since[s] \in Nat
    BY <1>0 DEF SensorAssumption
  <2> QED BY <1>1, <2>1, <2>2 DEF LoopTest, SinceInv
<1>2. CASE Sleep
  <2> SUFFICES ASSUME NEW s \in Steady
               PROVE  NodeTypeOK' /\ Begun' /\ SinceInv(s)'
    BY DEF SensorAssumption
  <2>1. Passed(s) /\ at = "poll" /\ SinceInv(s)
    BY <1>0, <1>2, AllPassed DEF Sleep
  <2>2. /\ Interval[s] \in Nat /\ Late \in Nat
        /\ age[s] \in Nat /\ since[s] \in Nat
    BY <1>0 DEF SensorAssumption
  <2>3. clock \in Nat /\ clock <= Late /\ since[s] <= Interval[s] + clock - 1
    BY <2>1 DEF SinceInv
  <2>4. since[s] <= Interval[s] + Late + 0 - 1
    BY <2>2, <2>3
  <2>5. SinceInv(s)'
    BY <1>2, <2>1, <2>2, <2>4 DEF Sleep, SinceInv
  <2>6. NodeTypeOK' /\ Begun'
    BY <1>2 DEF Sleep
  <2> QED BY <2>5, <2>6
<1>3. CASE Wake
  <2> SUFFICES ASSUME NEW s \in Steady
               PROVE  NodeTypeOK' /\ Begun' /\ SinceInv(s)'
    BY DEF SensorAssumption
  <2>1. /\ Interval[s] \in Nat /\ Late \in Nat
        /\ age[s] \in Nat /\ since[s] \in Nat
    BY <1>0 DEF SensorAssumption
  <2> QED BY <1>3, <2>1 DEF Wake, SinceInv
<1> QED BY <1>1, <1>2, <1>3

\* sensor_node.py:84-118.  A sensor that is not due, one that is read, and one
\* that raises: only a sensor that is not steady misses its publication.
LEMMA PollTurn ==
    ASSUME SensorAssumption, DistinctOrder, IInv, NEW t \in Sensors,
           NotYet(t) \/ Published(t) \/ Raises(t)
    PROVE  IInv'
<1> USE DEF IInv, NodeTypeOK, Begun
<1>1. turn' = turn + 1 /\ at' = at /\ at = "poll" /\ phase' = phase
      /\ clock' = clock
  BY DEF NotYet, Published, Raises, Taken, Polling
<1>2. turn \in DOMAIN Order /\ t = Order[turn]
  <2>1. turn <= Len(Order) /\ t = Order[turn]
    BY DEF NotYet, Published, Raises, Taken, Polling
  <2>2. turn \in Nat \ {0}
    OBVIOUS
  <2> QED BY <2>1, <2>2 DEF DistinctOrder
<1>3. clock \in 0..MaxAge
  <2>1. "gps" \in Steady /\ "gps" \in Sensors
    BY DEF SensorAssumption, Steady
  <2>2. clock \in Nat /\ clock <= Late
    BY <1>1, <2>1 DEF SinceInv
  <2>3. /\ Interval["gps"] \in Nat /\ Late \in Nat /\ MaxAge \in Nat
        /\ Interval["gps"] + 3 * Late < MaxAge
    BY <2>1 DEF SensorAssumption, AgeBound
  <2> QED BY <2>2, <2>3
<1>4. NodeTypeOK'
  BY <1>1, <1>3 DEF NotYet, Published, Raises, Taken
<1>5. ASSUME NEW s \in Steady
      PROVE  SinceInv(s)'
  <2>1. s \in Sensors
    BY DEF Steady
  <2>2. /\ Interval[s] \in Nat \ {0} /\ Late \in Nat
        /\ age[s] \in Nat /\ since[s] \in Nat
    BY <2>1 DEF SensorAssumption
  <2>3. Passed(s)' <=> (Passed(s) \/ s = t)
    BY <1>1, <1>2, <2>1, TurnPasses
  <2>4. CASE s # t
    <3>1. age'[s] = age[s] /\ since'[s] = since[s]
      BY <2>1, <2>4 DEF NotYet, Published, Raises, Taken
    <3> QED BY <1>1, <2>2, <2>3, <2>4, <3>1 DEF SinceInv
  <2>5. CASE s = t
    <3>1. CASE NotYet(t)
      <4>1. age'[s] = age[s] /\ since'[s] = since[s]
            /\ since[s] <= Interval[s] + clock - 1
        BY <3>1, <2>2, <2>5 DEF NotYet, Due
      <4> QED BY <1>1, <2>2, <4>1 DEF SinceInv
    <3>2. CASE Published(t)
      <4>1. age'[s] = 0 /\ since'[s] = clock
        BY <3>2, <2>1, <2>5 DEF Published, Taken
      <4> QED BY <1>1, <2>2, <4>1 DEF SinceInv
    <3>3. CASE Raises(t)
      BY <3>3, <2>5 DEF Raises, Steady
    <3> QED BY <3>1, <3>2, <3>3
  <2> QED BY <2>4, <2>5
<1>6. Begun'
  BY <1>1
<1> QED BY <1>4, <1>5, <1>6

\* A tick ages every reading and every timer alike, and not past a deadline.
LEMMA TickStep ==
    ASSUME SensorAssumption, IInv, Tick
    PROVE  IInv'
<1> USE DEF IInv, NodeTypeOK, Begun
<1>1. MaxAge \in Nat /\ Late \in Nat
  BY DEF SensorAssumption
<1>2. /\ at' = at /\ phase' = phase /\ turn' = turn
      /\ at = "ended" \/ clock < Deadline
      /\ clock' = IF at = "ended" THEN clock ELSE clock + 1
      /\ since' = Older(since) /\ age' = Older(age)
  BY DEF Tick
<1>3. NodeTypeOK'
  <2>1. clock' \in Nat
    BY <1>2
  <2>2. since' \in [Sensors -> 0..MaxAge] /\ age' \in [Steady -> 0..MaxAge]
    BY <1>1, <1>2, OlderFacts
  <2> QED BY <1>2, <2>1, <2>2
<1>4. ASSUME NEW s \in Steady
      PROVE  SinceInv(s)'
  <2>1. s \in Sensors
    BY DEF Steady
  <2>2. /\ Interval[s] \in Nat \ {0}
        /\ age[s] \in 0..MaxAge /\ since[s] \in 0..MaxAge
    BY <2>1 DEF SensorAssumption
  <2>3. /\ since[s] < MaxAge => since'[s] = since[s] + 1
        /\ since'[s] <= since[s] + 1
        /\ since'[s] >= since[s]
        /\ since[s] = MaxAge => since'[s] = MaxAge
    BY <1>1, <1>2, <2>1, OlderFacts
  <2>4. age'[s] <= age[s] + 1 /\ age'[s] \in 0..MaxAge
    BY <1>1, <1>2, <1>3, OlderFacts
  <2>5. since'[s] \in Nat
    BY <1>3, <2>1
  <2>6. age'[s] <= since'[s]
    BY <1>1, <2>2, <2>3, <2>4 DEF SinceInv
  <2>7. Passed(s)' <=> Passed(s)
    BY <1>2 DEF Passed
  <2>8. \/ at = "ended"
        \/ at = "poll" /\ clock < Late
        \/ at = "asleep" /\ clock < 1 + Late
    BY <1>2 DEF Deadline
  <2> QED BY <1>1, <1>2, <2>2, <2>3, <2>5, <2>6, <2>7, <2>8 DEF SinceInv
<1>5. Begun'
  BY <1>2
<1> QED BY <1>3, <1>4, <1>5

\* The inductive invariant: timers and ages as the place of the thread bounds
\* them (sensor_node.py:75-120).
THEOREM Invariance == Spec => []IInv
<1>0. SensorAssumption /\ DistinctOrder
  BY SensorAssumption DEF SensorAssumption
<1>1. Init => IInv
  <2> SUFFICES ASSUME Init PROVE IInv
    OBVIOUS
  <2>1. ASSUME NEW s \in Sensors PROVE Interval[s] \in 0..MaxAge
    BY <1>0 DEF Init, SensorAssumption, AgeBound
  <2> QED BY <1>0, <2>1 DEF Init, IInv, NodeTypeOK, Begun, SinceInv,
                              SensorAssumption, Steady
<1>2. IInv /\ [Next]_vars => IInv'
  <2> SUFFICES ASSUME IInv, [Next]_vars PROVE IInv'
    OBVIOUS
  <2>1. CASE Activate \/ ClearRunning \/ JoinAndCleanup
    BY <1>0, <2>1, MainStep
  <2>2. CASE LoopTest \/ Sleep \/ Wake
    BY <1>0, <2>2, LoopStep
  <2>3. ASSUME NEW s \in Sensors, NotYet(s) \/ PollOther(s) \/ Raises(s)
        PROVE  IInv'
    BY <1>0, <2>3, PollTurn DEF PollOther
  <2>4. CASE PollGps \/ PollGpsFails
    BY <1>0, <2>4, PollTurn DEF PollGps, PollGpsFails, SensorAssumption, Steady
  <2>5. CASE Tick
    BY <1>0, <2>5, TickStep
  <2>6. CASE Receiver \/ UNCHANGED vars
    BY <2>6 DEF Receiver, IInv, NodeTypeOK, Begun, SinceInv, Passed, nodeVars, vars
  <2> QED BY <2>1, <2>2, <2>3, <2>4, <2>5, <2>6 DEF Next, PollStep, Stopped
<1> QED BY <1>1, <1>2, PTL DEF Spec

\* sensor_node.py:75-120.  A sensor that works is published within its interval
\* and three times the lateness, whatever the other sensors do.
THEOREM Fresh == Spec => []ReadingsFresh
<1>1. IInv => ReadingsFresh
  <2> SUFFICES ASSUME IInv, phase = "running", NEW s \in Steady
               PROVE  age[s] <= AgeBound(s)
    BY DEF ReadingsFresh
  <2>1. /\ Interval[s] \in Nat \ {0} /\ Late \in Nat
        /\ age[s] \in Nat /\ since[s] \in Nat /\ clock \in Nat
    BY SensorAssumption DEF IInv, NodeTypeOK, SensorAssumption, Steady
  <2> QED BY <2>1 DEF IInv, NodeTypeOK, Begun, SinceInv, AgeBound
<1> QED BY <1>1, Invariance, PTL

\* sensor_node.py:67-73.  No poll is under way when the port is closed.
THEOREM Unread == Spec => []ClosedUnread
<1> DEFINE I == phase = "stopped" => at \in {"none", "ended"}
<1>1. Init => I
  BY DEF Init
<1>2. I /\ [Next]_vars => I'
  BY DEF Next, PollStep, Activate, ClearRunning, JoinAndCleanup, LoopTest, Sleep,
         Wake, NotYet, PollOther, Raises, PollGps, PollGpsFails, Published, Taken,
         Polling, Tick, Receiver, Stopped, nodeVars, vars
<1>3. I => ClosedUnread
  BY DEF ClosedUnread
<1> QED BY <1>1, <1>2, <1>3, PTL DEF Spec

-----------------------------------------------------------------------------
(* The smallest and the largest of some positions in a sequence *)

\* Every non-empty set of naturals has a smallest member.
LEMMA SmallestNumber ==
    ASSUME NEW S \in SUBSET Nat, S # {}
    PROVE  \E m \in S : \A n \in S : m <= n
<1> DEFINE R == OpToRel(<, Nat)
<1>1. IsWellFoundedOn(R, Nat)
  BY NatLessThanWellFounded
<1>2. ASSUME NEW m \in Nat, NEW n \in Nat, m < n
      PROVE  <<m, n>> \in R
  BY <1>2 DEF OpToRel
<1> HIDE DEF R
<1>3. PICK m \in S : \A n \in S : ~(<<n, m>> \in R)
  BY <1>1, WFMin
<1>4. ASSUME NEW n \in S
      PROVE  m <= n
  <2>1. m \in Nat /\ n \in Nat
    OBVIOUS
  <2>2. ~(n < m)
    BY <1>2, <1>3, <2>1
  <2> QED BY <2>1, <2>2
<1> QED BY <1>4

\* Every bounded one has a largest, the smallest seen from its bound.
LEMMA LargestNumber ==
    ASSUME NEW k \in Nat, NEW S \in SUBSET (0..k), S # {}
    PROVE  \E m \in S : \A n \in S : n <= m
<1> DEFINE T == {k - n : n \in S}
<1>1. \A n \in S : n \in 0..k
  OBVIOUS
<1>2. T \in SUBSET Nat /\ T # {}
  <2>1. \A n \in S : k - n \in Nat
    BY <1>1
  <2> QED BY <2>1, Zenon
<1>3. PICK t \in T : \A u \in T : t <= u
  BY <1>2, SmallestNumber
<1>4. PICK m \in S : t = k - m
  OBVIOUS
<1>5. ASSUME NEW n \in S
      PROVE  n <= m
  <2>1. k - m <= k - n
    BY <1>3, <1>4
  <2> QED BY <1>1, <2>1
<1> QED BY <1>5

\* Min and Max pick a member of such a set.
LEMMA MinMaxFacts ==
    ASSUME NEW k \in Nat, NEW S \in SUBSET (0..k), S # {}
    PROVE  Min(S) \in S /\ Max(S) \in S
<1>1. S \in SUBSET Nat
  OBVIOUS
<1>2. Min(S) \in S
  BY <1>1, SmallestNumber DEF Min
<1>3. Max(S) \in S
  BY LargestNumber DEF Max
<1> QED BY <1>2, <1>3

-----------------------------------------------------------------------------
(* The order of the sentences *)

Piece == [num : Nat, part : {"head", "tail"}]

\* Where a piece is in all that the receiver sends.
Rank(piece) == 2 * piece.num + (IF piece.part = "tail" THEN 1 ELSE 0)

\* The rank of the piece sent last.
Sent == 2 * Len(kind) + (IF midway THEN 0 ELSE 1)

\* What read has before it: what it kept and what waits in the port.
Stream == buffer \o waiting

StreamTypeOK ==
    /\ Len(kind) \in Nat
    /\ midway \in BOOLEAN
    /\ buffer \in Seq(Piece)
    /\ waiting \in Seq(Piece)
    /\ reported \in Seq(Nat)

Rising(s) == \A i, j \in DOMAIN s : i < j => Rank(s[i]) < Rank(s[j])

\* A reported sentence is older than everything that waits.
After(n, s) == \A i \in DOMAIN s : 2 * n + 1 < Rank(s[i])

OrderInv ==
    /\ StreamTypeOK
    /\ Rising(Stream)
    /\ \A i \in DOMAIN Stream : Rank(Stream[i]) <= Sent
    /\ \A r \in DOMAIN reported :
           After(reported[r], Stream) /\ 2 * reported[r] + 1 <= Sent
    /\ ReportedInOrder

\* The ranks are numbers, and the stream a sequence of pieces.
LEMMA StreamFacts ==
    ASSUME StreamTypeOK
    PROVE  /\ Stream \in Seq(Piece) /\ Len(Stream) \in Nat
           /\ DOMAIN Stream = 1..Len(Stream)
           /\ \A i \in DOMAIN Stream : Stream[i] \in Piece /\ Rank(Stream[i]) \in Nat
           /\ Sent \in Nat
<1>1. Stream \in Seq(Piece)
  BY ConcatProperties DEF StreamTypeOK, Stream
<1>2. \A q \in Piece : Rank(q) \in Nat
  BY DEF Rank, Piece
<1> QED BY <1>1, <1>2, ElementOfSeq DEF StreamTypeOK, Sent

\* A piece that comes into the port comes to the end of the stream.
LEMMA StreamGrows ==
    ASSUME StreamTypeOK, NEW q \in Piece,
           waiting' = Append(waiting, q), buffer' = buffer
    PROVE  /\ Stream' = Append(Stream, q)
           /\ waiting' \in Seq(Piece)
<1>1. /\ buffer \in Seq(Piece) /\ waiting \in Seq(Piece)
      /\ <<q>> \in Seq(Piece)
  BY DEF StreamTypeOK
<1>2. Append(waiting, q) = waiting \o <<q>>
  BY <1>1, AppendIsConcat
<1>3. buffer \o (waiting \o <<q>>) = (buffer \o waiting) \o <<q>>
  BY <1>1, ConcatAssociative
<1>4. buffer \o waiting \in Seq(Piece)
  BY <1>1, ConcatProperties
<1>5. Append(buffer \o waiting, q) = (buffer \o waiting) \o <<q>>
  BY <1>4, AppendIsConcat
<1> QED BY <1>1, <1>2, <1>3, <1>5, AppendProperties DEF Stream

\* A newer piece arrives, or is lost: the order stays.
LEMMA ArrivesInOrder ==
    ASSUME OrderInv, NEW q \in Piece, Arrives(q),
           Len(kind') \in Nat, midway' \in BOOLEAN,
           Sent < Rank(q), Rank(q) = Sent',
           buffer' = buffer, reported' = reported
    PROVE  OrderInv'
<1>0. StreamTypeOK
  BY DEF OrderInv
<1>a. /\ Stream \in Seq(Piece) /\ Len(Stream) \in Nat
      /\ DOMAIN Stream = 1..Len(Stream)
      /\ \A i \in DOMAIN Stream : Rank(Stream[i]) \in Nat
      /\ Sent \in Nat /\ Rank(q) \in Nat
      /\ \A r \in DOMAIN reported : reported[r] \in Nat
  BY <1>0, StreamFacts DEF Piece, Rank, StreamTypeOK
<1>1. StreamTypeOK' /\ (Stream' = Stream \/ Stream' = Append(Stream, q))
  BY <1>0, StreamGrows DEF Arrives, StreamTypeOK, Stream
<1>b. ASSUME NEW r \in DOMAIN reported
      PROVE  After(reported[r], Stream) /\ 2 * reported[r] + 1 <= Sent
  BY DEF OrderInv
<1>2. CASE Stream' = Stream
  <2>1. \A i \in DOMAIN Stream' : Rank(Stream'[i]) <= Sent'
    BY <1>a, <1>2 DEF OrderInv
  <2>2. \A r \in DOMAIN reported' :
            After(reported'[r], Stream') /\ 2 * reported'[r] + 1 <= Sent'
    BY <1>a, <1>b, <1>2
  <2> QED BY <1>1, <1>2, <2>1, <2>2 DEF OrderInv, Rising, ReportedInOrder
<1>3. CASE Stream' = Append(Stream, q)
  <2>1. /\ Len(Stream') = Len(Stream) + 1 /\ DOMAIN Stream' = 1..Len(Stream')
        /\ \A i \in 1..Len(Stream) : Stream'[i] = Stream[i]
        /\ Stream'[Len(Stream) + 1] = q
    BY <1>a, <1>3, AppendProperties
  <2>2. \A i \in DOMAIN Stream' :
            \/ i = Len(Stream) + 1 /\ Stream'[i] = q
            \/ i \in DOMAIN Stream /\ Stream'[i] = Stream[i]
    BY <1>a, <2>1
  <2>3. Rising(Stream)'
    <3> SUFFICES ASSUME NEW i \in DOMAIN Stream', NEW j \in DOMAIN Stream', i < j
                 PROVE  Rank(Stream'[i]) < Rank(Stream'[j])
      BY DEF Rising
    <3>1. i \in DOMAIN Stream /\ Stream'[i] = Stream[i]
      BY <1>a, <2>1, <2>2
    <3>2. CASE j \in DOMAIN Stream /\ Stream'[j] = Stream[j]
      BY <3>1, <3>2 DEF OrderInv, Rising
    <3>3. CASE Stream'[j] = q
      BY <1>a, <3>1, <3>3 DEF OrderInv
    <3> QED BY <2>2, <3>2, <3>3
  <2>4. ASSUME NEW i \in DOMAIN Stream'
        PROVE  Rank(Stream'[i]) <= Sent'
    <3>1. CASE i \in DOMAIN Stream /\ Stream'[i] = Stream[i]
      BY <1>a, <3>1 DEF OrderInv
    <3>2. CASE Stream'[i] = q
      BY <1>a, <3>2
    <3> QED BY <2>2, <3>1, <3>2
  <2>5. ASSUME NEW r \in DOMAIN reported
        PROVE  After(reported[r], Stream') /\ 2 * reported[r] + 1 <= Sent'
    <3>1. ASSUME NEW i \in DOMAIN Stream'
          PROVE  2 * reported[r] + 1 < Rank(Stream'[i])
      <4>1. CASE i \in DOMAIN Stream /\ Stream'[i] = Stream[i]
        BY <1>b, <4>1 DEF After
      <4>2. CASE Stream'[i] = q
        BY <1>a, <1>b, <4>2
      <4> QED BY <2>2, <4>1, <4>2
    <3> QED BY <1>a, <1>b, <3>1 DEF After
  <2> QED BY <1>1, <2>3, <2>4, <2>5 DEF OrderInv, ReportedInOrder
<1> QED BY <1>1, <1>2, <1>3

\* The two pieces of a sentence, sent one after the other.
LEMMA SendInOrder ==
    ASSUME OrderInv, SendHead \/ SendTail
    PROVE  OrderInv'
<1>0. StreamTypeOK
  BY DEF OrderInv
<1>1. CASE SendHead
  <2> DEFINE q == Head_(Len(kind) + 1)
  <2>1. /\ ~midway /\ midway' = TRUE /\ Len(kind) \in Nat
        /\ buffer' = buffer /\ reported' = reported
    BY <1>0, <1>1 DEF SendHead, StreamTypeOK
  <2>2. Len(kind') = Len(kind) + 1
    BY <1>0, <1>1 DEF SendHead, StreamTypeOK
  <2>3. Arrives(q)
    BY <1>1, <2>2 DEF SendHead
  <2>4. q \in Piece /\ Rank(q) = 2 * (Len(kind) + 1)
    BY <2>1 DEF Head_, Piece, Rank
  <2>5. Sent = 2 * Len(kind) + 1 /\ Sent' = 2 * Len(kind') + 0
    BY <2>1 DEF Sent
  <2> HIDE DEF q
  <2> QED BY <2>1, <2>2, <2>3, <2>4, <2>5, ArrivesInOrder
<1>2. CASE SendTail
  <2> DEFINE q == Tail_(Len(kind))
  <2>1. /\ midway /\ midway' = FALSE /\ Len(kind) \in Nat
        /\ kind' = kind /\ buffer' = buffer /\ reported' = reported
    BY <1>0, <1>2 DEF SendTail, StreamTypeOK
  <2>2. Arrives(q)
    BY <1>2 DEF SendTail
  <2>3. q \in Piece /\ Rank(q) = 2 * Len(kind) + 1
    BY <2>1 DEF Tail_, Piece, Rank
  <2>4. Sent = 2 * Len(kind) + 0 /\ Sent' = 2 * Len(kind) + 1
    BY <2>1 DEF Sent
  <2> HIDE DEF q
  <2>5. Len(kind') \in Nat /\ midway' \in BOOLEAN
    BY <2>1
  <2>6. Sent < Rank(q) /\ Rank(q) = Sent'
    BY <2>1, <2>3, <2>4
  <2> QED BY <2>1, <2>2, <2>3, <2>5, <2>6, ArrivesInOrder
<1> QED BY <1>1, <1>2

\* A read takes the beginning of the stream off, up to the line it reports or
\* to the last line there is.
LEMMA ReadCuts ==
    ASSUME StreamTypeOK, Read
    PROVE  \E cut \in 0..Len(Stream) :
               /\ waiting' = <<>>
               /\ buffer' = SubSeq(Stream, cut + 1, Len(Stream))
               /\ kind' = kind /\ midway' = midway
               /\ \/ reported' = reported
                  \/ /\ cut >= 1 /\ LineEnds(Stream, cut)
                     /\ reported' = Append(reported, Stream[cut].num)
<1> DEFINE lines == {i \in DOMAIN Stream : LineEnds(Stream, i)}
           good == {i \in lines : Parses(Stream, i)}
           cut == IF good # {} THEN Min(good) ELSE Max(lines \cup {0})
<1>1. /\ waiting' = <<>>
      /\ buffer' = SubSeq(Stream, cut + 1, Len(Stream))
      /\ reported' = IF good = {} THEN reported
                                  ELSE Append(reported, Stream[cut].num)
      /\ kind' = kind /\ midway' = midway
  BY DEF Read, Stream
<1>2. DOMAIN Stream = 1..Len(Stream) /\ Len(Stream) \in Nat
  BY StreamFacts
<1>3. CASE good # {}
  <2>1. good \in SUBSET (0..Len(Stream))
    BY <1>2
  <2>2. Min(good) \in good
    BY <1>2, <1>3, <2>1, MinMaxFacts
  <2>3. cut \in 1..Len(Stream) /\ LineEnds(Stream, cut)
    BY <1>2, <1>3, <2>2
  <2>4. reported' = Append(reported, Stream[cut].num)
    BY <1>1, <1>3
  <2> HIDE DEF cut, good
  <2>5. cut \in 0..Len(Stream) /\ cut >= 1
    BY <1>2, <2>3
  <2> USE <2>3, <2>5
  <2> WITNESS cut \in 0..Len(Stream)
  <2> QED BY <1>1, <2>3, <2>4, <2>5
<1>4. CASE good = {}
  <2>1. lines \cup {0} \in SUBSET (0..Len(Stream)) /\ lines \cup {0} # {}
    BY <1>2
  <2>2. Max(lines \cup {0}) \in lines \cup {0}
    BY <1>2, <2>1, MinMaxFacts
  <2>3. cut \in 0..Len(Stream)
    BY <1>2, <1>4, <2>1, <2>2
  <2>4. reported' = reported
    BY <1>1, <1>4
  <2> HIDE DEF cut, good
  <2> WITNESS cut \in 0..Len(Stream)
  <2> QED BY <1>1, <2>3, <2>4
<1> QED BY <1>3, <1>4

\* What is left of a sequence after its first c places.
LEMMA RestOfSequence ==
    ASSUME NEW S, NEW s \in Seq(S), NEW c \in 0..Len(s)
    PROVE  /\ SubSeq(s, c + 1, Len(s)) \in Seq(S)
           /\ Len(SubSeq(s, c + 1, Len(s))) = Len(s) - c
           /\ \A i \in 1..(Len(s) - c) : SubSeq(s, c + 1, Len(s))[i] = s[c + i]
<1>1. Len(s) \in Nat /\ c \in Int /\ c <= Len(s) /\ c >= 0
  BY LenProperties
<1>2. \A i \in (c + 1)..Len(s) : s[i] \in S
  BY <1>1, ElementOfSeq
<1> DEFINE m == c + 1  n == Len(s)
<1>3. m \in Int /\ n \in Int
  BY <1>1
<1>4. /\ SubSeq(s, m, n) \in Seq(S)
      /\ Len(SubSeq(s, m, n)) = IF m <= n THEN n - m + 1 ELSE 0
      /\ \A i \in 1..(n - m + 1) : SubSeq(s, m, n)[i] = s[m + i - 1]
  <2> HIDE DEF m, n
  <2>1. \A i \in m..n : s[i] \in S
    BY <1>2 DEF m, n
  <2> QED BY <1>3, <2>1, SubSeqProperties
<1>5. n - m + 1 = Len(s) - c /\ (IF m <= n THEN n - m + 1 ELSE 0) = Len(s) - c
  BY <1>1
<1>6. \A i \in 1..(Len(s) - c) : m + i - 1 = c + i
  BY <1>1
<1> QED BY <1>4, <1>5, <1>6

\* gps.py:64-74.  What a read reports is newer than what was reported before,
\* and older than what it leaves.
LEMMA ReadInOrder ==
    ASSUME OrderInv, Read
    PROVE  OrderInv'
<1>0. StreamTypeOK
  BY DEF OrderInv
<1>1. PICK cut \in 0..Len(Stream) :
          /\ waiting' = <<>>
          /\ buffer' = SubSeq(Stream, cut + 1, Len(Stream))
          /\ kind' = kind /\ midway' = midway
          /\ \/ reported' = reported
             \/ /\ cut >= 1 /\ LineEnds(Stream, cut)
                /\ reported' = Append(reported, Stream[cut].num)
  BY <1>0, ReadCuts
<1>a. /\ Stream \in Seq(Piece) /\ Len(Stream) \in Nat
      /\ DOMAIN Stream = 1..Len(Stream)
      /\ \A i \in DOMAIN Stream : Stream[i] \in Piece /\ Rank(Stream[i]) \in Nat
      /\ Sent \in Nat /\ Sent' = Sent
      /\ \A r \in DOMAIN reported : reported[r] \in Nat
  BY <1>0, <1>1, StreamFacts DEF StreamTypeOK, Sent
<1>b. ASSUME NEW r \in DOMAIN reported
      PROVE  After(reported[r], Stream) /\ 2 * reported[r] + 1 <= Sent
  BY DEF OrderInv
<1>2. /\ buffer' \in Seq(Piece)
      /\ Len(buffer') = Len(Stream) - cut
      /\ \A i \in 1..(Len(Stream) - cut) : buffer'[i] = Stream[cut + i]
  BY <1>1, <1>a, RestOfSequence
<1>3. Stream' = buffer' /\ StreamTypeOK'
  <2>1. buffer' \o <<>> = buffer'
    BY <1>2, ConcatEmptySeq
  <2>2. reported' \in Seq(Nat)
    <3>1. cut >= 1 => Stream[cut].num \in Nat
      BY <1>a DEF Piece
    <3>2. reported \in Seq(Nat)
      BY <1>0 DEF StreamTypeOK
    <3>3. cut >= 1 => Append(reported, Stream[cut].num) \in Seq(Nat)
      BY <3>1, <3>2, AppendProperties
    <3> QED BY <1>1, <3>2, <3>3
  <2> QED BY <1>0, <1>1, <1>2, <2>1, <2>2 DEF Stream, StreamTypeOK
<1>4. \A i \in DOMAIN Stream' :
          cut + i \in DOMAIN Stream /\ Stream'[i] = Stream[cut + i] /\ i \in Nat
  BY <1>a, <1>2, <1>3
<1>5. Rising(Stream)'
  <2> SUFFICES ASSUME NEW i \in DOMAIN Stream', NEW j \in DOMAIN Stream', i < j
               PROVE  Rank(Stream'[i]) < Rank(Stream'[j])
    BY DEF Rising
  <2>1. cut + i < cut + j
    BY <1>4
  <2> QED BY <1>4, <2>1 DEF OrderInv, Rising
<1>6. ASSUME NEW i \in DOMAIN Stream'
      PROVE  Rank(Stream'[i]) <= Sent'
  BY <1>4, <1>a DEF OrderInv
<1>7. ASSUME NEW n \in Nat, After(n, Stream)
      PROVE  After(n, Stream')
  BY <1>4, <1>7 DEF After
<1>8. CASE reported' = reported
  BY <1>3, <1>5, <1>6, <1>7, <1>8, <1>a, <1>b DEF OrderInv, ReportedInOrder
<1>9. CASE /\ cut >= 1 /\ LineEnds(Stream, cut)
           /\ reported' = Append(reported, Stream[cut].num)
  <2> DEFINE new == Stream[cut].num
  <2>1. cut \in DOMAIN Stream /\ new \in Nat /\ Rank(Stream[cut]) = 2 * new + 1
    BY <1>9, <1>a DEF LineEnds, Rank, Piece
  <2> HIDE DEF new
  <2>2. /\ Len(reported) \in Nat /\ DOMAIN reported = 1..Len(reported)
        /\ DOMAIN reported' = 1..(Len(reported) + 1)
        /\ \A r \in 1..Len(reported) : reported'[r] = reported[r]
        /\ reported'[Len(reported) + 1] = new
    BY <1>0, <1>9, <2>1, AppendProperties DEF StreamTypeOK, new
  <2>3. \A r \in DOMAIN reported : reported[r] < new
    BY <1>a, <1>b, <2>1 DEF After
  <2>4. After(new, Stream')
    <3> SUFFICES ASSUME NEW i \in DOMAIN Stream'
                 PROVE  2 * new + 1 < Rank(Stream'[i])
      BY DEF After
    <3>1. i >= 1 /\ i \in Nat
      BY <1>2, <1>3
    <3>2. cut < cut + i
      BY <3>1
    <3> QED BY <1>4, <2>1, <3>2 DEF OrderInv, Rising
  <2>5. 2 * new + 1 <= Sent
    BY <2>1 DEF OrderInv
  <2>6. \A r \in DOMAIN reported' :
            After(reported'[r], Stream') /\ 2 * reported'[r] + 1 <= Sent'
    BY <1>7, <1>a, <1>b, <2>2, <2>4, <2>5
  <2>7. ReportedInOrder'
    BY <2>2, <2>3 DEF OrderInv, ReportedInOrder
  <2> QED BY <1>3, <1>5, <1>6, <2>6, <2>7 DEF OrderInv
<1> QED BY <1>1, <1>8, <1>9

\* gps.py:60-74.  No sentence is reported twice or after a later one, however
\* the reads cut the stream and whatever the port drops.
THEOREM InOrder == Spec => []ReportedInOrder
<1>1. Init => OrderInv
  <2> SUFFICES ASSUME Init PROVE OrderInv
    OBVIOUS
  <2>1. /\ kind = <<>> /\ buffer = <<>> /\ waiting = <<>> /\ reported = <<>>
        /\ midway = FALSE
    BY DEF Init, GpsInit
  <2>2. Stream = <<>>
    BY <2>1 DEF Stream
  <2>3. StreamTypeOK
    BY <2>1, EmptySeq DEF StreamTypeOK
  <2> QED BY <2>1, <2>2, <2>3 DEF OrderInv, Rising, ReportedInOrder
<1>2. OrderInv /\ [Next]_vars => OrderInv'
  <2> SUFFICES ASSUME OrderInv, [Next]_vars PROVE OrderInv'
    OBVIOUS
  <2>1. CASE Receiver
    BY <2>1, SendInOrder DEF Receiver
  <2>2. CASE PollGps
    BY <2>2, ReadInOrder DEF PollGps
  <2>3. CASE ~Receiver /\ ~PollGps
    <3>1. /\ kind' = kind /\ midway' = midway /\ waiting' = waiting
          /\ buffer' = buffer /\ reported' = reported
      BY <2>3 DEF Next, PollStep, Activate, ClearRunning, JoinAndCleanup, LoopTest,
         Sleep, Wake, NotYet, PollOther, Raises, PollGpsFails, ReadFails, Tick,
         Stopped, gpsVars, vars
    <3> QED BY <3>1 DEF OrderInv, StreamTypeOK, Stream, Rising, Sent,
            ReportedInOrder
  <2> QED BY <2>1, <2>2, <2>3
<1>3. OrderInv => ReportedInOrder
  BY DEF OrderInv
<1> QED BY <1>1, <1>2, <1>3, PTL DEF Spec
=============================================================================
