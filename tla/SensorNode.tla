------------------------------ MODULE SensorNode ------------------------------
(***************************************************************************)
(* sensors/sensor_node.py: one thread polls every sensor when its own      *)
(* interval has passed, the GPS (GpsReader) among them, and goes on after  *)
(* a sensor that raises.  Time is in ticks of the loop's sleep, 0.05 s.    *)
(***************************************************************************)
EXTENDS GpsReader

CONSTANTS Order,     \* the enabled sensors, in the order of the loop
          Interval,  \* poll interval of each
          Flaky,     \* the sensors whose poll may raise
          Late,      \* lateness: how long an iteration, or a wake-up, may take
          MaxAge     \* bound: ages are counted up to here

Sensors == {Order[i] : i \in DOMAIN Order}
Steady == Sensors \ Flaky

\* No reading of a sensor is older than this before the next one is published.
AgeBound(s) == Interval[s] + 3 * Late

\* A sensor has one place in the order, as it has one block in _poll_loop.
DistinctOrder ==
    /\ Order \in Seq(Sensors)
    /\ \A i, j \in DOMAIN Order : Order[i] = Order[j] => i = j

ASSUME SensorAssumption ==
    /\ DistinctOrder
    /\ "gps" \in Steady
    /\ Interval \in [Sensors -> Nat \ {0}]
    /\ Late \in Nat
    /\ MaxAge \in Nat /\ \A s \in Sensors : AgeBound(s) < MaxAge

VARIABLES
    phase,  \* where main is with the node
    at,     \* where the thread is in _poll_loop
    turn,   \* the sensor it comes to, an index into Order
    clock,  \* ticks since the iteration, or the sleep, began
    since,  \* since[s]: ticks since last_battery, last_temperature, last_gps
    age     \* age[s]: ticks since a steady sensor's last publication

nodeVars == <<phase, at, turn, clock, since, age>>
vars == <<gpsVars, nodeVars>>

TypeOK ==
    /\ GpsTypeOK
    /\ phase \in {"configured", "running", "stopping", "stopped"}
    /\ at \in {"none", "test", "poll", "asleep", "ended"}
    /\ turn \in 1..(Len(Order) + 1)
    /\ clock \in 0..(1 + Late)
    /\ since \in [Sensors -> 0..MaxAge]
    /\ age \in [Steady -> 0..MaxAge]

\* last_* is 0.0 and the machine has been up for longer than any interval.
Init ==
    /\ GpsInit
    /\ phase = "configured"
    /\ at = "none"
    /\ turn = 1
    /\ clock = 0
    /\ since = [s \in Sensors |-> Interval[s]]
    /\ age = [s \in Steady |-> 0]

-----------------------------------------------------------------------------
(* Main: on_activate and on_shutdown *)

Activate ==
    /\ phase = "configured"
    /\ phase' = "running"
    /\ at' = "test"
    /\ UNCHANGED <<gpsVars, turn, clock, since, age>>

\* Also after another node raised in start_all, before there is a thread.
ClearRunning ==
    /\ phase \in {"configured", "running"}
    /\ phase' = "stopping"
    /\ UNCHANGED <<gpsVars, at, turn, clock, since, age>>

\* Faulty variant: the port is closed without waiting for the thread.
JoinAndCleanupAtOnce ==
    /\ phase = "stopping"
    /\ phase' = "stopped"
    /\ UNCHANGED <<gpsVars, at, turn, clock, since, age>>

\* join, which takes one iteration and one sleep at most, then cleanup of the
\* GPS: the port is closed.
JoinAndCleanup ==
    /\ phase = "stopping"
    /\ at \in {"none", "ended"}
    /\ phase' = "stopped"
    /\ UNCHANGED <<gpsVars, at, turn, clock, since, age>>

-----------------------------------------------------------------------------
(* The thread: _poll_loop *)

\* while self._running, and now is read.
LoopTest ==
    /\ at = "test"
    /\ at' = IF phase = "running" THEN "poll" ELSE "ended"
    /\ turn' = 1
    /\ clock' = 0
    /\ UNCHANGED <<gpsVars, phase, since, age>>

Polling(s) == at = "poll" /\ turn <= Len(Order) /\ s = Order[turn]

\* now - last_s reached the interval.
Due(s) == since[s] - clock >= Interval[s]

NotYet(s) ==
    /\ Polling(s)
    /\ ~Due(s)
    /\ turn' = turn + 1
    /\ UNCHANGED <<gpsVars, phase, at, clock, since, age>>

\* last_s = now, before the sensor is read.
Taken(s) ==
    /\ Polling(s)
    /\ Due(s)
    /\ since' = [since EXCEPT ![s] = clock]

\* The reading goes to the bus; a reader that fails inside returns zeros.
Published(s) ==
    /\ Taken(s)
    /\ turn' = turn + 1
    /\ age' = [x \in Steady |-> IF x = s THEN 0 ELSE age[x]]
    /\ UNCHANGED <<phase, at, clock>>

PollOther(s) == s # "gps" /\ Published(s) /\ UNCHANGED gpsVars

PollGps == Published("gps") /\ Read

PollGpsFails == Published("gps") /\ ReadFails

\* Faulty variant: the exception leaves the loop.
RaisesOut(s) ==
    /\ s \in Flaky
    /\ Taken(s)
    /\ at' = "ended"
    /\ UNCHANGED <<gpsVars, phase, turn, clock, age>>

\* The poll raises: logged, and the next sensor's turn.
Raises(s) ==
    /\ s \in Flaky
    /\ Taken(s)
    /\ turn' = turn + 1
    /\ UNCHANGED <<gpsVars, phase, at, clock, age>>

Sleep ==
    /\ at = "poll"
    /\ turn > Len(Order)
    /\ at' = "asleep"
    /\ clock' = 0
    /\ UNCHANGED <<gpsVars, phase, turn, since, age>>

Wake ==
    /\ at = "asleep"
    /\ clock >= 1
    /\ at' = "test"
    /\ UNCHANGED <<gpsVars, phase, turn, clock, since, age>>

-----------------------------------------------------------------------------
\* The latest tick at which the thread takes its next step.  Time counts from
\* on_activate, and waits for no thread that has ended.
Deadline == CASE at = "poll" -> Late [] at = "asleep" -> 1 + Late [] OTHER -> 0

Older(ages) ==
    [s \in DOMAIN ages |-> IF ages[s] < MaxAge THEN ages[s] + 1 ELSE MaxAge]

Tick ==
    /\ at = "ended" \/ clock < Deadline
    /\ clock' = IF at = "ended" THEN clock ELSE clock + 1
    /\ since' = Older(since)
    /\ age' = Older(age)
    /\ UNCHANGED <<gpsVars, phase, at, turn>>

Receiver == (SendHead \/ SendTail) /\ UNCHANGED nodeVars

PollStep == \/ LoopTest \/ Sleep \/ Wake
            \/ \E s \in Sensors : NotYet(s) \/ PollOther(s) \/ Raises(s)
            \/ PollGps \/ PollGpsFails

Stopped == phase = "stopped" /\ UNCHANGED vars

Next == \/ Activate \/ ClearRunning \/ JoinAndCleanup
        \/ PollStep \/ Receiver \/ Tick \/ Stopped

\* Main gets to the node, the thread runs, and the port does not fail on every
\* poll from some point on.
Spec == /\ Init /\ [][Next]_vars
        /\ WF_vars(Activate) /\ WF_vars(PollStep) /\ WF_vars(Tick)
        /\ SF_vars(PollGps)

-----------------------------------------------------------------------------
(* Properties *)

\* gps.py:68-74.  However reads cut the stream, and whatever the port drops:
\* no sentence is reported twice or after a later one.
ReportedInOrder ==
    \A i, j \in DOMAIN reported : i < j => reported[i] < reported[j]

\* The sentence was received whole and nothing was glued to its front.
Intact(n) ==
    /\ n \in Sentences
    /\ n = Len(kind) => ~midway
    /\ {Head_(n), Tail_(n)} \cap overrun = {}
    /\ n > 1 => Tail_(n - 1) \notin overrun

\* gps.py:64-74.  Every good sentence that was received whole is reported in
\* the end, wherever the reads cut it, unless the node is stopped.
GoodSentencesReported ==
    \A n \in 1..MaxSentences :
        (Intact(n) /\ kind[n] \in {"fix", "void"})
            ~> (\/ \E i \in DOMAIN reported : reported[i] = n
                \/ phase \in {"stopping", "stopped"})

\* sensor_node.py:75-120.  While the node runs, a sensor that works is read and
\* published within its interval and the lateness of three stretches, whatever
\* the polls of the sensors before it raise and whenever their turns come.
ReadingsFresh == phase = "running" => \A s \in Steady : age[s] <= AgeBound(s)

\* sensor_node.py:67-73.  The port is closed under no poll, and none follows.
ClosedUnread == phase = "stopped" => at # "poll"
=============================================================================
