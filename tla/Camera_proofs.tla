----------------------------- MODULE Camera_proofs -----------------------------
(***************************************************************************)
(* The camera under overlapping sessions, for any number of commands and   *)
(* of calls of picamera2 that raise: the argument is about the loop only,  *)
(* whatever a task finds when close() returns, it stops the camera of the  *)
(* track the node has then, before another one is started.  Then where the *)
(* tasks are: which ones the loop's queue and the waiters of a close()     *)
(* hold.  And the MJPEG server, for any viewers: how many connections the  *)
(* count counts, and how frames are ordered on their way.                  *)
(***************************************************************************)
EXTENDS CameraNode, MjpegServer, SequenceTheorems, FiniteSetTheorems, TLAPS

Device == [picam : [Commands -> {"new", "on", "pattern", "off"}],
           held : SUBSET Commands, faults : Nat]

\* The track the node knows is the one that uses the camera of device d.
Known(d, t) ==
    /\ \A c \in Commands : d.picam[c] = "on" => c = t
    /\ t \in Commands => d.picam[t] \in {"on", "pattern"}
    /\ d.faults = 0 => /\ d.held = (IF t = 0 THEN {} ELSE {t})
                       /\ t \in Commands => d.picam[t] = "on"

\* No Picamera2 but those that are waiting for frames, or were.
Fetching(d, fetched) == \A c \in fetched : d.picam[c] \in {"on", "off"}

\* A task that has not come past its clean-up has no camera yet.
Fresh ==
    /\ commands \in Seq({"start", "stop"})
    /\ at \in [Tasks -> {"none", "begin", "close", "gather", "done"}]
    /\ \A t \in Commands : t > Len(commands) => at[t] = "none"
    /\ \A t \in Commands :
           at[t] \in {"none", "begin", "close"} => device.picam[t] = "new"

IInv ==
    /\ track \in 0..MaxCommands
    /\ device \in Device
    /\ captures \subseteq Commands
    /\ Known(device, track)
    /\ Fetching(device, captures)
    /\ Fresh

-----------------------------------------------------------------------------
(* What stop_camera and start_camera do to the device *)

\* No device gains more than one fault by a call that raises.
LEMMA RaisedFacts ==
    ASSUME NEW d \in Device, NEW e \in Raised(d)
    PROVE  /\ e \in Device
           /\ e.picam = d.picam /\ e.held = d.held /\ e.faults # 0
<1>1. e = [d EXCEPT !.faults = @ + 1]
  BY DEF Raised
<1> QED BY <1>1 DEF Device

\* stop_camera leaves no camera on, and the others' tracks as they were.
LEMMA StopFacts ==
    ASSUME NEW d \in Device, NEW t \in 0..MaxCommands, Known(d, t),
           NEW e \in StoppedCamera(d, t)
    PROVE  /\ e \in Device
           /\ Known(e, 0)
           /\ \A c \in Commands :
                  e.picam[c] = (IF d.picam[c] = "on" THEN "off" ELSE d.picam[c])
<1>1. CASE t \notin Commands \/ d.picam[t] # "on"
  <2>1. e = d
    BY <1>1 DEF StoppedCamera
  <2>2. \A c \in Commands : d.picam[c] # "on"
    BY <1>1 DEF Known
  <2>3. d.faults = 0 => d.held = {}
    BY <1>1 DEF Known, Commands
  <2> QED BY <2>1, <2>2, <2>3 DEF Known, Commands
<1>2. CASE t \in Commands /\ d.picam[t] = "on"
  <2> DEFINE off == [d EXCEPT !.picam[t] = "off"]
             given == [d EXCEPT !.picam[t] = "off", !.held = @ \ {t}]
  <2>1. e = given \/ e \in Raised(off)
    BY <1>2 DEF StoppedCamera
  <2>2. /\ off \in Device /\ given \in Device
        /\ off.picam = [d.picam EXCEPT ![t] = "off"]
        /\ given.picam = [d.picam EXCEPT ![t] = "off"]
        /\ given.held = d.held \ {t} /\ given.faults = d.faults
    BY <1>2 DEF Device
  <2> HIDE DEF off, given
  <2>3. e \in Device /\ e.picam = [d.picam EXCEPT ![t] = "off"]
    BY <2>1, <2>2, RaisedFacts
  <2>4. e.faults = 0 => e.held = {}
    <3>1. CASE e = given
      BY <1>2, <2>2, <3>1 DEF Known, Commands
    <3>2. CASE e \in Raised(off)
      BY <2>2, <3>2, RaisedFacts
    <3> QED BY <2>1, <3>1, <3>2
  <2>5. \A c \in Commands :
            e.picam[c] = (IF d.picam[c] = "on" THEN "off" ELSE d.picam[c])
    BY <1>2, <2>3 DEF Known, Device
  <2> QED BY <2>3, <2>4, <2>5 DEF Known, Commands
<1> QED BY <1>1, <1>2

\* start_camera gives track t the camera or the test pattern, and finds it free
\* unless a call has raised.
LEMMA StartFacts ==
    ASSUME NEW d \in Device, NEW t \in Commands, Known(d, 0),
           NEW e \in StartedCamera(d, t)
    PROVE  /\ e \in Device
           /\ Known(e, t)
           /\ \A c \in Commands \ {t} : e.picam[c] = d.picam[c]
<1> DEFINE fallback == [d EXCEPT !.picam[t] = "pattern"]
           leaked == [fallback EXCEPT !.held = {t}]
           started == [d EXCEPT !.picam[t] = "on", !.held = {t}]
<1>1. \/ d.held # {} /\ e = fallback
      \/ e = started \/ e \in Raised(fallback) \/ e \in Raised(leaked)
  BY DEF StartedCamera
<1>2. /\ fallback \in Device /\ leaked \in Device /\ started \in Device
      /\ fallback.picam = [d.picam EXCEPT ![t] = "pattern"]
      /\ leaked.picam = [d.picam EXCEPT ![t] = "pattern"]
      /\ started.picam = [d.picam EXCEPT ![t] = "on"]
      /\ started.held = {t} /\ fallback.faults = d.faults
  BY DEF Device
<1> HIDE DEF fallback, leaked, started
<1>3. \A c \in Commands : d.picam[c] # "on"
  BY DEF Known, Commands
<1>4. d.held # {} => d.faults # 0
  BY DEF Known
<1>5. /\ e \in Device
      /\ \/ e.picam = [d.picam EXCEPT ![t] = "on"] /\ e.held = {t}
         \/ e.picam = [d.picam EXCEPT ![t] = "pattern"] /\ e.faults # 0
  BY <1>1, <1>2, <1>4, RaisedFacts
<1>6. d.picam \in [Commands -> {"new", "on", "pattern", "off"}] /\ t # 0
  BY DEF Device, Commands
<1> QED BY <1>3, <1>5, <1>6 DEF Known

-----------------------------------------------------------------------------
(* The inductive invariant *)

\* Nothing has been opened.
LEMMA Initially == Init => IInv
<1> SUFFICES ASSUME Init PROVE IInv
  OBVIOUS
<1> USE CameraAssumption
<1>1. /\ track = 0 /\ captures = {} /\ device \in Device
      /\ device.picam = [t \in Commands |-> "new"] /\ device.held = {}
  BY DEF Init, TrackInit, Device
<1>2. Known(device, track) /\ Fetching(device, captures)
  BY <1>1 DEF Known, Fetching, Commands
<1>3. Fresh
  BY <1>1 DEF Init, Fresh, Tasks, Cleanup, Commands
<1> QED BY <1>1, <1>2, <1>3 DEF IInv

\* After its clean-up a task has replaced the session, or ended it.
LEMMA Replaces ==
    ASSUME IInv, NEW t \in Tasks, at[t] \in {"begin", "close"},
           NEW woken, AfterCleanup(t, woken),
           UNCHANGED <<commands, captures>>
    PROVE  IInv'
<1> USE CameraAssumption
<1>1. t \in Commands \/ t = Cleanup
  BY DEF Tasks, Cleanup, Commands
<1>2. Kind(t) = "start" => t \in Commands
  BY <1>1 DEF Kind
<1>3. track \in 0..MaxCommands /\ device \in Device /\ Known(device, track)
  BY DEF IInv
<1>4. CASE Kind(t) = "start"
  <2>1. /\ track' = t /\ at' = [at EXCEPT ![t] = "gather"]
        /\ \E d \in StoppedCamera(device, track) : device' \in StartedCamera(d, t)
    BY <1>4 DEF AfterCleanup
  <2>2. PICK d \in StoppedCamera(device, track) : device' \in StartedCamera(d, t)
    BY <2>1
  <2>3. /\ d \in Device /\ Known(d, 0)
        /\ \A c \in Commands : d.picam[c] = (IF device.picam[c] = "on" THEN "off"
                                             ELSE device.picam[c])
    BY <1>3, StopFacts
  <2>4. /\ device' \in Device /\ Known(device', t)
        /\ \A c \in Commands \ {t} : device'.picam[c] = d.picam[c]
    BY <1>2, <1>4, <2>2, <2>3, StartFacts
  <2>5. t \notin captures
    BY <1>2, <1>4 DEF IInv, Fresh, Fetching
  <2>6. Fetching(device, captures)'
    BY <2>3, <2>4, <2>5 DEF IInv, Fetching
  <2>7. Fresh'
    BY <1>2, <1>4, <2>1, <2>3, <2>4 DEF IInv, Fresh
  <2>8. track' \in 0..MaxCommands /\ Known(device, track)'
    BY <1>2, <1>4, <2>1, <2>4 DEF Commands, Known
  <2> QED BY <2>4, <2>6, <2>7, <2>8 DEF IInv
<1>5. CASE Kind(t) # "start"
  <2>1. /\ track' = 0 /\ at' = [at EXCEPT ![t] = "done"]
        /\ device' \in StoppedCamera(device, track)
    <3>1. ASSUME t \in Commands, t # Cleanup PROVE Kind(t) = "stop"
      <4>1. t \in DOMAIN commands
        BY <3>1 DEF IInv, Fresh, Commands
      <4>2. commands[t] \in {"start", "stop"}
        BY <4>1 DEF IInv, Fresh
      <4> QED BY <1>5, <3>1, <4>2 DEF Kind
    <3>2. t = Cleanup => Kind(t) = "cleanup"
      BY DEF Kind
    <3>3. Kind(t) \in {"stop", "cleanup"}
      BY <1>1, <3>1, <3>2
    <3> QED BY <3>3 DEF AfterCleanup
  <2>2. /\ device' \in Device /\ Known(device', 0)
        /\ \A c \in Commands :
               device'.picam[c] = (IF device.picam[c] = "on" THEN "off"
                                   ELSE device.picam[c])
    BY <1>3, <2>1, StopFacts
  <2>3. Fetching(device, captures)'
    BY <2>2 DEF IInv, Fetching
  <2>4. Fresh'
    BY <2>1, <2>2 DEF IInv, Fresh
  <2>5. track' \in 0..MaxCommands /\ Known(device, track)'
    BY <2>1, <2>2 DEF Known
  <2> QED BY <2>2, <2>3, <2>4, <2>5 DEF IInv
<1> QED BY <1>4, <1>5

\* The arrival of a command makes one task that has not begun.
LEMMA Arrives ==
    ASSUME IInv, NEW action \in {"start", "stop"}, OnCameraCmd(action)
    PROVE  IInv'
<1> USE CameraAssumption
<1>1. /\ Len(commands) \in Nat /\ Len(commands) < MaxCommands
      /\ commands' = Append(commands, action)
      /\ at' = [at EXCEPT ![Len(commands) + 1] = "begin"]
      /\ UNCHANGED <<track, device, captures>>
  BY DEF IInv, Fresh, OnCameraCmd, session, camera, frames
<1>2. Len(commands) + 1 \in Commands /\ at[Len(commands) + 1] = "none"
  BY <1>1 DEF IInv, Fresh, Commands
<1>3. commands' \in Seq({"start", "stop"}) /\ Len(commands') = Len(commands) + 1
  BY <1>1 DEF IInv, Fresh
<1>4. Fresh'
  BY <1>1, <1>2, <1>3 DEF IInv, Fresh, Commands, Tasks, Cleanup
<1> QED BY <1>1, <1>4 DEF IInv, Known, Fetching

\* The stretches of a task that do not end its clean-up.
LEMMA Moves ==
    ASSUME IInv, UNCHANGED <<commands, track, device>>,
           captures' \subseteq captures,
           \/ UNCHANGED at
           \/ \E t \in Tasks, place \in {"close", "done"} :
                  /\ at' = [at EXCEPT ![t] = place]
                  /\ at[t] = "begin" \/ (place = "done" /\ at[t] = "gather")
           \/ at' = [at EXCEPT ![Cleanup] = "begin"]
    PROVE  IInv'
<1> USE CameraAssumption
<1>1. Cleanup \notin Commands /\ Cleanup \in Tasks
  BY DEF Cleanup, Commands, Tasks
<1>2. /\ at' \in [Tasks -> {"none", "begin", "close", "gather", "done"}]
      /\ \A t \in Commands : at[t] = "none" => at'[t] = "none"
      /\ \A t \in Commands : at'[t] \in {"none", "begin", "close"}
                               => at[t] \in {"none", "begin", "close"}
  <2>1. at \in [Tasks -> {"none", "begin", "close", "gather", "done"}]
    BY DEF IInv, Fresh
  <2>2. CASE UNCHANGED at
    BY <2>1, <2>2
  <2>3. ASSUME NEW t \in Tasks, NEW place \in {"close", "done"},
               at' = [at EXCEPT ![t] = place],
               at[t] = "begin" \/ (place = "done" /\ at[t] = "gather")
        PROVE  <1>2!:
    BY <2>1, <2>3
  <2>4. CASE at' = [at EXCEPT ![Cleanup] = "begin"]
    BY <1>1, <2>1, <2>4
  <2> QED BY <2>2, <2>3, <2>4
<1>3. Fresh'
  BY <1>2 DEF IInv, Fresh
<1> QED BY <1>3 DEF IInv, Known, Fetching

\* recv reads self._picam in the step that asks for a frame.
LEMMA Fetches ==
    ASSUME IInv, NEW c \in Commands, Frame(c)
    PROVE  IInv'
<1>1. /\ UNCHANGED <<commands, at, track, device>>
      /\ \/ captures' \subseteq captures
         \/ device.picam[c] = "on" /\ captures' = captures \cup {c}
  BY DEF Frame, RecvCaptures, RecvPattern, CaptureEnds, session
<1>2. captures' \subseteq Commands /\ Fetching(device, captures)'
  BY <1>1 DEF IInv, Fetching
<1> QED BY <1>1, <1>2 DEF IInv, Known, Fresh

\* Every step keeps the invariant: one case for each action of Next.
LEMMA Inductive == IInv /\ [Next]_vars => IInv'
<1> SUFFICES ASSUME IInv, [Next]_vars PROVE IInv'
  OBVIOUS
<1> USE DEF session, camera, frames
<1>1. ASSUME NEW action \in {"start", "stop"}, OnCameraCmd(action) PROVE IInv'
  BY <1>1, Arrives
<1>2. CASE ShutdownCleanup
  BY <1>2, Moves DEF ShutdownCleanup
<1>3. CASE ShutdownQuit
  BY <1>3, Moves DEF ShutdownQuit
<1>4. CASE LoopEnds
  BY <1>4, Moves DEF LoopEnds
<1>5. ASSUME NEW t \in Tasks, BeginFree(t) PROVE IInv'
  BY <1>5, Replaces DEF BeginFree
<1>6. ASSUME NEW t \in Tasks, BeginClose(t) PROVE IInv'
  BY <1>6, Moves DEF BeginClose
<1>7. ASSUME NEW t \in Tasks, Closed(t) PROVE IInv'
  <2>1. PICK c \in Commands :
            AfterCleanup(t, IF t = Head(closers[c]) THEN Tail(closers[c]) ELSE <<>>)
    BY <1>7 DEF Closed
  <2>2. at[t] \in {"begin", "close"} /\ UNCHANGED <<commands, captures>>
    BY <1>7 DEF Closed
  <2> QED BY <2>1, <2>2, Replaces
<1>8. ASSUME NEW t \in Commands, Offer(t) \/ OfferRaises(t) PROVE IInv'
  <2>1. t \in Tasks
    BY CameraAssumption DEF Commands, Tasks, Cleanup
  <2> QED BY <1>8, <2>1, Moves DEF Offer, OfferRaises
<1>9. CASE RunQuit
  BY <1>9, Moves DEF RunQuit
<1>10. ASSUME NEW t \in Commands, Gathered(t) \/ CloseDone(t) PROVE IInv'
  BY <1>10, Moves DEF Gathered, CloseDone
<1>11. ASSUME NEW t \in Commands, Frame(t) PROVE IInv'
  BY <1>11, Fetches
<1>12. CASE SetAnswer
  BY <1>12, Moves DEF SetAnswer
<1>13. ASSUME NEW c \in Commands, NEW published \in {"streaming", "error"},
              ConnectionState(c, published)
       PROVE  IInv'
  BY <1>13, Moves DEF ConnectionState
<1>14. CASE UNCHANGED vars
  BY <1>14, Moves DEF vars
<1> QED
  BY <1>1, <1>2, <1>3, <1>4, <1>5, <1>6, <1>7, <1>8, <1>9, <1>10, <1>11, <1>12,
     <1>13, <1>14 DEF Next, RunReady, Stopped

\* camera_node.py:256-325 and :368-378.  The invariant behind both properties.
THEOREM Invariance == Spec => []IInv
<1> QED BY Initially, Inductive, PTL DEF Spec

-----------------------------------------------------------------------------
(* The properties of the runs *)

\* camera_node.py:280-300 and :368-378.  However many start and stop tasks
\* overlap and wherever they wait, one track at a time has the camera on, the
\* one the node can stop, and a new session finds the camera free unless a
\* call of picamera2 has raised.
THEOREM OneOwner == Spec => []CameraOwned
<1>1. IInv => CameraOwned
  BY DEF IInv, Known, CameraOwned
<1> QED BY <1>1, Invariance, PTL

\* pi_camera_track.py:255-261.  What the node's session sends is what its
\* camera is, although frames are fetched in another thread.
THEOREM TruePicture == Spec => PictureIsTrue
<1> DEFINE Truth(c) == c = track /\ Frame(c) /\ sent' # sent
              => CASE sent' = "camera" -> device.picam[c] = "on"
                   [] sent' = "pattern" -> device.picam[c] = "pattern"
<1>1. ASSUME IInv, NEW c \in Commands PROVE Truth(c)
  <2> SUFFICES ASSUME c = track, Frame(c), sent' # sent
               PROVE  CASE sent' = "camera" -> device.picam[c] = "on"
                        [] sent' = "pattern" -> device.picam[c] = "pattern"
    OBVIOUS
  <2>1. device.picam[c] \in {"on", "pattern"}
    BY <1>1 DEF IInv, Known
  <2>2. CASE RecvPattern(c)
    BY <2>1, <2>2 DEF RecvPattern
  <2>3. CASE CaptureEnds(c)
    BY <1>1, <2>1, <2>3 DEF CaptureEnds, IInv, Fetching
  <2>4. CASE RecvCaptures(c)
    BY <2>4 DEF RecvCaptures
  <2> QED BY <2>2, <2>3, <2>4 DEF Frame
<1>2. IInv /\ [Next]_vars => [\A c \in Commands : Truth(c)]_vars
  BY <1>1
<1> QED BY <1>2, Invariance, PTL DEF Spec, PictureIsTrue

-----------------------------------------------------------------------------
(* No task is forgotten *)

In(x, q) == \E i \in 1..Len(q) : q[i] = x

Once(q) == \A i, j \in 1..Len(q) : q[i] = q[j] => i = j

\* The first one of a queue is taken out.
LEMMA TakeFirst ==
    ASSUME NEW S, NEW q \in Seq(S), q # <<>>, Once(q)
    PROVE  /\ Tail(q) \in Seq(S) /\ Once(Tail(q))
           /\ Head(q) \in S /\ In(Head(q), q)
           /\ \A x : In(x, Tail(q)) <=> (In(x, q) /\ x # Head(q))
<1> DEFINE r == Tail(q)
<1>1. /\ r \in Seq(S) /\ Len(r) = Len(q) - 1 /\ Len(q) \in Nat \ {0}
      /\ Head(q) = q[1] /\ Head(q) \in S
      /\ \A i \in 1..Len(r) : r[i] = q[i + 1]
  OBVIOUS
<1>2. /\ 1 \in 1..Len(q)
      /\ \A i \in 1..Len(r) : i + 1 \in 1..Len(q) /\ i + 1 # 1
      /\ \A i \in 1..Len(q) : i = 1 \/ (i - 1 \in 1..Len(r) /\ r[i - 1] = q[i])
      /\ \A i, j \in 1..Len(r) : i + 1 = j + 1 => i = j
  BY <1>1
<1> HIDE DEF r
<1>3. Once(r)
  BY <1>1, <1>2 DEF Once
<1>4. ASSUME NEW x PROVE In(x, r) <=> (In(x, q) /\ x # Head(q))
  <2>1. In(x, r) => In(x, q) /\ x # Head(q)
    BY <1>1, <1>2 DEF In, Once
  <2>2. In(x, q) /\ x # Head(q) => In(x, r)
    BY <1>1, <1>2 DEF In
  <2> QED BY <2>1, <2>2
<1> QED BY <1>1, <1>2, <1>3, <1>4 DEF In, r

\* One more at the end of a queue.
LEMMA AddLast ==
    ASSUME NEW S, NEW q \in Seq(S), NEW e \in S, Once(q), ~In(e, q)
    PROVE  /\ Append(q, e) \in Seq(S) /\ Once(Append(q, e))
           /\ \A x : In(x, Append(q, e)) <=> (In(x, q) \/ x = e)
           /\ Append(q, e) # <<>>
           /\ q # <<>> => Head(Append(q, e)) = Head(q)
           /\ q = <<>> => Head(Append(q, e)) = e
<1> DEFINE r == Append(q, e)
<1>1. /\ r \in Seq(S) /\ Len(r) = Len(q) + 1 /\ Len(q) \in Nat
      /\ r[Len(q) + 1] = e /\ \A i \in 1..Len(q) : r[i] = q[i]
      /\ r # <<>> /\ Head(r) = r[1]
  BY AppendProperties, LenProperties
<1>2. /\ \A i \in 1..Len(r) : i \in 1..Len(q) \/ i = Len(q) + 1
      /\ \A i \in 1..Len(q) : i \in 1..Len(r)
      /\ Len(q) + 1 \in 1..Len(r)
  BY <1>1
<1>3. /\ q # <<>> => Head(q) = q[1] /\ 1 \in 1..Len(q)
      /\ q = <<>> => Len(q) = 0
  OBVIOUS
<1> HIDE DEF r
<1>4. Once(r)
  BY <1>1, <1>2 DEF Once, In
<1>5. ASSUME NEW x PROVE In(x, r) <=> (In(x, q) \/ x = e)
  BY <1>1, <1>2 DEF In
<1>6. (q # <<>> => Head(r) = Head(q)) /\ (q = <<>> => Head(r) = e)
  BY <1>1, <1>3
<1> QED BY <1>1, <1>4, <1>5, <1>6 DEF r

\* One queue after another.
LEMMA AddAll ==
    ASSUME NEW S, NEW p \in Seq(S), NEW q \in Seq(S), Once(p), Once(q),
           \A x : ~(In(x, p) /\ In(x, q))
    PROVE  /\ p \o q \in Seq(S) /\ Once(p \o q)
           /\ \A x : In(x, p \o q) <=> (In(x, p) \/ In(x, q))
<1> DEFINE r == p \o q
<1>1. /\ r \in Seq(S) /\ Len(r) = Len(p) + Len(q) /\ Len(p) \in Nat /\ Len(q) \in Nat
      /\ \A i \in 1..Len(r) : r[i] = IF i <= Len(p) THEN p[i] ELSE q[i - Len(p)]
  BY ConcatProperties, LenProperties
<1>2. /\ \A i \in 1..Len(r) : \/ i \in 1..Len(p) /\ r[i] = p[i]
                              \/ i - Len(p) \in 1..Len(q) /\ r[i] = q[i - Len(p)]
      /\ \A i \in 1..Len(p) : i \in 1..Len(r) /\ r[i] = p[i]
      /\ \A i \in 1..Len(q) : i + Len(p) \in 1..Len(r) /\ r[i + Len(p)] = q[i]
      /\ \A i, j \in 1..Len(r) : i - Len(p) = j - Len(p) => i = j
  BY <1>1
<1> HIDE DEF r
<1>3. ASSUME NEW x PROVE In(x, r) <=> (In(x, p) \/ In(x, q))
  BY <1>2 DEF In
<1>4. Once(r)
  <2> SUFFICES ASSUME NEW i \in 1..Len(r), NEW j \in 1..Len(r), r[i] = r[j]
               PROVE  i = j
    BY DEF Once
  <2>1. CASE i \in 1..Len(p) /\ r[i] = p[i] /\ j \in 1..Len(p) /\ r[j] = p[j]
    BY <2>1 DEF Once
  <2>2. CASE /\ i - Len(p) \in 1..Len(q) /\ r[i] = q[i - Len(p)]
             /\ j - Len(p) \in 1..Len(q) /\ r[j] = q[j - Len(p)]
    BY <1>2, <2>2 DEF Once
  <2>3. CASE i \in 1..Len(p) /\ r[i] = p[i] /\ j - Len(p) \in 1..Len(q)
             /\ r[j] = q[j - Len(p)]
    BY <2>3 DEF In
  <2>4. CASE j \in 1..Len(p) /\ r[j] = p[j] /\ i - Len(p) \in 1..Len(q)
             /\ r[i] = q[i - Len(p)]
    BY <2>4 DEF In
  <2> QED BY <1>2, <2>1, <2>2, <2>3, <2>4
<1> QED BY <1>1, <1>3, <1>4 DEF r

\* Nobody is in an empty queue.
LEMMA NobodyIn == Once(<<>>) /\ \A x : ~In(x, <<>>)
BY EmptySeq DEF Once, In

LoopTypeOK ==
    /\ ready \in Seq(Tasks \cup {Quit})
    /\ pc \in 0..MaxCommands
    /\ conn \in [Commands -> {"none", "open", "closing", "down", "closed"}]
    /\ closers \in [Commands -> Seq(Tasks)]
    /\ shutdown \in {"no", "cleanup", "quit"}

\* The loop's queue has each task once, those that begin, and none that has ended.
ReadyInv ==
    /\ Once(ready)
    /\ shutdown # "quit" => ~In(Quit, ready)
    /\ shutdown = "no" => at[Cleanup] = "none"
    /\ \A t \in Tasks : at[t] \in {"none", "done"} => ~In(t, ready)
    /\ \A t \in Tasks : at[t] = "begin" => In(t, ready)

\* Who waits for the close of connection c.
CloseInv ==
    /\ \A c \in Commands :
           Once(closers[c]) /\ (closers[c] = <<>> <=> conn[c] \in {"none", "open"})
    /\ \A c, d \in Commands, t \in Tasks :
           In(t, closers[c]) /\ In(t, closers[d]) => c = d
    /\ \A t \in Tasks : at[t] \in {"none", "begin"} =>
           \A c \in Commands : ~In(t, closers[c])
    /\ \A t \in Tasks : at[t] = "close" => \E c \in Commands : In(t, closers[c])

\* Whether a task that waits for it is in the loop's queue.
Waits(t, c) ==
    /\ conn[c] = "closing" => at[t] = "close" /\ ~In(t, ready)
    /\ conn[c] = "down" => at[t] = "close" /\ (In(t, ready) <=> t = Head(closers[c]))
    /\ conn[c] = "closed" /\ at[t] = "close" => t # Head(closers[c]) /\ In(t, ready)

WaitInv == \A c \in Commands, t \in Tasks : In(t, closers[c]) => Waits(t, c)

\* The node's connection is not closed yet, and each is opened by its task.
SessionInv ==
    /\ pc # 0 => conn[pc] \in {"open", "closing", "down"}
    /\ \A t \in Commands : conn[t] # "none" => at[t] \in {"gather", "done"}

LoopInv == LoopTypeOK /\ ReadyInv /\ CloseInv /\ WaitInv /\ SessionInv

LEMMA TaskFacts ==
    /\ Cleanup \in Tasks /\ Cleanup \notin Commands
    /\ \A t \in Tasks : t # Quit /\ (t \in Commands \/ t = Cleanup)
    /\ \A t \in Commands : t \in Tasks /\ t # 0 /\ t \in 0..MaxCommands
    /\ Commands = 1..MaxCommands /\ MaxCommands \in Nat \ {0}
BY CameraAssumption DEF Cleanup, Commands, Tasks, Quit

\* A task that begins: a command, or the clean-up.
LEMMA TaskArrives ==
    ASSUME IInv, LoopInv, NEW t \in Tasks, at[t] = "none",
           at' = [at EXCEPT ![t] = "begin"], ready' = Append(ready, t),
           UNCHANGED session, shutdown' \in {shutdown, "cleanup"},
           shutdown = "quit" => shutdown' = "quit",
           t = Cleanup => shutdown' # "no"
    PROVE  LoopInv'
<1> USE TaskFacts DEF LoopInv, session
<1>1. /\ ready' \in Seq(Tasks \cup {Quit}) /\ Once(ready')
      /\ \A x : In(x, ready') <=> (In(x, ready) \/ x = t)
  <2>1. ready \in Seq(Tasks \cup {Quit}) /\ t \in Tasks \cup {Quit}
        /\ Once(ready) /\ ~In(t, ready)
    BY DEF LoopTypeOK, ReadyInv
  <2>2. /\ Append(ready, t) \in Seq(Tasks \cup {Quit}) /\ Once(Append(ready, t))
        /\ \A x : In(x, Append(ready, t)) <=> (In(x, ready) \/ x = t)
    BY <2>1, AddLast
  <2> QED BY <2>2
<1>2. \A x \in Tasks : at'[x] = IF x = t THEN "begin" ELSE at[x]
  BY DEF IInv, Fresh
<1>3. LoopTypeOK'
  BY <1>1 DEF LoopTypeOK
<1>4. ReadyInv'
  BY <1>1, <1>2 DEF ReadyInv, LoopTypeOK
<1>5. \A c \in Commands : ~In(t, closers[c])
  BY DEF CloseInv
<1>6. CloseInv'
  BY <1>2, <1>5 DEF CloseInv
<1>7. WaitInv'
  BY <1>1, <1>2, <1>5 DEF WaitInv, Waits
<1>8. SessionInv'
  BY <1>2 DEF SessionInv
<1> QED BY <1>3, <1>4, <1>6, <1>7, <1>8

\* The loop takes task t, or Quit.
LEMMA Taken ==
    ASSUME LoopInv, NEW t \in Tasks \cup {Quit}, Runs(t)
    PROVE  /\ Tail(ready) \in Seq(Tasks \cup {Quit}) /\ Once(Tail(ready))
           /\ In(t, ready)
           /\ \A x : In(x, Tail(ready)) <=> (In(x, ready) /\ x # t)
<1>1. ready \in Seq(Tasks \cup {Quit}) /\ ready # <<>> /\ Once(ready) /\ Head(ready) = t
  BY DEF LoopInv, LoopTypeOK, ReadyInv, Runs
<1> QED BY <1>1, TakeFirst

\* Task t awaits the close of the node's connection.
LEMMA TaskCloses ==
    ASSUME IInv, LoopInv, NEW t \in Tasks, BeginClose(t)
    PROVE  LoopInv'
<1> USE TaskFacts DEF LoopInv
<1>1. /\ at[t] = "begin" /\ pc \in Commands /\ UNCHANGED <<pc, shutdown>>
      /\ conn' = [conn EXCEPT ![pc] = IF @ = "open" THEN "closing" ELSE @]
      /\ closers' = [closers EXCEPT ![pc] = Append(@, t)]
      /\ at' = [at EXCEPT ![t] = "close"]
      /\ ready' = Tail(ready) /\ Runs(t)
  BY DEF BeginClose, LoopTypeOK
<1>2. /\ ready' \in Seq(Tasks \cup {Quit}) /\ Once(ready')
      /\ \A x : In(x, ready') <=> (In(x, ready) /\ x # t)
  BY <1>1, Taken
<1>3. \A x \in Tasks : at'[x] = IF x = t THEN "close" ELSE at[x]
  BY <1>1 DEF IInv, Fresh
<1>4. /\ closers' \in [Commands -> Seq(Tasks)]
      /\ \A c \in Commands : closers'[c] = IF c = pc THEN Append(closers[c], t)
                                           ELSE closers[c]
  BY <1>1 DEF LoopTypeOK
<1>5. /\ conn' \in [Commands -> {"none", "open", "closing", "down", "closed"}]
      /\ \A c \in Commands : c # pc => conn'[c] = conn[c]
      /\ conn[pc] \in {"open", "closing", "down"}
      /\ conn[pc] = "open" => conn'[pc] = "closing"
      /\ conn[pc] # "open" => conn'[pc] = conn[pc]
  BY <1>1 DEF LoopTypeOK, SessionInv
<1>6. \A c \in Commands : ~In(t, closers[c])
  BY <1>1 DEF CloseInv
<1>7. /\ Once(closers'[pc]) /\ closers'[pc] # <<>>
      /\ \A x : In(x, closers'[pc]) <=> (In(x, closers[pc]) \/ x = t)
      /\ closers[pc] # <<>> => Head(closers'[pc]) = Head(closers[pc])
  <2>1. closers[pc] \in Seq(Tasks) /\ Once(closers[pc]) /\ ~In(t, closers[pc])
    BY <1>1, <1>6 DEF LoopTypeOK, CloseInv
  <2>2. /\ Once(Append(closers[pc], t)) /\ Append(closers[pc], t) # <<>>
        /\ \A x : In(x, Append(closers[pc], t)) <=> (In(x, closers[pc]) \/ x = t)
        /\ closers[pc] # <<>> => Head(Append(closers[pc], t)) = Head(closers[pc])
    BY <2>1, AddLast
  <2> QED BY <1>1, <1>4, <2>2
<1>8. \A c \in Commands : c # pc => closers'[c] = closers[c]
  BY <1>4
<1>9. closers[pc] = <<>> <=> conn[pc] = "open"
  BY <1>1, <1>5 DEF CloseInv
<1>10. LoopTypeOK'
  BY <1>1, <1>2, <1>4, <1>5 DEF LoopTypeOK
<1>11. ReadyInv'
  BY <1>1, <1>2, <1>3 DEF ReadyInv
<1>12. \A c \in Commands, x \in Tasks :
           In(x, closers'[c]) <=> (In(x, closers[c]) \/ (c = pc /\ x = t))
  BY <1>7, <1>8
<1>13. CloseInv'
  <2>1. \A c \in Commands : /\ Once(closers'[c])
                            /\ closers'[c] = <<>> <=> conn'[c] \in {"none", "open"}
    BY <1>5, <1>7, <1>8 DEF CloseInv
  <2>2. \A c, d \in Commands, x \in Tasks :
            In(x, closers'[c]) /\ In(x, closers'[d]) => c = d
    BY <1>6, <1>12 DEF CloseInv
  <2>3. \A x \in Tasks : at'[x] \in {"none", "begin"} =>
            \A c \in Commands : ~In(x, closers'[c])
    BY <1>3, <1>12 DEF CloseInv
  <2>4. \A x \in Tasks : at'[x] = "close" => \E c \in Commands : In(x, closers'[c])
    BY <1>1, <1>3, <1>12 DEF CloseInv
  <2> QED BY <2>1, <2>2, <2>3, <2>4 DEF CloseInv
<1>14. WaitInv'
  <2> SUFFICES ASSUME NEW c \in Commands, NEW x \in Tasks, In(x, closers'[c])
               PROVE  Waits(x, c)'
    BY DEF WaitInv
  <2>1. CASE x = t
    <3>1. c = pc /\ ~In(x, ready') /\ at'[x] = "close"
      BY <1>2, <1>3, <1>6, <1>12, <2>1
    <3>2. conn'[c] = "down" => closers[c] # <<>> /\ In(Head(closers[c]), closers[c])
      <4>1. conn'[c] = "down" => closers[c] # <<>>
        BY <1>5, <1>9, <3>1
      <4>2. closers[c] \in Seq(Tasks) /\ Once(closers[c])
        BY DEF LoopTypeOK, CloseInv
      <4> QED BY <4>1, <4>2, TakeFirst
    <3>3. conn'[c] = "down" => x # Head(closers'[c])
      BY <1>6, <1>7, <2>1, <3>1, <3>2
    <3>4. conn'[c] # "closed"
      BY <1>5, <3>1
    <3> QED BY <3>1, <3>3, <3>4 DEF Waits
  <2>2. CASE x # t
    <3>1. In(x, closers[c]) /\ Waits(x, c) /\ at'[x] = at[x]
          /\ (In(x, ready') <=> In(x, ready))
      BY <1>2, <1>3, <1>12, <2>2 DEF WaitInv
    <3>2. closers[c] # <<>>
      BY <3>1, NobodyIn
    <3>3. conn'[c] = conn[c] /\ Head(closers'[c]) = Head(closers[c])
      BY <1>5, <1>7, <1>8, <1>9, <3>2
    <3> QED BY <3>1, <3>3 DEF Waits
  <2> QED BY <2>1, <2>2
<1>15. SessionInv'
  <2>1. conn'[pc] \in {"open", "closing", "down"}
    BY <1>5
  <2>2. \A x \in Commands : conn'[x] # "none" => at'[x] \in {"gather", "done"}
    <3> SUFFICES ASSUME NEW x \in Commands, conn'[x] # "none"
                 PROVE  at'[x] \in {"gather", "done"}
      OBVIOUS
    <3>1. conn[x] # "none"
      BY <1>5
    <3>2. at[x] \in {"gather", "done"} /\ x # t /\ x \in Tasks
      BY <1>1, <3>1 DEF SessionInv
    <3> QED BY <1>3, <3>2
  <2> QED BY <1>1, <2>1, <2>2 DEF SessionInv
<1> QED BY <1>10, <1>11, <1>13, <1>14, <1>15

\* Past _async_cleanup a task either has opened a connection, or has ended.
LEMMA AfterFacts ==
    ASSUME IInv, NEW t \in Tasks, at[t] \in {"begin", "close"},
           NEW woken, AfterCleanup(t, woken)
    PROVE  /\ ready' = Tail(ready) \o woken
           /\ \/ /\ t \in Commands /\ Kind(t) = "start" /\ pc' = t
                 /\ at' = [at EXCEPT ![t] = "gather"]
              \/ /\ Kind(t) # "start" /\ pc' = 0
                 /\ at' = [at EXCEPT ![t] = "done"]
<1>1. Kind(t) \in {"start", "stop", "cleanup"}
  <2>1. CASE t = Cleanup
    BY <2>1 DEF Kind
  <2>2. CASE t # Cleanup
    <3>1. t \in Commands /\ ~(t > Len(commands))
      BY <2>2, TaskFacts DEF IInv, Fresh
    <3>2. t \in 1..Len(commands) /\ commands \in Seq({"start", "stop"})
      BY <3>1, TaskFacts DEF IInv, Fresh
    <3>3. commands[t] \in {"start", "stop"}
      BY <3>2, ElementOfSeq
    <3> QED BY <2>2, <3>3 DEF Kind
  <2> QED BY <2>1, <2>2
<1>2. Kind(t) = "start" => t \in Commands
  BY TaskFacts DEF Kind
<1>3. ready' = Tail(ready) \o woken
  BY DEF AfterCleanup
<1>4. CASE Kind(t) = "start"
  BY <1>2, <1>3, <1>4 DEF AfterCleanup
<1>5. CASE Kind(t) = "stop"
  BY <1>3, <1>5 DEF AfterCleanup
<1>6. CASE Kind(t) = "cleanup"
  BY <1>3, <1>6 DEF AfterCleanup
<1> QED BY <1>1, <1>4, <1>5, <1>6

\* Task t has done its clean-up, and the tasks that waited with it are woken.
LEMMA TaskGoesOn ==
    ASSUME IInv, LoopInv, NEW t \in Tasks, Runs(t), at[t] \in {"begin", "close"},
           NEW conns \in [Commands -> {"none", "open", "closing", "down", "closed"}],
           NEW woken \in Seq(Tasks \cup {Quit}), Once(woken),
           \A x : In(x, woken) =>
               /\ x \in Tasks /\ x # t /\ at[x] = "close" /\ ~In(x, ready)
               /\ \E c \in Commands : In(x, closers[c]) /\ conns[c] = "closed",
           AfterCleanup(t, woken), conn' = Opened(t, conns),
           UNCHANGED <<closers, shutdown>>,
           \A c \in Commands :
               /\ In(t, closers[c]) => conns[c] = "closed"
               /\ \/ conns[c] = conn[c]
                  \/ /\ conn[c] = "down" /\ conns[c] = "closed" /\ t = Head(closers[c])
                     /\ \A x \in Tasks : In(x, closers[c]) => x = t \/ In(x, woken)
    PROVE  LoopInv'
<1> USE TaskFacts DEF LoopInv
<1>1. /\ ready' = Tail(ready) \o woken
      /\ \/ /\ t \in Commands /\ Kind(t) = "start" /\ pc' = t
            /\ at' = [at EXCEPT ![t] = "gather"]
         \/ /\ Kind(t) # "start" /\ pc' = 0
            /\ at' = [at EXCEPT ![t] = "done"]
  BY AfterFacts
<1>2. /\ ready' \in Seq(Tasks \cup {Quit}) /\ Once(ready')
      /\ \A x : In(x, ready') <=> ((In(x, ready) /\ x # t) \/ In(x, woken))
  <2> DEFINE rest == Tail(ready)
  <2>1. /\ rest \in Seq(Tasks \cup {Quit}) /\ Once(rest)
        /\ \A x : In(x, rest) <=> (In(x, ready) /\ x # t)
    BY Taken
  <2> HIDE DEF rest
  <2>2. \A x : ~(In(x, rest) /\ In(x, woken))
    BY <2>1
  <2>3. /\ rest \o woken \in Seq(Tasks \cup {Quit}) /\ Once(rest \o woken)
        /\ \A x : In(x, rest \o woken) <=> (In(x, rest) \/ In(x, woken))
    BY <2>1, <2>2, AddAll
  <2> QED BY <1>1, <2>1, <2>3 DEF rest
<1>3. /\ at'[t] \in {"gather", "done"} /\ In(t, ready)
      /\ \A x \in Tasks : x # t => at'[x] = at[x]
      /\ Kind(t) = "start" => at'[t] = "gather"
  BY <1>1, Taken DEF IInv, Fresh
\* A connection that is opened now was not there, and nobody waits for it.
<1>4. /\ conn' \in [Commands -> {"none", "open", "closing", "down", "closed"}]
      /\ \A c \in Commands :
            \/ conn'[c] = conns[c]
            \/ conn'[c] = "open" /\ c = t /\ Kind(t) = "start"
      /\ t \in Commands => conn[t] = "none" /\ closers[t] = <<>>
      /\ t \in Commands /\ Kind(t) = "start" => conn'[t] = "open"
  <2>1. t \in Commands => conn[t] = "none"
    BY DEF SessionInv
  <2>2. t \in Commands => closers[t] = <<>>
    BY <2>1 DEF CloseInv
  <2> QED BY <2>1, <2>2 DEF Opened
<1>5. LoopTypeOK'
  <2>1. pc' \in 0..MaxCommands
    BY <1>1
  <2>2. closers' = closers /\ shutdown' = shutdown
    OBVIOUS
  <2>3. ready' \in Seq(Tasks \cup {Quit})
    BY <1>2
  <2>4. conn' \in [Commands -> {"none", "open", "closing", "down", "closed"}]
    BY <1>4
  <2> QED BY <2>1, <2>2, <2>3, <2>4, Zenon DEF LoopTypeOK
<1>6. ReadyInv'
  <2>1. \A x \in Tasks : at'[x] \in {"none", "done"} => ~In(x, ready')
    BY <1>2, <1>3 DEF ReadyInv
  <2>2. \A x \in Tasks : at'[x] = "begin" => In(x, ready')
    BY <1>2, <1>3 DEF ReadyInv
  <2>3. shutdown' # "quit" => ~In(Quit, ready')
    BY <1>2 DEF ReadyInv
  <2>4. shutdown' = "no" => at'[Cleanup] = "none"
    BY <1>3 DEF ReadyInv
  <2> QED BY <1>2, <2>1, <2>2, <2>3, <2>4 DEF ReadyInv
<1>7. CloseInv'
  <2>1. \A c \in Commands : closers'[c] = <<>> <=> conn'[c] \in {"none", "open"}
    <3> SUFFICES ASSUME NEW c \in Commands
                 PROVE  closers[c] = <<>> <=> conn'[c] \in {"none", "open"}
      OBVIOUS
    <3>1. closers[c] = <<>> <=> conn[c] \in {"none", "open"}
      BY DEF CloseInv
    <3> QED BY <1>4, <3>1
  <2>2. \A x \in Tasks : /\ at'[x] \in {"none", "begin"} => at[x] \in {"none", "begin"}
                         /\ at'[x] = "close" => at[x] = "close"
    BY <1>3
  <2> QED BY <2>1, <2>2 DEF CloseInv
<1>8. WaitInv'
  <2> SUFFICES ASSUME NEW c \in Commands, NEW x \in Tasks, In(x, closers[c])
               PROVE  Waits(x, c)'
    BY DEF WaitInv
  <2>1. Waits(x, c) /\ closers[c] # <<>>
    BY NobodyIn DEF WaitInv
  <2>2. conn'[c] = conns[c]
    BY <1>4, <2>1
  <2>3. CASE x = t
    <3>1. conn'[c] = "closed"
      BY <2>2, <2>3
    <3> QED BY <1>3, <2>3, <3>1 DEF Waits
  <2>4. CASE x # t /\ conns[c] # conn[c]
    <3>1. conns[c] = "closed" /\ t = Head(closers[c]) /\ In(x, woken)
      BY <2>4
    <3> QED BY <1>2, <2>2, <2>4, <3>1 DEF Waits
  <2>5. CASE x # t /\ conns[c] = conn[c]
    <3>1. at'[x] = at[x]
      BY <1>3, <2>5
    <3>2. CASE In(x, woken)
      <4>1. conn[c] = "closed"
        BY <2>5, <3>2 DEF CloseInv
      <4> QED BY <2>1, <2>2, <2>5, <3>1, <3>2, <4>1 DEF Waits
    <3>3. CASE ~In(x, woken)
      <4>1. In(x, ready') <=> In(x, ready)
        BY <1>2, <2>5, <3>3
      <4> QED BY <2>1, <2>2, <2>5, <3>1, <4>1 DEF Waits
    <3> QED BY <3>2, <3>3
  <2> QED BY <2>3, <2>4, <2>5
<1>9. SessionInv'
  <2>1. pc' # 0 => conn'[pc'] = "open"
    BY <1>1, <1>4
  <2>2. \A x \in Commands : conn'[x] # "none" => at'[x] \in {"gather", "done"}
    <3> SUFFICES ASSUME NEW x \in Commands, conn'[x] # "none"
                 PROVE  at'[x] \in {"gather", "done"}
      OBVIOUS
    <3>1. CASE x = t
      BY <1>3, <3>1
    <3>2. CASE x # t
      <4>1. conn[x] # "none"
        BY <1>4, <3>2
      <4>2. at[x] \in {"gather", "done"}
        BY <4>1 DEF SessionInv
      <4> QED BY <1>3, <3>2, <4>2
    <3> QED BY <3>1, <3>2
  <2> QED BY <2>1, <2>2 DEF SessionInv
<1> QED BY <1>5, <1>6, <1>7, <1>8, <1>9

\* Nothing to close.
LEMMA TaskFree ==
    ASSUME IInv, LoopInv, NEW t \in Tasks, BeginFree(t)
    PROVE  LoopInv'
<1>1. /\ Runs(t) /\ at[t] = "begin" /\ AfterCleanup(t, <<>>)
      /\ conn' = Opened(t, conn) /\ UNCHANGED <<closers, shutdown>>
  BY DEF BeginFree
<1>2. /\ <<>> \in Seq(Tasks \cup {Quit}) /\ Once(<<>>) /\ \A x : ~In(x, <<>>)
  BY NobodyIn, EmptySeq
<1>3. /\ conn \in [Commands -> {"none", "open", "closing", "down", "closed"}]
      /\ \A c \in Commands : ~In(t, closers[c])
  BY <1>1 DEF LoopInv, LoopTypeOK, CloseInv
<1> QED BY <1>1, <1>2, <1>3, TaskGoesOn

\* The close has come to its end.
LEMMA TaskClosed ==
    ASSUME IInv, LoopInv, NEW t \in Tasks, Closed(t)
    PROVE  LoopInv'
<1> USE DEF LoopInv
<1>1. PICK c \in Commands :
          /\ t \in {closers[c][i] : i \in DOMAIN closers[c]}
          /\ AfterCleanup(t, IF t = Head(closers[c]) THEN Tail(closers[c]) ELSE <<>>)
          /\ conn' = Opened(t, [conn EXCEPT ![c] = "closed"])
  BY DEF Closed
<1>2. Runs(t) /\ at[t] = "close" /\ UNCHANGED <<closers, shutdown>> /\ In(t, ready)
  BY Taken DEF Closed
<1>3. closers[c] \in Seq(Tasks) /\ Once(closers[c])
  BY DEF LoopTypeOK, CloseInv
<1>4. In(t, closers[c]) /\ closers[c] # <<>>
  <2>1. In(t, closers[c])
    BY <1>1, <1>3, LenProperties DEF In
  <2> QED BY <2>1, NobodyIn
<1>5. \/ conn[c] = "down" /\ t = Head(closers[c])
      \/ conn[c] = "closed" /\ t # Head(closers[c])
  <2>1. Waits(t, c)
    BY <1>4 DEF WaitInv
  <2>2. conn[c] \in {"closing", "down", "closed"}
    BY <1>4 DEF CloseInv, LoopTypeOK
  <2> QED BY <1>2, <2>1, <2>2 DEF Waits
<1> DEFINE conns == [conn EXCEPT ![c] = "closed"]
           woken == IF t = Head(closers[c]) THEN Tail(closers[c]) ELSE <<>>
<1>6. /\ conns \in [Commands -> {"none", "open", "closing", "down", "closed"}]
      /\ conns[c] = "closed" /\ \A d \in Commands : d # c => conns[d] = conn[d]
  BY DEF LoopTypeOK
<1>7. /\ woken \in Seq(Tasks \cup {Quit}) /\ Once(woken)
      /\ \A x : In(x, woken) <=> (conn[c] = "down" /\ In(x, closers[c]) /\ x # t)
  <2>1. CASE conn[c] = "down" /\ t = Head(closers[c])
    <3>1. /\ Tail(closers[c]) \in Seq(Tasks) /\ Once(Tail(closers[c]))
          /\ \A x : In(x, Tail(closers[c])) <=> (In(x, closers[c]) /\ x # t)
      BY <1>3, <1>4, <2>1, TakeFirst
    <3>2. Tail(closers[c]) \in Seq(Tasks \cup {Quit})
      BY <3>1, SeqMonotonic
    <3> QED BY <2>1, <3>1, <3>2
  <2>2. CASE conn[c] = "closed" /\ t # Head(closers[c])
    BY <2>2, NobodyIn, EmptySeq
  <2> QED BY <1>5, <2>1, <2>2
<1>8. \A x : In(x, closers[c]) => x \in Tasks
  BY <1>3, ElementOfSeq DEF In
<1>9. \A x : In(x, woken) =>
          /\ x \in Tasks /\ x # t /\ at[x] = "close" /\ ~In(x, ready)
          /\ \E d \in Commands : In(x, closers[d]) /\ conns[d] = "closed"
  BY <1>5, <1>6, <1>7, <1>8 DEF WaitInv, Waits
<1>10. \A d \in Commands :
           /\ In(t, closers[d]) => conns[d] = "closed"
           /\ \/ conns[d] = conn[d]
              \/ /\ conn[d] = "down" /\ conns[d] = "closed" /\ t = Head(closers[d])
                 /\ \A x \in Tasks : In(x, closers[d]) => x = t \/ In(x, woken)
  BY <1>4, <1>5, <1>6, <1>7 DEF CloseInv
<1>11. AfterCleanup(t, woken) /\ conn' = Opened(t, conns)
  BY <1>1
<1> HIDE DEF conns, woken
<1> QED BY <1>2, <1>6, <1>7, <1>9, <1>10, <1>11, TaskGoesOn

\* aiortc ends a close, and the first task that waits for it can go on.
LEMMA CloseEnds ==
    ASSUME IInv, LoopInv, NEW c \in Commands, CloseDone(c)
    PROVE  LoopInv'
<1> USE TaskFacts DEF LoopInv
<1> DEFINE first == Head(closers[c])
<1>1. /\ conn[c] = "closing" /\ conn' = [conn EXCEPT ![c] = "down"]
      /\ ready' = Append(ready, first)
      /\ UNCHANGED <<at, pc, closers, shutdown>>
  BY DEF CloseDone
<1>2. closers[c] \in Seq(Tasks) /\ closers[c] # <<>> /\ Once(closers[c])
  BY <1>1 DEF LoopTypeOK, CloseInv
<1>3. first \in Tasks /\ In(first, closers[c])
  BY <1>2, TakeFirst
<1>4. at[first] = "close" /\ ~In(first, ready)
  BY <1>1, <1>3 DEF WaitInv, Waits
<1> HIDE DEF first
<1>5. /\ ready' \in Seq(Tasks \cup {Quit}) /\ Once(ready')
      /\ \A x : In(x, ready') <=> (In(x, ready) \/ x = first)
  <2>1. ready \in Seq(Tasks \cup {Quit}) /\ first \in Tasks \cup {Quit} /\ Once(ready)
    BY <1>3 DEF LoopTypeOK, ReadyInv
  <2>2. /\ Append(ready, first) \in Seq(Tasks \cup {Quit})
        /\ Once(Append(ready, first))
        /\ \A x : In(x, Append(ready, first)) <=> (In(x, ready) \/ x = first)
    BY <1>4, <2>1, AddLast
  <2> QED BY <1>1, <2>2
<1>6. /\ conn' \in [Commands -> {"none", "open", "closing", "down", "closed"}]
      /\ conn'[c] = "down" /\ \A d \in Commands : d # c => conn'[d] = conn[d]
  BY <1>1 DEF LoopTypeOK
<1>7. LoopTypeOK'
  BY <1>1, <1>5, <1>6 DEF LoopTypeOK
<1>8. ReadyInv'
  BY <1>1, <1>3, <1>4, <1>5 DEF ReadyInv
<1>9. CloseInv'
  <2>1. \A d \in Commands : closers'[d] = <<>> <=> conn'[d] \in {"none", "open"}
    BY <1>1, <1>2, <1>6 DEF CloseInv
  <2> QED BY <1>1, <2>1 DEF CloseInv
<1>10. WaitInv'
  <2> SUFFICES ASSUME NEW d \in Commands, NEW x \in Tasks, In(x, closers[d])
               PROVE  Waits(x, d)'
    BY <1>1 DEF WaitInv
  <2>1. Waits(x, d)
    BY DEF WaitInv
  <2>2. CASE d = c
    BY <1>1, <1>5, <1>6, <2>1, <2>2 DEF Waits, first
  <2>3. CASE d # c
    <3>1. x # first
      BY <1>3, <2>3 DEF CloseInv
    <3> QED BY <1>1, <1>5, <1>6, <2>1, <2>3, <3>1 DEF Waits
  <2> QED BY <2>2, <2>3
<1>11. SessionInv'
  BY <1>1, <1>6 DEF SessionInv
<1> QED BY <1>7, <1>8, <1>9, <1>10, <1>11

\* The queue changes by a task that gathers, or by Quit, and nobody else's place.
LEMMA QueueMoves ==
    ASSUME IInv, LoopInv, NEW x \in Tasks \cup {Quit},
           x = Quit \/ at[x] = "gather",
           UNCHANGED session,
           ready' \in Seq(Tasks \cup {Quit}), Once(ready'),
           \A y : y # x => (In(y, ready') <=> In(y, ready)),
           x = Quit => shutdown' = "quit" /\ UNCHANGED at,
           x # Quit => \/ UNCHANGED <<at, shutdown>>
                       \/ /\ at' = [at EXCEPT ![x] = "done"] /\ UNCHANGED shutdown
                          /\ ~In(x, ready')
    PROVE  LoopInv'
<1> USE TaskFacts DEF LoopInv, session
<1>1. shutdown' = shutdown \/ (shutdown' = "quit" /\ x = Quit)
  OBVIOUS
<1>2. \A y \in Tasks : /\ \/ at'[y] = at[y]
                          \/ y = x /\ at[y] = "gather" /\ at'[y] = "done"
                       /\ at'[y] = "done" /\ y = x => ~In(y, ready')
  BY DEF IInv, Fresh
<1>3. LoopTypeOK'
  BY <1>1 DEF LoopTypeOK
<1>4. ReadyInv'
  <2>1. shutdown' # "quit" => ~In(Quit, ready')
    BY <1>1 DEF ReadyInv
  <2>2. shutdown' = "no" => at'[Cleanup] = "none"
    BY <1>1, <1>2 DEF ReadyInv
  <2>3. \A y \in Tasks : at'[y] \in {"none", "done"} => ~In(y, ready')
    BY <1>2 DEF ReadyInv
  <2>4. \A y \in Tasks : at'[y] = "begin" => In(y, ready')
    BY <1>2 DEF ReadyInv
  <2> QED BY <2>1, <2>2, <2>3, <2>4 DEF ReadyInv
<1>5. CloseInv'
  BY <1>2 DEF CloseInv
<1>6. WaitInv'
  <2> SUFFICES ASSUME NEW c \in Commands, NEW y \in Tasks, In(y, closers[c])
               PROVE  Waits(y, c)'
    BY DEF WaitInv
  <2>1. Waits(y, c)
    BY DEF WaitInv
  <2>2. CASE y = x
    <3>1. at[y] = "gather"
      BY <2>2
    <3>2. at'[y] \in {"gather", "done"} /\ conn'[c] = conn[c]
      BY <1>2, <3>1
    <3> QED BY <2>1, <3>1, <3>2 DEF Waits
  <2>3. CASE y # x
    BY <1>2, <2>1, <2>3 DEF Waits
  <2> QED BY <2>2, <2>3
<1>7. SessionInv'
  BY <1>2 DEF SessionInv
<1> QED BY <1>3, <1>4, <1>5, <1>6, <1>7

LEMMA LoopStep == IInv /\ LoopInv /\ [Next]_vars => LoopInv'
<1> SUFFICES ASSUME IInv, LoopInv, [Next]_vars PROVE LoopInv'
  OBVIOUS
<1> USE TaskFacts
<1>0. /\ ready \in Seq(Tasks \cup {Quit}) /\ Once(ready)
      /\ Quit \in Tasks \cup {Quit} /\ \A t \in Tasks : t \in Tasks \cup {Quit}
  BY DEF LoopInv, LoopTypeOK, ReadyInv
<1>1. ASSUME NEW action \in {"start", "stop"}, OnCameraCmd(action) PROVE LoopInv'
  <2>1. Len(commands) + 1 \in Commands /\ at[Len(commands) + 1] = "none"
    BY <1>1 DEF OnCameraCmd, IInv, Fresh
  <2>2. Len(commands) + 1 \in Tasks /\ Len(commands) + 1 # Cleanup
    BY <2>1
  <2> QED BY <1>1, <2>1, <2>2, TaskArrives DEF OnCameraCmd
<1>2. CASE ShutdownCleanup
  BY <1>2, TaskArrives DEF ShutdownCleanup, LoopInv, ReadyInv
<1>3. CASE ShutdownQuit
  <2>1. ~In(Quit, ready)
    BY <1>3 DEF ShutdownQuit, LoopInv, ReadyInv
  <2>2. /\ Append(ready, Quit) \in Seq(Tasks \cup {Quit}) /\ Once(Append(ready, Quit))
        /\ \A y : In(y, Append(ready, Quit)) <=> (In(y, ready) \/ y = Quit)
    BY <1>0, <2>1, AddLast
  <2>3. /\ ready' = Append(ready, Quit) /\ shutdown' = "quit"
        /\ UNCHANGED <<at, session>>
    BY <1>3 DEF ShutdownQuit
  <2> QED BY <1>0, <2>2, <2>3, QueueMoves
<1>4. CASE UNCHANGED <<at, ready, session, shutdown>>
  BY <1>4 DEF LoopInv, LoopTypeOK, ReadyInv, CloseInv, WaitInv, Waits, SessionInv,
     session
<1>5. ASSUME NEW t \in Tasks, BeginFree(t) \/ BeginClose(t) \/ Closed(t) PROVE LoopInv'
  BY <1>5, TaskFree, TaskCloses, TaskClosed
<1>6. ASSUME NEW t \in Commands, Offer(t) \/ OfferRaises(t) PROVE LoopInv'
  <2>1. /\ at[t] = "gather" /\ Runs(t) /\ UNCHANGED <<session, shutdown>>
        /\ at' = [at EXCEPT ![t] = "done"] /\ ready' = Tail(ready)
    BY <1>6 DEF Offer, OfferRaises
  <2>2. /\ t \in Tasks \cup {Quit} /\ t # Quit
        /\ Tail(ready) \in Seq(Tasks \cup {Quit}) /\ Once(Tail(ready))
        /\ \A y : In(y, Tail(ready)) <=> (In(y, ready) /\ y # t)
    BY <2>1, Taken
  <2> QED BY <2>1, <2>2, QueueMoves
<1>7. CASE RunQuit
  <2>1. /\ Runs(Quit) /\ UNCHANGED <<at, session, shutdown>> /\ ready' = Tail(ready)
    BY <1>7 DEF RunQuit
  <2>2. /\ Tail(ready) \in Seq(Tasks \cup {Quit}) /\ Once(Tail(ready))
        /\ In(Quit, ready)
        /\ \A y : In(y, Tail(ready)) <=> (In(y, ready) /\ y # Quit)
    BY <1>0, <2>1, Taken
  <2>3. shutdown' = "quit"
    BY <2>1, <2>2 DEF LoopInv, ReadyInv
  <2> QED BY <1>0, <2>1, <2>2, <2>3, QueueMoves
<1>8. ASSUME NEW t \in Commands, Gathered(t) PROVE LoopInv'
  <2>1. /\ at[t] = "gather" /\ UNCHANGED <<at, session, shutdown>>
        /\ ready' = Append(ready, t) /\ t \in Tasks \cup {Quit} /\ t # Quit
    BY <1>8 DEF Gathered
  <2>2. ~In(t, ready)
    BY <1>0, <1>8, LenProperties DEF Gathered, In
  <2>3. /\ Append(ready, t) \in Seq(Tasks \cup {Quit}) /\ Once(Append(ready, t))
        /\ \A y : In(y, Append(ready, t)) <=> (In(y, ready) \/ y = t)
    BY <1>0, <2>1, <2>2, AddLast
  <2> QED BY <2>1, <2>3, QueueMoves
<1>9. ASSUME NEW t \in Commands, CloseDone(t) PROVE LoopInv'
  BY <1>9, CloseEnds
<1>10. LoopEnds \/ SetAnswer \/ (\E t \in Commands : Frame(t)) \/ UNCHANGED vars
       \/ (\E c \in Commands, published \in {"streaming", "error"} :
               ConnectionState(c, published))
       => UNCHANGED <<at, ready, session, shutdown>>
  BY DEF LoopEnds, SetAnswer, Frame, ConnectionState, vars
<1> QED
  BY <1>1, <1>2, <1>3, <1>4, <1>5, <1>6, <1>7, <1>8, <1>9, <1>10
     DEF Next, RunReady, Stopped

\* Each task that has not ended will be run: it is in the loop's queue, once, or
\* waits for a close that goes on, or for the first that waits for it.
NoTaskForgotten ==
    /\ Once(ready)
    /\ \A t \in Tasks : at[t] \in {"begin", "close"} =>
           \/ In(t, ready)
           \/ \E c \in Commands :
                 /\ In(t, closers[c])
                 /\ \/ conn[c] = "closing"
                    \/ In(Head(closers[c]), ready) /\ conn[c] = "down"

\* camera_node.py:368-378.  However many tasks wait for one close() or another,
\* none of them is lost, and none is run twice.
THEOREM NoneForgotten == Spec => []NoTaskForgotten
<1>1. Init => LoopInv
  <2> SUFFICES ASSUME Init PROVE LoopInv
    OBVIOUS
  <2> USE TaskFacts DEF Init
  <2>1. <<>> \in Seq(Tasks) /\ <<>> \in Seq(Tasks \cup {Quit})
    BY EmptySeq
  <2>2. /\ \A t \in Tasks : at[t] = "none" /\ ~In(t, ready)
        /\ Once(ready) /\ ~In(Quit, ready)
        /\ \A c \in Commands : closers[c] = <<>> /\ conn[c] = "none" /\ Once(closers[c])
        /\ \A c \in Commands, t \in Tasks : ~In(t, closers[c])
    BY NobodyIn
  <2>3. LoopTypeOK
    BY <2>1 DEF LoopTypeOK
  <2>4. ReadyInv /\ CloseInv /\ WaitInv /\ SessionInv
    BY <2>2 DEF ReadyInv, CloseInv, WaitInv, SessionInv
  <2> QED BY <2>3, <2>4 DEF LoopInv
<1>2. LoopInv => NoTaskForgotten
  <2> SUFFICES ASSUME LoopInv PROVE NoTaskForgotten
    OBVIOUS
  <2> USE DEF LoopInv
  <2>1. ASSUME NEW t \in Tasks, at[t] \in {"begin", "close"}, ~In(t, ready)
        PROVE  \E c \in Commands :
                  /\ In(t, closers[c])
                  /\ \/ conn[c] = "closing"
                     \/ In(Head(closers[c]), ready) /\ conn[c] = "down"
    <3>1. at[t] = "close"
      BY <2>1 DEF ReadyInv
    <3>2. PICK c \in Commands : In(t, closers[c])
      BY <3>1 DEF CloseInv
    <3>3. closers[c] \in Seq(Tasks) /\ closers[c] # <<>> /\ Once(closers[c])
      BY <3>2, NobodyIn DEF LoopTypeOK, CloseInv
    <3>4. Head(closers[c]) \in Tasks /\ In(Head(closers[c]), closers[c])
      BY <3>3, TakeFirst
    <3>5. conn[c] \in {"closing", "down"}
      <4>1. conn[c] \in {"closing", "down", "closed"}
        BY <3>3 DEF LoopTypeOK, CloseInv
      <4> QED BY <2>1, <3>1, <3>2, <4>1 DEF WaitInv, Waits
    <3>6. conn[c] = "down" => In(Head(closers[c]), ready)
      BY <3>4 DEF WaitInv, Waits
    <3> QED BY <3>2, <3>5, <3>6
  <2> QED BY <2>1 DEF NoTaskForgotten, ReadyInv
<1> QED BY <1>1, <1>2, LoopStep, Invariance, PTL DEF Spec

-----------------------------------------------------------------------------
(* The MJPEG server *)

\* What the count owes to the connections, and the encoder to the count.
Counted ==
    /\ count = Cardinality(Streaming) + raised
    /\ raised = 0 => (encoder # 0 <=> count > 0)

\* Before the server accepts and after it has stopped there is nobody to serve.
Serving == server \in {"off", "gone"} => encoder = 0 /\ Streaming = {}

\* Frames grow on their way: viewers, queue, puts, encoder.
Growing ==
    /\ \A i, j \in 1..Len(puts) : i < j => puts[i].num < puts[j].num
    /\ \A i \in 1..Len(puts) :
          /\ puts[i].num <= frame
          /\ \A q \in 1..Len(queue) : queue[q] < puts[i].num
          /\ \A v \in Viewers : seen[v] < puts[i].num
    /\ \A q \in 1..Len(queue) :
          /\ queue[q] <= frame
          /\ \A v \in Viewers : seen[v] <= queue[q]

\* What bears the number of the present encoder is newer than its attachment.
SinceAttached ==
    /\ encoder > 0 => attaches > 0
    /\ \A i \in 1..Len(puts) : puts[i].to = attaches => puts[i].num > since
    /\ \A q \in 1..Len(queue) : queue[q] > since
    /\ \A v \in Viewers : IF handler[v] = "away" THEN seen[v] = 0
                          ELSE seen[v] # 0 => seen[v] > since

MjpegInv == MjpegTypeOK /\ Counted /\ Serving /\ Growing /\ SinceAttached

\* A viewer more, or one less.
LEMMA StreamingFacts ==
    ASSUME MjpegTypeOK, NEW v \in Viewers
    PROVE  /\ IsFiniteSet(Streaming)
           /\ Cardinality(Streaming) \in Nat
           /\ Cardinality(Streaming) = 0 <=> Streaming = {}
           /\ handler[v] = "away" =>
                  Cardinality(Streaming \cup {v}) = Cardinality(Streaming) + 1
           /\ handler[v] = "stream" =>
                  Cardinality(Streaming \ {v}) = Cardinality(Streaming) - 1
<1>1. IsFiniteSet(Streaming)
  BY MjpegAssumption, FS_Subset DEF Streaming
<1>2. handler[v] = "away" => v \notin Streaming
  BY DEF Streaming
<1>3. handler[v] = "stream" => v \in Streaming
  BY DEF Streaming
<1> QED BY <1>1, <1>2, <1>3, FS_CardinalityType, FS_EmptySet, FS_AddElement,
           FS_RemoveElement

\* The set of the viewers after a connection and after one ends.
LEMMA StreamingSteps ==
    ASSUME MjpegTypeOK, NEW v \in Viewers
    PROVE  /\ handler' = [handler EXCEPT ![v] = "stream"]
                  => Streaming' = Streaming \cup {v}
           /\ handler' = [handler EXCEPT ![v] = "away"]
                  => Streaming' = Streaming \ {v}
           /\ UNCHANGED handler => Streaming' = Streaming
BY DEF MjpegTypeOK, Streaming

\* Lists of one element and less.
LEMMA ShortLists ==
    ASSUME NEW S, NEW s \in Seq(S), s # <<>>
    PROVE  /\ Head(s) \in S /\ Tail(s) \in Seq(S)
           /\ Len(s) \in Nat \ {0} /\ Len(Tail(s)) = Len(s) - 1
           /\ Head(s) = s[1]
           /\ \A i \in 1..Len(Tail(s)) : Tail(s)[i] = s[i + 1]
OBVIOUS

LEMMA OneElement ==
    ASSUME NEW S, NEW x \in S
    PROVE  <<x>> \in Seq(S) /\ Len(<<x>>) = 1 /\ Len(<<x>>) <= 1 /\ <<x>>[1] = x
OBVIOUS

\* The two halves of the types.
NumbersOK ==
    /\ server \in {"off", "up", "stopping", "gone", "abandoned"}
    /\ picam \in 0..opened
    /\ opened \in 0..MaxCameras
    /\ encoder \in Refused..opened
    /\ count \in Nat
    /\ handler \in [Viewers -> {"away", "stream"}]
    /\ attaches \in Nat
    /\ frame \in 0..MaxFrames
    /\ raised \in 0..count
    /\ since \in 0..frame

ListsOK ==
    /\ queue \in Seq(1..MaxFrames) /\ Len(queue) <= 1
    /\ puts \in Seq([to : 1..attaches, num : 1..MaxFrames])
    /\ seen \in [Viewers -> 0..frame]

LEMMA Halves == MjpegTypeOK <=> NumbersOK /\ ListsOK
BY DEF MjpegTypeOK, NumbersOK, ListsOK

\* Every step keeps the numbers in their ranges.
LEMMA NumbersStep ==
    ASSUME NumbersOK, Counted, [MjpegNext]_mjpegVars
    PROVE  NumbersOK'
<1> USE MjpegAssumption DEF NumbersOK, cameraVars, frameVars, attachVars, Refused
<1>1. CASE ServerStart \/ ServerStop \/ ServerStopped \/ StopAbandoned
  BY <1>1 DEF ServerStart, ServerStop, ServerStopped, StopAbandoned
<1>2. CASE CameraStop
  BY <1>2 DEF CameraStop
<1>3. CASE CameraStart
  BY <1>3 DEF CameraStart
<1>4. CASE EncodeFrame \/ Put \/ UNCHANGED mjpegVars
  BY <1>4 DEF EncodeFrame, Put, mjpegVars
<1>5. ASSUME NEW v \in Viewers, ConnectFirst(v) PROVE NumbersOK'
  BY <1>5 DEF ConnectFirst, Connects
<1>6. ASSUME NEW v \in Viewers, ConnectRaises(v) PROVE NumbersOK'
  BY <1>6 DEF ConnectRaises, Connects
<1>7. ASSUME NEW v \in Viewers, ConnectRefused(v) PROVE NumbersOK'
  BY <1>7 DEF ConnectRefused, Connects
<1>8. ASSUME NEW v \in Viewers, ConnectNext(v) PROVE NumbersOK'
  BY <1>8 DEF ConnectNext, Connects
<1>9. ASSUME NEW v \in Viewers, SendFrame(v) PROVE NumbersOK'
  BY <1>9 DEF SendFrame
<1>10. ASSUME NEW v \in Viewers, Leave(v) PROVE NumbersOK'
  <2>1. Cardinality(Streaming) \in Nat \ {0}
    <3>1. IsFiniteSet(Streaming)
      BY FS_Subset DEF Streaming
    <3>2. v \in Streaming
      BY <1>10 DEF Leave, Streaming
    <3> QED BY <3>1, <3>2, FS_CardinalityType, FS_EmptySet
  <2>2. count \in Nat \ {0} /\ raised \in 0..(count - 1)
    BY <2>1 DEF Counted
  <2> QED BY <1>10, <2>2 DEF Leave
<1> QED BY <1>1, <1>2, <1>3, <1>4, <1>5, <1>6, <1>7, <1>8, <1>9, <1>10
        DEF MjpegNext, Handler, Gone

\* Every step keeps the types of the lists and of what has been seen.
LEMMA ListsStep ==
    ASSUME NumbersOK, ListsOK, Growing, SinceAttached, [MjpegNext]_mjpegVars
    PROVE  ListsOK'
<1> USE DEF ListsOK, frameVars, attachVars
<1>1. CASE \/ ServerStart \/ ServerStop \/ ServerStopped \/ StopAbandoned
           \/ CameraStop \/ CameraStart \/ UNCHANGED mjpegVars
  BY <1>1 DEF ServerStart, ServerStop, ServerStopped, StopAbandoned, CameraStop,
              CameraStart, mjpegVars
<1>2. CASE EncodeFrame
  <2>1. attaches \in 1..attaches
    BY <1>2 DEF EncodeFrame, SinceAttached, NumbersOK
  <2>2. frame' \in 1..MaxFrames /\ frame' = frame + 1
    BY <1>2, MjpegAssumption DEF EncodeFrame, NumbersOK
  <2>3. [to |-> attaches, num |-> frame'] \in [to : 1..attaches, num : 1..MaxFrames]
    BY <2>1, <2>2
  <2>4. puts' \in Seq([to : 1..attaches', num : 1..MaxFrames])
    BY <1>2, <2>3 DEF EncodeFrame
  <2>5. seen' \in [Viewers -> 0..frame']
    BY <1>2, <2>2 DEF EncodeFrame, NumbersOK
  <2> QED BY <1>2, <2>4, <2>5 DEF EncodeFrame
<1>3. CASE Put
  <2>1. /\ Head(puts) \in [to : 1..attaches, num : 1..MaxFrames]
        /\ Tail(puts) \in Seq([to : 1..attaches, num : 1..MaxFrames])
    BY <1>3, ShortLists DEF Put
  <2>2. Head(puts).num \in 1..MaxFrames
    BY <2>1
  <2>3. queue' = <<Head(puts).num>> \/ queue' = queue
    BY <1>3 DEF Put
  <2>4. queue' \in Seq(1..MaxFrames) /\ Len(queue') <= 1
    <3>1. /\ <<Head(puts).num>> \in Seq(1..MaxFrames)
          /\ Len(<<Head(puts).num>>) <= 1
      BY <2>2, OneElement
    <3>2. CASE queue' = <<Head(puts).num>>
      BY <3>1, <3>2, Zenon
    <3>3. CASE queue' = queue
      BY <3>3
    <3> QED BY <2>3, <3>2, <3>3
  <2> QED BY <1>3, <2>1, <2>4 DEF Put
<1>4. ASSUME NEW v \in Viewers, ConnectFirst(v) PROVE ListsOK'
  <2>1. 1..attaches \subseteq 1..attaches'
    BY <1>4 DEF ConnectFirst, NumbersOK
  <2>2. [to : 1..attaches, num : 1..MaxFrames]
            \subseteq [to : 1..attaches', num : 1..MaxFrames]
    BY <2>1
  <2>3. puts \in Seq([to : 1..attaches', num : 1..MaxFrames])
    BY <2>2, SeqMonotonic
  <2> QED BY <1>4, <2>3 DEF ConnectFirst
<1>5. ASSUME NEW v \in Viewers,
             ConnectRaises(v) \/ ConnectRefused(v) \/ ConnectNext(v)
      PROVE  ListsOK'
  BY <1>5 DEF ConnectRaises, ConnectRefused, ConnectNext, Connects
<1>6. ASSUME NEW v \in Viewers, SendFrame(v) PROVE ListsOK'
  <2>1. /\ Head(queue) \in 1..MaxFrames
        /\ Tail(queue) \in Seq(1..MaxFrames) /\ Len(Tail(queue)) <= 1
    <3>1. queue \in Seq(1..MaxFrames) /\ queue # <<>> /\ Len(queue) <= 1
      BY <1>6 DEF SendFrame
    <3>2. /\ Head(queue) \in 1..MaxFrames /\ Tail(queue) \in Seq(1..MaxFrames)
          /\ Len(queue) \in Nat \ {0} /\ Len(Tail(queue)) = Len(queue) - 1
      BY <3>1, ShortLists, Zenon
    <3>3. Len(queue) - 1 <= 1
      BY <3>1, <3>2
    <3> QED BY <3>2, <3>3, Zenon
  <2>2. Head(queue) <= frame
    BY <1>6, ShortLists DEF SendFrame, Growing
  <2> QED BY <1>6, <2>1, <2>2 DEF SendFrame, NumbersOK
<1>7. ASSUME NEW v \in Viewers, Leave(v) PROVE ListsOK'
  BY <1>7 DEF Leave, NumbersOK
<1> QED BY <1>1, <1>2, <1>3, <1>4, <1>5, <1>6, <1>7 DEF MjpegNext, Handler, Gone

\* mjpeg_server.py:85-89 and :123-128.  Connections and the count go together,
\* but for those that raised, and the last one to leave detaches the encoder.
LEMMA CountStep ==
    ASSUME MjpegInv, [MjpegNext]_mjpegVars
    PROVE  Counted' /\ Serving'
<1> USE DEF MjpegInv, cameraVars, frameVars, attachVars, Refused
<1>1. CASE UNCHANGED handler
  <2>1. Streaming' = Streaming
    BY <1>1 DEF Streaming
  <2>0. Cardinality(Streaming)' = Cardinality(Streaming)
    BY <2>1
  <2>2. CASE \/ ServerStart \/ ServerStop \/ ServerStopped
             \/ StopAbandoned \/ UNCHANGED mjpegVars
    BY <2>1, <2>2, FS_EmptySet
       DEF Counted, Serving, ServerStart, ServerStop, ServerStopped,
           StopAbandoned, mjpegVars
  <2>3. CASE CameraStop \/ CameraStart \/ EncodeFrame \/ Put
    BY <2>1, <2>3 DEF Counted, Serving, CameraStop, CameraStart, EncodeFrame, Put
  <2>4. ASSUME NEW v \in Viewers,
               ConnectRaises(v) \/ ConnectRefused(v)
        PROVE  Counted' /\ Serving'
    <3>1. /\ count = 0 /\ count' = 1 /\ raised' = raised + 1 /\ server' = "up"
      BY <2>4 DEF ConnectRaises, ConnectRefused, Connects
    <3>2. raised \in Nat
      BY DEF MjpegTypeOK
    <3>3. Cardinality(Streaming) \in Nat
      BY <2>4, StreamingFacts
    <3> QED BY <2>0, <3>1, <3>2, <3>3 DEF Counted, Serving
  <2>5. ASSUME NEW v \in Viewers, SendFrame(v) PROVE Counted' /\ Serving'
    BY <2>1, <2>5 DEF Counted, Serving, SendFrame
  <2>6. ASSUME NEW v \in Viewers, ConnectFirst(v) \/ ConnectNext(v) \/ Leave(v)
        PROVE  FALSE
    BY <1>1, <2>6 DEF MjpegTypeOK, ConnectFirst, ConnectNext, Connects, Leave
  <2> QED BY <2>2, <2>3, <2>4, <2>5, <2>6 DEF MjpegNext, Handler, Gone
<1>2. ASSUME NEW v \in Viewers, ConnectFirst(v) \/ ConnectNext(v)
      PROVE  Counted' /\ Serving'
  <2>1. Cardinality(Streaming') = Cardinality(Streaming) + 1
    BY <1>2, StreamingFacts, StreamingSteps DEF ConnectFirst, ConnectNext, Connects
  <2>2. /\ count' = count + 1 /\ count \in Nat /\ raised' = raised
        /\ server' = "up" /\ raised \in Nat
    BY <1>2 DEF ConnectFirst, ConnectNext, Connects, MjpegTypeOK
  <2>3. encoder' # 0 \/ (encoder' = encoder /\ count > 0)
    BY <1>2 DEF ConnectFirst, ConnectNext
  <2>4. Cardinality(Streaming) \in Nat
    BY <1>2, StreamingFacts
  <2>5. count' = Cardinality(Streaming') + raised'
    BY <2>1, <2>2, <2>4 DEF Counted
  <2>6. raised' = 0 => (encoder' # 0 <=> count' > 0)
    BY <2>2, <2>3 DEF Counted
  <2> QED BY <2>2, <2>5, <2>6 DEF Counted, Serving
<1>3. ASSUME NEW v \in Viewers, Leave(v) PROVE Counted' /\ Serving'
  <2>1. /\ Cardinality(Streaming') = Cardinality(Streaming) - 1
        /\ Cardinality(Streaming) \in Nat
    BY <1>3, StreamingFacts, StreamingSteps DEF Leave
  <2>2. /\ count' = count - 1 /\ count \in Nat /\ raised' = raised
        /\ raised \in Nat /\ server' = server
    BY <1>3 DEF Leave, MjpegTypeOK
  <2>3. encoder' = IF count' = 0 THEN 0 ELSE encoder
    BY <1>3 DEF Leave
  <2>4. v \in Streaming
    BY <1>3 DEF Leave, Streaming
  <2>5. Cardinality(Streaming) > 0
    <3>1. Cardinality(Streaming) = 0 <=> Streaming = {}
      BY <1>3, StreamingFacts
    <3> QED BY <2>1, <2>4, <3>1
  <2>6. Counted'
    BY <2>1, <2>2, <2>3, <2>5 DEF Counted
  <2>7. Serving'
    BY <2>2, <2>4 DEF Serving
  <2> QED BY <2>6, <2>7
<1>4. \/ UNCHANGED handler
      \/ \E v \in Viewers : ConnectFirst(v) \/ ConnectNext(v) \/ Leave(v)
  BY DEF MjpegNext, Handler, Gone, mjpegVars, ServerStart, ServerStop,
         ServerStopped, StopAbandoned,
         CameraStop, CameraStart, EncodeFrame, Put, ConnectRaises, ConnectRefused,
         SendFrame
<1> QED BY <1>1, <1>2, <1>3, <1>4

\* What the places of the lists hold.
ElementsOK ==
    /\ Len(puts) \in Nat /\ Len(queue) \in Nat
    /\ \A i \in 1..Len(puts) : /\ puts[i].num \in Nat \ {0}
                               /\ puts[i].to \in 1..attaches
    /\ \A q \in 1..Len(queue) : queue[q] \in Nat
    /\ seen \in [Viewers -> Nat] /\ \A v \in Viewers : seen[v] <= frame
    /\ frame \in Nat /\ attaches \in Nat /\ since \in 0..frame /\ encoder \in Int

LEMMA Elements ==
    ASSUME NumbersOK, ListsOK
    PROVE  ElementsOK
<1>1. \A i \in 1..Len(puts) : puts[i] \in [to : 1..attaches, num : 1..MaxFrames]
  <2>1. puts \in Seq([to : 1..attaches, num : 1..MaxFrames])
    BY DEF ListsOK
  <2> QED BY <2>1, ElementOfSeq
<1>2. \A i \in 1..Len(puts) : puts[i].num \in Nat \ {0} /\ puts[i].to \in 1..attaches
  BY <1>1, MjpegAssumption
<1>3. \A q \in 1..Len(queue) : queue[q] \in Nat
  BY MjpegAssumption DEF ListsOK
<1>4. frame \in Nat /\ attaches \in Nat /\ since \in 0..frame /\ encoder \in Int
  BY MjpegAssumption DEF NumbersOK, Refused
<1>5. seen \in [Viewers -> Nat] /\ \A v \in Viewers : seen[v] <= frame
  BY <1>4 DEF ListsOK
<1>6. Len(puts) \in Nat /\ Len(queue) \in Nat
  BY LenProperties DEF ListsOK
<1> QED BY <1>2, <1>3, <1>4, <1>5, <1>6 DEF ElementsOK

\* The three steps that move a frame.
LEMMA EncodePuts ==
    ASSUME NumbersOK, ListsOK, EncodeFrame
    PROVE  /\ Len(puts') = Len(puts) + 1
           /\ \A i \in 1..Len(puts) : puts'[i] = puts[i]
           /\ puts'[Len(puts) + 1] = [to |-> attaches, num |-> frame + 1]
BY DEF ListsOK, EncodeFrame

LEMMA PutMoves ==
    ASSUME NumbersOK, ListsOK, Put
    PROVE  /\ Len(puts) >= 1 /\ Len(puts') = Len(puts) - 1
           /\ \A i \in 1..Len(puts') : puts'[i] = puts[i + 1]
           /\ \A q \in 1..Len(queue') :
                 \/ queue' = queue
                 \/ puts[1].to = attaches /\ queue'[q] = puts[1].num
<1>1. puts # <<>> /\ puts' = Tail(puts)
      /\ queue' = (IF Head(puts).to = attaches THEN <<Head(puts).num>> ELSE queue)
  BY DEF Put
<1>2. /\ Head(puts) = puts[1] /\ Len(puts) \in Nat \ {0}
      /\ Len(puts') = Len(puts) - 1
      /\ \A i \in 1..Len(puts') : puts'[i] = puts[i + 1]
  BY <1>1, ShortLists DEF ListsOK
<1>3. \A q \in 1..Len(queue') :
         queue' = queue \/ (puts[1].to = attaches /\ queue'[q] = puts[1].num)
  <2>1. CASE puts[1].to # attaches
    BY <1>1, <1>2, <2>1
  <2>2. CASE puts[1].to = attaches
    <3>1. queue' = <<puts[1].num>>
      BY <1>1, <1>2, <2>2
    <3>2. Len(queue') = 1 /\ queue'[1] = puts[1].num
      BY <3>1, OneElement
    <3> QED BY <2>2, <3>2
  <2> QED BY <2>1, <2>2
<1> QED BY <1>2, <1>3

LEMMA SendMoves ==
    ASSUME NumbersOK, ListsOK, NEW v \in Viewers, SendFrame(v)
    PROVE  /\ Len(queue) = 1 /\ Len(queue') = 0
           /\ seen' = [seen EXCEPT ![v] = queue[1]]
<1>1. /\ queue # <<>> /\ queue \in Seq(1..MaxFrames) /\ Len(queue) <= 1
      /\ seen' = [seen EXCEPT ![v] = Head(queue)] /\ queue' = Tail(queue)
  BY DEF ListsOK, SendFrame
<1>2. /\ Head(queue) = queue[1] /\ Len(queue) \in Nat \ {0}
      /\ Len(Tail(queue)) = Len(queue) - 1
  BY <1>1, ShortLists, Zenon
<1> QED BY <1>1, <1>2

\* camera_node.py:71-84.  The encoder's frame is newer than all there are, the
\* oldest put becomes the newest in the queue, and viewers take from there.
LEMMA GrowStep ==
    ASSUME NumbersOK, ListsOK, Growing, [MjpegNext]_mjpegVars
    PROVE  Growing'
<1>0. ElementsOK
  BY Elements
<1> USE DEF ElementsOK
<1>1. CASE EncodeFrame
  <2>1. /\ UNCHANGED <<queue, seen>> /\ frame' = frame + 1
    BY <1>1 DEF EncodeFrame
  <2>2. /\ Len(puts') = Len(puts) + 1
        /\ \A i \in 1..Len(puts) : puts'[i] = puts[i]
        /\ puts'[Len(puts) + 1] = [to |-> attaches, num |-> frame + 1]
    BY <1>1, EncodePuts
  <2>3. \A i \in 1..Len(puts') :
            \/ i \in 1..Len(puts) /\ puts'[i] = puts[i]
            \/ /\ i = Len(puts) + 1
               /\ puts'[i].to = attaches /\ puts'[i].num = frame + 1
    BY <1>0, <2>2
  <2>4. \A i, j \in 1..Len(puts') : i < j => puts'[i].num < puts'[j].num
    <3> SUFFICES ASSUME NEW i \in 1..Len(puts'), NEW j \in 1..Len(puts'), i < j
                 PROVE  puts'[i].num < puts'[j].num
      OBVIOUS
    <3>1. i \in 1..Len(puts) /\ puts'[i] = puts[i] /\ puts[i].num <= frame
      BY <1>0, <2>2, <2>3 DEF Growing
    <3>2. CASE j \in 1..Len(puts)
      BY <2>2, <3>1, <3>2 DEF Growing
    <3>3. CASE puts'[j].num = frame + 1
      BY <1>0, <3>1, <3>3
    <3> QED BY <2>3, <3>2, <3>3
  <2>5. \A i \in 1..Len(puts') :
            /\ puts'[i].num <= frame + 1
            /\ \A q \in 1..Len(queue) : queue[q] < puts'[i].num
            /\ \A v \in Viewers : seen[v] < puts'[i].num
    <3> SUFFICES ASSUME NEW i \in 1..Len(puts')
                 PROVE  /\ puts'[i].num <= frame + 1
                        /\ \A q \in 1..Len(queue) : queue[q] < puts'[i].num
                        /\ \A v \in Viewers : seen[v] < puts'[i].num
      OBVIOUS
    <3>1. CASE i \in 1..Len(puts) /\ puts'[i] = puts[i]
      BY <1>0, <3>1 DEF Growing
    <3>2. CASE puts'[i].num = frame + 1
      BY <1>0, <3>2 DEF Growing
    <3> QED BY <2>3, <3>1, <3>2
  <2>6. \A q \in 1..Len(queue) : /\ queue[q] <= frame + 1
                                /\ \A v \in Viewers : seen[v] <= queue[q]
    BY <1>0 DEF Growing
  <2> QED BY <2>1, <2>4, <2>5, <2>6 DEF Growing
<1>2. CASE Put
  <2>1. UNCHANGED <<seen, frame>>
    BY <1>2 DEF Put
  <2>2. /\ Len(puts) >= 1 /\ Len(puts') = Len(puts) - 1
        /\ \A i \in 1..Len(puts') : puts'[i] = puts[i + 1]
        /\ \A q \in 1..Len(queue') :
               \/ queue' = queue
               \/ puts[1].to = attaches /\ queue'[q] = puts[1].num
    BY <1>2, PutMoves
  <2>3. /\ 1 \in 1..Len(puts)
        /\ \A i \in 1..Len(puts') : i + 1 \in 1..Len(puts)
    BY <1>0, <2>2
  <2>4. \A i, j \in 1..Len(puts') : i < j => puts'[i].num < puts'[j].num
    <3> SUFFICES ASSUME NEW i \in 1..Len(puts'), NEW j \in 1..Len(puts'), i < j
                 PROVE  puts[i + 1].num < puts[j + 1].num
      BY <2>2
    <3>1. i + 1 \in 1..Len(puts) /\ j + 1 \in 1..Len(puts) /\ i + 1 < j + 1
      BY <2>3
    <3> QED BY <3>1 DEF Growing
  <2>5. \A q \in 1..Len(queue') : /\ queue'[q] <= frame
                                 /\ \A v \in Viewers : seen[v] <= queue'[q]
    BY <1>0, <2>2, <2>3 DEF Growing
  <2>6. \A i \in 1..Len(puts') :
            /\ puts'[i].num <= frame
            /\ \A q \in 1..Len(queue') : queue'[q] < puts'[i].num
            /\ \A v \in Viewers : seen[v] < puts'[i].num
    <3> SUFFICES ASSUME NEW i \in 1..Len(puts')
                 PROVE  /\ puts[i + 1].num <= frame
                        /\ \A q \in 1..Len(queue') : queue'[q] < puts[i + 1].num
                        /\ \A v \in Viewers : seen[v] < puts[i + 1].num
      BY <2>2
    <3>1. i + 1 \in 1..Len(puts) /\ 1 < i + 1
      BY <2>3
    <3>2. puts[1].num < puts[i + 1].num
      BY <2>3, <3>1 DEF Growing
    <3>3. \A q \in 1..Len(queue') : queue'[q] < puts[i + 1].num
      BY <2>2, <3>1, <3>2 DEF Growing
    <3> QED BY <3>1, <3>3 DEF Growing
  <2> QED BY <2>1, <2>4, <2>5, <2>6 DEF Growing
<1>3. ASSUME NEW v \in Viewers, SendFrame(v) PROVE Growing'
  <2>1. UNCHANGED <<puts, frame>>
    BY <1>3 DEF SendFrame
  <2>2. /\ Len(queue) = 1 /\ Len(queue') = 0 /\ seen' = [seen EXCEPT ![v] = queue[1]]
    BY <1>3, SendMoves
  <2> QED BY <1>0, <2>1, <2>2 DEF Growing
<1>4. ASSUME NEW v \in Viewers, Leave(v) PROVE Growing'
  <2>1. UNCHANGED <<puts, queue, frame>> /\ seen' = [seen EXCEPT ![v] = 0]
    BY <1>4 DEF Leave
  <2>2. \A w \in Viewers : seen'[w] \in {0, seen[w]}
    BY <1>0, <2>1
  <2> QED BY <1>0, <2>1, <2>2 DEF Growing
<1>5. ASSUME NEW v \in Viewers, ConnectFirst(v) PROVE Growing'
  <2>1. UNCHANGED <<puts, frame, seen>> /\ queue' = <<>>
    BY <1>5 DEF ConnectFirst
  <2> QED BY <1>0, <2>1 DEF Growing
<1>6. ASSUME UNCHANGED <<queue, puts, frame, seen>> PROVE Growing'
  BY <1>6 DEF Growing
<1> QED BY <1>1, <1>2, <1>3, <1>4, <1>5, <1>6
        DEF MjpegNext, Handler, Gone, mjpegVars, frameVars, ServerStart, ServerStop,
            ServerStopped, StopAbandoned, CameraStop, CameraStart,
            ConnectRaises,
            ConnectRefused,
            ConnectNext

\* mjpeg_server.py:88.  An attachment finds no viewer, and what it leaves on the
\* way bears an earlier number.
LEMMA FreshStep ==
    ASSUME NumbersOK, ListsOK, Counted, Growing, SinceAttached, [MjpegNext]_mjpegVars
    PROVE  SinceAttached'
<1>0. ElementsOK
  BY Elements
<1> USE DEF ElementsOK
<1>1. CASE EncodeFrame
  <2>1. /\ UNCHANGED <<queue, seen, attaches, since, encoder, handler>>
        /\ frame' = frame + 1
    BY <1>1 DEF EncodeFrame, attachVars
  <2>2. /\ Len(puts') = Len(puts) + 1
        /\ \A i \in 1..Len(puts) : puts'[i] = puts[i]
        /\ puts'[Len(puts) + 1] = [to |-> attaches, num |-> frame + 1]
    BY <1>1, EncodePuts
  <2>3. \A i \in 1..Len(puts') :
            \/ i \in 1..Len(puts) /\ puts'[i] = puts[i]
            \/ /\ i = Len(puts) + 1
               /\ puts'[i].to = attaches /\ puts'[i].num = frame + 1
    BY <1>0, <2>2
  <2> QED BY <1>0, <2>1, <2>2, <2>3 DEF SinceAttached
<1>2. CASE Put
  <2>1. UNCHANGED <<seen, attaches, since, encoder, handler>>
    BY <1>2 DEF Put, attachVars
  <2>2. /\ Len(puts) >= 1 /\ Len(puts') = Len(puts) - 1
        /\ \A i \in 1..Len(puts') : puts'[i] = puts[i + 1]
        /\ \A q \in 1..Len(queue') :
               \/ queue' = queue
               \/ puts[1].to = attaches /\ queue'[q] = puts[1].num
    BY <1>2, PutMoves
  <2>3. /\ 1 \in 1..Len(puts)
        /\ \A i \in 1..Len(puts') : i + 1 \in 1..Len(puts)
    BY <1>0, <2>2
  <2> QED BY <1>0, <2>1, <2>2, <2>3 DEF SinceAttached
<1>3. ASSUME NEW v \in Viewers, SendFrame(v) PROVE SinceAttached'
  <2>1. /\ UNCHANGED <<puts, attaches, since, encoder, handler>>
        /\ handler[v] = "stream"
    BY <1>3 DEF SendFrame, attachVars
  <2>2. /\ Len(queue) = 1 /\ Len(queue') = 0 /\ seen' = [seen EXCEPT ![v] = queue[1]]
    BY <1>3, SendMoves
  <2> QED BY <1>0, <2>1, <2>2 DEF SinceAttached
<1>4. ASSUME NEW v \in Viewers, Leave(v) PROVE SinceAttached'
  <2>1. /\ UNCHANGED <<puts, queue, attaches, since>>
        /\ seen' = [seen EXCEPT ![v] = 0]
        /\ handler' = [handler EXCEPT ![v] = "away"]
        /\ encoder' \in {0, encoder}
    BY <1>4 DEF Leave, attachVars
  <2>2. handler \in [Viewers -> {"away", "stream"}]
    BY DEF NumbersOK
  <2>3. \A w \in Viewers : IF handler'[w] = "away" THEN seen'[w] = 0
                           ELSE seen'[w] # 0 => seen'[w] > since
    BY <1>0, <2>1, <2>2 DEF SinceAttached
  <2> QED BY <1>0, <2>1, <2>3 DEF SinceAttached
<1>5. ASSUME NEW v \in Viewers, ConnectFirst(v) PROVE SinceAttached'
  <2>1. /\ UNCHANGED <<puts, seen>> /\ queue' = <<>>
        /\ since' = frame /\ attaches' = attaches + 1
        /\ handler' = [handler EXCEPT ![v] = "stream"]
    BY <1>5 DEF ConnectFirst
  <2>2. \A w \in Viewers : seen[w] = 0
    <3>1. count = 0 /\ raised \in Nat
      BY <1>5 DEF ConnectFirst, NumbersOK
    <3>2. IsFiniteSet(Streaming)
      BY MjpegAssumption, FS_Subset DEF Streaming
    <3>3. Streaming = {}
      BY <3>1, <3>2, FS_CardinalityType, FS_EmptySet DEF Counted
    <3> QED BY <3>3 DEF Streaming, SinceAttached, NumbersOK
  <2> QED BY <1>0, <2>1, <2>2 DEF SinceAttached, NumbersOK
<1>6. ASSUME NEW v \in Viewers, ConnectNext(v) PROVE SinceAttached'
  <2>1. /\ UNCHANGED <<puts, queue, seen, attaches, since, encoder>>
        /\ handler' = [handler EXCEPT ![v] = "stream"] /\ handler[v] = "away"
    BY <1>6 DEF ConnectNext, Connects, attachVars, frameVars
  <2> QED BY <1>0, <2>1 DEF SinceAttached, NumbersOK
<1>7. ASSUME UNCHANGED <<puts, queue, seen, attaches, since, handler>>,
             encoder' \in {encoder, 0, Refused}
      PROVE  SinceAttached'
  BY <1>7 DEF SinceAttached, Refused
<1> QED BY <1>1, <1>2, <1>3, <1>4, <1>5, <1>6, <1>7
        DEF MjpegNext, Handler, Gone, mjpegVars, frameVars, attachVars, ServerStart,
            ServerStop, ServerStopped, StopAbandoned, CameraStop, CameraStart,
            ConnectRaises,
            ConnectRefused

\* The inductive invariant of the server.
THEOREM MjpegInvariance == MjpegSpec => []MjpegInv
<1>1. MjpegInit => MjpegInv
  <2> SUFFICES ASSUME MjpegInit PROVE MjpegInv
    OBVIOUS
  <2> USE MjpegAssumption DEF MjpegInit
  <2>1. Streaming = {}
    BY DEF Streaming
  <2>2. Counted /\ Serving
    BY <2>1, FS_EmptySet DEF Counted, Serving
  <2>3. NumbersOK /\ ListsOK
    BY DEF NumbersOK, ListsOK, Refused
  <2>4. Growing /\ SinceAttached
    BY DEF Growing, SinceAttached
  <2> QED BY <2>2, <2>3, <2>4, Halves DEF MjpegInv
<1>2. MjpegInv /\ [MjpegNext]_mjpegVars => MjpegInv'
  <2> SUFFICES ASSUME MjpegInv, [MjpegNext]_mjpegVars PROVE MjpegInv'
    OBVIOUS
  <2>1. NumbersOK /\ ListsOK /\ Counted /\ Growing /\ SinceAttached
    BY Halves DEF MjpegInv
  <2>2. (NumbersOK /\ ListsOK)'
    BY <2>1, NumbersStep, ListsStep
  <2>3. Counted' /\ Serving'
    BY CountStep
  <2>4. Growing' /\ SinceAttached'
    BY <2>1, GrowStep, FreshStep
  <2>5. MjpegTypeOK'
    BY <2>2 DEF MjpegTypeOK, NumbersOK, ListsOK
  <2> QED BY <2>3, <2>4, <2>5 DEF MjpegInv
<1> QED BY <1>1, <1>2, PTL DEF MjpegSpec

\* mjpeg_server.py:85-89 and :123-128.  For every set of viewers and every
\* number of cameras and frames, an encoder is attached if and only if somebody
\* watches, until an attach raises.
THEOREM AttachedWhileWatched == MjpegSpec => []EncoderIffViewers
<1>1. MjpegInv => EncoderIffViewers
  <2> SUFFICES ASSUME MjpegInv, raised = 0
               PROVE  (encoder # 0) <=> Streaming # {}
    BY DEF EncoderIffViewers
  <2>1. IsFiniteSet(Streaming)
    BY MjpegAssumption, FS_Subset DEF Streaming
  <2>2. /\ Cardinality(Streaming) \in Nat
        /\ Cardinality(Streaming) = 0 <=> Streaming = {}
    BY <2>1, FS_CardinalityType, FS_EmptySet
  <2> QED BY <2>2 DEF MjpegInv, Counted
<1> QED BY <1>1, MjpegInvariance, PTL

\* camera_node.py:406-417.  A stop of the server that on_shutdown does not give
\* up on detaches whatever is there.
THEOREM StopDetachesAll == MjpegSpec => []StopDetaches
<1>1. MjpegInv => StopDetaches
  BY DEF MjpegInv, Serving, StopDetaches
<1> QED BY <1>1, MjpegInvariance, PTL

\* mjpeg_server.py:88 and camera_node.py:71-84.  No old frame and none out of
\* order, for every set of viewers and every number of frames on their way.
THEOREM OnlyFreshFrames == MjpegSpec => FramesAreFresh
<1> DEFINE Fresher ==
      \A v \in Viewers : seen'[v] # 0 => seen'[v] >= seen[v] /\ seen'[v] > since'
<1>1. MjpegInv /\ MjpegInv' /\ [MjpegNext]_mjpegVars => [Fresher]_mjpegVars
  <2> SUFFICES ASSUME MjpegInv, MjpegInv', [MjpegNext]_mjpegVars,
                      NEW v \in Viewers, seen'[v] # 0
               PROVE  seen'[v] >= seen[v] /\ seen'[v] > since'
    OBVIOUS
  <2>1. seen'[v] > since'
    BY DEF MjpegInv, SinceAttached, MjpegTypeOK
  <2>2. NumbersOK /\ ListsOK
    BY Halves DEF MjpegInv
  <2>3. seen'[v] >= seen[v]
    <3>1. CASE \E w \in Viewers : SendFrame(w)
      BY <2>2, <3>1, SendMoves, Elements DEF MjpegInv, Growing, ElementsOK
    <3>2. CASE \E w \in Viewers : Leave(w)
      BY <2>2, <3>2, Elements DEF Leave, ElementsOK
    <3>3. CASE UNCHANGED seen
      BY <2>2, <3>3, Elements DEF ElementsOK
    <3> QED BY <3>1, <3>2, <3>3
            DEF MjpegNext, Handler, Gone, mjpegVars, frameVars, ServerStart,
                ServerStop, ServerStopped, StopAbandoned, CameraStop, CameraStart,
                ConnectFirst,
                ConnectRaises, ConnectRefused, ConnectNext, EncodeFrame, Put
  <2> QED BY <2>1, <2>3
<1> QED BY <1>1, MjpegInvariance, PTL DEF MjpegSpec, FramesAreFresh
=============================================================================
