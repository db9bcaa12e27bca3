------------------------------ MODULE CameraNode ------------------------------
(***************************************************************************)
(* camera/camera_node.py: the WebRTC session.  Commands from the bus       *)
(* become tasks of one asyncio loop, which interleave where they await:    *)
(* in close() of the old peer connection and in setLocalDescription of the *)
(* new one.  Between two awaits a task runs alone, and the loop takes the  *)
(* tasks that can run first in, first out.                                 *)
(*                                                                         *)
(* A start task creates one peer connection and one track, and both carry  *)
(* the number of the task.  The camera under the tracks, and the frames    *)
(* they give the senders of the connections, are those of PiCameraTrack.   *)
(***************************************************************************)
EXTENDS Sequences, Naturals

CONSTANTS MaxCommands,  \* bound: start and stop commands of a behaviour
          MaxFaults     \* bound: see PiCameraTrack

ASSUME CameraAssumption == MaxCommands \in Nat \ {0} /\ MaxFaults \in Nat

VARIABLES
    commands,  \* the commands received, in order: command t is task t
    at,        \* at[t]: where task t is
    ready,     \* the loop's queue of tasks that can run; Quit for loop.stop
    pc,        \* self._pc, 0 for None
    track,     \* self._track, 0 for None
    conn,      \* conn[t]: the peer connection of task t
    closers,   \* closers[t]: the tasks in close() of it, in order
    described, \* peer connections with a local description
    answered,  \* peer connections with the remote answer
    status,    \* the last camera.status published
    shutdown,  \* where main is in on_shutdown
    loop,      \* "running", "stopping" or "stopped"
    device, captures, sent  \* see PiCameraTrack

Commands == 1..MaxCommands

INSTANCE PiCameraTrack WITH Tracks <- Commands

session == <<pc, track, conn, closers>>
signaling == <<described, answered>>
frames == <<captures, sent>>
camera == <<device, frames>>
vars == <<commands, at, ready, session, signaling, status, shutdown, loop,
          camera>>

Cleanup == MaxCommands + 1   \* the task on_shutdown schedules
Tasks == 1..Cleanup
Quit == 0

Kind(t) == IF t = Cleanup THEN "cleanup" ELSE commands[t]

TypeOK ==
    /\ commands \in Seq({"start", "stop"}) /\ Len(commands) <= MaxCommands
    /\ at \in [Tasks -> {"none", "begin", "close", "gather", "done"}]
    /\ ready \in Seq(Tasks \cup {Quit})
    /\ pc \in 0..MaxCommands
    /\ track \in 0..MaxCommands
    /\ conn \in [Commands -> {"none", "open", "closing", "down", "closed"}]
    /\ \A t \in Commands : /\ closers[t] \in Seq(Tasks)
                           /\ closers[t] # <<>> <=> conn[t] \notin {"none", "open"}
    /\ TrackTypeOK
    /\ described \subseteq Commands
    /\ answered \subseteq described
    /\ status \in {"none", "starting", "streaming", "stopped", "error"}
    /\ shutdown \in {"no", "cleanup", "quit"}
    /\ loop \in {"running", "stopping", "stopped"}

Init ==
    /\ commands = <<>>
    /\ at = [t \in Tasks |-> "none"]
    /\ ready = <<>>
    /\ pc = 0
    /\ track = 0
    /\ conn = [t \in Commands |-> "none"]
    /\ closers = [t \in Commands |-> <<>>]
    /\ TrackInit
    /\ described = {}
    /\ answered = {}
    /\ status = "none"
    /\ shutdown = "no"
    /\ loop = "running"

-----------------------------------------------------------------------------
(* The threads outside the loop *)

\* _on_camera_cmd and _schedule, in a paho thread.
OnCameraCmd(action) ==
    /\ loop # "stopped"
    /\ Len(commands) < MaxCommands
    /\ commands' = Append(commands, action)
    /\ at' = [at EXCEPT ![Len(commands) + 1] = "begin"]
    /\ ready' = Append(ready, Len(commands) + 1)
    /\ UNCHANGED <<session, signaling, status, shutdown, loop,
                   camera>>

\* on_shutdown schedules the clean-up, waits for it, 5 s at most in a close()
\* that takes longer, and then schedules loop.stop.
ShutdownCleanup ==
    /\ shutdown = "no"
    /\ shutdown' = "cleanup"
    /\ at' = [at EXCEPT ![Cleanup] = "begin"]
    /\ ready' = Append(ready, Cleanup)
    /\ UNCHANGED <<commands, session, signaling, status, loop, camera>>

ShutdownQuit ==
    /\ shutdown = "cleanup"
    /\ at[Cleanup] \in {"close", "done"}
    /\ shutdown' = "quit"
    /\ ready' = Append(ready, Quit)
    /\ UNCHANGED <<commands, at, session, signaling, status, loop,
                   camera>>

-----------------------------------------------------------------------------
(* The tasks, one stretch between two awaits at a time *)

\* The loop takes task t.
Runs(t) == loop # "stopped" /\ ready # <<>> /\ Head(ready) = t

\* What follows _async_cleanup in task t, the others in woken being next.
AfterCleanup(t, woken) ==
    /\ ready' = Tail(ready) \o woken
    /\ CASE Kind(t) = "start" ->
              /\ pc' = t
              /\ track' = t
              /\ \E d \in StoppedCamera(device, track) :
                     device' \in StartedCamera(d, t)
              /\ at' = [at EXCEPT ![t] = "gather"]
         [] Kind(t) = "stop" ->
              /\ pc' = 0
              /\ track' = 0
              /\ device' \in StoppedCamera(device, track)
              /\ at' = [at EXCEPT ![t] = "done"]
              /\ status' = "stopped"
         [] Kind(t) = "cleanup" ->
              /\ pc' = 0
              /\ track' = 0
              /\ device' \in StoppedCamera(device, track)
              /\ at' = [at EXCEPT ![t] = "done"]

\* The connections after it: a start task has opened one.
Opened(t, conns) == [c \in Commands |->
                        IF c = t /\ Kind(t) = "start" THEN "open" ELSE conns[c]]

\* A task begins, and there is no peer connection to close.
BeginFree(t) ==
    /\ Runs(t)
    /\ at[t] = "begin"
    /\ pc = 0
    /\ AfterCleanup(t, <<>>)
    /\ conn' = Opened(t, conn)
    /\ Kind(t) # "stop" =>
           status' = IF Kind(t) = "start" THEN "starting" ELSE status
    /\ UNCHANGED <<commands, closers, signaling, shutdown, loop, frames>>

\* Faulty variant: the camera is stopped before the connection is closed.
BeginCloseCameraFirst(t) ==
    /\ Runs(t)
    /\ at[t] = "begin"
    /\ pc # 0
    /\ conn' = [conn EXCEPT ![pc] = IF @ = "open" THEN "closing" ELSE @]
    /\ closers' = [closers EXCEPT ![pc] = Append(@, t)]
    /\ at' = [at EXCEPT ![t] = "close"]
    /\ status' = IF Kind(t) = "start" THEN "starting" ELSE status
    /\ ready' = Tail(ready)
    /\ device' \in StoppedCamera(device, track)
    /\ UNCHANGED <<commands, pc, track, signaling, shutdown, loop, frames>>

\* It awaits close(): the first to call it does the work, the others wait.
BeginClose(t) ==
    /\ Runs(t)
    /\ at[t] = "begin"
    /\ pc # 0
    /\ conn' = [conn EXCEPT ![pc] = IF @ = "open" THEN "closing" ELSE @]
    /\ closers' = [closers EXCEPT ![pc] = Append(@, t)]
    /\ at' = [at EXCEPT ![t] = "close"]
    /\ status' = IF Kind(t) = "start" THEN "starting" ELSE status
    /\ ready' = Tail(ready)
    /\ UNCHANGED <<commands, pc, track, signaling, shutdown, loop, camera>>

\* The sender of c is cancelled, in a call of recv too, and the transports are
\* down: the first closer can go on.
CloseDone(c) ==
    /\ conn[c] = "closing"
    /\ conn' = [conn EXCEPT ![c] = "down"]
    /\ captures' = captures \ {c}
    /\ ready' = Append(ready, Head(closers[c]))
    /\ UNCHANGED <<commands, at, pc, track, closers, signaling, status, shutdown,
                   loop, device, sent>>

\* Faulty variant: the waiting tasks are not woken.
ClosedAlone(t) ==
    /\ Runs(t)
    /\ at[t] = "close"
    /\ \E c \in Commands :
           /\ t \in {closers[c][i] : i \in DOMAIN closers[c]}
           /\ AfterCleanup(t, <<>>)
           /\ conn' = Opened(t, [conn EXCEPT ![c] = "closed"])
    /\ Kind(t) # "stop" => UNCHANGED status
    /\ UNCHANGED <<commands, closers, signaling, shutdown, loop, frames>>

\* close() returns in task t; the first closer wakes the waiting ones.
Closed(t) ==
    /\ Runs(t)
    /\ at[t] = "close"
    /\ \E c \in Commands :
           /\ t \in {closers[c][i] : i \in DOMAIN closers[c]}
           /\ AfterCleanup(t, IF t = Head(closers[c]) THEN Tail(closers[c])
                                                      ELSE <<>>)
           /\ conn' = Opened(t, [conn EXCEPT ![c] = "closed"])
    /\ Kind(t) # "stop" => UNCHANGED status
    /\ UNCHANGED <<commands, closers, signaling, shutdown, loop, frames>>

\* ICE gathering of task t ends.
Gathered(t) ==
    /\ at[t] = "gather"
    /\ \A i \in DOMAIN ready : ready[i] # t
    /\ ready' = Append(ready, t)
    /\ UNCHANGED <<commands, at, session, signaling, status, shutdown, loop,
                   camera>>

\* setLocalDescription returns; the offer read is that of self._pc, whichever
\* it is now, and None or a missing description raises.
Offer(t) ==
    /\ Runs(t)
    /\ at[t] = "gather"
    /\ at' = [at EXCEPT ![t] = "done"]
    /\ ready' = Tail(ready)
    /\ described' = described \cup {t}
    /\ status' = IF pc \in described' THEN status ELSE "error"
    /\ UNCHANGED <<commands, session, answered, shutdown, loop, camera>>

\* setLocalDescription raises, as it may when the connection is being closed.
OfferRaises(t) ==
    /\ Runs(t)
    /\ at[t] = "gather"
    /\ conn[t] # "open"
    /\ at' = [at EXCEPT ![t] = "done"]
    /\ ready' = Tail(ready)
    /\ status' = "error"
    /\ UNCHANGED <<commands, session, signaling, shutdown, loop, camera>>

\* loop.stop: the loop ends after the tasks it has taken up.
RunQuit ==
    /\ Runs(Quit)
    /\ ready' = Tail(ready)
    /\ loop' = "stopping"
    /\ UNCHANGED <<commands, at, session, signaling, status, shutdown,
                   camera>>

LoopEnds ==
    /\ loop = "stopping"
    /\ loop' = "stopped"
    /\ UNCHANGED <<commands, at, ready, session, signaling, status, shutdown,
                   camera>>

-----------------------------------------------------------------------------
(* Signalling *)

\* _async_set_answer: an answer counts once, for the current connection.
SetAnswer ==
    /\ loop # "stopped"
    /\ pc \in described \ answered
    /\ conn[pc] = "open"
    /\ answered' = answered \cup {pc}
    /\ UNCHANGED <<commands, at, ready, session, described, status, shutdown,
                   loop, camera>>

\* on_connection_state_change, which ignores a connection that was replaced.
ConnectionState(c, published) ==
    /\ loop # "stopped"
    /\ c \in answered
    /\ conn[c] = "open"
    /\ pc = c
    /\ status' = published
    /\ UNCHANGED <<commands, at, ready, session, signaling, shutdown, loop,
                   camera>>

-----------------------------------------------------------------------------
(* Frames *)

\* The sender of connection c calls recv from when the answer is in until
\* close() is through with it.
Sends(c) == c \in answered /\ conn[c] \in {"open", "closing"}

Frame(c) ==
    /\ Sends(c)
    /\ loop # "stopped"
    /\ RecvCaptures(c) \/ RecvPattern(c) \/ CaptureEnds(c)
    /\ UNCHANGED <<commands, at, ready, session, signaling, status, shutdown,
                   loop>>

-----------------------------------------------------------------------------
Stopped == loop = "stopped" /\ UNCHANGED vars

\* The loop takes the first task of the queue.
RunReady == \/ \E t \in Tasks : BeginFree(t) \/ BeginClose(t) \/ Closed(t)
            \/ \E t \in Commands : Offer(t) \/ OfferRaises(t)
            \/ RunQuit

Next ==
    \/ \E action \in {"start", "stop"} : OnCameraCmd(action)
    \/ ShutdownCleanup \/ ShutdownQuit \/ LoopEnds
    \/ RunReady
    \/ \E t \in Commands : Gathered(t) \/ CloseDone(t) \/ Frame(t)
    \/ SetAnswer
    \/ \E c \in Commands, published \in {"streaming", "error"} :
           ConnectionState(c, published)
    \/ Stopped

Spec == Init /\ [][Next]_vars

\* The loop runs what is ready, and aiortc ends what it has begun.
FairSpec == /\ Spec
            /\ WF_vars(RunReady)
            /\ \A t \in Commands : WF_vars(Gathered(t)) /\ WF_vars(CloseDone(t))

-----------------------------------------------------------------------------
(* Properties *)

\* camera_node.py:280-300 and :368-378, pi_camera_track.py:181-240.  However
\* start, stop and clean-up tasks interleave, no track but the one the node
\* knows and can stop has the camera on; and that one does have it, because no
\* earlier track still holds it, as long as no call of picamera2 has raised:
\* one that has may leave the camera held for good.
CameraOwned ==
    /\ \A t \in Commands : device.picam[t] = "on" => t = track
    /\ device.faults = 0 => device.held = (IF track = 0 THEN {} ELSE {track})

\* camera_node.py:370-378 and pi_camera_track.py:255-261.  The session the node
\* knows shows the test pattern if its camera did not start, and frames of a
\* running camera if it did: recv looks at self._picam before it suspends, and
\* while a session is being replaced or stopped its sender is silenced before
\* its camera is taken away.
PictureIsTrue ==
    [][\A c \in Commands :
          c = track /\ Frame(c) /\ sent' # sent
              => CASE sent' = "camera" -> device.picam[c] = "on"
                   [] sent' = "pattern" -> device.picam[c] = "pattern"]_vars

\* camera_node.py:368-378.  Tasks that wait for one close() do not wait forever.
CommandsEnd == \A t \in Commands : at[t] = "begin" ~> (at[t] = "done" \/ loop # "running")
=============================================================================
