----------------------------- MODULE MjpegServer -----------------------------
(***************************************************************************)
(* camera/mjpeg_server.py with the encoder hooks of camera/camera_node.py: *)
(* viewers share one MJPEG encoder, attached for the first of them and     *)
(* detached after the last, and one queue that keeps the newest frame.     *)
(*                                                                         *)
(* Neither hook suspends, so what a handler does under _lock is one step.  *)
(* The camera belongs to the WebRTC session, which starts, stops and       *)
(* replaces it without asking the server.                                  *)
(***************************************************************************)
EXTENDS Sequences, Integers, FiniteSets

CONSTANTS Viewers,
          MaxCameras,  \* bound: cameras opened in a behaviour
          MaxFrames    \* bound: frames encoded in a behaviour

ASSUME MjpegAssumption ==
    /\ IsFiniteSet(Viewers)
    /\ MaxCameras \in Nat /\ MaxFrames \in Nat

VARIABLES
    server,    \* "off", "up" while it accepts, "stopping", "gone" (None), or
               \* "abandoned": its loop has ended before the stop was over
    picam,     \* the running camera, numbered from 1, or 0
    opened,    \* cameras opened so far
    encoder,   \* the camera _mjpeg_encoder was started on, Refused by it, or
               \* 0 for None
    count,     \* _client_count
    handler,   \* handler[v]: "away" or "stream"
    attaches,  \* encoders attached so far: the number of the newest queue
    queue,     \* the contents of the newest queue
    puts,      \* puts on their way from the encoder's thread to the loop
    frame,     \* the newest frame
    raised,    \* history: connections that ended in an exception of the attach
    since,     \* history: the newest frame when the encoder was attached
    seen       \* history: seen[v], the last frame sent to v, 0 after it left

cameraVars == <<picam, opened>>
frameVars == <<queue, puts, frame, seen>>
attachVars == <<attaches, raised, since>>
mjpegVars == <<server, cameraVars, encoder, count, handler, attachVars, frameVars>>

Refused == -1

Streaming == {v \in Viewers : handler[v] = "stream"}

MjpegTypeOK ==
    /\ server \in {"off", "up", "stopping", "gone", "abandoned"}
    /\ picam \in 0..opened
    /\ opened \in 0..MaxCameras
    /\ encoder \in Refused..opened
    /\ count \in Nat
    /\ handler \in [Viewers -> {"away", "stream"}]
    /\ attaches \in Nat
    /\ queue \in Seq(1..MaxFrames) /\ Len(queue) <= 1
    /\ puts \in Seq([to : 1..attaches, num : 1..MaxFrames])
    /\ frame \in 0..MaxFrames
    /\ raised \in 0..count
    /\ since \in 0..frame
    /\ seen \in [Viewers -> 0..frame]

MjpegInit ==
    /\ server = "off"
    /\ opened = 0
    /\ picam = 0
    /\ encoder = 0
    /\ count = 0
    /\ handler = [v \in Viewers |-> "away"]
    /\ attaches = 0
    /\ queue = <<>>
    /\ puts = <<>>
    /\ frame = 0
    /\ raised = 0
    /\ since = 0
    /\ seen = [v \in Viewers |-> 0]

\* What runs on the asyncio loop runs no more once it has been stopped.
LoopRuns == server # "abandoned"

-----------------------------------------------------------------------------
(* The WebRTC session *)

CameraStop ==
    /\ LoopRuns
    /\ picam # 0
    /\ picam' = 0
    /\ UNCHANGED <<server, opened, encoder, count, handler, attachVars, frameVars>>

\* A start command closes the old camera and opens a new one.
CameraStart ==
    /\ LoopRuns
    /\ opened < MaxCameras
    /\ opened' = opened + 1
    /\ picam' = opened'
    /\ UNCHANGED <<server, encoder, count, handler, attachVars, frameVars>>

-----------------------------------------------------------------------------
(* The server *)

\* start: a bad certificate or a port in use, and there is none.
ServerStart ==
    /\ server = "off"
    /\ server' \in {"up", "gone"}
    /\ UNCHANGED <<cameraVars, encoder, count, handler, attachVars, frameVars>>

\* _async_stop_mjpeg_server: first it takes no new connections...
ServerStop ==
    /\ server = "up"
    /\ server' = "stopping"
    /\ UNCHANGED <<cameraVars, encoder, count, handler, attachVars, frameVars>>

\* Faulty variant: the detaching is left to the handlers.
ServerStoppedPlain ==
    /\ server = "stopping"
    /\ Streaming = {}
    /\ server' = "gone"
    /\ UNCHANGED <<cameraVars, encoder, count, handler, attachVars, frameVars>>

\* ... and once the handlers have ended, or have been cancelled, it detaches
\* an encoder that is still there.
ServerStopped ==
    /\ server = "stopping"
    /\ Streaming = {}
    /\ server' = "gone"
    /\ encoder' = 0
    /\ UNCHANGED <<cameraVars, count, handler, attachVars, frameVars>>

\* on_shutdown waits 3 s for that, then 5 s for the clean-up of the session
\* (a CameraStop, if it gets that far), and stops the loop all the same.
StopAbandoned ==
    /\ server = "stopping"
    /\ server' = "abandoned"
    /\ UNCHANGED <<cameraVars, encoder, count, handler, attachVars, frameVars>>

-----------------------------------------------------------------------------
(* The encoder's thread and _AsyncQueueOutput *)

EncodeFrame ==
    /\ encoder # 0
    /\ encoder = picam
    /\ frame < MaxFrames
    /\ frame' = frame + 1
    /\ puts' = Append(puts, [to |-> attaches, num |-> frame'])
    /\ UNCHANGED <<server, cameraVars, encoder, count, handler, attachVars, queue,
                   seen>>

\* Faulty variant: the output puts into whatever queue the node has now.
PutAnyQueue ==
    /\ LoopRuns
    /\ puts # <<>>
    /\ puts' = Tail(puts)
    /\ queue' = <<Head(puts).num>>
    /\ UNCHANGED <<server, cameraVars, encoder, count, handler, attachVars, frame,
                   seen>>

\* Drop the oldest; a put to an earlier queue reaches nobody.
Put ==
    /\ LoopRuns
    /\ puts # <<>>
    /\ puts' = Tail(puts)
    /\ queue' = IF Head(puts).to = attaches THEN <<Head(puts).num>> ELSE queue
    /\ UNCHANGED <<server, cameraVars, encoder, count, handler, attachVars, frame,
                   seen>>

-----------------------------------------------------------------------------
(* _handle_stream of viewer v *)

Connects(v) ==
    /\ server = "up"
    /\ handler[v] = "away"
    /\ count' = count + 1

\* attach_mjpeg_encoder for the first client.
ConnectFirst(v) ==
    /\ count = 0
    /\ picam # 0
    /\ Connects(v)
    /\ handler' = [handler EXCEPT ![v] = "stream"]
    /\ encoder' = picam
    /\ attaches' = attaches + 1
    /\ queue' = <<>>
    /\ since' = frame
    /\ UNCHANGED <<server, cameraVars, raised, puts, frame, seen>>

\* It raises without a camera: a 500 for the client, and the count stays.
ConnectRaises(v) ==
    /\ count = 0
    /\ picam = 0
    /\ Connects(v)
    /\ raised' = raised + 1
    /\ UNCHANGED <<server, cameraVars, encoder, handler, attaches, since, frameVars>>

\* start_encoder raises, with _mjpeg_encoder set already: the same, and nobody
\* detaches it but the stop of the server.
ConnectRefused(v) ==
    /\ count = 0
    /\ picam # 0
    /\ Connects(v)
    /\ encoder' = Refused
    /\ raised' = raised + 1
    /\ UNCHANGED <<server, cameraVars, handler, attaches, since, frameVars>>

ConnectNext(v) ==
    /\ count > 0
    /\ Connects(v)
    /\ handler' = [handler EXCEPT ![v] = "stream"]
    /\ UNCHANGED <<server, cameraVars, encoder, attachVars, frameVars>>

SendFrame(v) ==
    /\ LoopRuns
    /\ handler[v] = "stream"
    /\ queue # <<>>
    /\ seen' = [seen EXCEPT ![v] = Head(queue)]
    /\ queue' = Tail(queue)
    /\ UNCHANGED <<server, cameraVars, encoder, count, handler, attachVars, puts,
                   frame>>

\* Faulty variant: the count is tested before it is decremented.
LeaveTestsFirst(v) ==
    /\ LoopRuns
    /\ handler[v] = "stream"
    /\ handler' = [handler EXCEPT ![v] = "away"]
    /\ seen' = [seen EXCEPT ![v] = 0]
    /\ count' = count - 1
    /\ encoder' = IF count = 0 THEN 0 ELSE encoder
    /\ UNCHANGED <<server, cameraVars, attachVars, queue, puts, frame>>

\* The client is gone, or no frame came for 10 s: the finally clause, with
\* detach_mjpeg_encoder after the last client.
Leave(v) ==
    /\ LoopRuns
    /\ handler[v] = "stream"
    /\ handler' = [handler EXCEPT ![v] = "away"]
    /\ seen' = [seen EXCEPT ![v] = 0]
    /\ count' = count - 1
    /\ encoder' = IF count' = 0 THEN 0 ELSE encoder
    /\ UNCHANGED <<server, cameraVars, attachVars, queue, puts, frame>>

-----------------------------------------------------------------------------
Handler(v) == \/ ConnectFirst(v) \/ ConnectRaises(v) \/ ConnectRefused(v)
              \/ ConnectNext(v)
              \/ SendFrame(v) \/ Leave(v)

Gone == server \in {"gone", "abandoned"} /\ UNCHANGED mjpegVars

MjpegNext ==
    \/ ServerStart \/ ServerStop \/ ServerStopped
    \/ StopAbandoned \/ Gone
    \/ CameraStop \/ CameraStart
    \/ EncodeFrame \/ Put
    \/ \E v \in Viewers : Handler(v)

MjpegSpec == MjpegInit /\ [][MjpegNext]_mjpegVars

\* Bounds for TLC: attachments in a behaviour, and the count, which leaks.
AttachBound == attaches <= 3 /\ count <= 4

-----------------------------------------------------------------------------
(* Properties *)

\* mjpeg_server.py:85-89 and :123-128.  Whoever comes and goes and whatever
\* camera replaces another, an encoder is attached if and only if somebody
\* watches, as long as no attach has raised: one that has leaves the count at
\* one too many for good.
EncoderIffViewers == raised = 0 => ((encoder # 0) <=> Streaming # {})

\* camera_node.py:406-417.  Once the stop of the server is over nothing is
\* attached to the camera any more, even if the count is too high to reach zero
\* or the encoder never ran.  A stop that on_shutdown has given up on promises
\* nothing: the loop ends with viewers and encoder as they are.
StopDetaches == server = "gone" => encoder = 0

\* mjpeg_server.py:88 and camera_node.py:71-84.  No viewer is shown a frame
\* from before the present encoder was attached, nor an older one after a
\* newer one, although the viewers take the frames from each other and puts are
\* on their way while encoders come and go.
FramesAreFresh ==
    [][\A v \in Viewers :
          seen'[v] # 0 => seen'[v] >= seen[v] /\ seen'[v] > since']_mjpegVars
=============================================================================
