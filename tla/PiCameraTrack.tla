---------------------------- MODULE PiCameraTrack ----------------------------
(***************************************************************************)
(* camera/pi_camera_track.py: the tracks of the successive WebRTC sessions *)
(* and the one camera of the vehicle.  A track opens a Picamera2 when it   *)
(* is started, and shows a test pattern for good when that fails.  recv    *)
(* has the frame fetched by a thread of the executor, and the loop goes on *)
(* meanwhile.                                                              *)
(*                                                                         *)
(* External: libcamera lets one Picamera2 at a time have the camera, and   *)
(* any call of picamera2 may raise.                                        *)
(***************************************************************************)
EXTENDS Naturals

CONSTANTS Tracks,
          MaxFaults  \* bound: calls of picamera2 that raise in a behaviour

VARIABLES
    device,   \* .picam[t]: "new", "on" while self._picam is set, "pattern"
              \*   after a start that failed, "off" after a stop;
              \* .held: the tracks whose Picamera2 has the camera;
              \* .faults: the calls that raised
    captures, \* the tracks whose recv waits for a capture_array in the executor
    sent      \* history: what the last frame a sender got was

TrackTypeOK ==
    /\ device \in [picam : [Tracks -> {"new", "on", "pattern", "off"}],
                   held : SUBSET Tracks, faults : 0..MaxFaults]
    /\ captures \subseteq Tracks
    /\ sent \in {"none", "camera", "pattern"}

TrackInit ==
    /\ device = [picam |-> [t \in Tracks |-> "new"], held |-> {}, faults |-> 0]
    /\ captures = {}
    /\ sent = "none"

\* A call raises: d with one more fault, while the bound allows it.
Raised(d) == {e \in {[d EXCEPT !.faults = @ + 1]} : e.faults <= MaxFaults}

\* Faulty variant: stop_camera leaves out close().
StoppedNotClosed(d, t) ==
    IF t \notin Tracks \/ d.picam[t] # "on" THEN {d}
    ELSE {[d EXCEPT !.picam[t] = "off"]}

\* stop_camera of track t, or of none.  When stop() or close() raises, the
\* Picamera2 is forgotten with the camera in its hands.
StoppedCamera(d, t) ==
    IF t \notin Tracks \/ d.picam[t] # "on" THEN {d}
    ELSE {[d EXCEPT !.picam[t] = "off", !.held = @ \ {t}]}
         \cup Raised([d EXCEPT !.picam[t] = "off"])

\* start_camera of track t.  The constructor raises while another Picamera2
\* has the camera; configure, start or the colour correction may raise after
\* it, and the Picamera2 is then forgotten in the same way.
StartedCamera(d, t) ==
    LET fallback == [d EXCEPT !.picam[t] = "pattern"] IN
    IF d.held # {} THEN {fallback}
    ELSE {[d EXCEPT !.picam[t] = "on", !.held = {t}]}
         \cup Raised(fallback) \cup Raised([fallback EXCEPT !.held = {t}])

\* recv of track t, called by a sender: it asks the executor for a frame...
RecvCaptures(t) ==
    /\ t \notin captures
    /\ device.picam[t] = "on"
    /\ captures' = captures \cup {t}
    /\ UNCHANGED <<device, sent>>

\* ... or makes one itself.
RecvPattern(t) ==
    /\ t \notin captures
    /\ device.picam[t] # "on"
    /\ sent' = "pattern"
    /\ UNCHANGED <<device, captures>>

\* capture_array ends and recv goes on.  With the camera closed under it the
\* capture may raise instead, and nothing is sent.
CaptureEnds(t) ==
    /\ t \in captures
    /\ captures' = captures \ {t}
    /\ \/ sent' = "camera"
       \/ t \notin device.held /\ UNCHANGED sent
    /\ UNCHANGED device
=============================================================================
