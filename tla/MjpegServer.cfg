SPECIFICATION MjpegSpec
CONSTANTS
    v1 = v1
    v2 = v2
    Viewers <- TwoViewers
    MaxCameras = 3
    MaxFrames = 4
CONSTRAINT
    AttachBound
INVARIANTS
    EncoderIffViewers
    StopDetaches
PROPERTY
    FramesAreFresh
