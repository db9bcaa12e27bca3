SPECIFICATION FairSpec
CONSTANTS
    Nodes <- MCNodes
    RaisesOnStart <- MCRaisesOnStart
    RaisesOnShutdown <- MCRaisesOnShutdown
    StartupArmed = TRUE
    MaxCrashes = 2
INVARIANTS
    NothingLeftRunning
    SafetyOutlivesOthers
    NeverExitsReleased
PROPERTIES
    StopCompletes
    CrashRecovers
