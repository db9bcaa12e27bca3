SPECIFICATION Spec
CONSTANTS
    Nodes <- MCNodes
    RaisesOnStart = {}
    RaisesOnShutdown = {}
    StartupArmed = FALSE
    MaxCrashes = 0
INVARIANT
    StopEngages
