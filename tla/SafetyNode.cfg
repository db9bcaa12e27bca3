SPECIFICATION FairSpec
CONSTANTS
    Links <- MCLinks
    ConfigTimeouts <- MCConfigTimeouts
    MinTimeout = 3
    Poll = 2
    Jitter = 1
    MaxAge = 9
INVARIANTS
    EstopWithinBound
    RelayFollowsState
PROPERTIES
    ImplementsDeadManSwitch
    RearmsOnHeartbeat
    ShutdownCompletes
