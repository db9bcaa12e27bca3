SPECIFICATION FairSpec
CONSTANTS
    Links <- MCLinks
    ConfigTimeouts <- MCConfigTimeouts
    MinTimeout = 2
    Poll = 1
    Jitter = 1
    MaxAge = 9
    Wheels <- MCWheels
    Joysticks <- MCJoysticks
    Malformed <- MCMalformed
    Mix <- MCMix
    Full = 3
    RampStep = 1
    DownStep = 3
    LoopInterval = 1
    LoopJitter = 0
    BackendFails = TRUE
    MaxSince = 3
    MinDuty = 10
    MaxDuty = 100
INVARIANTS
    MotorsOffAfterLoss
    DriveFollowsRelay
PROPERTIES
    ImplementsHaltingVehicle
    OperatorDrives
