SPECIFICATION FairSpec
CONSTANTS
    Wheels <- MCWheels
    Joysticks <- MCJoysticks
    Malformed <- MCMalformed
    Mix <- MCMix
    Full = 3
    RampStep = 1
    DownStep = 3
    LoopInterval = 1
    LoopJitter = 1
    Drivers <- MCDrivers
    BackendFails = TRUE
    MaxSince = 5
INVARIANTS
    RampsDownAfterDisarm
    QuietAfterShutdown
PROPERTIES
    NoSpeedJump
    DisarmedOnlySlows
    ReachesCommand
    DisarmedComesToRest
