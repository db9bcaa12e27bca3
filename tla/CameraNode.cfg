SPECIFICATION FairSpec
CONSTANTS
    MaxCommands = 3
    MaxFaults = 1
INVARIANTS
    CameraOwned
PROPERTIES
    PictureIsTrue
    CommandsEnd
