SPECIFICATION PipelineSpec
CONSTANTS
    Modes <- AllModes
    Topics <- MCTopics
    Retries = 1
    None = None
INVARIANTS
    OneLinkViewCurrent
    SubscribedUnlessDropped
PROPERTIES
    StopEnds
    SilentOnceStopped
    ConsoleLearns
