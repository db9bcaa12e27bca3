SPECIFICATION FairSpec
CONSTANTS
    Links <- TwoLinks
    MaxSent = 4
    MaxRestarts = 1
    Seqless <- Second
    Malformed <- Third
INVARIANTS
    NoDuplicateDelivery
    ConsumersAgree
PROPERTIES
    NewestGetsThrough
    ImplementsLatestCommand
CHECK_DEADLOCK FALSE
