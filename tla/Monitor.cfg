SPECIFICATION MonitorSpec
CONSTANTS
    b1 = b1
    b2 = b2
    Browsers <- TwoBrowsers
    QueueSize = 2
    MaxRx = 2
    MaxPings = 1
INVARIANTS
    DisplayedStatusIsStates
