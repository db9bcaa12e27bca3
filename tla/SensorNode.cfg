SPECIFICATION Spec
CONSTANTS
    MaxSentences = 3
    Room = 3
    Order <- MCOrder
    Interval <- MCInterval
    Flaky <- MCFlaky
    Late = 1
    MaxAge = 6
INVARIANTS
    ReportedInOrder
    ReadingsFresh
    ClosedUnread
PROPERTY
    GoodSentencesReported
