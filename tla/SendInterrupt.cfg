\* One iterator on a connection that breaks.
CONSTANTS
    Producers = {p1}
    High = 2
    Low = 1
    MaxReplies = 4
    MaxOthers = 0
    Resets = TRUE
    MaxSpurious = 0
SPECIFICATION FairSpec
CHECK_DEADLOCK FALSE
PROPERTIES InterruptedAfterReset
