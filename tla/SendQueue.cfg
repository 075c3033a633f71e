\* Two iterators, another request and a spurious wakeup.
CONSTANTS
    Producers = {p1, p2}
    High = 2
    Low = 1
    MaxReplies = 4
    MaxOthers = 1
    Resets = TRUE
    MaxSpurious = 1
SPECIFICATION FairSpec
CHECK_DEADLOCK FALSE
INVARIANTS QueueScheduled QueueBounded
PROPERTIES QueuedThenSent
