CONSTANTS
    Threads = {t1, t2}
    Tids = {a, b}
    NoTid = NoTid
    Commands = {c}
    MaxReplies = 2
    Exits = TRUE
    g1 = g1
    g2 = g2
    Groups = {g1, g2}
    INT_MAX = 100
    HOLD = 50
    Garbage <- MCGarbage
    GroupSeq <- MCGroupSeq
    Ids <- MCIds
    Unlimited = 100
    Sources = {s1, s2}
    Plain = p
    MaxEntries = 2
    c1 = c1
    c2 = c2
    Clients = {c1, c2}
    Count = 2
    MaxFaults = 1
    MaxSize = 4
    MaxId = 3
    KeySets <- MCKeySets
    Limits <- MCLimits
    WORD = 1000
SPECIFICATION MCSpec
CHECK_DEADLOCK FALSE
INVARIANTS
    ReplyExclusive   
PROPERTIES
    ImplementsReplyOrder ReplacesWhatWasRead ClientCallsEnd
