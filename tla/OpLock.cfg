\* An entry per thread, so that nothing is refused; with one entry and callers of
\* dnet_optrylock in the part "few".
CONSTANTS
    Threads = {t1, t2, t3}
    TryThreads = {}
    Keys = {k1, k2}
    Entries = {e1, e2, e3}
    NoEntry = NoEntry
    NoKey = NoKey
    MaxRef = 0
    FewTryThreads = {t3}
    FewEntries = {e1}
    FewMaxRef = 4
    i1 = i1
    i2 = i2
    d1 = d1
    d2 = d2
    Updates = {u1, u2}
    Indices = {i1, i2}
    Elsewhere = {i2}
    Wishes <- MCWishes
    None = None
    MaxFaults = 1
    x1 = x1
    x2 = x2
    Tables = {x1, x2}
    Shards = {1, 2}
    Content <- MCContent
    Queries <- MCQueries
    Missing = Missing
    NGroups = 2
    Responses <- MCResponses
    MaxLen = 3
    MaxKey = 8
SPECIFICATION MCSpec
INVARIANTS
    MutualExclusion NoStaleEntry NoLostWakeup TableConsistent NeverExhausted
    FewEntriesSafe  StructuresExact
PROPERTIES
    ImplementsKeyLock LockedCallsEnd
