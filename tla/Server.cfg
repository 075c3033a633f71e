CONSTANTS
    k1 = k1
    k2 = k2
    Keys = {k1, k2}
    Workers = {w1, w2}
    Requests <- MCRequests
    MaxSize = 2
    SyncTimeout = 1
    MaxCommands = 3
    MaxTime = 2
    NoKey = NoKey
    x1 = x1
    x2 = x2
    x3 = x3
    Tids = {x1, x2, x3}
    Nobody = Nobody
    RequestsOf <- MCRequestsOf
    Iters = {i1, i2}
    NoId = NoId
    NoControl = NoControl
    Objects <- MCObjects
    Configs <- MCConfigs
    Leaving = {i1}
    MaxControls = 1
    Jobs = {r1, r2}
    NoReq = NoReq
    Execs = {e1}
    Replies = {c1, c2}
    MaxSent = 2
SPECIFICATION MCSpec
CHECK_DEADLOCK FALSE
INVARIANTS
       
    ScriptsAnswered

    
