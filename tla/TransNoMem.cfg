CONSTANTS
    Trans = {t1}
    NoTrans = NoTrans
    MaxMore = 0
    StallCount = 2
    NoMemory = TRUE
    PeerCloses = FALSE
    Times = TRUE
SPECIFICATION Spec
CHECK_DEADLOCK FALSE
INVARIANTS CallbackExclusive
