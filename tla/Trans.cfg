CONSTANTS
    Trans = {t1, t2}
    NoTrans = NoTrans
    MaxMore = 1
    StallCount = 2
    NoMemory = FALSE
    PeerCloses = TRUE
    Times = TRUE
SYMMETRY Symmetry
SPECIFICATION Spec
CHECK_DEADLOCK FALSE
INVARIANTS CallbackExclusive FinalOnce NoUseAfterFree RefsExact StateAlive
