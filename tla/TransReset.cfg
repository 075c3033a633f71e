CONSTANTS
    Trans = {t1, t2}
    NoTrans = NoTrans
    MaxMore = 0
    StallCount = 1
    NoMemory = TRUE
    PeerCloses = TRUE
    Times = TRUE
SPECIFICATION FairSpec
CHECK_DEADLOCK FALSE
PROPERTY ListedThenFinal
