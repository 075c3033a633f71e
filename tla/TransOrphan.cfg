CONSTANTS
    Trans = {t1}
    NoTrans = NoTrans
    MaxMore = 1
    StallCount = 2
    NoMemory = FALSE
    PeerCloses = TRUE
    Times = TRUE
SPECIFICATION FairSpec
CHECK_DEADLOCK FALSE
PROPERTY ListedThenFinal
