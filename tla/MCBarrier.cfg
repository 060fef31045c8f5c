SPECIFICATION FairSpec
CONSTANTS
    a = a
    b = b
    c = c
    Proc = {a, b, c}
    CV = {"cv"}
    NULL = NULL
    ExceptLast = {2}
    MaxPhase = 3
CHECK_DEADLOCK FALSE
INVARIANTS NoWakeupMissed BroadcastReachesAll OneIsElected
PROPERTIES AllReleased ImplementsPhaser
