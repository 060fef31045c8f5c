SPECIFICATION Spec
CONSTANTS
    MaxBackends = 2
    MAXNUMMESSAGES = 2
    MSGNUMWRAPAROUND = 2
    CLEANUP_MIN = 1
    CLEANUP_QUANTUM = 1
    SIG_THRESHOLD = 0
    WRITE_QUANTUM = 1
    MAXINVALMSGS = 1
    INT_MAX = 4
    Msg = {"a", "b"}
    Calls <- MCCalls
    MaxDepth = 1
INVARIANTS QueueHoldsUnread ReceiveGuarantee
