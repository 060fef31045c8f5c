SPECIFICATION Spec
CONSTANTS
    RingSize = 4
    Lengths = {0, 1, 5}
    MaxMessages = 3
INVARIANTS Fifo MessageStaysValid DetachedWhenDrained WokenUnlessEarly NoStandoff
CHECK_DEADLOCK FALSE
