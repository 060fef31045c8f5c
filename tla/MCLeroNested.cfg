CONSTANTS
    q1 = q1
    q2 = q2
    a = a
    b = b
    c = c
    Query <- MCQuery
    Join <- MCJoin
    NumTables <- MCNumTables
    Orders <- FixedOrders
    TableNums = {2, 3}
    CARD_MAX_NUM = 2
    MaxDepth = 2
    Handlers = {1}
SPECIFICATION Spec
INVARIANTS
    OwnEstimates
    UndisturbedReplayFaithful
    TypeOK
