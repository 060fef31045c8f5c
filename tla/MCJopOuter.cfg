CONSTANTS
    x = x
    y = y
    FuzzNum = 101
    FuzzDen = 100
    consider_startup = TRUE
    consider_param_startup = FALSE
    Paths <- MCPaths
    BaseRels = {1, 2, 3}
    OuterJoinRels = {4}
    LowerRels = {1, 2}
    WordBits = 32
    EnableSettings = {TRUE}
    Searches = {"standard"}
    Uppers <- NoUppers
    SortCost = 20
    IncrementalSortCost = 10
    enable_incremental_sort = TRUE
SPECIFICATION Spec
INVARIANTS
    JoinOrdersExported
