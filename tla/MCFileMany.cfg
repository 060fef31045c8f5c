CONSTANTS
    r1 = r1
    r2 = r2
    r3 = r3
    Hole = Hole
    Empty = Empty
    Alias <- MCAlias
    b1 = b1
    b2 = b2
    Backend = {b1, b2}
    Pathlist <- WithLimit
    MaxLeaks = 2
SPECIFICATION Spec
INVARIANTS
    LinesMatchPaths
    SerialExportsKept
