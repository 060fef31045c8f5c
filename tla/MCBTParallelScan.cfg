SPECIFICATION Spec
CONSTANTS
    a = a
    b = b
    c = c
    Proc = {a, b, c}
    CV = {"cv"}
    NULL = NULL
    NumPages = 3
    KeySets <- MCKeySets
    Hits = {1, 3}
    Ignored = {2}
INVARIANTS PagesTakenOnce NobodyStranded
