CONSTANTS
    Caller = {c1, c2}
    Align = 2
    Header = 2
    End = 18
    Word = 64
    Requests = {0, 1, 4, 6, 33, 62}
INVARIANTS Tidy Counted
PROPERTIES KeepsHeapContract SearchEnds
SPECIFICATION Spec
CHECK_DEADLOCK FALSE
