CONSTANTS
    A = A
    B = B
    C = C
    I = I
    Task = {A, B, C, I}
    Idle = I
    MaxPrio = 3
    MaxTick = 2
    Overflows = 2
    MaxNest = 1
    MaxPended = 2
    EventList <- MCLists
    Queues = {"q", "o", "s", "m"}
    Kind <- MCKind
    Length <- MCLength
    RxList <- MCRx
    TxList <- MCTx
    Msg = {1, 2}
    Watched = "q"
    NoteBits = 2
    Programs <- MCPrograms
INVARIANTS ListsAgree Punctual HighestRuns NoLostWakeup Inheritance
SPECIFICATION Spec
CHECK_DEADLOCK FALSE
PROPERTY KeepsOrder
