CONSTANTS
    TempMax = 2
    SpeedMax = 2
    RpmMax = 3
    RpmHigh = 1
    Thresh = 2
    ConfirmHold = 2
    CountMax = 2
    SeqMax = 3
SPECIFICATION Spec
INVARIANTS ReportsAgree PicksInOrder NothingMaturesAlone OffFreezes
VIEW Told
