CONSTANTS
    S3 = 2
    BootDelay = 1
    Lockout = 2
    MaxFail = 2
    MaxLag = 1
    Vin = 17
    Strings <- MCStrings
    DynIds <- MCDynIds
    PeriodicIds <- MCPeriodic
    DynSlots = 2
    MaxRec = 3
    MaxData = 56
    Slots = 2
    MaxResponse = 64
    Regions <- MCRegions
    PidLength <- MCPidLength
    Menus <- MCMenus
SPECIFICATION ServiceLiveSpec
INVARIANTS AttemptsBounded ReturnRestores ReadsWithinSource
PROPERTIES SessionEnds HandoffReached RefusalLeavesNoTrace BroadcastIsHarmless
