CONSTANTS
    SFData = 2
    FFData = 2
    CFData = 2
    MaxMessage = 6
    SeqMod = 2
    Lengths <- MCLengths
    Responses <- MCResponses
    BlockSizes <- MCBlockSizes
    StMins <- MCStMins
    MaxWft = 1
    Timeout = 1
    BootTicks = 1
    MaxLag = 1
SPECIFICATION LiveSpec
INVARIANTS HandedWhole SinkFollows PeerFollows
PROPERTIES TransfersEnd
