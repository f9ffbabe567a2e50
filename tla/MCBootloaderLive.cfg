CONSTANTS
    Byte <- MCByte
    FF = 0
    VectorBytes <- MCVectorBytes
    CrcValue <- MCCrcValue
    ErasedCrc = 4
    ZeroCrc = 0
    Crc <- MCCrc
    SlotSize = 4
    PageSize = 2
    DWord = 2
    Sizes <- MCLiveSizes
    Blocks <- MCLiveBlocks
    Factory <- MCFactory
    MaxVersion = 1
    SeqMod = 2
    S3Ticks = 1
    ResetTicks = 1
SPECIFICATION LiveSpec

PROPERTIES ValidImageBoots LoopSettles
