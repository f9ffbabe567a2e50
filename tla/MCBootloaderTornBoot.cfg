CONSTANTS
    Byte <- MCByte
    FF = 0
    VectorBytes <- MCVectorBytes
    CrcValue <- MCCrcValue
    ErasedCrc = 4
    ZeroCrc = 0
    Crc <- MCCrc
    SlotSize = 4
    PageSize = 2
    DWord = 2
    Sizes <- MCSizes
    Blocks <- MCBlocks
    Factory <- MCFactory
    MaxVersion = 2
    SeqMod = 3
    S3Ticks = 1
    ResetTicks = 1
SPECIFICATION SoundFlashSpec

INVARIANT RunsOnlyComplete
