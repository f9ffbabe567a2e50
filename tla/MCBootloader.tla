---------------------------- MODULE MCBootloader ----------------------------
(* Instances of the bootloader for TLC: bytes are numbers, 0 is the erased *)
(* one and 1 starts a plausible vector table; the checksum is a weighted   *)
(* sum, collisions included.                                               *)
EXTENDS BootloaderProps, FiniteSetsExt

MCByte == 0..2
MCVectorBytes == {1}
MCCrcValue == 0..4
MCCrc(s) == SumSet({ (i + 1) * s[i] : i \in DOMAIN s }) % 4
MCSizes == {3, 4}
MCBlocks == { <<1, 2>>, <<2>> }
MCLiveSizes == {4}
MCLiveBlocks == { <<1, 2>> }
MCFactory == { [i \in 1..SlotSize |-> 2 - (i % 2)] }
=============================================================================
