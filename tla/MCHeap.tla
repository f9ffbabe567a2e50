-------------------------------- MODULE MCHeap --------------------------------
(* A heap of a few blocks, and requests that fit, that fill a block, that  *)
(* are too large for a word once the header is added, and of nothing.      *)
EXTENDS HeapProps
=============================================================================
