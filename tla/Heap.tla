--------------------------------- MODULE Heap ---------------------------------
(***************************************************************************)
(* The allocator all kernel objects come from: heap_4.c.  Free blocks form *)
(* a list in the order of their addresses; malloc takes the first that     *)
(* fits and cuts it, free puts a block back and joins it with its          *)
(* neighbours.  Both work with the scheduler suspended, but a block loses  *)
(* its mark before that.  A failed allocation stops the firmware           *)
(* (vApplicationMallocFailedHook).  Each turn of a search is a step.       *)
(*                                                                         *)
(* Left out: the canary on pointers and the clearing of freed memory, both *)
(* off here, and what a header that is no longer one still holds.          *)
(***************************************************************************)
EXTENDS Integers, FiniteSets

CONSTANTS
  Caller,        \* tasks, and main before they run
  Align,         \* portBYTE_ALIGNMENT
  Header,        \* xHeapStructSize
  End,           \* pxEnd: the bytes the heap can give away
  Word,          \* values of size_t; sizes of the upper half mark allocation
  Requests       \* sizes asked for

Start == -Header \* xStart, below every block
Null == End + 1

ASSUME HeapAssumption ==
  /\ Align \in Nat \ {0} /\ Header \in Nat \ {0} /\ Header % Align = 0
  /\ End \in Nat \ {0} /\ End % Align = 0 /\ Header < End
  /\ Word \in Nat /\ 2 * End <= Word
  /\ Requests \subseteq 0..(Word - 1)

VARIABLES
  next,      \* pxNextFreeBlock of the free blocks and of xStart
  size,      \* xBlockSize of the blocks
  free,      \* the blocks in the free list
  used,      \* the blocks marked as allocated
  bytes,     \* xFreeBytesRemaining
  least,     \* xMinimumEverFreeBytesRemaining
  call,      \* where each caller is, and its locals
  halted     \* the hook was called
vars == <<next, size, free, used, bytes, least, call, halted>>

Address == 0..(End - 1)

\* The size with its header, rounded up; 0 if that does not fit in a word.
Wanted(n) ==
  LET m == n + Header
      r == IF m % Align = 0 THEN m ELSE m + Align - (m % Align)
  IN  IF n = 0 \/ r >= Word THEN 0 ELSE r

Idle == [pc |-> "idle", asked |-> 0, at |-> Start, block |-> Null]

\* The scheduler is suspended by the caller that searches or inserts.
Inside(c) == call[c].pc \in {"search", "insert"}
Runs(c) == ~halted /\ \A d \in Caller \ {c} : ~Inside(d)

\* prvHeapInit
Init ==
  /\ next = [a \in Address \cup {Start} |->
               CASE a = Start -> 0 [] a = 0 -> End [] OTHER -> Null]
  /\ size = [a \in Address |-> IF a = 0 THEN End ELSE 0]
  /\ free = {0} /\ used = {}
  /\ bytes = End /\ least = End
  /\ call = [c \in Caller |-> Idle]
  /\ halted = FALSE

-----------------------------------------------------------------------------
(* pvPortMalloc                                                            *)

Malloc(c, n) ==
  /\ Runs(c) /\ call[c].pc = "idle"
  /\ call' = [call EXCEPT ![c] = [Idle EXCEPT !.pc = "asked", !.asked = n]]
  /\ UNCHANGED <<next, size, free, used, bytes, least, halted>>

\* Mutant: the last byte is never given away.
ServableShort(n) == Wanted(n) > 0 /\ 2 * Wanted(n) < Word /\ Wanted(n) < bytes

\* vTaskSuspendAll, and the sizes that cannot be served
Servable(n) == Wanted(n) > 0 /\ 2 * Wanted(n) < Word /\ Wanted(n) <= bytes

Begin(c) ==
  /\ Runs(c) /\ call[c].pc = "asked"
  /\ call' = [call EXCEPT ![c].pc = IF Servable(call[c].asked) THEN "search" ELSE "failed"]
  /\ UNCHANGED <<next, size, free, used, bytes, least, halted>>

\* The search: at is pxPreviousBlock.
Candidate(c) == next[call[c].at]
TooSmall(c) == Candidate(c) # End /\ size[Candidate(c)] < Wanted(call[c].asked)

\* Mutant: the search does not go on.
SearchStays(c) ==
  /\ Runs(c) /\ call[c].pc = "search" /\ TooSmall(c)
  /\ UNCHANGED vars

Search(c) ==
  /\ Runs(c) /\ call[c].pc = "search" /\ TooSmall(c)
  /\ call' = [call EXCEPT ![c].at = Candidate(c)]
  /\ UNCHANGED <<next, size, free, used, bytes, least, halted>>

NotFound(c) ==
  /\ Runs(c) /\ call[c].pc = "search" /\ Candidate(c) = End
  /\ call' = [call EXCEPT ![c].pc = "failed"]
  /\ UNCHANGED <<next, size, free, used, bytes, least, halted>>

\* A rest is cut off if it is larger than the smallest block.
Cuts(b, w) == size[b] - w > 2 * Header

\* Mutant: the rest that is not cut off stays in the count.
GotWanted(b, w) == w + 0 * b

Got(b, w) == IF Cuts(b, w) THEN w ELSE size[b]

Take(c) ==
  LET prev == call[c].at
      b == Candidate(c)
      w == Wanted(call[c].asked)
      left == bytes - Got(b, w)
  IN  /\ Runs(c) /\ call[c].pc = "search" /\ b # End /\ ~TooSmall(c)
      /\ IF Cuts(b, w)
         THEN /\ next' = [next EXCEPT ![prev] = b + w, ![b + w] = next[b], ![b] = Null]
              /\ size' = [size EXCEPT ![b] = w, ![b + w] = size[b] - w]
              /\ free' = (free \ {b}) \cup {b + w}
         ELSE /\ next' = [next EXCEPT ![prev] = next[b], ![b] = Null]
              /\ free' = free \ {b}
              /\ UNCHANGED size
      /\ used' = used \cup {b}
      /\ bytes' = left
      /\ least' = IF left < least THEN left ELSE least
      /\ call' = [call EXCEPT ![c] = Idle]
      /\ UNCHANGED halted

\* vApplicationMallocFailedHook: interrupts off and round in a circle
Hook(c) ==
  /\ Runs(c) /\ call[c].pc = "failed"
  /\ halted' = TRUE
  /\ UNCHANGED <<next, size, free, used, bytes, least, call>>

-----------------------------------------------------------------------------
(* vPortFree                                                               *)

Free(c, b) ==
  /\ Runs(c) /\ call[c].pc = "idle" /\ b \in used
  /\ used' = used \ {b}
  /\ call' = [call EXCEPT ![c] = [Idle EXCEPT !.pc = "unmarked", !.block = b]]
  /\ UNCHANGED <<next, size, free, bytes, least, halted>>

Account(c) ==
  /\ Runs(c) /\ call[c].pc = "unmarked"
  /\ bytes' = bytes + size[call[c].block]
  /\ call' = [call EXCEPT ![c].pc = "insert"]
  /\ UNCHANGED <<next, size, free, used, least, halted>>

\* prvInsertBlockIntoFreeList: at is pxIterator
Walk(c) ==
  /\ Runs(c) /\ call[c].pc = "insert" /\ Candidate(c) < call[c].block
  /\ call' = [call EXCEPT ![c].at = Candidate(c)]
  /\ UNCHANGED <<next, size, free, used, bytes, least, halted>>

JoinsLeft(it, b) == it # Start /\ it + size[it] = b
\* Mutant: only the block below is joined.
JoinsRightNever(b, n) == FALSE /\ b = n

JoinsRight(b, n) == n # End /\ b + size[b] = n

Insert(c) ==
  LET it == call[c].at
      b == call[c].block
      n == next[it]
      left == JoinsLeft(it, b)
      right == JoinsRight(b, n)
      first == IF left THEN it ELSE b
      after == IF right THEN next[n] ELSE n
      gone == (IF left THEN {b} ELSE {}) \cup (IF right THEN {n} ELSE {})
      sum == (IF left THEN size[it] ELSE 0) + size[b] + (IF right THEN size[n] ELSE 0)
  IN  /\ Runs(c) /\ call[c].pc = "insert" /\ n >= b
      /\ next' = [a \in Address \cup {Start} |->
                    CASE a = first -> after
                      [] a = it /\ ~left -> b
                      [] a \in gone -> Null
                      [] OTHER -> next[a]]
      /\ size' = [a \in Address |->
                    CASE a = first -> sum [] a \in gone -> 0 [] OTHER -> size[a]]
      /\ free' = (free \cup {b}) \ gone
      /\ call' = [call EXCEPT ![c] = Idle]
      /\ UNCHANGED <<used, bytes, least, halted>>

-----------------------------------------------------------------------------
Proceed(c) ==
  \/ Begin(c) \/ Search(c) \/ NotFound(c) \/ Take(c) \/ Hook(c)
  \/ Account(c) \/ Walk(c) \/ Insert(c)

Next == \E c \in Caller :
  \/ \E n \in Requests : Malloc(c, n)
  \/ \E b \in used : Free(c, b)
  \/ Proceed(c)

\* A task inside an API function goes on when it is scheduled.
Spec == Init /\ [][Next]_vars /\ \A c \in Caller : WF_vars(Proceed(c))

=============================================================================
