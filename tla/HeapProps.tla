------------------------------ MODULE HeapProps ------------------------------
(* What the allocator keeps.                                               *)
EXTENDS Heap

Pending == {call[c].block : c \in {d \in Caller : call[d].pc \in {"unmarked", "insert"}}}
Blocks == free \cup used \cup Pending

(* The blocks - free, allocated, and on the way from one to the other -    *)
(* tile the heap without gap or overlap.                                   *)
Tiled ==
  /\ 0 \in Blocks
  /\ \A b \in Blocks :
       /\ size[b] > 0
       /\ b + size[b] \in Blocks \cup {End}
       /\ \A a \in Blocks : a < b => a + size[a] <= b

(* The free list runs through all free blocks in the order of their        *)
(* addresses and ends.                                                     *)
Listed == \A b \in free \cup {Start} :
  /\ next[b] \in free \cup {End} /\ b < next[b]
  /\ \A a \in free : ~(b < a /\ a < next[b])

(* No two free blocks touch.                                               *)
Joined == \A b \in free : b + size[b] \notin free

(* However often memory is cut and given back, the blocks tile the heap,   *)
(* the list holds the free ones in order, and they grow together again.    *)
Tidy == Tiled /\ Listed /\ Joined

(* The number of free bytes that pvPortMalloc trusts is what the list      *)
(* holds, its low mark is below it, and every block is aligned.            *)
Room(S) == [a \in Address |-> IF a \in S THEN size[a] ELSE 0]
Total(room) ==
  LET sum[a \in 0..End] == IF a = 0 THEN 0 ELSE sum[a - 1] + room[a - 1]
  IN  sum[End]

Arriving == {call[c].block : c \in {d \in Caller : call[d].pc = "insert"}}
Aligned == \A b \in Blocks : b % Align = 0 /\ size[b] % Align = 0
Counted ==
  /\ bytes = Total(Room(free)) + Total(Room(Arriving))
  /\ least <= bytes
  /\ Aligned

(* The allocator keeps HeapContract: areas given away never overlap and    *)
(* are long enough, and a request is refused only if no stretch of memory  *)
(* that is not given away could take it.                                   *)
Asks(c) ==
  CASE call[c].pc \in {"asked", "search"} -> call[c].asked
    [] call[c].pc = "failed" -> -2
    [] OTHER -> -1
Contract == INSTANCE HeapContract WITH
  Limit <- End, Need <- [n \in Requests |-> IF 2 * Wanted(n) < Word THEN Wanted(n) ELSE 0],
  areas <- {[from |-> b, len |-> size[b]] : b \in used \cup Pending},
  asks <- [c \in Caller |-> Asks(c)]
KeepsHeapContract == Contract!ContractSpec

(* The scheduler is not left suspended: every search and every insertion   *)
(* comes to its end, so the list has no circle.                            *)
SearchEnds == \A c \in Caller : Inside(c) ~> ~Inside(c)

=============================================================================
