------------------------------ MODULE HeapProofs ------------------------------
(* The blocks stay tidy, for heaps of every size and any number of tasks.  *)
EXTENDS HeapProps, WellFoundedInduction, TLAPS

PC == {"idle", "asked", "search", "failed", "unmarked", "insert"}
Place == Address \cup {Start}
Waiting(c) == call[c].pc \in {"unmarked", "insert"}

HeapTypes ==
  /\ next \in [Place -> Int] /\ size \in [Address -> Int]
  /\ free \subseteq Address /\ used \subseteq Address
  /\ call \in [Caller -> [pc : PC, asked : Int, at : Place, block : Address \cup {Null}]]

(* A block is free, used, or in the hands of one caller that frees it.     *)
Owned ==
  /\ free \cap used = {}
  /\ \A c \in Caller : Waiting(c) => call[c].block \in Address \ (free \cup used)
  /\ \A c, d \in Caller : Waiting(c) /\ Waiting(d) /\ call[c].block = call[d].block => c = d

(* Who walks along the list stands in it, before the place he looks for;   *)
(* the others are kept out.                                                *)
Walking ==
  /\ \A c, d \in Caller : Inside(c) /\ Inside(d) => c = d
  /\ \A c \in Caller :
       /\ Inside(c) => call[c].at \in free \cup {Start}
       /\ call[c].pc = "search" => Wanted(call[c].asked) > 0
       /\ call[c].pc = "insert" => call[c].at < call[c].block
       /\ call[c].pc \in {"asked", "unmarked"} => call[c].at = Start

IInv == HeapTypes /\ Owned /\ Walking /\ Tidy

-----------------------------------------------------------------------------
(* The three parts of Tidy, for any set of blocks and any list.            *)

Tiles(B, sz) ==
  /\ 0 \in B
  /\ \A b \in B :
       /\ sz[b] > 0
       /\ b + sz[b] \in B \cup {End}
       /\ \A a \in B : a < b => a + sz[a] <= b

Links(F, nx) == \A b \in F \cup {Start} :
  /\ nx[b] \in F \cup {End} /\ b < nx[b]
  /\ \A a \in F : ~(b < a /\ a < nx[b])

Apart(F, sz) == \A b \in F : b + sz[b] \notin F

LEMMA TidyParts == Tidy <=> Tiles(Blocks, size) /\ Links(free, next) /\ Apart(free, size)
  BY DEF Tidy, Tiled, Listed, Joined, Tiles, Links, Apart

(* The addresses, as the proofs need them.                                 *)
LEMMA Layout ==
  /\ Start \in Int /\ Start < 0 /\ Header \in Int /\ Header > 0
  /\ End \in Int /\ End > 0 /\ End \notin Address /\ Null \notin Address
  /\ 0 \in Address /\ Address \subseteq Int /\ Start \notin Address
  /\ \A a \in Address : 0 <= a /\ a < End
  /\ Place = Address \cup {Start} /\ Place \subseteq Int
  BY HeapAssumption DEF Start, Address, Null, Place

(* A block cut in two leaves the heap tiled.                               *)
LEMMA CutTiles ==
  ASSUME NEW B \in SUBSET Address, NEW sz \in [Address -> Int], NEW sz2 \in [Address -> Int],
         NEW b \in B, NEW w \in Int, 0 < w, w < sz[b], Tiles(B, sz),
         sz2[b] = w, sz2[b + w] = sz[b] - w,
         \A x \in B \ {b} : sz2[x] = sz[x]
  PROVE  Tiles(B \cup {b + w}, sz2) /\ b + w \in Address \ B
<1>1. b + w \in Address
  <2>1. b + sz[b] <= End /\ b >= 0 /\ b \in Int /\ sz[b] \in Int
    BY Layout DEF Tiles
  <2>2. QED BY <2>1, Layout DEF Address
<1>2. b + w \notin B
  BY Layout DEF Tiles
<1>3. ASSUME NEW x \in B \cup {b + w}
      PROVE  sz2[x] > 0 /\ x + sz2[x] \in B \cup {b + w, End}
  BY <1>1, <1>2, Layout DEF Tiles
<1>4. ASSUME NEW x \in B \cup {b + w}, NEW y \in B \cup {b + w}, y < x
      PROVE  y + sz2[y] <= x
  <2>1. CASE x = b + w /\ y \in B
    BY <2>1, <1>2, <1>4, Layout DEF Tiles
  <2>2. CASE x \in B /\ y = b + w
    BY <2>2, <1>2, <1>4, Layout DEF Tiles
  <2>3. CASE x \in B /\ y \in B
    BY <2>3, <1>4, Layout DEF Tiles
  <2>4. QED BY <1>4, <1>1, <2>1, <2>2, <2>3, Layout
<1>5. QED BY <1>1, <1>2, <1>3, <1>4 DEF Tiles

(* Two blocks that touch, made one, leave the heap tiled.                  *)
LEMMA JoinTiles ==
  ASSUME NEW B \in SUBSET Address, NEW sz \in [Address -> Int], NEW sz2 \in [Address -> Int],
         NEW a \in B, NEW b \in B, a + sz[a] = b, Tiles(B, sz),
         sz2[a] = sz[a] + sz[b],
         \A x \in B \ {a, b} : sz2[x] = sz[x]
  PROVE  Tiles(B \ {b}, sz2)
<1>0. a < b /\ 0 # b
  BY Layout DEF Tiles
<1>1. 0 \in B \ {b}
  BY <1>0 DEF Tiles
<1>2. ASSUME NEW x \in B \ {b}
      PROVE  sz2[x] > 0 /\ x + sz2[x] \in (B \ {b}) \cup {End}
  <2>1. CASE x = a
    <3>1. x + sz2[x] = b + sz[b] /\ sz[a] > 0 /\ sz[b] > 0
      BY <2>1, <1>0, Layout DEF Tiles
    <3>2. b + sz[b] \in B \cup {End} /\ b + sz[b] # b
      BY <3>1, Layout DEF Tiles
    <3>3. QED BY <2>1, <3>1, <3>2, Layout
  <2>2. CASE x # a
    <3>1. sz2[x] = sz[x] /\ sz[x] > 0 /\ x + sz[x] \in B \cup {End}
      BY <2>2 DEF Tiles
    <3>2. x + sz[x] # b
      BY <2>2, <1>0, Layout DEF Tiles
    <3>3. QED BY <3>1, <3>2
  <2>3. QED BY <2>1, <2>2
<1>3. ASSUME NEW x \in B \ {b}, NEW y \in B \ {b}, y < x
      PROVE  y + sz2[y] <= x
  <2>1. CASE y = a
    BY <2>1, <1>0, <1>3, Layout DEF Tiles
  <2>2. CASE y # a
    BY <2>2, <1>3, Layout DEF Tiles
  <2>3. QED BY <2>1, <2>2
<1>4. QED BY <1>1, <1>2, <1>3 DEF Tiles

-----------------------------------------------------------------------------
(* What a step does to the list.                                           *)

(* One free block has one predecessor.                                     *)
LEMMA OnePredecessor ==
  ASSUME NEW F \in SUBSET Address, NEW nx \in [Place -> Int], Links(F, nx),
         NEW p \in F \cup {Start}, NEW x \in F \cup {Start}, nx[p] = nx[x]
  PROVE  p = x
  BY Layout DEF Links

(* A block m takes the place of b in the list.                             *)
LEMMA ReplaceLinks ==
  ASSUME NEW F \in SUBSET Address, NEW nx \in [Place -> Int], NEW nx2 \in [Place -> Int],
         Links(F, nx), NEW p \in F \cup {Start}, NEW b \in F, nx[p] = b,
         NEW m \in Address \ F, p < m, m < nx[b],
         nx2[p] = m, nx2[m] = nx[b],
         \A x \in (F \cup {Start}) \ {p, b} : nx2[x] = nx[x]
  PROVE  Links((F \ {b}) \cup {m}, nx2)
<1>0. \A x \in F \cup {Start} : x \in Int /\ nx[x] \in Int
  BY Layout
<1>1. p < b /\ b < nx[b] /\ nx[b] \in F \cup {End} /\ nx[b] # b
  BY <1>0, Layout DEF Links
<1>2. ASSUME NEW x \in ((F \ {b}) \cup {m}) \cup {Start}
      PROVE  nx2[x] \in ((F \ {b}) \cup {m}) \cup {End} /\ x < nx2[x]
  <2>1. CASE x = p
    BY <2>1
  <2>2. CASE x = m
    BY <2>2, <1>1
  <2>3. CASE x # p /\ x # m
    <3>1. nx2[x] = nx[x] /\ nx[x] \in F \cup {End} /\ x < nx[x]
      BY <2>3, Layout DEF Links
    <3>2. nx[x] # b
      BY <2>3, Layout, OnePredecessor
    <3>3. QED BY <3>1, <3>2
  <2>4. QED BY <2>1, <2>2, <2>3
<1>3. ASSUME NEW x \in ((F \ {b}) \cup {m}) \cup {Start}, NEW a \in (F \ {b}) \cup {m}
      PROVE  ~(x < a /\ a < nx2[x])
  <2>1. CASE x = p
    BY <2>1, <1>1, <1>0, Layout DEF Links
  <2>2. CASE x = m
    BY <2>2, <1>1, <1>0, Layout DEF Links
  <2>3. CASE x # p /\ x # m
    <3>1. nx2[x] = nx[x] /\ x \in F \cup {Start}
      BY <2>3, Layout
    <3>2. CASE a = m
      <4>1. nx[x] <= p \/ x >= b
        BY <2>3, <3>1, <1>1, <1>0, Layout DEF Links
      <4>2. nx[x] <= p \/ x >= nx[b]
        BY <4>1, <2>3, <1>1, <3>1, <1>0, Layout DEF Links
      <4>3. QED BY <4>2, <3>1, <3>2, <1>0, Layout DEF Links
    <3>3. CASE a # m
      BY <3>1, <3>3 DEF Links
    <3>4. QED BY <3>2, <3>3
  <2>4. QED BY <2>1, <2>2, <2>3
<1>4. QED BY <1>2, <1>3 DEF Links

(* The block after p leaves the list.                                      *)
LEMMA DropLinks ==
  ASSUME NEW F \in SUBSET Address, NEW nx \in [Place -> Int], NEW nx2 \in [Place -> Int],
         Links(F, nx), NEW p \in F \cup {Start}, NEW b \in F, nx[p] = b,
         nx2[p] = nx[b],
         \A x \in (F \cup {Start}) \ {p, b} : nx2[x] = nx[x]
  PROVE  Links(F \ {b}, nx2)
<1>0. \A x \in F \cup {Start} : x \in Int /\ nx[x] \in Int
  BY Layout
<1>1. p < b /\ b < nx[b] /\ nx[b] \in F \cup {End} /\ nx[b] # b
  BY <1>0, Layout DEF Links
<1>2. ASSUME NEW x \in (F \ {b}) \cup {Start}
      PROVE  nx2[x] \in (F \ {b}) \cup {End} /\ x < nx2[x]
  <2>1. CASE x = p
    BY <2>1, <1>1, <1>0, Layout DEF Links
  <2>2. CASE x # p
    <3>1. nx2[x] = nx[x] /\ nx[x] \in F \cup {End} /\ x < nx[x]
      BY <2>2, <1>0, Layout DEF Links
    <3>2. nx[x] # b
      BY <2>2, OnePredecessor
    <3>3. QED BY <3>1, <3>2
  <2>3. QED BY <2>1, <2>2
<1>3. ASSUME NEW x \in (F \ {b}) \cup {Start}, NEW a \in F \ {b}
      PROVE  ~(x < a /\ a < nx2[x])
  <2>1. CASE x = p
    BY <2>1, <1>1, <1>0, Layout DEF Links
  <2>2. CASE x # p
    BY <2>2, <1>0, Layout DEF Links
  <2>3. QED BY <2>1, <2>2
<1>4. QED BY <1>2, <1>3 DEF Links

(* A block comes in between p and the one after it.                        *)
LEMMA AddLinks ==
  ASSUME NEW F \in SUBSET Address, NEW nx \in [Place -> Int], NEW nx2 \in [Place -> Int],
         Links(F, nx), NEW p \in F \cup {Start},
         NEW m \in Address \ F, p < m, m < nx[p],
         nx2[p] = m, nx2[m] = nx[p],
         \A x \in (F \cup {Start}) \ {p} : nx2[x] = nx[x]
  PROVE  Links(F \cup {m}, nx2)
<1>0. \A x \in F \cup {Start} : x \in Int /\ nx[x] \in Int
  BY Layout
<1>1. ASSUME NEW x \in F \cup {m, Start}
      PROVE  nx2[x] \in F \cup {m, End} /\ x < nx2[x]
  BY <1>0, Layout DEF Links
<1>2. ASSUME NEW x \in F \cup {m, Start}, NEW a \in F \cup {m}
      PROVE  ~(x < a /\ a < nx2[x])
  <2>1. CASE x = p \/ x = m
    BY <2>1, <1>0, Layout DEF Links
  <2>2. CASE x # p /\ x # m /\ a = m
    <3>1. nx[x] <= p \/ x >= nx[p]
      BY <2>2, <1>0, Layout DEF Links
    <3>2. QED BY <2>2, <3>1, <1>0, Layout DEF Links
  <2>3. CASE x # p /\ x # m /\ a # m
    BY <2>3 DEF Links
  <2>4. QED BY <2>1, <2>2, <2>3
<1>3. QED BY <1>1, <1>2 DEF Links

-----------------------------------------------------------------------------
(* The steps.                                                              *)

LEMMA WantedIsInt == \A n \in Int : Wanted(n) \in Int
  BY HeapAssumption DEF Wanted

LEMMA InitInv == Init => IInv
<1> SUFFICES ASSUME Init PROVE IInv
  OBVIOUS
<1>1. HeapTypes
  <2>1. next \in [Place -> Int] /\ size \in [Address -> Int]
    BY Layout DEF Init, Place, Null
  <2>2. call \in [Caller -> [pc : PC, asked : Int, at : Place, block : Address \cup {Null}]]
    BY DEF Init, Place, PC, Idle
  <2>3. QED BY <2>1, <2>2, Layout DEF Init, HeapTypes
<1>2. Pending = {} /\ Blocks = {0}
  BY DEF Init, Idle, Pending, Blocks
<1>3. Owned /\ Walking
  BY DEF Init, Owned, Walking, Waiting, Inside, Idle
<1>4. Tidy
  BY <1>2, Layout DEF Init, Tidy, Tiled, Listed, Joined
<1>5. QED BY <1>1, <1>3, <1>4 DEF IInv

(* Steps that move a caller and leave the blocks alone.                    *)
LEMMA BlocksUnchanged ==
  ASSUME IInv, UNCHANGED <<next, size, free, used>>, Pending' = Pending
  PROVE  Tidy'
  BY DEF IInv, Tidy, Tiled, Listed, Joined, Blocks

LEMMA StayTidy ==
  ASSUME IInv, UNCHANGED <<next, size, free>>, Blocks' = Blocks
  PROVE  Tidy'
  BY DEF IInv, Tidy, Tiled, Listed, Joined

LEMMA MallocInv ==
  ASSUME IInv, NEW c \in Caller, NEW n \in Requests, Malloc(c, n)
  PROVE  IInv'
<1> USE DEF Malloc, Idle
<1>1. HeapTypes'
  <2>1. n \in Int
    BY HeapAssumption
  <2>2. QED BY <2>1 DEF IInv, HeapTypes, PC, Place
<1>2. Pending' = Pending
  BY DEF IInv, HeapTypes, Pending
<1>3. Owned' /\ Walking'
  BY DEF IInv, HeapTypes, Owned, Walking, Waiting, Inside
<1>4. QED BY <1>1, <1>2, <1>3, BlocksUnchanged DEF IInv

LEMMA BeginInv ==
  ASSUME IInv, NEW c \in Caller, Begin(c)
  PROVE  IInv'
<1> USE DEF Begin
<1>1. HeapTypes'
  BY DEF IInv, HeapTypes, PC
<1>2. Pending' = Pending
  BY DEF IInv, HeapTypes, Pending
<1>3. Owned'
  BY DEF IInv, HeapTypes, Owned, Waiting
<1>4. Walking'
  BY DEF IInv, HeapTypes, Walking, Inside, Runs, Servable
<1>5. QED BY <1>1, <1>2, <1>3, <1>4, BlocksUnchanged DEF IInv

LEMMA SearchInv ==
  ASSUME IInv, NEW c \in Caller, Search(c)
  PROVE  IInv'
<1> USE DEF Search, Candidate
<1>1. next[call[c].at] \in free
  BY Layout DEF IInv, Tidy, Listed, Walking, Inside, TooSmall
<1>2. HeapTypes'
  BY <1>1 DEF IInv, HeapTypes, Place
<1>3. Pending' = Pending
  BY DEF IInv, HeapTypes, Pending
<1>4. Owned'
  BY DEF IInv, HeapTypes, Owned, Waiting
<1>5. Walking'
  BY <1>1 DEF IInv, HeapTypes, Walking, Inside
<1>6. QED BY <1>2, <1>3, <1>4, <1>5, BlocksUnchanged DEF IInv

LEMMA WalkInv ==
  ASSUME IInv, NEW c \in Caller, Walk(c)
  PROVE  IInv'
<1> USE DEF Walk, Candidate
<1>1. next[call[c].at] \in free
  BY Layout DEF IInv, Tidy, Listed, Walking, Inside, HeapTypes, Owned, Waiting
<1>2. HeapTypes'
  BY <1>1 DEF IInv, HeapTypes, Place
<1>3. Pending' = Pending
  BY DEF IInv, HeapTypes, Pending
<1>4. Owned'
  BY DEF IInv, HeapTypes, Owned, Waiting
<1>5. Walking'
  BY <1>1 DEF IInv, HeapTypes, Walking, Inside
<1>6. QED BY <1>2, <1>3, <1>4, <1>5, BlocksUnchanged DEF IInv

LEMMA RefusalInv ==
  ASSUME IInv, NEW c \in Caller, NotFound(c) \/ Hook(c)
  PROVE  IInv'
<1> USE DEF NotFound, Hook
<1>1. HeapTypes'
  BY DEF IInv, HeapTypes, PC
<1>2. Pending' = Pending
  BY DEF IInv, HeapTypes, Pending
<1>3. Owned'
  BY DEF IInv, HeapTypes, Owned, Waiting
<1>4. Walking'
  BY DEF IInv, HeapTypes, Walking, Inside
<1>5. QED BY <1>1, <1>2, <1>3, <1>4, BlocksUnchanged DEF IInv

LEMMA FreeInv ==
  ASSUME IInv, NEW c \in Caller, NEW b \in used, Free(c, b)
  PROVE  IInv'
<1> USE DEF Free, Idle
<1>1. HeapTypes'
  BY Layout DEF IInv, HeapTypes, PC, Place
<1>2. Pending' = Pending \cup {b}
  BY DEF IInv, HeapTypes, Pending
<1>3. Blocks' = Blocks
  BY <1>2 DEF Blocks
<1>4. Owned'
  BY DEF IInv, HeapTypes, Owned, Waiting
<1>5. Walking'
  BY DEF IInv, HeapTypes, Walking, Inside
<1>6. QED BY <1>1, <1>3, <1>4, <1>5, StayTidy DEF IInv

LEMMA AccountInv ==
  ASSUME IInv, NEW c \in Caller, Account(c)
  PROVE  IInv'
<1> USE DEF Account
<1>1. HeapTypes'
  BY DEF IInv, HeapTypes, PC
<1>2. Pending' = Pending
  BY DEF IInv, HeapTypes, Pending
<1>3. Owned'
  BY DEF IInv, HeapTypes, Owned, Waiting
<1>4. Walking'
  BY Layout DEF IInv, HeapTypes, Owned, Waiting, Walking, Inside, Runs
<1>5. QED BY <1>1, <1>2, <1>3, <1>4, BlocksUnchanged DEF IInv

(* malloc takes the block it has found, whole or cut.                      *)
LEMMA TakeInv ==
  ASSUME IInv, NEW c \in Caller, Take(c)
  PROVE  IInv'
<1> DEFINE p == call[c].at
           b == next[p]
           w == Wanted(call[c].asked)
<1>1. /\ call[c].pc = "search" /\ p \in free \cup {Start} /\ b \in free
      /\ w \in Int /\ w > 0 /\ size[b] \in Int /\ w <= size[b] /\ size[b] > 0
      /\ b \in Address /\ b \notin used
  <2>1. call[c].pc = "search" /\ p \in free \cup {Start} /\ b # End /\ ~(size[b] < w)
    BY DEF Take, Candidate, TooSmall, IInv, Walking, Inside
  <2>2. b \in free /\ b \in Address /\ b \notin used
    BY <2>1 DEF IInv, Tidy, Listed, HeapTypes, Owned
  <2>3. w \in Int /\ w > 0
    BY <2>1, WantedIsInt DEF IInv, Walking, HeapTypes
  <2>4. size[b] \in Int
    BY <2>2 DEF IInv, HeapTypes
  <2>5. QED BY <2>1, <2>2, <2>3, <2>4
<1>2. /\ call' = [call EXCEPT ![c] = Idle] /\ used' = used \cup {b}
  BY DEF Take, Candidate
<1>3. Pending' = Pending /\ b \notin Pending
  BY <1>1, <1>2 DEF IInv, HeapTypes, Pending, Idle, Owned, Waiting
<1>4. call' \in [Caller -> [pc : PC, asked : Int, at : Place, block : Address \cup {Null}]]
  BY <1>2 DEF IInv, HeapTypes, Idle, PC, Place
<1>5. Walking'
  BY <1>1, <1>2 DEF IInv, HeapTypes, Walking, Inside, Idle, Take, Runs
<1>6. Pending \subseteq Address /\ Blocks \subseteq Address
  BY DEF IInv, HeapTypes, Pending, Blocks, Owned, Waiting
<1>7. /\ next \in [Place -> Int] /\ size \in [Address -> Int]
      /\ free \subseteq Address /\ used \subseteq Address
      /\ Tiles(Blocks, size) /\ Links(free, next) /\ Apart(free, size)
  BY TidyParts DEF IInv, HeapTypes
<1>8. /\ next[p] = b /\ p \in Place /\ b \in Place /\ p \in Int /\ b \in Int /\ b \in Blocks
      /\ next[b] \in Int /\ p < b
  BY <1>1, <1>7, Layout DEF Links, Blocks
<1>9. IF Cuts(b, w)
      THEN /\ next' = [next EXCEPT ![p] = b + w, ![b + w] = next[b], ![b] = Null]
           /\ size' = [size EXCEPT ![b] = w, ![b + w] = size[b] - w]
           /\ free' = (free \ {b}) \cup {b + w}
      ELSE /\ next' = [next EXCEPT ![p] = next[b], ![b] = Null]
           /\ free' = free \ {b} /\ size' = size
  BY DEF Take, Candidate
<1>10. Owned' <=> /\ free' \cap used' = {}
                  /\ \A d \in Caller : Waiting(d) => call[d].block \in Address \ (free' \cup used')
  BY <1>1, <1>2 DEF IInv, HeapTypes, Owned, Waiting, Idle
<1>11. \A d \in Caller : Waiting(d) => call[d].block \in Pending
  BY DEF Waiting, Pending
<1> HIDE DEF p, b, w
<1>12. CASE Cuts(b, w)
  <2> DEFINE r == b + w
  <2>1. /\ next' = [next EXCEPT ![p] = r, ![r] = next[b], ![b] = Null]
        /\ size' = [size EXCEPT ![b] = w, ![r] = size[b] - w]
        /\ free' = (free \ {b}) \cup {r}
    BY <1>9, <1>12
  <2>2. 0 < w /\ w < size[b] /\ r \in Int /\ r > b /\ r < b + size[b]
    BY <1>1, <1>8, <1>12, Layout DEF Cuts
  <2>3. b + size[b] \in Blocks \cup {End} /\ b + size[b] <= End
    BY <1>6, <1>7, <1>8, Layout DEF Tiles
  <2>4. r \in Address
    BY <1>1, <1>8, <2>2, <2>3, Layout DEF Address
  <2>5. r \notin Blocks
    BY <1>1, <1>6, <1>7, <1>8, <2>2, Layout DEF Tiles
  <2>6. r \in Place /\ r # p /\ r # b /\ r \notin free /\ r \notin used /\ r \notin Pending
    BY <1>1, <1>8, <2>2, <2>4, <2>5, Layout DEF Blocks
  <2>7. next' \in [Place -> Int] /\ size' \in [Address -> Int]
    BY <1>1, <1>7, <1>8, <2>1, <2>2, <2>4, <2>6, Layout DEF Null
  <2>8. HeapTypes'
    BY <1>1, <1>2, <1>4, <1>7, <2>1, <2>4, <2>7 DEF HeapTypes
  <2>9. size'[b] = w /\ size'[r] = size[b] - w /\ \A x \in Blocks \ {b} : size'[x] = size[x]
    BY <1>1, <1>6, <1>7, <2>1, <2>4, <2>5, <2>6
  <2>10. Blocks' = Blocks \cup {r}
    BY <1>1, <1>2, <1>3, <2>1 DEF Blocks
  <2> HIDE DEF r
  <2>11. Tiles(Blocks', size')
    <3>1. r = b + w
      BY DEF r
    <3>2. QED BY <1>1, <1>6, <1>7, <1>8, <2>2, <2>7, <2>9, <2>10, <3>1, CutTiles
  <2>12. Links(free', next')
    <3>1. b < next[b] /\ next[b] \in Blocks \cup {End}
      BY <1>1, <1>7 DEF Links, Blocks
    <3>2. b + size[b] <= next[b]
      BY <1>1, <1>7, <1>8, <2>3, <3>1 DEF Tiles
    <3>3. r < next[b] /\ p < r
      BY <1>1, <1>8, <2>2, <3>2
    <3>4. next'[p] = r /\ next'[r] = next[b]
      BY <1>7, <1>8, <2>1, <2>6
    <3>5. ASSUME NEW x \in (free \cup {Start}) \ {p, b} PROVE next'[x] = next[x]
      <4>1. x \in Place /\ x # r /\ x # p /\ x # b
        BY <1>7, <1>8, <2>4, <2>6, Layout
      <4>2. QED BY <4>1, <1>7, <1>8, <2>1, <2>6
    <3>6. r \in Address \ free /\ free \in SUBSET Address
      BY <1>7, <2>4, <2>6
    <3>7. Links((free \ {b}) \cup {r}, next')
      BY <1>1, <1>7, <1>8, <2>7, <3>3, <3>4, <3>5, <3>6, ReplaceLinks
    <3>8. QED BY <3>7, <2>1
  <2>13. Apart(free', size')
    <3>1. ASSUME NEW x \in free' PROVE x + size'[x] \notin free'
      <4>1. CASE x = r
        <5>1. x + size'[x] = b + size[b] /\ b + size[b] # r
          BY <4>1, <1>1, <1>8, <2>2, <2>9 DEF r
        <5>2. QED BY <5>1, <1>1, <1>7, <2>1 DEF Apart
      <4>2. CASE x # r
        <5>1. x \in free /\ x # b /\ size'[x] = size[x] /\ x \in Blocks
          BY <4>2, <2>1, <2>9 DEF Blocks
        <5>2. x \in Int /\ size[x] \in Int
          BY <5>1, <1>7, Layout
        <5>3. x + size[x] # r
          <6>1. CASE x < b
            BY <6>1, <5>1, <5>2, <1>7, <1>8, <2>2 DEF Tiles
          <6>2. CASE b < x
            BY <6>2, <5>1, <5>2, <1>1, <1>7, <1>8, <2>2 DEF Tiles
          <6>3. QED BY <6>1, <6>2, <5>1, <5>2, <1>8
        <5>4. QED BY <5>1, <5>3, <1>7, <2>1 DEF Apart
      <4>3. QED BY <4>1, <4>2
    <3>2. QED BY <3>1 DEF Apart
  <2>14. Tidy'
    BY <2>11, <2>12, <2>13 DEF Tidy, Tiled, Listed, Joined, Tiles, Links, Apart
  <2>15. Owned'
    BY <1>1, <1>2, <1>3, <1>7, <1>10, <1>11, <2>1, <2>6 DEF IInv, Owned
  <2>16. QED BY <1>5, <2>8, <2>14, <2>15 DEF IInv
<1>13. CASE ~Cuts(b, w)
  <2>1. next' = [next EXCEPT ![p] = next[b], ![b] = Null] /\ size' = size /\ free' = free \ {b}
    BY <1>9, <1>13
  <2>2. next' \in [Place -> Int] /\ size' \in [Address -> Int]
    BY <1>1, <1>7, <1>8, <2>1, Layout DEF Null
  <2>3. HeapTypes'
    BY <1>1, <1>2, <1>4, <1>7, <2>1, <2>2 DEF HeapTypes
  <2>4. Blocks' = Blocks
    BY <1>1, <1>2, <1>3, <2>1 DEF Blocks
  <2>5. Links(free', next')
    <3>1. next'[p] = next[b]
      BY <1>7, <1>8, <2>1
    <3>2. ASSUME NEW x \in (free \cup {Start}) \ {p, b} PROVE next'[x] = next[x]
      <4>1. x \in Place /\ x # p /\ x # b
        BY <1>7, Layout
      <4>2. QED BY <4>1, <1>7, <1>8, <2>1
    <3>3. Links(free \ {b}, next')
      BY <1>1, <1>7, <1>8, <2>2, <3>1, <3>2, DropLinks
    <3>4. QED BY <3>3, <2>1
  <2>6. Apart(free', size')
    BY <1>7, <2>1 DEF Apart
  <2>7. Tidy'
    BY <1>7, <2>1, <2>4, <2>5, <2>6 DEF Tidy, Tiled, Listed, Joined, Tiles, Links, Apart
  <2>8. Owned'
    BY <1>1, <1>2, <1>3, <1>7, <1>10, <1>11, <2>1 DEF IInv, Owned
  <2>9. QED BY <1>5, <2>3, <2>7, <2>8 DEF IInv
<1>14. QED BY <1>12, <1>13

(* free puts the block in its place and joins it with its neighbours.      *)
LEMMA InsertInv ==
  ASSUME IInv, NEW c \in Caller, Insert(c)
  PROVE  IInv'
<1> DEFINE p == call[c].at
           b == call[c].block
           n == next[p]
           L == p # Start /\ p + size[p] = b
           R == n # End /\ b + size[b] = n
           gone == (IF L THEN {b} ELSE {}) \cup (IF R THEN {n} ELSE {})
           first == IF L THEN p ELSE b
           sum == (IF L THEN size[p] ELSE 0) + size[b] + (IF R THEN size[n] ELSE 0)
<1>1. /\ call[c].pc = "insert" /\ p \in free \cup {Start} /\ p < b
      /\ b \in Address /\ b \notin free /\ b \notin used /\ b \in Pending
  BY DEF Insert, IInv, Walking, Inside, Owned, Waiting, Pending
<1>2. /\ next \in [Place -> Int] /\ size \in [Address -> Int]
      /\ free \subseteq Address /\ used \subseteq Address
      /\ Tiles(Blocks, size) /\ Links(free, next) /\ Apart(free, size)
  BY TidyParts DEF IInv, HeapTypes
<1>3. /\ Pending \subseteq Address /\ Blocks \subseteq Address
      /\ Pending \cap (free \cup used) = {} /\ free \cap used = {}
  BY DEF IInv, HeapTypes, Pending, Blocks, Owned, Waiting
<1>4. /\ n \in free \cup {End} /\ n > b /\ n \in Int /\ p \in Int /\ b \in Int
      /\ p \in Place /\ b \in Place /\ b # Start /\ n # Start /\ b \in Blocks
      /\ n # End => n \in free /\ n \in Blocks /\ n \in Place /\ next[n] \in Int
  <2>1. n \in free \cup {End} /\ n >= b
    BY <1>1, <1>2 DEF Insert, Links
  <2>2. n \in Int /\ p \in Int /\ b \in Int /\ p \in Place /\ b \in Place /\ b # Start /\ n # Start
    <3>1. p \in Place /\ p \in Int
      BY <1>1, <1>2, Layout
    <3>2. b \in Place /\ b \in Int /\ b # Start
      BY <1>1, Layout
    <3>3. n \in Int /\ n # Start
      <4>1. CASE n = End
        BY <4>1, Layout
      <4>2. CASE n \in free
        BY <4>2, <1>2, Layout
      <4>3. QED BY <2>1, <4>1, <4>2
    <3>4. QED BY <3>1, <3>2, <3>3
  <2>3. n # b
    BY <2>1, <1>1, Layout
  <2>4. n # End => n \in free /\ n \in Blocks /\ n \in Place /\ next[n] \in Int
    BY <2>1, <1>2, Layout DEF Blocks
  <2>5. b \in Blocks
    BY <1>1 DEF Blocks
  <2>6. QED BY <2>1, <2>2, <2>3, <2>4, <2>5
<1>5. /\ call' = [call EXCEPT ![c] = Idle] /\ used' = used
      /\ free' = (free \cup {b}) \ gone
      /\ next' = [a \in Place |->
                    CASE a = first -> (IF R THEN next[n] ELSE n)
                      [] a = p /\ ~L -> b
                      [] a \in gone -> Null
                      [] OTHER -> next[a]]
      /\ size' = [a \in Address |->
                    CASE a = first -> sum
                      [] a \in gone -> 0
                      [] OTHER -> size[a]]
  BY DEF Insert, JoinsLeft, JoinsRight, Place
<1> HIDE DEF sum
<1>total. ASSUME first \in Address PROVE size'[first] = sum
  <2>1. size' = [a \in Address |->
                  CASE a = first -> sum [] a \in gone -> 0 [] OTHER -> size[a]]
    BY <1>5
  <2>2. first \notin gone
    BY <1>1, <1>4
  <2> HIDE DEF first, gone
  <2>3. QED BY <1>total, <2>1, <2>2
<1>6. Pending' = Pending \ {b}
  BY <1>1, <1>5 DEF IInv, HeapTypes, Pending, Idle, Owned, Waiting
<1>7. call' \in [Caller -> [pc : PC, asked : Int, at : Place, block : Address \cup {Null}]]
  BY <1>5 DEF IInv, HeapTypes, Idle, PC, Place
<1>8. Walking'
  BY <1>1, <1>5 DEF IInv, HeapTypes, Walking, Inside, Idle, Insert, Runs
<1>9. Owned'
  <2>1. \A d \in Caller : Waiting(d)' => Waiting(d) /\ d # c /\ call'[d] = call[d]
    BY <1>5 DEF IInv, HeapTypes, Waiting, Idle
  <2>2. \A d \in Caller : d # c /\ Waiting(d) => call[d].block # b
    BY <1>1 DEF IInv, Owned, Waiting
  <2>3. free' \subseteq free \cup {b} /\ used' = used
    BY <1>5
  <2>4. QED BY <2>1, <2>2, <2>3, <1>1 DEF IInv, Owned
<1> HIDE DEF p, b, n, gone
<1>10. (L => p \in free /\ p \in Blocks /\ size[p] \in Int) /\ size[b] \in Int
       /\ (R => n \in free /\ size[n] \in Int)
  BY <1>1, <1>2, <1>4 DEF Blocks
<1>11. next' \in [Place -> Int] /\ size' \in [Address -> Int]
  <2>1. (IF R THEN next[n] ELSE n) \in Int
    BY <1>4
  <2>2. sum \in Int
    BY <1>10 DEF sum
  <2>3. next' \in [Place -> Int]
    BY <1>2, <1>4, <1>5, <2>1, Layout DEF Null
  <2>4. size' \in [Address -> Int]
    BY <1>2, <1>5, <2>2
  <2>5. QED BY <2>3, <2>4
<1>12. HeapTypes'
  BY <1>1, <1>2, <1>5, <1>7, <1>11 DEF HeapTypes
<1>13. Blocks' = Blocks \ gone
  BY <1>1, <1>3, <1>4, <1>5, <1>6 DEF Blocks, gone
<1>14. Tiles(Blocks', size')
  <2> DEFINE B1 == IF R THEN Blocks \ {n} ELSE Blocks
             s1 == [size EXCEPT ![b] = IF R THEN size[b] + size[n] ELSE size[b]]
  <2>1. s1 \in [Address -> Int] /\ s1[b] = (IF R THEN size[b] + size[n] ELSE size[b])
        /\ \A x \in Address \ {b} : s1[x] = size[x]
    BY <1>1, <1>2, <1>10
  <2>2. B1 \subseteq Address /\ b \in B1 /\ (L => p \in B1 /\ p # b)
    <3>1. p # b /\ p # n /\ b # n
      BY <1>1, <1>4
    <3>2. QED BY <3>1, <1>3, <1>4, <1>10
  <2> HIDE DEF s1
  <2>3. Tiles(B1, s1)
    <3>1. CASE R
      <4>1. \A x \in Blocks \ {b, n} : s1[x] = size[x]
        BY <1>3, <2>1
      <4>2. Tiles(Blocks \ {n}, s1)
        BY <3>1, <4>1, <1>2, <1>3, <1>4, <2>1, JoinTiles
      <4>3. QED BY <4>2, <3>1
    <3>2. CASE ~R
      <4>1. s1 = size
        BY <3>2, <2>1, <1>2
      <4>2. QED BY <4>1, <3>2, <1>2
    <3>3. QED BY <3>1, <3>2
  <2>4. Blocks' = IF L THEN B1 \ {b} ELSE B1
    BY <1>13 DEF gone
  <2> HIDE DEF B1
  <2>5. CASE L
    <3>1. size'[p] = s1[p] + s1[b] /\ \A x \in B1 \ {p, b} : size'[x] = s1[x]
      <4>1. size'[p] = s1[p] + s1[b]
        <5>1. p \in Address /\ s1[p] = size[p]
          BY <2>5, <1>3, <1>10, <2>1, <2>2
        <5>2. size'[p] = size[p] + size[b] + (IF R THEN size[n] ELSE 0)
          <6>1. size'[p] = sum
            BY <2>5, <5>1, <1>total
          <6>2. sum = size[p] + size[b] + (IF R THEN size[n] ELSE 0)
            BY <2>5 DEF sum
          <6>3. QED BY <6>1, <6>2
        <5>3. CASE R
          BY <5>1, <5>2, <5>3, <2>1, <1>10, <2>5
        <5>4. CASE ~R
          BY <5>1, <5>2, <5>4, <2>1, <1>10, <2>5
        <5>5. QED BY <5>3, <5>4
      <4>2. ASSUME NEW x \in B1 \ {p, b} PROVE size'[x] = s1[x]
        <5>1. x \in Address /\ x \notin gone
          BY <2>2 DEF B1, gone
        <5>2. QED BY <5>1, <2>5, <1>5, <2>1
      <4>3. QED BY <4>1, <4>2
    <3>2. p + s1[p] = b
      BY <2>5, <2>1, <2>2
    <3>3. Tiles(B1 \ {b}, size')
      BY <2>1, <2>2, <2>3, <2>5, <1>11, <3>1, <3>2, JoinTiles
    <3>4. QED BY <3>3, <2>4, <2>5
  <2>6. CASE ~L
    <3>1. \A x \in B1 : size'[x] = s1[x]
      <4>1. size'[b] = s1[b]
        <5>1. size'[b] = 0 + size[b] + (IF R THEN size[n] ELSE 0)
          <6>1. size'[b] = sum
            BY <2>6, <1>1, <1>total
          <6>2. sum = 0 + size[b] + (IF R THEN size[n] ELSE 0)
            BY <2>6 DEF sum
          <6>3. QED BY <6>1, <6>2
        <5>2. CASE R
          BY <5>1, <5>2, <1>10, <2>1
        <5>3. CASE ~R
          BY <5>1, <5>3, <1>10, <2>1
        <5>4. QED BY <5>2, <5>3
      <4>2. ASSUME NEW x \in B1 \ {b} PROVE size'[x] = s1[x]
        <5>1. x \in Address /\ x \notin gone
          BY <2>2, <2>6 DEF B1, gone
        <5>2. QED BY <5>1, <2>6, <1>5, <2>1
      <4>3. QED BY <4>1, <4>2
    <3>2. QED BY <3>1, <2>3, <2>4, <2>6 DEF Tiles
  <2>7. QED BY <2>5, <2>6
<1>15. Links(free', next')
  <2>0. ASSUME NEW x \in free \cup {Start}, x # p, x # n
        PROVE  next'[x] = next[x]
    BY <2>0, <1>1, <1>2, <1>5, Layout DEF gone
  <2>1. CASE L /\ R
    <3>1. free' = free \ {n} /\ next'[p] = next[n] /\ n \in free
      BY <2>1, <1>1, <1>4, <1>5 DEF gone
    <3>2. next[p] = n
      BY DEF n
    <3>3. Links(free \ {n}, next')
      BY <3>1, <3>2, <2>0, <1>1, <1>2, <1>11, DropLinks
    <3>4. QED BY <3>1, <3>3
  <2>2. CASE L /\ ~R
    <3>1. free' = free /\ next'[p] = n
      BY <2>2, <1>1, <1>4, <1>5 DEF gone
    <3>2. ASSUME NEW x \in free \cup {Start} PROVE next'[x] = next[x]
      <4>1. CASE x = p
        BY <4>1, <3>1 DEF n
      <4>2. CASE x # p
        BY <4>2, <2>2, <1>1, <1>2, <1>5, Layout DEF gone
      <4>3. QED BY <4>1, <4>2
    <3>3. QED BY <3>1, <3>2, <1>2 DEF Links
  <2>3. CASE ~L /\ R
    <3>1. free' = (free \ {n}) \cup {b} /\ n \in free
      BY <2>3, <1>1, <1>4, <1>5 DEF gone
    <3>2. next'[p] = b /\ next'[b] = next[n]
      BY <2>3, <1>1, <1>4, <1>5 DEF gone
    <3>3. next[p] = n /\ n < next[n] /\ b < next[n]
      <4>1. n < next[n] /\ next[p] = n
        BY <3>1, <1>2 DEF Links, n
      <4>2. n # End /\ n > b /\ n \in Int /\ b \in Int
        BY <3>1, <1>2, <1>4, Layout
      <4>3. next[n] \in Int
        BY <4>2, <1>4
      <4>4. QED BY <4>1, <4>2, <4>3
    <3>4. b \in Address \ free
      BY <1>1
    <3>5. Links((free \ {n}) \cup {b}, next')
      BY <3>1, <3>2, <3>3, <3>4, <2>0, <1>1, <1>2, <1>11, ReplaceLinks
    <3>6. QED BY <3>1, <3>5
  <2>4. CASE ~L /\ ~R
    <3>1. free' = free \cup {b} /\ next'[p] = b /\ next'[b] = n
      BY <2>4, <1>1, <1>4, <1>5 DEF gone
    <3>2. ASSUME NEW x \in (free \cup {Start}) \ {p} PROVE next'[x] = next[x]
      BY <2>4, <1>1, <1>2, <1>5, Layout DEF gone
    <3>3. next[p] = n /\ b \in Address \ free
      BY <1>1 DEF n
    <3>4. Links(free \cup {b}, next')
      BY <3>1, <3>2, <3>3, <1>1, <1>2, <1>4, <1>11, AddLinks
    <3>5. QED BY <3>1, <3>4
  <2>5. QED BY <2>1, <2>2, <2>3, <2>4
<1>16. Apart(free', size')
  <2>1. b + size[b] \notin free \ {n} /\ (R => n + size[n] \notin free /\ n + size[n] # b)
    <3>1. b + size[b] \notin free \ {n}
      <4>1. SUFFICES ASSUME b + size[b] \in free, b + size[b] # n PROVE FALSE
        OBVIOUS
      <4>2. size[b] > 0 /\ b + size[b] > p
        BY <1>1, <1>2, <1>4, <1>10 DEF Tiles
      <4>3. b + size[b] > n /\ n # End
        BY <4>1, <4>2, <1>1, <1>2, <1>4, <1>10, Layout DEF Links, n
      <4>4. b + size[b] <= n
        BY <4>3, <1>2, <1>4 DEF Tiles
      <4>5. QED BY <4>3, <4>4, <1>4, <1>10
    <3>2. R => n + size[n] \notin free /\ n + size[n] # b
      BY <1>2, <1>4, <1>10 DEF Apart, Tiles
    <3>3. QED BY <3>1, <3>2
  <2>2. ASSUME NEW x \in free, x # p PROVE x + size[x] # b
    <3>1. x <= p \/ x >= n
      BY <1>1, <1>2, <1>4, Layout DEF Links, n
    <3>2. x \in Int /\ size[x] \in Int /\ size[x] > 0 /\ x \in Blocks
      BY <1>2, Layout DEF Tiles, Blocks
    <3>3. CASE x >= n
      BY <3>2, <3>3, <1>4
    <3>4. CASE x < p
      <4>1. p \in free /\ p \in Blocks
        BY <3>2, <3>4, <1>1, <1>2, Layout DEF Blocks
      <4>2. x + size[x] <= p
        BY <4>1, <3>2, <3>4, <1>2 DEF Tiles
      <4>3. QED BY <4>2, <3>2, <1>1, <1>4
    <3>5. QED BY <2>2, <3>1, <3>2, <3>3, <3>4, <1>4
  <2>3. ASSUME NEW x \in free' PROVE x + size'[x] \notin free'
    <3>1. CASE x = IF L THEN p ELSE b
      <4>1. x + size'[x] = IF R THEN n + size[n] ELSE b + size[b]
        <5>1. x \in Address /\ size'[x] = sum
          BY <3>1, <1>1, <1>2, <1>10, <1>total
        <5>2. CASE L /\ R
          BY <5>1, <5>2, <3>1, <1>4, <1>10 DEF sum
        <5>3. CASE L /\ ~R
          BY <5>1, <5>3, <3>1, <1>4, <1>10 DEF sum
        <5>4. CASE ~L /\ R
          BY <5>1, <5>4, <3>1, <1>4, <1>10 DEF sum
        <5>5. CASE ~L /\ ~R
          BY <5>1, <5>5, <3>1, <1>4, <1>10 DEF sum
        <5>6. QED BY <5>2, <5>3, <5>4, <5>5
      <4>2. free' \subseteq free \cup {b} /\ (R => n \notin free') /\ b + size[b] # b
        BY <1>2, <1>4, <1>5, <1>10 DEF gone, Tiles
      <4>3. CASE R
        BY <4>1, <4>2, <4>3, <2>1
      <4>4. CASE ~R
        <5>1. b + size[b] # n \/ n \notin free
          BY <4>4, <1>2, Layout
        <5>2. QED BY <4>1, <4>2, <4>4, <5>1, <2>1
      <4>5. QED BY <4>3, <4>4
    <3>2. CASE x # IF L THEN p ELSE b
      <4>1. x \in free /\ x \notin gone /\ x # b
        BY <3>2, <1>1, <1>5 DEF gone
      <4>2. size'[x] = size[x]
        BY <4>1, <3>2, <1>2, <1>5
      <4>3. x + size[x] \notin free
        BY <4>1, <1>2 DEF Apart
      <4>4. CASE L
        BY <4>2, <4>3, <4>4, <1>5 DEF gone
      <4>5. CASE ~L
        <5>1. x + size[x] # b
          BY <4>1, <4>5, <2>2, Layout, <1>2
        <5>2. QED BY <5>1, <4>2, <4>3, <1>5
      <4>6. QED BY <4>4, <4>5
    <3>3. QED BY <3>1, <3>2
  <2>4. QED BY <2>3 DEF Apart
<1>17. Tidy'
  BY <1>14, <1>15, <1>16 DEF Tidy, Tiled, Listed, Joined, Tiles, Links, Apart
<1>18. QED BY <1>8, <1>9, <1>12, <1>17 DEF IInv

-----------------------------------------------------------------------------
(* IInv is inductive.                                                      *)
LEMMA InvariantHolds == ASSUME IInv, [Next]_vars PROVE IInv'
<1>1. ASSUME NEW c \in Caller, NEW n \in Requests, Malloc(c, n) PROVE IInv'
  BY <1>1, MallocInv
<1>2. ASSUME NEW c \in Caller, NEW b \in used, Free(c, b) PROVE IInv'
  BY <1>2, FreeInv
<1>3. ASSUME NEW c \in Caller, Proceed(c) PROVE IInv'
  <2>1. CASE Begin(c)
    BY <2>1, BeginInv
  <2>2. CASE Search(c)
    BY <2>2, SearchInv
  <2>3. CASE NotFound(c) \/ Hook(c)
    BY <2>3, RefusalInv
  <2>4. CASE Take(c)
    BY <2>4, TakeInv
  <2>5. CASE Account(c)
    BY <2>5, AccountInv
  <2>6. CASE Walk(c)
    BY <2>6, WalkInv
  <2>7. CASE Insert(c)
    BY <2>7, InsertInv
  <2>8. QED BY <1>3, <2>1, <2>2, <2>3, <2>4, <2>5, <2>6, <2>7 DEF Proceed
<1>4. CASE UNCHANGED vars
  BY <1>4 DEF vars, IInv, HeapTypes, Owned, Walking, Waiting, Inside, Tidy, Tiled, Listed,
              Joined, Blocks, Pending
<1>5. QED BY <1>1, <1>2, <1>3, <1>4 DEF Next

THEOREM HeapInvariance == Spec => []IInv
<1>1. IInv /\ [Next]_vars => IInv'
  BY InvariantHolds
<1>2. QED BY <1>1, InitInv, PTL DEF Spec

(* However memory is cut and given back, and whoever is interrupted with a *)
(* block in hand: the blocks tile the heap, the list holds the free ones   *)
(* in order, and no two of them touch.                                     *)
THEOREM StaysTidy == Spec => []Tidy
<1>1. IInv => Tidy
  BY DEF IInv
<1>2. QED BY <1>1, HeapInvariance, PTL

-----------------------------------------------------------------------------
(* Sums over the addresses.                                                *)

Rooms == [Address -> Int]
Sums(f, room) ==
  /\ f \in [0..End -> Int] /\ f[0] = 0
  /\ \A a \in 1..End : f[a] = f[a - 1] + room[a - 1]

LEMMA LeastOf == ASSUME NEW S \in SUBSET Nat, S # {} PROVE \E i \in S : \A j \in S : i <= j
<1>1. \E i \in S : \A j \in S : ~ (<<j, i>> \in OpToRel(<, Nat))
  BY NatLessThanWellFounded, WFMin
<1>2. ASSUME NEW i \in Nat, NEW j \in Nat, j < i PROVE <<j, i>> \in OpToRel(<, Nat)
  BY <1>2, Zenon DEF OpToRel
<1>3. \E i \in S : \A j \in S : ~ (j < i)
  BY <1>1, <1>2
<1> QED BY <1>3

\* What holds at 0 and goes up, holds up to n.
LEMMA GoesUp ==
  ASSUME NEW n \in Nat, NEW S \in SUBSET (0..n), 0 \in S,
         \A i \in 1..n : i - 1 \in S => i \in S
  PROVE  \A i \in 0..n : i \in S
<1> DEFINE bad == (0..n) \ S
<1>1. SUFFICES ASSUME bad # {} PROVE FALSE
  OBVIOUS
<1>2. PICK i \in bad : \A j \in bad : i <= j
  <2>1. bad \in SUBSET Nat
    OBVIOUS
  <2> HIDE DEF bad
  <2> QED BY <1>1, <2>1, LeastOf
<1>3. i \in 1..n /\ i - 1 \in 0..n
  BY <1>2
<1>4. i - 1 \in S
  BY <1>2, <1>3
<1> QED BY <1>2, <1>3, <1>4

LEMMA SumExists == ASSUME NEW room \in Rooms PROVE \E f : Sums(f, room)
<1> DEFINE Upto(f, n) == /\ f \in [0..End -> Int] /\ f[0] = 0
                         /\ \A a \in 1..n : f[a] = f[a - 1] + room[a - 1]
           S == {n \in 0..End : \E f : Upto(f, n)}
<1>0. End \in Nat
  BY HeapAssumption
<1>1. 0 \in S
  <2>1. Upto([a \in 0..End |-> 0], 0)
    BY <1>0
  <2> HIDE DEF Upto
  <2> QED BY <1>0, <2>1
<1>2. ASSUME NEW n \in 1..End, n - 1 \in S PROVE n \in S
  <2>1. PICK f : Upto(f, n - 1)
    BY <1>2
  <2> DEFINE g == [f EXCEPT ![n] = f[n - 1] + room[n - 1]]
  <2>2. f \in [0..End -> Int] /\ f[0] = 0 /\ \A a \in 1..(n - 1) : f[a] = f[a - 1] + room[a - 1]
    BY <2>1
  <2>3. room[n - 1] \in Int /\ n \in 0..End /\ n - 1 \in 0..End
    BY <1>0 DEF Rooms, Address
  <2>4. g \in [0..End -> Int] /\ g[n] = f[n - 1] + room[n - 1] /\ \A a \in 0..(n - 1) : g[a] = f[a]
    BY <2>2, <2>3
  <2> HIDE DEF g
  <2>5. ASSUME NEW a \in 1..n PROVE g[a] = g[a - 1] + room[a - 1]
    <3>1. CASE a = n
      <4>1. n - 1 \in 0..(n - 1)
        OBVIOUS
      <4> QED BY <2>4, <3>1, <4>1
    <3>2. CASE a # n
      <4>1. a \in 0..(n - 1) /\ a - 1 \in 0..(n - 1) /\ a \in 1..(n - 1)
        BY <3>2
      <4> QED BY <2>2, <2>4, <4>1
    <3> QED BY <3>1, <3>2
  <2>6. Upto(g, n)
    <3>1. 0 \in 0..(n - 1)
      OBVIOUS
    <3> QED BY <2>2, <2>4, <2>5, <3>1
  <2> HIDE DEF Upto
  <2> QED BY <2>3, <2>6
<1>3. End \in S
  <2> HIDE DEF S
  <2>1. S \subseteq 0..End
    BY DEF S
  <2> QED BY <1>0, <1>1, <1>2, <2>1, GoesUp
<1> QED BY <1>3 DEF Sums

LEMMA SumIsOne ==
  ASSUME NEW room \in Rooms, NEW f, NEW g, Sums(f, room), Sums(g, room)
  PROVE  f = g
<1> DEFINE S == {a \in 0..End : f[a] = g[a]}
<1>0. End \in Nat
  BY HeapAssumption
<1>1. 0 \in S
  BY <1>0 DEF Sums
<1>2. ASSUME NEW a \in 1..End, a - 1 \in S PROVE a \in S
  BY <1>2 DEF Sums
<1>3. \A a \in 0..End : a \in S
  <2> HIDE DEF S
  <2>1. S \subseteq 0..End
    BY DEF S
  <2> QED BY <1>0, <1>1, <1>2, <2>1, GoesUp
<1>4. f \in [0..End -> Int] /\ g \in [0..End -> Int]
  BY DEF Sums
<1>5. \A a \in 0..End : f[a] = g[a]
  BY <1>3
<1>6. f = [a \in 0..End |-> f[a]] /\ g = [a \in 0..End |-> g[a]]
  BY <1>4
<1>7. [a \in 0..End |-> f[a]] = [a \in 0..End |-> g[a]]
  BY <1>5
<1> QED BY <1>6, <1>7

LEMMA TotalIs ==
  ASSUME NEW room \in Rooms, NEW f, Sums(f, room)
  PROVE  Total(room) = f[End] /\ Total(room) \in Int
<1> DEFINE sum == CHOOSE g : g = [a \in 0..End |-> IF a = 0 THEN 0 ELSE g[a - 1] + room[a - 1]]
<1>0. End \in Nat
  BY HeapAssumption
<1>1. ASSUME NEW g, g = [a \in 0..End |-> IF a = 0 THEN 0 ELSE g[a - 1] + room[a - 1]]
      PROVE  Sums(g, room)
  <2>1. DOMAIN g = 0..End /\ g[0] = 0 /\ \A a \in 1..End : g[a] = g[a - 1] + room[a - 1]
    BY <1>0, <1>1
  <2>2. \A a \in 1..End : room[a - 1] \in Int
    BY <1>0 DEF Rooms, Address
  <2> DEFINE S == {a \in 0..End : g[a] \in Int}
  <2>3. 0 \in S
    BY <1>0, <2>1
  <2>4. ASSUME NEW a \in 1..End, a - 1 \in S PROVE a \in S
    BY <2>1, <2>2, <2>4
  <2>5. \A a \in 0..End : a \in S
    <3> HIDE DEF S
    <3>1. S \subseteq 0..End
      BY DEF S
    <3> QED BY <1>0, <2>3, <2>4, <3>1, GoesUp
  <2>6. g = [a \in 0..End |-> g[a]]
    BY <1>1
  <2> QED BY <2>1, <2>5, <2>6 DEF Sums
<1>2. f = [a \in 0..End |-> IF a = 0 THEN 0 ELSE f[a - 1] + room[a - 1]]
  BY <1>0 DEF Sums
<1>3. sum = [a \in 0..End |-> IF a = 0 THEN 0 ELSE sum[a - 1] + room[a - 1]]
  BY <1>2
<1> HIDE DEF sum
<1>4. sum = f
  BY <1>1, <1>3, SumIsOne
<1>5. Total(room) = sum[End]
  BY DEF Total, sum
<1> QED BY <1>0, <1>4, <1>5 DEF Sums

LEMMA TotalOfNone == ASSUME NEW room \in Rooms, \A a \in Address : room[a] = 0 PROVE Total(room) = 0
<1> DEFINE f == [a \in 0..End |-> 0]
<1>1. Sums(f, room) /\ f[End] = 0
  BY HeapAssumption DEF Sums, Address
<1> QED BY <1>1, TotalIs

\* One place changes, and so does the sum.
LEMMA TotalChanges ==
  ASSUME NEW room \in Rooms, NEW x \in Address, NEW v \in Int
  PROVE  /\ [room EXCEPT ![x] = v] \in Rooms
         /\ Total([room EXCEPT ![x] = v]) = Total(room) + v - room[x]
<1> DEFINE r == [room EXCEPT ![x] = v]
<1>1. PICK f : Sums(f, room)
  BY SumExists
<1> DEFINE g == [a \in 0..End |-> IF a <= x THEN f[a] ELSE f[a] + (v - room[x])]
<1>2. r \in Rooms /\ room[x] \in Int /\ x \in Int /\ 0 <= x /\ x < End /\ End \in Nat
  BY HeapAssumption DEF Rooms, Address
<1>3. r[x] = v /\ \A a \in Address \ {x} : r[a] = room[a]
  BY DEF Rooms
<1>4. f \in [0..End -> Int] /\ f[0] = 0 /\ \A a \in 1..End : f[a] = f[a - 1] + room[a - 1]
  BY <1>1 DEF Sums
<1>5. g \in [0..End -> Int] /\ g[0] = 0 /\ g[End] = f[End] + (v - room[x])
  BY <1>2, <1>4
<1> HIDE DEF r
<1>6. ASSUME NEW a \in 1..End PROVE g[a] = g[a - 1] + r[a - 1]
  <2>1. a - 1 \in Address /\ a - 1 \in 0..End /\ a \in 0..End /\ f[a] \in Int /\ f[a - 1] \in Int
    BY <1>2, <1>4 DEF Address
  <2>2. r[a - 1] \in Int /\ room[a - 1] \in Int
    BY <1>2, <2>1 DEF Rooms
  <2>3. CASE a <= x
    BY <1>2, <1>3, <1>4, <2>1, <2>2, <2>3
  <2>4. CASE a - 1 = x
    BY <1>2, <1>3, <1>4, <2>1, <2>2, <2>4
  <2>5. CASE a - 1 > x
    <3>1. a \in Int /\ ~(a <= x) /\ ~(a - 1 <= x) /\ a - 1 # x
      BY <1>2, <2>5
    <3>2. g[a] = f[a] + (v - room[x]) /\ g[a - 1] = f[a - 1] + (v - room[x])
      BY <2>1, <3>1
    <3>3. r[a - 1] = room[a - 1] /\ f[a] = f[a - 1] + room[a - 1]
      BY <1>3, <1>4, <2>1, <3>1
    <3> QED BY <1>2, <2>1, <2>2, <3>2, <3>3
  <2>6. a \in Int /\ (a <= x \/ a - 1 = x \/ a - 1 > x)
    BY <1>2
  <2> QED BY <2>3, <2>4, <2>5, <2>6
<1>7. Sums(g, r)
  BY <1>5, <1>6 DEF Sums
<1> HIDE DEF g
<1>8. Total(room) = f[End] /\ Total(r) = g[End] /\ Total(room) \in Int
  BY <1>1, <1>2, <1>7, TotalIs
<1>9. Total(r) = Total(room) + v - room[x]
  BY <1>2, <1>5, <1>8
<1> QED BY <1>2, <1>9 DEF r

LEMMA TotalIsPositive ==
  ASSUME NEW room \in Rooms, \A a \in Address : room[a] >= 0
  PROVE  Total(room) >= 0
<1>1. PICK f : Sums(f, room)
  BY SumExists
<1> DEFINE S == {a \in 0..End : f[a] >= 0}
<1>0. End \in Nat
  BY HeapAssumption
<1>2. 0 \in S
  BY <1>0, <1>1 DEF Sums
<1>3. ASSUME NEW a \in 1..End, a - 1 \in S PROVE a \in S
  <2>1. a - 1 \in Address
    BY <1>0 DEF Address
  <2>2. f[a] = f[a - 1] + room[a - 1] /\ f[a - 1] >= 0 /\ room[a - 1] >= 0 /\ room[a - 1] \in Int /\ f[a - 1] \in Int
    BY <1>0, <1>1, <1>3, <2>1 DEF Sums, Rooms
  <2> QED BY <2>2
<1>4. End \in S
  <2> HIDE DEF S
  <2>1. S \subseteq 0..End /\ End \in 0..End
    BY <1>0 DEF S
  <2> QED BY <1>0, <1>2, <1>3, <2>1, GoesUp
<1> QED BY <1>1, <1>4, TotalIs

\* No place has more than the sum.
LEMMA TotalBounds ==
  ASSUME NEW room \in Rooms, \A a \in Address : room[a] >= 0, NEW x \in Address
  PROVE  room[x] <= Total(room)
<1> DEFINE r == [room EXCEPT ![x] = 0]
<1>1. r \in Rooms /\ Total(r) = Total(room) + 0 - room[x]
  BY TotalChanges
<1>2. \A a \in Address : r[a] >= 0
  BY DEF Rooms
<1>3. Total(r) >= 0
  <2> HIDE DEF r
  <2> QED BY <1>1, <1>2, TotalIsPositive
<1>4. PICK f : Sums(f, room)
  BY SumExists
<1>5. Total(room) \in Int /\ room[x] \in Int
  BY <1>4, TotalIs DEF Rooms
<1> QED BY <1>1, <1>3, <1>5

-----------------------------------------------------------------------------
(* The count of the free bytes, and how far a search has come.             *)

Counters == bytes \in Int /\ least \in Int

(* A search asks for a size that can be served, and the blocks it has left *)
(* behind are too small.                                                   *)
SearchPast == \A c \in Caller :
  /\ call[c].pc \in {"asked", "search"} => call[c].asked \in Requests
  /\ call[c].pc = "search" =>
       /\ 2 * Wanted(call[c].asked) < Word
       /\ \A b \in free : b <= call[c].at => size[b] < Wanted(call[c].asked)

CountInv == IInv /\ Counters /\ Counted /\ SearchPast

LEMMA SumsDivide ==
  ASSUME NEW x \in Int, NEW y \in Int, x % Align = 0, y % Align = 0
  PROVE  (x + y) % Align = 0 /\ (x - y) % Align = 0
<1>0. Align \in Nat \ {0}
  BY HeapAssumption
<1>1. x = (x \div Align) * Align /\ y = (y \div Align) * Align
  BY <1>0
<1> DEFINE k == x \div Align
           j == y \div Align
<1>2. k \in Int /\ j \in Int
  BY <1>0
<1> HIDE DEF k, j
<1>3. x = k * Align /\ y = j * Align
  BY <1>1 DEF k, j
<1>4. k + j \in Int /\ k - j \in Int /\ x + y = (k + j) * Align /\ x - y = (k - j) * Align
  BY <1>0, <1>2, <1>3
<1>5. \A i \in Int : (i * Align) % Align = 0
  BY <1>0
<1>6. ((k + j) * Align) % Align = 0 /\ ((k - j) * Align) % Align = 0
  BY <1>4, <1>5
<1> QED BY <1>4, <1>6

LEMMA RequestsAreNat == Requests \subseteq Nat
<1>1. 0..(Word - 1) \subseteq Nat
  BY HeapAssumption
<1> QED BY <1>1, HeapAssumption

LEMMA RoundedUp == ASSUME NEW a \in Nat \ {0}, NEW m \in Nat PROVE (m + a - (m % a)) % a = 0
  OBVIOUS

LEMMA WantedIsAligned == \A n \in Nat : Wanted(n) % Align = 0
<1> SUFFICES ASSUME NEW n \in Nat PROVE Wanted(n) % Align = 0
  OBVIOUS
<1>0. Align \in Nat \ {0} /\ n + Header \in Nat /\ Word \in Nat
  BY HeapAssumption
<1>1. \A m \in Nat : (m + Align - (m % Align)) % Align = 0
  BY <1>0, RoundedUp
<1>2. 0 % Align = 0
  BY <1>0
<1> QED BY <1>0, <1>1, <1>2 DEF Wanted

(* What the two steps that move blocks do to sizes and sets.               *)
LEMMA TakeStep ==
  ASSUME IInv, NEW c \in Caller, Take(c),
         NEW b, b = next[call[c].at], NEW w, w = Wanted(call[c].asked)
  PROVE  /\ call[c].pc = "search" /\ b \in free /\ b \in Address \ (used \cup Pending)
         /\ w \in Int /\ 0 < w /\ w <= size[b]
         /\ call' = [call EXCEPT ![c] = Idle] /\ Pending' = Pending
         /\ used' = used \cup {b} /\ bytes' = bytes - Got(b, w)
         /\ least' = IF bytes' < least THEN bytes' ELSE least
         /\ Cuts(b, w) =>
              /\ b + w \in Address \ Blocks /\ w < size[b]
              /\ size' = [size EXCEPT ![b] = w, ![b + w] = size[b] - w]
              /\ free' = (free \ {b}) \cup {b + w} /\ Blocks' = Blocks \cup {b + w}
         /\ ~Cuts(b, w) => size' = size /\ free' = free \ {b} /\ Blocks' = Blocks
<1>1. call[c].pc = "search" /\ call[c].at \in free \cup {Start} /\ b # End /\ ~(size[b] < w)
  BY DEF Take, Candidate, TooSmall, IInv, Walking, Inside
<1>2. b \in free /\ b \in Address /\ b \notin used
  BY <1>1 DEF IInv, Tidy, Listed, HeapTypes, Owned
<1>3. w \in Int /\ w > 0 /\ size[b] \in Int
  BY <1>1, <1>2, WantedIsInt DEF IInv, Walking, HeapTypes
<1>4. call' = [call EXCEPT ![c] = Idle] /\ used' = used \cup {b} /\ bytes' = bytes - Got(b, w)
      /\ least' = IF bytes' < least THEN bytes' ELSE least
  BY DEF Take, Candidate
<1>5. Pending' = Pending /\ b \notin Pending
  BY <1>1, <1>2, <1>4 DEF IInv, HeapTypes, Pending, Idle, Owned, Waiting
<1>6. Blocks \subseteq Address /\ b \in Blocks /\ Tiles(Blocks, size)
  BY <1>2, TidyParts DEF IInv, HeapTypes, Pending, Blocks, Owned, Waiting
<1>7. ASSUME Cuts(b, w)
      PROVE  /\ b + w \in Address \ Blocks /\ w < size[b]
             /\ size' = [size EXCEPT ![b] = w, ![b + w] = size[b] - w]
             /\ free' = (free \ {b}) \cup {b + w} /\ Blocks' = Blocks \cup {b + w}
  <2>1. w < size[b]
    BY <1>2, <1>3, <1>7, Layout DEF Cuts
  <2>2. /\ size' = [size EXCEPT ![b] = w, ![b + w] = size[b] - w]
        /\ free' = (free \ {b}) \cup {b + w}
    BY <1>7 DEF Take, Candidate
  <2>3. b + size[b] \in Blocks \cup {End}
    BY <1>6 DEF Tiles
  <2>4. b + w \in Address
    BY <1>2, <1>3, <1>6, <2>1, <2>3, Layout DEF Address
  <2>5. b + w \notin Blocks
    BY <1>2, <1>3, <1>6, <2>1, <2>4, Layout DEF Tiles
  <2>6. Blocks' = Blocks \cup {b + w}
    BY <1>2, <1>4, <1>5, <2>2 DEF Blocks
  <2> QED BY <2>1, <2>2, <2>4, <2>5, <2>6
<1>8. ASSUME ~Cuts(b, w) PROVE size' = size /\ free' = free \ {b} /\ Blocks' = Blocks
  <2>1. size' = size /\ free' = free \ {b}
    BY <1>8 DEF Take, Candidate
  <2> QED BY <1>2, <1>4, <1>5, <2>1 DEF Blocks
<1> QED BY <1>1, <1>2, <1>3, <1>4, <1>5, <1>7, <1>8

\* A block b between p and n: L and R tell with which of them it joins.
Meets(p, b, n, L, R, gone, first) ==
  /\ L \in BOOLEAN /\ R \in BOOLEAN
  /\ gone = (IF L THEN {b} ELSE {}) \cup (IF R THEN {n} ELSE {})
  /\ first = (IF L THEN p ELSE b)

Inserts(c, p, b, n, L, R, gone, first, sum) ==
  /\ p = call[c].at /\ b = call[c].block /\ n = next[p]
  /\ L <=> (p # Start /\ p + size[p] = b)
  /\ R <=> (n # End /\ b + size[b] = n)
  /\ Meets(p, b, n, L, R, gone, first)
  /\ sum = (IF L THEN size[p] ELSE 0) + size[b] + (IF R THEN size[n] ELSE 0)

LEMMA InsertStep ==
  ASSUME IInv, NEW c \in Caller, Insert(c),
         NEW p, NEW b, NEW n, NEW L, NEW R, NEW gone, NEW first, NEW sum,
         Inserts(c, p, b, n, L, R, gone, first, sum)
  PROVE  /\ call[c].pc = "insert" /\ b \in Pending /\ b \in Address \ (free \cup used)
         /\ L => p \in free /\ p # b /\ p # n
         /\ R => n \in free /\ n # b
         /\ call' = [call EXCEPT ![c] = Idle] /\ used' = used /\ bytes' = bytes /\ least' = least
         /\ Pending' = Pending \ {b} /\ free' = (free \cup {b}) \ gone /\ Blocks' = Blocks \ gone
         /\ first \in Address \ gone
         /\ size' = [a \in Address |->
                       CASE a = first -> sum [] a \in gone -> 0 [] OTHER -> size[a]]
<1> USE DEF Inserts, Meets
<1>1. /\ call[c].pc = "insert" /\ p \in free \cup {Start} /\ p < b
      /\ b \in Address /\ b \notin free /\ b \notin used /\ b \in Pending
  BY DEF Insert, IInv, Walking, Inside, Owned, Waiting, Pending
<1>2. /\ free \subseteq Address /\ used \subseteq Address /\ free \cap used = {}
      /\ Pending \cap (free \cup used) = {} /\ Links(free, next)
  BY TidyParts DEF IInv, HeapTypes, Pending, Owned, Waiting
<1>3. n \in free \cup {End} /\ n >= b
  BY <1>1, <1>2 DEF Insert, Links
<1>4. (L => p \in free /\ p # b) /\ (R => n \in free /\ n # b)
  BY <1>1, <1>2, <1>3, Layout
<1>5. L => p # n
  BY <1>1, <1>2, <1>3, <1>4, Layout
<1>6. /\ call' = [call EXCEPT ![c] = Idle] /\ used' = used /\ bytes' = bytes /\ least' = least
      /\ free' = (free \cup {b}) \ gone
      /\ size' = [a \in Address |->
                    CASE a = first -> sum [] a \in gone -> 0 [] OTHER -> size[a]]
  <2> DEFINE it == call[c].at
             bl == call[c].block
             nx == next[it]
             left == JoinsLeft(it, bl)
             right == JoinsRight(bl, nx)
             fst == IF left THEN it ELSE bl
             away == (IF left THEN {bl} ELSE {}) \cup (IF right THEN {nx} ELSE {})
             all == (IF left THEN size[it] ELSE 0) + size[bl] + (IF right THEN size[nx] ELSE 0)
  <2>1. /\ call' = [call EXCEPT ![c] = Idle] /\ used' = used /\ bytes' = bytes /\ least' = least
        /\ free' = (free \cup {bl}) \ away
        /\ size' = [a \in Address |->
                      CASE a = fst -> all [] a \in away -> 0 [] OTHER -> size[a]]
    BY DEF Insert
  <2>2. it = p /\ bl = b /\ nx = n
    OBVIOUS
  <2>3. left <=> L
    BY DEF JoinsLeft
  <2>4. right <=> R
    BY DEF JoinsRight
  <2> HIDE DEF left, right
  <2>5. fst = first /\ away = gone
    BY <2>2, <2>3, <2>4
  <2>6. all = sum
    BY <2>2, <2>3, <2>4
  <2> HIDE DEF it, bl, nx, fst, away, all
  <2> QED BY <2>1, <2>2, <2>5, <2>6
<1>7. Pending' = Pending \ {b}
  BY <1>1, <1>6 DEF IInv, HeapTypes, Pending, Idle, Owned, Waiting
<1>8. first \in Address \ gone
  BY <1>1, <1>2, <1>4, <1>5
<1>9. Blocks' = Blocks \ gone
  BY <1>1, <1>2, <1>4, <1>6, <1>7 DEF Blocks
<1> QED BY <1>1, <1>4, <1>5, <1>6, <1>7, <1>8, <1>9

LEMMA RoomsAre == ASSUME HeapTypes, NEW S PROVE Room(S) \in Rooms
  BY DEF HeapTypes, Room, Rooms

\* Who inserts is alone in it.
LEMMA OneArrives ==
  ASSUME IInv, NEW c \in Caller, \A d \in Caller \ {c} : ~Inside(d)
  PROVE  Arriving = IF call[c].pc = "insert" THEN {call[c].block} ELSE {}
<1>1. \A d \in Caller : call[d].pc = "insert" => d = c
  BY DEF Inside
<1>2. Arriving = {call[d].block : d \in {e \in Caller : call[e].pc = "insert"}}
  BY DEF Arriving
<1> QED BY <1>1, <1>2

LEMMA RoomOfNone == ASSUME HeapTypes PROVE Total(Room({})) = 0
<1>1. Room({}) \in Rooms
  BY RoomsAre
<1>2. \A a \in Address : Room({})[a] = 0
  BY DEF Room
<1> QED BY <1>1, <1>2, TotalOfNone

LEMMA RoomOfOne ==
  ASSUME HeapTypes, NEW x \in Address
  PROVE  Total(Room({x})) = size[x]
<1>1. Room({x}) = [Room({}) EXCEPT ![x] = size[x]]
  BY DEF Room
<1>2. size[x] \in Int /\ Room({})[x] = 0
  BY DEF HeapTypes, Room
<1>3. Total(Room({x})) = Total(Room({})) + size[x] - Room({})[x]
  BY <1>1, <1>2, RoomsAre, TotalChanges
<1> QED BY <1>2, <1>3, RoomOfNone

LEMMA StayCounted ==
  ASSUME CountInv, UNCHANGED <<size, free, bytes, least>>, Arriving' = Arriving, Blocks' = Blocks
  PROVE  Counters' /\ Counted'
  BY DEF CountInv, Counters, Counted, Aligned, Room

LEMMA AccountCounted ==
  ASSUME CountInv, NEW c \in Caller, Account(c)
  PROVE  Counters' /\ Counted'
<1> DEFINE b == call[c].block
<1>1. /\ HeapTypes /\ HeapTypes' /\ b \in Address /\ b \in Blocks
      /\ size[b] \in Int /\ size[b] > 0 /\ size' = size
  <2>1. HeapTypes /\ HeapTypes' /\ size' = size
    BY AccountInv DEF CountInv, IInv, Account
  <2>2. Waiting(c) /\ b \in Address
    BY DEF CountInv, IInv, Owned, Waiting, Account
  <2>3. b \in Pending
    BY <2>2 DEF Waiting, Pending
  <2>4. b \in Blocks /\ size[b] > 0
    BY <2>3 DEF CountInv, IInv, Tidy, Tiled, Blocks
  <2> QED BY <2>1, <2>2, <2>4 DEF HeapTypes
<1>2. Arriving = {}
  BY OneArrives DEF CountInv, Account, Runs
<1>3. Arriving' = {b}
  <2>1. IInv' /\ \A d \in Caller \ {c} : ~Inside(d)'
    BY AccountInv DEF CountInv, Account, Runs, Inside, IInv, HeapTypes
  <2>2. call'[c].pc = "insert" /\ call'[c].block = b
    BY DEF CountInv, Account, IInv, HeapTypes
  <2>3. \A d \in Caller : call'[d].pc = "insert" => d = c
    BY <2>1 DEF Inside
  <2>4. Arriving' = {call'[d].block : d \in {e \in Caller : call'[e].pc = "insert"}}
    BY DEF Arriving
  <2> QED BY <2>2, <2>3, <2>4
<1>4. bytes' = bytes + size[b] /\ least' = least /\ free' = free
  BY DEF Account
<1>5. Total(Room(Arriving)') = size[b]
  <2>1. Room(Arriving)' = Room({b})
    BY <1>1, <1>3 DEF Room
  <2> HIDE DEF b
  <2> QED BY <1>1, <2>1, RoomOfOne
<1>6. Room(free)' = Room(free)
  BY <1>1, <1>4 DEF Room
<1>7. Total(Room(Arriving)) = 0
  BY <1>1, <1>2, RoomOfNone
<1>8. Blocks' = Blocks
  BY DEF CountInv, IInv, HeapTypes, Account, Blocks, Pending
<1>9. bytes \in Int /\ least \in Int /\ bytes = Total(Room(free)) + Total(Room(Arriving)) /\ least <= bytes
  BY DEF CountInv, Counters, Counted
<1> HIDE DEF b
<1>10. Total(Room(free)) \in Int
  <2>1. Room(free) \in Rooms
    BY <1>1, RoomsAre
  <2> QED BY <2>1, SumExists, TotalIs
<1>11. bytes' = Total(Room(free)') + Total(Room(Arriving)') /\ least' <= bytes' /\ bytes' \in Int
  BY <1>1, <1>4, <1>5, <1>6, <1>7, <1>9, <1>10
<1>12. Aligned'
  BY <1>1, <1>8 DEF CountInv, Counted, Aligned
<1>13. Total(Room(free))' = Total(Room(free)') /\ Total(Room(Arriving))' = Total(Room(Arriving)')
  BY DEF Total
<1> QED BY <1>4, <1>9, <1>11, <1>12, <1>13 DEF Counters, Counted

LEMMA TakeCounted ==
  ASSUME CountInv, NEW c \in Caller, Take(c)
  PROVE  Counters' /\ Counted'
<1> DEFINE b == next[call[c].at]
           w == Wanted(call[c].asked)
           room == Room(free)
<1>1. /\ call[c].pc = "search" /\ b \in free /\ b \in Address \ (used \cup Pending)
      /\ w \in Int /\ 0 < w /\ w <= size[b]
      /\ call' = [call EXCEPT ![c] = Idle] /\ bytes' = bytes - Got(b, w)
      /\ least' = IF bytes' < least THEN bytes' ELSE least
      /\ Cuts(b, w) =>
           /\ b + w \in Address \ Blocks /\ w < size[b]
           /\ size' = [size EXCEPT ![b] = w, ![b + w] = size[b] - w]
           /\ free' = (free \ {b}) \cup {b + w} /\ Blocks' = Blocks \cup {b + w}
      /\ ~Cuts(b, w) => size' = size /\ free' = free \ {b} /\ Blocks' = Blocks
  BY TakeStep DEF CountInv
<1>2. HeapTypes /\ HeapTypes' /\ size[b] \in Int /\ size \in [Address -> Int]
      /\ free \subseteq Blocks /\ free \subseteq Address
  BY <1>1, TakeInv DEF CountInv, IInv, HeapTypes, Blocks
<1>3. Total(Room(Arriving)) = 0 /\ Total(Room(Arriving)') = 0
  <2>1. Arriving = {}
    BY <1>1, OneArrives DEF CountInv, Take, Runs
  <2>2. Arriving' = {}
    <3>1. \A d \in Caller : call[d].pc # "insert"
      BY <1>1 DEF Take, Runs, Inside
    <3>2. \A d \in Caller : call'[d].pc # "insert"
      BY <1>1, <1>2, <3>1 DEF HeapTypes, Idle
    <3> QED BY <3>2 DEF Arriving
  <2>3. Room(Arriving)' = [a \in Address |-> 0]
    BY <2>2 DEF Room
  <2>4. [a \in Address |-> 0] \in Rooms
    BY DEF Rooms
  <2>5. Total([a \in Address |-> 0]) = 0
    BY <2>4, TotalOfNone
  <2> QED BY <1>2, <2>1, <2>3, <2>5, RoomOfNone
<1>4. /\ bytes \in Int /\ least \in Int /\ bytes = Total(Room(free)) + Total(Room(Arriving))
      /\ least <= bytes /\ Aligned
  BY DEF CountInv, Counters, Counted
<1>5. room \in Rooms /\ room[b] = size[b]
  BY <1>1, <1>2, RoomsAre DEF Room
<1>6. Total(room) \in Int
  BY <1>5, SumExists, TotalIs
<1>7. w % Align = 0
  <2>1. call[c].asked \in Nat
    <3>1. call[c].asked \in Requests
      BY <1>1 DEF CountInv, SearchPast
    <3> QED BY <3>1, RequestsAreNat
  <2> QED BY <2>1, WantedIsAligned
<1>8. b \in Int /\ b % Align = 0 /\ size[b] % Align = 0
  BY <1>1, <1>2, <1>4, Layout DEF Aligned
<1> HIDE DEF b, w
<1>9. Total(Room(free)') = Total(room) - Got(b, w) /\ Got(b, w) \in Int /\ Aligned'
  <2>1. [room EXCEPT ![b] = 0] \in Rooms /\ Total([room EXCEPT ![b] = 0]) = Total(room) + 0 - size[b]
    <3> HIDE DEF room
    <3> QED BY <1>1, <1>5, TotalChanges
  <2> DEFINE one == [room EXCEPT ![b] = 0]
  <2>2. CASE Cuts(b, w)
    <3> DEFINE r == b + w
    <3>1. /\ r \in Address \ Blocks /\ w < size[b] /\ r # b /\ r \notin free
          /\ size' = [size EXCEPT ![b] = w, ![r] = size[b] - w]
          /\ free' = (free \ {b}) \cup {r} /\ Blocks' = Blocks \cup {r}
      BY <1>1, <1>2, <1>8, <2>2
    <3> HIDE DEF r
    <3>2. Room(free)' = [one EXCEPT ![r] = size[b] - w] /\ one[r] = 0
      <4>1. size'[r] = size[b] - w /\ \A a \in free \ {b} : size'[a] = size[a]
        BY <1>1, <1>2, <3>1
      <4>2. DOMAIN room = Address /\ b \in Address /\ r \in Address
        BY <1>1, <3>1 DEF Room
      <4>3. ASSUME NEW a \in Address
            PROVE  Room(free)'[a] = IF a = r THEN size[b] - w ELSE IF a = b THEN 0 ELSE room[a]
        BY <1>1, <3>1, <4>1, <4>3 DEF Room
      <4>4. Room(free)' = [a \in Address |-> IF a = r THEN size[b] - w ELSE IF a = b THEN 0 ELSE room[a]]
        BY <4>3 DEF Room
      <4>5. room[r] = 0
        BY <3>1 DEF Room
      <4> HIDE DEF room
      <4>6. one = [a \in Address |-> IF a = b THEN 0 ELSE room[a]]
        BY <4>2
      <4>7. [one EXCEPT ![r] = size[b] - w]
              = [a \in Address |-> IF a = r THEN size[b] - w ELSE IF a = b THEN 0 ELSE room[a]]
        BY <4>6
      <4> QED BY <3>1, <4>2, <4>4, <4>5, <4>6, <4>7
    <3>3. size[b] - w \in Int
      BY <1>1, <1>2
    <3>4. Total(Room(free)') = Total(one) + (size[b] - w) - 0
      <4>1. one \in Rooms /\ r \in Address
        BY <2>1, <3>1
      <4> HIDE DEF one
      <4>2. Total([one EXCEPT ![r] = size[b] - w]) = Total(one) + (size[b] - w) - one[r]
        BY <3>3, <4>1, TotalChanges
      <4> QED BY <3>2, <4>2
    <3>5. Aligned'
      <4>1. r % Align = 0 /\ (size[b] - w) % Align = 0
        BY <1>1, <1>2, <1>7, <1>8, SumsDivide DEF r
      <4>2. size'[b] = w /\ size'[r] = size[b] - w /\ \A a \in Address \ {b, r} : size'[a] = size[a]
        BY <1>1, <1>2, <3>1
      <4>3. Blocks \subseteq Address
        BY DEF CountInv, IInv, HeapTypes, Pending, Blocks, Owned, Waiting
      <4>4. ASSUME NEW a \in Blocks' PROVE a % Align = 0 /\ size'[a] % Align = 0
        BY <1>4, <1>7, <1>8, <3>1, <4>1, <4>2, <4>3 DEF Aligned
      <4> QED BY <4>4 DEF Aligned
    <3> QED BY <1>1, <1>2, <1>6, <2>1, <2>2, <3>4, <3>5 DEF Got
  <2>3. CASE ~Cuts(b, w)
    <3>1. size' = size /\ free' = free \ {b} /\ Blocks' = Blocks
      BY <1>1, <2>3
    <3>2. Room(free)' = one
      BY <1>1, <1>2, <3>1 DEF Room
    <3>3. Aligned'
      BY <1>4, <3>1 DEF Aligned
    <3> QED BY <1>1, <1>2, <1>6, <2>1, <2>3, <3>2, <3>3 DEF Got
  <2> QED BY <2>2, <2>3
<1> HIDE DEF room
<1>10. bytes' = Total(Room(free)') + Total(Room(Arriving)') /\ least' <= bytes' /\ bytes' \in Int /\ least' \in Int
  <2>1. bytes = Total(room)
    BY <1>3, <1>4, <1>6 DEF room
  <2>2. bytes' = bytes - Got(b, w)
    BY <1>1
  <2>3. least' = IF bytes' < least THEN bytes' ELSE least
    BY <1>1
  <2> QED BY <1>3, <1>4, <1>6, <1>9, <2>1, <2>2, <2>3
<1>11. Total(Room(free))' = Total(Room(free)') /\ Total(Room(Arriving))' = Total(Room(Arriving)')
  BY DEF Total
<1> QED BY <1>9, <1>10, <1>11 DEF Counters, Counted

RoomAfter(room, gone, first, sum) ==
  [a \in Address |-> IF a = first THEN sum ELSE IF a \in gone THEN 0 ELSE room[a]]

\* The sum over the free blocks, when one comes in and its neighbours join.
Grows(room, p, b, n, L, R, gone, first, sz, sum) ==
  /\ room \in Rooms /\ b \in Address /\ sz \in Int /\ room[b] = 0
  /\ Meets(p, b, n, L, R, gone, first)
  /\ sum = (IF L THEN room[p] ELSE 0) + sz + (IF R THEN room[n] ELSE 0)
  /\ (L => p \in Address /\ p # b /\ p # n) /\ (R => n \in Address /\ n # b)

LEMMA JoinedRoom ==
  ASSUME NEW room, NEW p, NEW b, NEW n, NEW L, NEW R, NEW gone, NEW first, NEW sz, NEW sum,
         Grows(room, p, b, n, L, R, gone, first, sz, sum)
  PROVE  Total(RoomAfter(room, gone, first, sum)) = Total(room) + sz
<1> USE DEF Grows
<1> DEFINE one == IF R THEN [room EXCEPT ![n] = 0] ELSE room
           two == [one EXCEPT ![first] = sum]
<1> USE DEF Meets
<1>1. one \in Rooms /\ Total(one) = Total(room) - (IF R THEN room[n] ELSE 0) /\ Total(room) \in Int
  <2>1. Total(room) \in Int
    BY SumExists, TotalIs
  <2>2. CASE R
    <3>1. [room EXCEPT ![n] = 0] \in Rooms /\ Total([room EXCEPT ![n] = 0]) = Total(room) + 0 - room[n]
      BY <2>2, TotalChanges
    <3>2. room[n] \in Int
      BY <2>2 DEF Rooms
    <3> QED BY <2>1, <2>2, <3>1, <3>2
  <2>3. CASE ~R
    BY <2>1, <2>3
  <2> QED BY <2>2, <2>3
<1>2. first \in Address /\ (R => room[n] \in Int) /\ (L => room[p] \in Int) /\ sum \in Int
  BY DEF Rooms
<1>3. \A a \in Address : one[a] = IF R /\ a = n THEN 0 ELSE room[a]
  BY DEF Rooms
<1>4. one[first] = IF L THEN room[p] ELSE 0
  BY <1>2, <1>3
<1>5. two = [a \in Address |-> IF a = first THEN sum ELSE IF a \in gone THEN 0 ELSE room[a]]
  <2>1. DOMAIN one = Address
    BY <1>1 DEF Rooms
  <2> HIDE DEF one
  <2>2. \A a \in Address : two[a] = IF a = first THEN sum ELSE one[a]
    BY <2>1
  <2>3. \A a \in Address \ {first} : one[a] = IF a \in gone THEN 0 ELSE room[a]
    BY <1>2, <1>3
  <2>4. \A a \in Address : two[a] = IF a = first THEN sum ELSE IF a \in gone THEN 0 ELSE room[a]
    BY <2>2, <2>3
  <2>5. two = [a \in Address |-> two[a]]
    BY <2>1
  <2> HIDE DEF two
  <2> QED BY <2>4, <2>5
<1>6. Total(two) = Total(one) + sum - one[first]
  <2> HIDE DEF one
  <2> QED BY <1>1, <1>2, TotalChanges
<1> HIDE DEF one, two
<1>7. Total(two) = Total(room) + sz
  BY <1>1, <1>2, <1>4, <1>6
<1> QED BY <1>5, <1>7 DEF RoomAfter

LEMMA InsertCounted ==
  ASSUME CountInv, NEW c \in Caller, Insert(c)
  PROVE  Counters' /\ Counted'
<1> DEFINE p == call[c].at
           b == call[c].block
           n == next[p]
           L == p # Start /\ p + size[p] = b
           R == n # End /\ b + size[b] = n
           gone == (IF L THEN {b} ELSE {}) \cup (IF R THEN {n} ELSE {})
           first == IF L THEN p ELSE b
           sum == (IF L THEN size[p] ELSE 0) + size[b] + (IF R THEN size[n] ELSE 0)
           room == Room(free)
<1>00. Inserts(c, p, b, n, L, R, gone, first, sum)
  BY DEF Inserts, Meets
<1> HIDE DEF p, b, n, L, R, gone, first, sum
<1>0. /\ p = call[c].at /\ b = call[c].block /\ n = next[p]
      /\ L <=> (p # Start /\ p + size[p] = b)
      /\ R <=> (n # End /\ b + size[b] = n)
      /\ gone = (IF L THEN {b} ELSE {}) \cup (IF R THEN {n} ELSE {})
      /\ first = (IF L THEN p ELSE b)
      /\ sum = (IF L THEN size[p] ELSE 0) + size[b] + (IF R THEN size[n] ELSE 0)
      /\ Meets(p, b, n, L, R, gone, first)
  BY <1>00 DEF Inserts, Meets
<1>1. /\ call[c].pc = "insert" /\ b \in Pending /\ b \in Address \ (free \cup used)
      /\ L => p \in free /\ p # b /\ p # n
      /\ R => n \in free /\ n # b
      /\ call' = [call EXCEPT ![c] = Idle] /\ used' = used /\ bytes' = bytes /\ least' = least
      /\ Pending' = Pending \ {b} /\ free' = (free \cup {b}) \ gone /\ Blocks' = Blocks \ gone
      /\ first \in Address \ gone
      /\ size' = [a \in Address |->
                    CASE a = first -> sum [] a \in gone -> 0 [] OTHER -> size[a]]
  BY <1>00, InsertStep DEF CountInv
<1>2. HeapTypes /\ HeapTypes' /\ size[b] \in Int /\ free \subseteq Address /\ b \in Blocks
      /\ free \subseteq Blocks /\ Blocks \subseteq Address /\ size \in [Address -> Int]
  <2>1. IInv /\ HeapTypes /\ HeapTypes'
    BY InsertInv DEF CountInv, IInv
  <2>2. Blocks \subseteq Address
    BY <2>1 DEF IInv, HeapTypes, Pending, Blocks, Owned, Waiting
  <2> QED BY <1>1, <2>1, <2>2 DEF HeapTypes, Blocks
<1>3. Total(Room(Arriving)) = size[b] /\ Total(Room(Arriving)') = 0
  <2>1. Arriving = {b}
    BY <1>0, <1>1, OneArrives DEF CountInv, Insert, Runs
  <2>2. Arriving' = {}
    <3>1. \A d \in Caller \ {c} : call[d].pc # "insert"
      BY DEF Insert, Runs, Inside
    <3>2. \A d \in Caller : call'[d].pc # "insert"
      BY <1>1, <1>2, <3>1 DEF HeapTypes, Idle
    <3> QED BY <3>2 DEF Arriving
  <2>3. Room(Arriving)' = [a \in Address |-> 0]
    BY <2>2 DEF Room
  <2>4. [a \in Address |-> 0] \in Rooms
    BY DEF Rooms
  <2>5. Total([a \in Address |-> 0]) = 0
    BY <2>4, TotalOfNone
  <2>6. Total(Room({b})) = size[b]
    BY <1>1, <1>2, RoomOfOne
  <2> QED BY <2>1, <2>3, <2>5, <2>6
<1>4. /\ bytes \in Int /\ least \in Int /\ bytes = Total(Room(free)) + Total(Room(Arriving))
      /\ least <= bytes /\ Aligned
  BY DEF CountInv, Counters, Counted
<1>5. room \in Rooms /\ room[b] = 0 /\ (L => room[p] = size[p]) /\ (R => room[n] = size[n])
  BY <1>1, <1>2, RoomsAre DEF Room
<1>6. \A a \in Address : size'[a] = IF a = first THEN sum ELSE IF a \in gone THEN 0 ELSE size[a]
  BY <1>1
<1>7. Room(free)' = [a \in Address |-> IF a = first THEN sum ELSE IF a \in gone THEN 0 ELSE room[a]]
  <2>1. first \in free' /\ gone \cap free' = {} /\ (\A a \in Address : a # first /\ a \notin gone => a # b)
    BY <1>0, <1>1
  <2>2. ASSUME NEW a \in Address
        PROVE  (IF a \in free' THEN size'[a] ELSE 0)
                 = IF a = first THEN sum ELSE IF a \in gone THEN 0 ELSE room[a]
    <3>1. CASE a = first
      BY <1>6, <2>1, <3>1
    <3>2. CASE a # first /\ a \in gone
      BY <1>6, <2>1, <3>2
    <3>3. CASE a # first /\ a \notin gone
      BY <1>1, <1>6, <2>1, <3>3 DEF Room
    <3> QED BY <3>1, <3>2, <3>3
  <2> HIDE DEF room
  <2> QED BY <2>2 DEF Room
<1>8. Total(Room(free)') = Total(room) + size[b]
  <2>1. sum = (IF L THEN room[p] ELSE 0) + size[b] + (IF R THEN room[n] ELSE 0)
    BY <1>0, <1>5
  <2>2. (L => p \in Address /\ p # b /\ p # n) /\ (R => n \in Address /\ n # b)
    BY <1>1, <1>2
  <2>3. b \in Address
    BY <1>1
  <2> HIDE DEF room
  <2>4. room \in Rooms /\ room[b] = 0 /\ size[b] \in Int /\ Meets(p, b, n, L, R, gone, first)
    BY <1>0, <1>2, <1>5
  <2>5. Total(RoomAfter(room, gone, first, sum)) = Total(room) + size[b]
    <3>1. Grows(room, p, b, n, L, R, gone, first, size[b], sum)
      BY <2>1, <2>2, <2>3, <2>4 DEF Grows
    <3> QED BY <3>1, JoinedRoom
  <2> QED BY <1>7, <2>5 DEF RoomAfter
<1>9. Total(room) \in Int
  BY <1>5, SumExists, TotalIs
<1>10. bytes' = Total(Room(free)') + Total(Room(Arriving)')
  BY <1>1, <1>2, <1>3, <1>4, <1>8, <1>9
<1>11. Aligned'
  <2>1. \A a \in Blocks : a % Align = 0 /\ size[a] % Align = 0 /\ size[a] \in Int
    BY <1>2, <1>4 DEF Aligned
  <2>2. sum % Align = 0
    <3> DEFINE x == IF L THEN size[p] ELSE 0
               y == IF R THEN size[n] ELSE 0
               s == size[b]
    <3>1. x \in Int /\ x % Align = 0 /\ y \in Int /\ y % Align = 0 /\ s \in Int /\ s % Align = 0
      BY <1>1, <1>2, <2>1, HeapAssumption
    <3>2. sum = (x + s) + y
      BY <1>0
    <3> HIDE DEF x, y, s
    <3> DEFINE z == x + s
    <3>3. z \in Int /\ z % Align = 0
      BY <3>1, SumsDivide
    <3>4. sum = z + y
      BY <3>2
    <3> HIDE DEF z
    <3>5. (z + y) % Align = 0
      BY <3>1, <3>3, SumsDivide
    <3> QED BY <3>4, <3>5
  <2>3. ASSUME NEW a \in Blocks' PROVE a % Align = 0 /\ size'[a] % Align = 0
    BY <1>1, <1>2, <1>6, <2>1, <2>2, <2>3
  <2> QED BY <2>3 DEF Aligned
<1>12. Total(Room(free))' = Total(Room(free)') /\ Total(Room(Arriving))' = Total(Room(Arriving)')
  BY DEF Total
<1> QED BY <1>1, <1>4, <1>10, <1>11, <1>12 DEF Counters, Counted

LEMMA BeginPast == ASSUME CountInv, NEW c \in Caller, Begin(c) PROVE SearchPast'
<1>1. call[c].pc = "asked" /\ call[c].at = Start /\ call[c].asked \in Requests
  BY DEF Begin, CountInv, IInv, Walking, SearchPast
<1>2. call' = [call EXCEPT ![c].pc = IF Servable(call[c].asked) THEN "search" ELSE "failed"]
      /\ free' = free /\ size' = size
  BY DEF Begin
<1>3. \A b \in free : ~(b <= Start)
  BY Layout DEF CountInv, IInv, HeapTypes
<1>4. \A d \in Caller \ {c} : call'[d] = call[d]
  BY <1>2 DEF CountInv, IInv, HeapTypes
<1>5. /\ call'[c].at = Start /\ call'[c].asked = call[c].asked
      /\ call'[c].pc = IF Servable(call[c].asked) THEN "search" ELSE "failed"
  BY <1>1, <1>2 DEF CountInv, IInv, HeapTypes
<1> QED BY <1>1, <1>2, <1>3, <1>4, <1>5 DEF CountInv, SearchPast, Servable

LEMMA SearchGoesPast == ASSUME CountInv, NEW c \in Caller, Search(c) PROVE SearchPast'
<1> DEFINE p == call[c].at
           b == next[p]
<1>1. call[c].pc = "search" /\ size[b] < Wanted(call[c].asked) /\ p \in free \cup {Start}
  BY DEF Search, TooSmall, Candidate, CountInv, IInv, Walking, Inside
<1>2. b \in free /\ (\A a \in free : a <= b => a <= p \/ a = b)
  <2>1. b \in free
    BY <1>1 DEF Search, TooSmall, Candidate, CountInv, IInv, Tidy, Listed
  <2>2. p \in Int /\ b \in Int /\ \A a \in free : a \in Int /\ ~(p < a /\ a < b)
    BY <1>1, <2>1, Layout DEF CountInv, IInv, Tidy, Listed, HeapTypes
  <2> HIDE DEF p, b
  <2> QED BY <2>1, <2>2
<1>3. call' = [call EXCEPT ![c].at = b] /\ free' = free /\ size' = size
  BY DEF Search, Candidate
<1>4. \A d \in Caller \ {c} : call'[d] = call[d]
  BY <1>3 DEF CountInv, IInv, HeapTypes
<1>5. call'[c].at = b /\ call'[c].asked = call[c].asked /\ call'[c].pc = "search"
  BY <1>1, <1>3 DEF CountInv, IInv, HeapTypes
<1>6. /\ call[c].asked \in Requests /\ 2 * Wanted(call[c].asked) < Word
      /\ \A a \in free : a <= p => size[a] < Wanted(call[c].asked)
  BY <1>1 DEF CountInv, SearchPast
<1> HIDE DEF b
<1>7. \A a \in free : a <= b => size[a] < Wanted(call[c].asked)
  BY <1>1, <1>2, <1>6
<1> QED BY <1>3, <1>4, <1>5, <1>6, <1>7 DEF CountInv, SearchPast

LEMMA CountInvHolds == ASSUME CountInv, [Next]_vars PROVE CountInv'
<1>0. HeapTypes /\ IInv
  BY DEF CountInv, IInv
<1>00. IInv' /\ HeapTypes'
  BY <1>0, InvariantHolds DEF IInv
<1>1. ASSUME NEW c \in Caller, NEW n \in Requests, Malloc(c, n) PROVE CountInv'
  <2>1. UNCHANGED <<size, free, used, bytes, least>>
    BY <1>1 DEF Malloc
  <2>2. Arriving' = Arriving /\ Blocks' = Blocks
    BY <1>0, <1>1, <2>1 DEF Malloc, Idle, HeapTypes, Arriving, Blocks, Pending
  <2>3. SearchPast'
    BY <1>0, <1>1, <2>1 DEF Malloc, Idle, CountInv, SearchPast, HeapTypes
  <2> QED BY <1>00, <2>1, <2>2, <2>3, StayCounted DEF CountInv
<1>2. ASSUME NEW c \in Caller, NEW b \in used, Free(c, b) PROVE CountInv'
  <2>1. UNCHANGED <<size, free, bytes, least>> /\ used' = used \ {b}
    BY <1>2 DEF Free
  <2>2. Arriving' = Arriving /\ Pending' = Pending \cup {b}
    BY <1>0, <1>2 DEF Free, Idle, HeapTypes, Arriving, Pending
  <2>3. Blocks' = Blocks
    BY <2>1, <2>2 DEF Blocks
  <2>4. SearchPast'
    BY <1>0, <1>2, <2>1 DEF Free, Idle, CountInv, SearchPast, HeapTypes
  <2> QED BY <1>00, <2>1, <2>2, <2>3, <2>4, StayCounted DEF CountInv
<1>3. ASSUME NEW c \in Caller, Begin(c) PROVE CountInv'
  <2>1. Arriving' = Arriving /\ Blocks' = Blocks /\ UNCHANGED <<size, free, bytes, least>>
    BY <1>0, <1>3 DEF Begin, HeapTypes, Arriving, Blocks, Pending
  <2> QED BY <1>3, <1>00, <2>1, BeginPast, StayCounted DEF CountInv
<1>4. ASSUME NEW c \in Caller, Search(c) PROVE CountInv'
  <2>1. Arriving' = Arriving /\ Blocks' = Blocks /\ UNCHANGED <<size, free, bytes, least>>
    BY <1>0, <1>4 DEF Search, HeapTypes, Arriving, Blocks, Pending
  <2> QED BY <1>4, <1>00, <2>1, SearchGoesPast, StayCounted DEF CountInv
<1>5. ASSUME NEW c \in Caller, NotFound(c) \/ Hook(c) PROVE CountInv'
  <2>1. Arriving' = Arriving /\ Blocks' = Blocks /\ UNCHANGED <<size, free, bytes, least>>
    BY <1>0, <1>5 DEF NotFound, Hook, HeapTypes, Arriving, Blocks, Pending
  <2>2. SearchPast'
    BY <1>0, <1>5 DEF CountInv, SearchPast, HeapTypes, NotFound, Hook
  <2> QED BY <1>00, <2>1, <2>2, StayCounted DEF CountInv
<1>6. ASSUME NEW c \in Caller, Walk(c) PROVE CountInv'
  <2>1. Arriving' = Arriving /\ Blocks' = Blocks /\ UNCHANGED <<size, free, bytes, least>>
    BY <1>0, <1>6 DEF Walk, HeapTypes, Arriving, Blocks, Pending
  <2>2. SearchPast'
    BY <1>0, <1>6 DEF CountInv, SearchPast, HeapTypes, Walk
  <2> QED BY <1>00, <2>1, <2>2, StayCounted DEF CountInv
<1>7. ASSUME NEW c \in Caller, Account(c) PROVE CountInv'
  <2>1. SearchPast'
    BY <1>0, <1>7 DEF CountInv, SearchPast, HeapTypes, Account
  <2> QED BY <1>7, <1>00, <2>1, AccountCounted DEF CountInv
<1>8. ASSUME NEW c \in Caller, Take(c) \/ Insert(c) PROVE CountInv'
  <2>1. call' = [call EXCEPT ![c] = Idle] /\ \A d \in Caller \ {c} : ~Inside(d)
    BY <1>8 DEF Take, Insert, Runs
  <2>2. \A d \in Caller : /\ call'[d].pc # "search"
                          /\ call'[d].pc = "asked" => call'[d].asked \in Requests
    BY <1>0, <2>1 DEF CountInv, SearchPast, HeapTypes, Inside, Idle
  <2>3. SearchPast'
    BY <2>2 DEF SearchPast
  <2> QED BY <1>8, <1>00, <2>3, TakeCounted, InsertCounted DEF CountInv
<1>9. ASSUME UNCHANGED vars PROVE CountInv'
  BY <1>9, <1>00 DEF vars, CountInv, Counters, Counted, Aligned, Room, Arriving, Blocks, Pending, SearchPast
<1> QED BY <1>1, <1>2, <1>3, <1>4, <1>5, <1>6, <1>7, <1>8, <1>9 DEF Next, Proceed

LEMMA InitCounts == Init => CountInv
<1> SUFFICES ASSUME Init PROVE CountInv
  OBVIOUS
<1>1. IInv /\ HeapTypes
  BY InitInv DEF IInv
<1>2. free = {0} /\ size[0] = End /\ bytes = End /\ least = End /\ 0 \in Address /\ End \in Int
  BY Layout DEF Init
<1>3. Arriving = {} /\ Blocks = {0}
  BY DEF Init, Idle, Arriving, Blocks, Pending
<1>4. Total(Room(free)) = End
  <2>1. Total(Room({0})) = size[0]
    BY <1>1, <1>2, RoomOfOne
  <2> QED BY <1>2, <2>1
<1>5. Total(Room(Arriving)) = 0
  BY <1>1, <1>3, RoomOfNone
<1>6. Aligned
  BY <1>2, <1>3, HeapAssumption DEF Aligned
<1>7. SearchPast
  BY DEF Init, Idle, SearchPast
<1> QED BY <1>1, <1>2, <1>4, <1>5, <1>6, <1>7 DEF CountInv, Counters, Counted

THEOREM CountInvariance == Spec => []CountInv
  BY InitCounts, CountInvHolds, PTL DEF Spec

(* The number of free bytes that pvPortMalloc trusts before it searches,   *)
(* and lowers without looking, is always what the free blocks and the one  *)
(* on its way to them hold; no block ever loses its alignment.             *)
THEOREM StaysCounted == Spec => []Counted
<1>1. CountInv => Counted
  BY DEF CountInv
<1> QED BY <1>1, CountInvariance, PTL

-----------------------------------------------------------------------------
(* HeapContract.                                                           *)

Areas == {[from |-> b, len |-> size[b]] : b \in used \cup Pending}
Waits == [c \in Caller |-> Asks(c)]
Needs == [n \in Requests |-> IF 2 * Wanted(n) < Word THEN Wanted(n) ELSE 0]

\* A stretch that overlaps no block that is given away lies in a free one.
LEMMA FitsInFree ==
  ASSUME IInv, NEW i \in Int, NEW l \in Int, 0 <= i, 0 < l, i + l <= End,
         \A b \in used \cup Pending : i + l <= b \/ b + size[b] <= i
  PROVE  \E b \in free : b <= i /\ i + l <= b + size[b]
<1>1. /\ Blocks \subseteq Address /\ Tiles(Blocks, size) /\ Apart(free, size)
      /\ size \in [Address -> Int]
  BY TidyParts DEF IInv, HeapTypes, Pending, Blocks, Owned, Waiting
<1> DEFINE below == {i - b : b \in {x \in Blocks : x <= i}}
<1>2. \E b \in Blocks : b <= i /\ \A x \in Blocks : x <= i => x <= b
  <2>1. below \in SUBSET Nat /\ below # {}
    BY <1>1, Layout DEF Tiles
  <2> HIDE DEF below
  <2>2. PICK k \in below : \A j \in below : k <= j
    BY <2>1, LeastOf
  <2>3. PICK b \in Blocks : b <= i /\ k = i - b
    BY <2>2 DEF below
  <2>4. ASSUME NEW x \in Blocks, x <= i PROVE x <= b
    <3>1. i - x \in below
      BY <2>4 DEF below
    <3> QED BY <1>1, <2>2, <2>3, <3>1, Layout
  <2> QED BY <2>3, <2>4
<1>3. PICK b \in Blocks : b <= i /\ \A x \in Blocks : x <= i => x <= b
  BY <1>2
<1>4. b \in Int /\ size[b] \in Int /\ size[b] > 0 /\ b + size[b] \in Blocks \cup {End}
  BY <1>1, Layout DEF Tiles
<1>5. i < b + size[b]
  BY <1>3, <1>4, Layout
<1>6. b \in free
  BY <1>3, <1>4, <1>5, Layout DEF Blocks
<1>7. ASSUME ~(i + l <= b + size[b]) PROVE FALSE
  <2> DEFINE x == b + size[b]
  <2>1. x \in Int /\ i < x /\ x < i + l /\ x \in Blocks
    BY <1>4, <1>5, <1>7, Layout
  <2>2. x \notin free
    BY <1>1, <1>6 DEF Apart
  <2>3. size[x] \in Int /\ size[x] > 0 /\ x \in used \cup Pending
    BY <1>1, <2>1, <2>2 DEF Tiles, Blocks
  <2> HIDE DEF x
  <2> QED BY <2>1, <2>3
<1> QED BY <1>3, <1>6, <1>7

\* malloc gives up only if no free block is large enough.
LEMMA Refusing ==
  ASSUME CountInv, NEW c \in Caller, call'[c].pc = "failed",
         Begin(c) \/ NotFound(c)
  PROVE  LET w == Wanted(call[c].asked)
         IN  w = 0 \/ 2 * w >= Word \/ \A b \in free : size[b] < w
<1> DEFINE w == Wanted(call[c].asked)
<1>0. HeapTypes /\ call[c].asked \in Int /\ w \in Int /\ free \subseteq Address
  BY WantedIsInt DEF CountInv, IInv, HeapTypes
<1>1. CASE Begin(c)
  <2>1. ~Servable(call[c].asked)
    BY <1>0, <1>1 DEF Begin, HeapTypes
  <2>2. call[c].asked \in Nat
    BY <1>1, RequestsAreNat DEF Begin, CountInv, SearchPast
  <2>3. w >= 0
    BY <2>2, HeapAssumption DEF Wanted
  <2>4. SUFFICES ASSUME w > bytes PROVE \A b \in free : size[b] < w
    BY <1>0, <2>1, <2>3, HeapAssumption DEF Servable, CountInv, Counters
  <2>5. Room(free) \in Rooms /\ Room(Arriving) \in Rooms
    BY <1>0, RoomsAre
  <2>6. \A a \in Address : Room(free)[a] >= 0 /\ Room(Arriving)[a] >= 0
    <3>1. Arriving \subseteq Blocks /\ free \subseteq Blocks
      BY DEF Arriving, Pending, Blocks
    <3>2. \A b \in Blocks : size[b] > 0
      BY DEF CountInv, IInv, Tidy, Tiled
    <3> QED BY <1>0, <3>1, <3>2 DEF Room, HeapTypes
  <2>7. Total(Room(free)) <= bytes
    <3>1. Total(Room(Arriving)) >= 0
      BY <2>5, <2>6, TotalIsPositive
    <3>2. Total(Room(free)) \in Int /\ Total(Room(Arriving)) \in Int
      BY <2>5, SumExists, TotalIs
    <3> QED BY <3>1, <3>2 DEF CountInv, Counted, Counters
  <2>8. ASSUME NEW b \in free PROVE size[b] < w
    <3>1. Room(free)[b] <= Total(Room(free)) /\ Room(free)[b] = size[b] /\ size[b] \in Int
      <4>1. b \in Address
        BY <1>0
      <4>2. Room(free)[b] <= Total(Room(free))
        BY <2>5, <2>6, <4>1, TotalBounds
      <4> QED BY <1>0, <4>1, <4>2 DEF Room, HeapTypes
    <3>2. Total(Room(free)) \in Int /\ bytes \in Int
      BY <2>5, SumExists, TotalIs DEF CountInv, Counters
    <3> HIDE DEF w
    <3> QED BY <1>0, <2>4, <2>7, <3>1, <3>2
  <2> QED BY <2>8
<1>2. CASE NotFound(c)
  <2>1. call[c].pc = "search" /\ call[c].at \in free \cup {Start} /\ next[call[c].at] = End
    BY <1>2 DEF NotFound, Candidate, CountInv, IInv, Walking, Inside
  <2>2. \A b \in free : b <= call[c].at
    <3> DEFINE p == call[c].at
    <3>1. \A b \in free : ~(p < b /\ b < End)
      BY <2>1 DEF CountInv, IInv, Tidy, Listed
    <3>2. \A b \in free : b \in Int /\ b < End
      BY <1>0, Layout
    <3>3. p \in Int
      BY <1>0, <2>1, Layout
    <3> HIDE DEF p
    <3>4. \A b \in free : b <= p
      BY <3>1, <3>2, <3>3
    <3> QED BY <3>4 DEF p
  <2> QED BY <2>1, <2>2 DEF CountInv, SearchPast
<1> QED BY <1>1, <1>2

LEMMA WaitsChange ==
  ASSUME HeapTypes, HeapTypes', NEW c \in Caller, NEW v,
         \A d \in Caller \ {c} : call'[d] = call[d], Asks(c)' = v
  PROVE  Waits' = [Waits EXCEPT ![c] = v]
<1>1. \A d \in Caller \ {c} : Asks(d)' = Asks(d)
  BY DEF Asks
<1> QED BY <1>1 DEF Waits

LEMMA NoPlace ==
  ASSUME CountInv, NEW n \in Requests, Wanted(n) > 0, 2 * Wanted(n) < Word,
         \A b \in free : size[b] < Wanted(n)
  PROVE  \A a \in Contract!Places(Wanted(n)) : ~Contract!Fits(a)
<1> DEFINE w == Wanted(n)
<1>0. w \in Int /\ IInv /\ HeapTypes
  BY WantedIsInt, RequestsAreNat DEF CountInv, IInv
<1>1. SUFFICES ASSUME NEW i \in 0..End, Contract!Fits([from |-> i, len |-> w]) PROVE FALSE
  BY DEF Contract!Places
<1>2. i \in Int /\ 0 <= i /\ i + w <= End /\ \A b \in used \cup Pending : i + w <= b \/ b + size[b] <= i
  <2>1. i + w <= End /\ \A a \in Areas : Contract!Apart([from |-> i, len |-> w], a)
    BY <1>1 DEF Contract!Fits, Areas
  <2>2. ASSUME NEW b \in used \cup Pending PROVE i + w <= b \/ b + size[b] <= i
    <3>1. [from |-> b, len |-> size[b]] \in Areas
      BY DEF Areas
    <3>2. Contract!Apart([from |-> i, len |-> w], [from |-> b, len |-> size[b]])
      BY <2>1, <3>1
    <3> QED BY <3>2 DEF Contract!Apart
  <2> QED BY <2>1, <2>2, HeapAssumption
<1> HIDE DEF w
<1>3. 0 < w
  BY DEF w
<1>4. PICK b \in free : b <= i /\ i + w <= b + size[b]
  BY <1>0, <1>2, <1>3, FitsInFree
<1>5. b \in Int /\ size[b] \in Int /\ size[b] < w
  BY <1>0, Layout DEF HeapTypes, w
<1> QED BY <1>0, <1>2, <1>4, <1>5

LEMMA RefuseStep ==
  ASSUME CountInv, CountInv', NEW c \in Caller, call'[c].pc = "failed", Begin(c) \/ NotFound(c)
  PROVE  Contract!Refuse(c)
<1> DEFINE n == call[c].asked
<1>0. HeapTypes /\ HeapTypes'
  BY DEF CountInv, IInv
<1>1. /\ call[c].pc \in {"asked", "search"} /\ n \in Requests
      /\ \A d \in Caller \ {c} : call'[d] = call[d] /\ UNCHANGED <<size, used>>
  BY <1>0 DEF CountInv, SearchPast, Begin, NotFound, HeapTypes
<1>2. Asks(c) = n /\ Asks(c)' = -2
  BY <1>1 DEF Asks
<1>3. Waits' = [Waits EXCEPT ![c] = -2] /\ Waits[c] = n
  BY <1>0, <1>1, <1>2, WaitsChange DEF Waits
<1>4. Areas' = Areas
  BY <1>0 DEF Areas, Pending, Begin, NotFound, HeapTypes
<1>5. Wanted(n) \in Int /\ Wanted(n) >= 0
  <2>1. n \in Nat
    BY <1>1, RequestsAreNat
  <2> HIDE DEF n
  <2> QED BY <2>1, HeapAssumption DEF Wanted
<1>6. Needs[n] = 0 \/ \A a \in Contract!Places(Needs[n]) : ~Contract!Fits(a)
  <2>1. SUFFICES ASSUME Needs[n] # 0 PROVE \A a \in Contract!Places(Needs[n]) : ~Contract!Fits(a)
    OBVIOUS
  <2>2. Needs[n] = Wanted(n) /\ Wanted(n) > 0 /\ 2 * Wanted(n) < Word
    BY <1>1, <1>5, <2>1 DEF Needs
  <2>3. \A b \in free : size[b] < Wanted(n)
    BY <1>5, <2>2, Refusing, HeapAssumption
  <2> QED BY <1>1, <2>2, <2>3, NoPlace
<1> HIDE DEF n
<1>7. Contract!Refuses(n)
  BY <1>6 DEF Contract!Refuses, Needs
<1> QED BY <1>1, <1>3, <1>4, <1>7 DEF Contract!Refuse, Contract!Failed, Waits, Areas

LEMMA GrantStep ==
  ASSUME CountInv, CountInv', NEW c \in Caller, Take(c)
  PROVE  Contract!Grant(c)
<1> DEFINE b == next[call[c].at]
           w == Wanted(call[c].asked)
           l == size'[b]
           area == [from |-> b, len |-> l]
<1>1. /\ call[c].pc = "search" /\ b \in free /\ b \in Address \ (used \cup Pending)
      /\ w \in Int /\ 0 < w /\ w <= size[b]
      /\ call' = [call EXCEPT ![c] = Idle] /\ Pending' = Pending /\ used' = used \cup {b}
      /\ Cuts(b, w) =>
           /\ b + w \in Address \ Blocks
           /\ size' = [size EXCEPT ![b] = w, ![b + w] = size[b] - w]
      /\ ~Cuts(b, w) => size' = size
  BY TakeStep DEF CountInv
<1>2. HeapTypes /\ HeapTypes' /\ Tiles(Blocks, size)' /\ size \in [Address -> Int]
      /\ Blocks \subseteq Address /\ Blocks' \subseteq Address
      /\ used \cup Pending \subseteq Blocks /\ used' \cup Pending' \subseteq Blocks'
  BY DEF CountInv, IInv, HeapTypes, Tidy, Tiled, Tiles, Pending, Blocks, Owned, Waiting
<1>3. call[c].asked \in Requests /\ 2 * w < Word
  BY <1>1 DEF CountInv, SearchPast
<1>4. Waits' = [Waits EXCEPT ![c] = -1] /\ Waits[c] = call[c].asked
  <2>1. Asks(c)' = -1 /\ Asks(c) = call[c].asked /\ \A d \in Caller \ {c} : call'[d] = call[d]
    BY <1>1, <1>2 DEF Asks, HeapTypes, Idle
  <2> QED BY <1>2, <2>1, WaitsChange DEF Waits
<1> HIDE DEF b, w
<1>5. l \in Int /\ l >= w /\ b \in Int /\ \A x \in used \cup Pending : x # b /\ size'[x] = size[x]
  <2>1. b \in Int /\ size[b] \in Int
    BY <1>1, <1>2, Layout
  <2>2. CASE Cuts(b, w)
    <3> DEFINE r == b + w
    <3>1. r \in Address \ Blocks /\ r # b /\ size' = [size EXCEPT ![b] = w, ![r] = size[b] - w]
      BY <1>1, <2>1, <2>2
    <3> HIDE DEF r
    <3>2. size'[b] = w
      BY <1>1, <1>2, <3>1
    <3>3. ASSUME NEW x \in used \cup Pending PROVE x # b /\ size'[x] = size[x]
      <4>1. x \in Address /\ x # b /\ x # r
        BY <1>1, <1>2, <3>1
      <4> QED BY <1>2, <3>1, <4>1
    <3> QED BY <1>1, <2>1, <3>2, <3>3
  <2>3. CASE ~Cuts(b, w)
    BY <1>1, <1>2, <2>1, <2>3
  <2> QED BY <2>2, <2>3
<1> HIDE DEF l
<1>6. Areas' = Areas \cup {area}
  BY <1>1, <1>5 DEF Areas, l
<1>7. b >= 0 /\ b + l <= End /\ b \in Blocks'
  <2>1. b \in Blocks' /\ b >= 0
    BY <1>1, <1>2, Layout
  <2>2. b + size'[b] \in Blocks' \cup {End}
    BY <1>2, <2>1 DEF Tiles
  <2>3. b + size'[b] <= End
    <3> DEFINE e == b + size'[b]
    <3>1. e \in Address \cup {End}
      BY <1>2, <2>2
    <3> HIDE DEF e
    <3>2. e <= End
      BY <3>1, Layout
    <3> QED BY <3>2 DEF e
  <2> QED BY <2>1, <2>3 DEF l
<1>8. l \in 1..End /\ b \in 0..End /\ b % Align = 0
  BY <1>1, <1>5, <1>7, Layout DEF CountInv, Counted, Aligned
<1>9. Contract!Fits(area)
  <2>1. ASSUME NEW x \in used \cup Pending PROVE Contract!Apart(area, [from |-> x, len |-> size[x]])
    <3>1. x \in Blocks' /\ b \in Blocks' /\ x # b /\ size'[x] = size[x] /\ x \in Int /\ b \in Int
      BY <1>1, <1>2, <1>5, <1>7, Layout
    <3>2. (x < b => x + size'[x] <= b) /\ (b < x => b + size'[b] <= x)
      BY <1>2, <3>1 DEF Tiles
    <3>3. b + l <= x \/ x + size[x] <= b
      BY <3>1, <3>2 DEF l
    <3> QED BY <3>3 DEF Contract!Apart
  <2>2. \A a \in Areas : Contract!Apart(area, a)
    BY <2>1 DEF Areas
  <2> QED BY <1>7, <2>2 DEF Contract!Fits, Areas
<1>10. area \in Contract!Places(l)
  BY <1>8 DEF Contract!Places
<1>11. Needs[call[c].asked] = w
  BY <1>3 DEF Needs, w
<1> HIDE DEF area
<1> QED BY <1>1, <1>3, <1>4, <1>5, <1>6, <1>8, <1>9, <1>10, <1>11
        DEF Contract!Grant, Contract!None, Waits, Areas, Needs

LEMMA ReleaseStep ==
  ASSUME CountInv, NEW c \in Caller, Insert(c)
  PROVE  Contract!Release
<1> DEFINE p == call[c].at
           b == call[c].block
           n == next[p]
           L == p # Start /\ p + size[p] = b
           R == n # End /\ b + size[b] = n
           gone == (IF L THEN {b} ELSE {}) \cup (IF R THEN {n} ELSE {})
           first == IF L THEN p ELSE b
           sum == (IF L THEN size[p] ELSE 0) + size[b] + (IF R THEN size[n] ELSE 0)
           area == [from |-> b, len |-> size[b]]
<1>1. Inserts(c, p, b, n, L, R, gone, first, sum)
  BY DEF Inserts, Meets
<1> HIDE DEF p, n, L, R, gone, first, sum
<1>2. /\ call[c].pc = "insert" /\ b \in Pending /\ b \in Address \ (free \cup used)
      /\ L => p \in free
      /\ R => n \in free
      /\ call' = [call EXCEPT ![c] = Idle] /\ used' = used /\ Pending' = Pending \ {b}
      /\ size' = [a \in Address |->
                    CASE a = first -> sum [] a \in gone -> 0 [] OTHER -> size[a]]
  <2> HIDE DEF b
  <2> QED BY <1>1, InsertStep DEF CountInv
<1>3. /\ HeapTypes /\ HeapTypes' /\ free \cap (used \cup Pending) = {} /\ used \cup Pending \subseteq Address
  BY InsertInv DEF CountInv, IInv, HeapTypes, Pending, Owned, Waiting
<1>4. gone \subseteq {b} \cup free /\ first \in {b} \cup free
  BY <1>1, <1>2 DEF Inserts, Meets
<1>5. \A x \in (used \cup Pending) \ {b} : size'[x] = size[x]
  BY <1>2, <1>3, <1>4
<1>6. used' \cup Pending' = (used \cup Pending) \ {b}
  BY <1>2
<1>7. Areas' = Areas \ {area}
  <2> HIDE DEF b
  <2> QED BY <1>5, <1>6 DEF Areas
<1>8. area \in Areas
  BY <1>2 DEF Areas
<1>9. Waits' = Waits
  <2>1. Asks(c)' = -1 /\ Asks(c) = -1 /\ \A d \in Caller \ {c} : call'[d] = call[d]
    BY <1>2, <1>3 DEF Asks, HeapTypes, Idle
  <2> QED BY <1>3, <2>1, WaitsChange DEF Waits
<1> HIDE DEF area
<1> QED BY <1>7, <1>8, <1>9 DEF Contract!Release, Areas, Waits

\* What the other steps leave as it was.
LEMMA StutterStep ==
  ASSUME CountInv, CountInv', NEW c \in Caller,
         \/ Begin(c) /\ call'[c].pc # "failed"
         \/ Search(c) \/ Hook(c) \/ Account(c) \/ Walk(c)
         \/ \E b \in used : Free(c, b)
  PROVE  Areas' = Areas /\ Waits' = Waits
<1>0. HeapTypes /\ HeapTypes'
  BY DEF CountInv, IInv
<1>1. used' \cup Pending' = used \cup Pending /\ size' = size
  <2>1. CASE \E b \in used : Free(c, b)
    <3>1. PICK b \in used : Free(c, b)
      BY <2>1
    <3>2. Pending' = Pending \cup {b}
      BY <1>0, <3>1 DEF Free, Idle, HeapTypes, Pending
    <3> QED BY <3>1, <3>2 DEF Free
  <2>2. CASE Begin(c) \/ Search(c) \/ Hook(c) \/ Account(c) \/ Walk(c)
    BY <1>0, <2>2 DEF Begin, Search, Hook, Account, Walk, HeapTypes, Pending
  <2> QED BY <2>1, <2>2
<1>2. \A d \in Caller : Asks(d)' = Asks(d)
  <2>1. CASE \E b \in used : Free(c, b)
    <3>1. PICK b \in used : Free(c, b)
      BY <2>1
    <3>2. call[c].pc = "idle" /\ call'[c].pc = "unmarked" /\ \A d \in Caller \ {c} : call'[d] = call[d]
      BY <1>0, <3>1 DEF Free, Idle, HeapTypes
    <3> QED BY <3>2 DEF Asks
  <2>2. CASE Begin(c) /\ call'[c].pc # "failed"
    BY <1>0, <2>2 DEF Begin, HeapTypes, Asks
  <2>3. CASE Search(c) \/ Hook(c) \/ Account(c) \/ Walk(c)
    BY <1>0, <2>3 DEF Search, Hook, Account, Walk, HeapTypes, Asks
  <2> QED BY <2>1, <2>2, <2>3
<1> QED BY <1>1, <1>2 DEF Areas, Waits

LEMMA ContractStep ==
  ASSUME CountInv, CountInv', [Next]_vars
  PROVE  [Contract!ContractNext]_<<Areas, Waits>>
<1>0. HeapTypes /\ HeapTypes'
  BY DEF CountInv, IInv
<1>1. ASSUME NEW c \in Caller, NEW n \in Requests, Malloc(c, n) PROVE Contract!Ask(c)
  <2>1. Asks(c) = -1 /\ Asks(c)' = n /\ \A d \in Caller \ {c} : call'[d] = call[d]
    BY <1>0, <1>1 DEF Malloc, Idle, HeapTypes, Asks
  <2>2. Waits' = [Waits EXCEPT ![c] = n] /\ Waits[c] = -1
    BY <1>0, <2>1, WaitsChange DEF Waits
  <2>3. Areas' = Areas
    BY <1>0, <1>1 DEF Malloc, Idle, HeapTypes, Areas, Pending
  <2> QED BY <2>2, <2>3 DEF Contract!Ask, Contract!None, Areas, Waits
<1>2. ASSUME NEW c \in Caller, Begin(c), call'[c].pc = "failed" PROVE Contract!Refuse(c)
  BY <1>2, RefuseStep
<1>3. ASSUME NEW c \in Caller, NotFound(c) PROVE Contract!Refuse(c)
  <2>1. call'[c].pc = "failed"
    BY <1>0, <1>3 DEF NotFound, HeapTypes
  <2> QED BY <1>3, <2>1, RefuseStep
<1>4. ASSUME NEW c \in Caller, Take(c) PROVE Contract!Grant(c)
  BY <1>4, GrantStep
<1>5. ASSUME NEW c \in Caller, Insert(c) PROVE Contract!Release
  BY <1>5, ReleaseStep
<1>6. ASSUME UNCHANGED vars PROVE UNCHANGED <<Areas, Waits>>
  BY <1>6 DEF vars, Areas, Waits, Pending, Asks
<1> QED BY <1>1, <1>2, <1>3, <1>4, <1>5, <1>6, StutterStep DEF Next, Proceed, Contract!ContractNext

(* The allocator implements HeapContract: what it has given away never     *)
(* overlaps and is as long as was asked for, and it refuses a request only *)
(* if no aligned stretch that is not given away could take it - the first  *)
(* fit and the joining lose no room.                                       *)
THEOREM ImplementsContract == Spec => KeepsHeapContract
<1>1. Init => Areas = {} /\ Waits = [c \in Caller |-> -1]
  BY DEF Init, Idle, Areas, Pending, Waits, Asks
<1>2. CountInv /\ CountInv' /\ [Next]_vars => [Contract!ContractNext]_<<Areas, Waits>>
  BY ContractStep
<1>3. Init => /\ {[from |-> b, len |-> size[b]] : b \in used \cup Pending} = {}
              /\ [c \in Caller |-> Asks(c)] = [c \in Caller |-> Contract!None]
  BY <1>1 DEF Areas, Waits, Contract!None
<1>4. CountInv /\ CountInv' /\ [Next]_vars =>
        [Contract!ContractNext]_<<{[from |-> b, len |-> size[b]] : b \in used \cup Pending},
                                  [c \in Caller |-> Asks(c)]>>
  BY <1>2 DEF Areas, Waits
<1>5. Spec => /\ {[from |-> b, len |-> size[b]] : b \in used \cup Pending} = {}
              /\ [c \in Caller |-> Asks(c)] = [c \in Caller |-> Contract!None]
  BY <1>3, PTL DEF Spec
<1>6. Spec => [][Contract!ContractNext]_<<{[from |-> b, len |-> size[b]] : b \in used \cup Pending},
                                         [c \in Caller |-> Asks(c)]>>
  BY <1>4, CountInvariance, PTL DEF Spec
<1> QED BY <1>5, <1>6, PTL DEF KeepsHeapContract, Contract!ContractSpec

=============================================================================
