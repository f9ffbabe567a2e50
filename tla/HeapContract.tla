----------------------------- MODULE HeapContract -----------------------------
(* What an allocator promises: the areas it has given away never overlap,  *)
(* are as long as asked for, and it refuses only what has nowhere to go.   *)
EXTENDS Integers

CONSTANTS Caller, Limit, Align, Requests,
          Need           \* room a request takes, 0 if it is never served

VARIABLES
  areas,   \* what is given away: [from, len]
  asks     \* the request each caller waits for; None, Failed
None == -1
Failed == -2

Apart(a, b) == a.from + a.len <= b.from \/ b.from + b.len <= a.from
Fits(a) == a.from >= 0 /\ a.from + a.len <= Limit /\ \A b \in areas : Apart(a, b)
Places(len) == {[from |-> i, len |-> len] : i \in {j \in 0..Limit : j % Align = 0}}

Ask(c) == \E n \in Requests :
  asks[c] = None /\ asks' = [asks EXCEPT ![c] = n] /\ UNCHANGED areas

Grant(c) == \E l \in 1..Limit : \E a \in Places(l) :
  /\ asks[c] \in Requests /\ Need[asks[c]] > 0 /\ l >= Need[asks[c]] /\ Fits(a)
  /\ areas' = areas \cup {a}
  /\ asks' = [asks EXCEPT ![c] = None]

Refuses(n) == Need[n] = 0 \/ \A a \in Places(Need[n]) : ~Fits(a)

Refuse(c) ==
  /\ asks[c] \in Requests /\ Refuses(asks[c])
  /\ asks' = [asks EXCEPT ![c] = Failed] /\ UNCHANGED areas

Release == \E a \in areas : areas' = areas \ {a} /\ UNCHANGED asks

ContractNext == Release \/ \E c \in Caller : Ask(c) \/ Grant(c) \/ Refuse(c)

ContractSpec ==
  /\ areas = {} /\ asks = [c \in Caller |-> None]
  /\ [][ContractNext]_<<areas, asks>>

=============================================================================
