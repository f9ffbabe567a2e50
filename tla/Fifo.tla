-------------------------------- MODULE Fifo --------------------------------
(* What a queue promises its users: a bounded sequence of items.           *)
EXTENDS Naturals, Sequences

CONSTANTS Item, Capacity

VARIABLE items

PutLast == \E m \in Item :
  Len(items) < Capacity /\ items' = Append(items, m)

PutFirst == \E m \in Item :
  Len(items) < Capacity /\ items' = <<m>> \o items

\* xQueueOverwrite, for queues of one item
Overwrite == \E m \in Item : Capacity = 1 /\ items' = <<m>>

TakeFirst == items # <<>> /\ items' = Tail(items)

Clear == items' = <<>>

FifoSpec ==
  /\ items = <<>>
  /\ [][PutLast \/ PutFirst \/ Overwrite \/ TakeFirst \/ Clear]_items

=============================================================================
