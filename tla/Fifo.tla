-------------------------------- MODULE Fifo --------------------------------
(***************************************************************************)
(* What queue.h promises: the items of a queue come out in the order they  *)
(* are in, a sender puts one at the back or at the front, no more than     *)
(* Length of them at a time.                                               *)
(***************************************************************************)
EXTENDS Naturals, Sequences

CONSTANTS Item, Length

VARIABLE items

Init == items = <<>>

SendToBack(i)  == Len(items) < Length /\ items' = Append(items, i)
SendToFront(i) == Len(items) < Length /\ items' = <<i>> \o items
Overwrite(i)   == Length = 1 /\ items' = <<i>>
Receive        == items # <<>> /\ items' = Tail(items)

Next ==
    \/ \E i \in Item : SendToBack(i) \/ SendToFront(i) \/ Overwrite(i)
    \/ Receive

Spec == Init /\ [][Next]_items
=============================================================================
