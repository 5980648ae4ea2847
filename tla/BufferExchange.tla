--------------------------- MODULE BufferExchange ---------------------------
(***************************************************************************)
(* What a virtqueue promises to its two users, without rings, indices or   *)
(* cursors: Linux offers buffers, core1 takes them in the order they were  *)
(* offered, gives back any it holds with a length, and Linux gets exactly  *)
(* those back, in the order they were given back, each with its length.    *)
(* The contract in src/core1/rpmsg_vring.h:69-75.                          *)
(***************************************************************************)
EXTENDS Sequences, Naturals

CONSTANTS Desc, Lens

VARIABLES
    free,       \* buffers Linux may offer
    offered,    \* queue of buffers core1 may take
    taken,      \* buffers in core1's hands
    giving,     \* [id, len] of buffers core1 is giving back
    returned    \* queue of [id, len] Linux may reclaim

vars == <<free, offered, taken, giving, returned>>

Init ==
    /\ free = Desc
    /\ offered = <<>>
    /\ taken = {}
    /\ giving = {}
    /\ returned = <<>>

Offer(d) ==
    /\ d \in free
    /\ free' = free \ {d}
    /\ offered' = Append(offered, d)
    /\ UNCHANGED <<taken, giving, returned>>

Take ==
    /\ offered # <<>>
    /\ taken' = taken \union {Head(offered)}
    /\ offered' = Tail(offered)
    /\ UNCHANGED <<free, giving, returned>>

Give(d, len) ==
    /\ d \in taken
    /\ taken' = taken \ {d}
    /\ giving' = giving \union {[id |-> d, len |-> len]}
    /\ UNCHANGED <<free, offered, returned>>

Return(e) ==
    /\ e \in giving
    /\ giving' = giving \ {e}
    /\ returned' = Append(returned, e)
    /\ UNCHANGED <<free, offered, taken>>

Reclaim ==
    /\ returned # <<>>
    /\ free' = free \union {Head(returned).id}
    /\ returned' = Tail(returned)
    /\ UNCHANGED <<offered, taken, giving>>

Next ==
    \/ Take
    \/ Reclaim
    \/ \E d \in Desc : Offer(d)
    \/ \E d \in Desc, len \in Lens : Give(d, len)
    \/ \E e \in giving : Return(e)

Spec == Init /\ [][Next]_vars
=============================================================================
