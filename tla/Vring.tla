------------------------------- MODULE Vring -------------------------------
(***************************************************************************)
(* One split virtqueue shared by Linux, the virtio master, and core1, the  *)
(* slave (src/core1/rpmsg_vring.h, rpmsg_vring.c).                         *)
(*                                                                         *)
(* Linux offers a descriptor in the avail ring; core1 takes it with        *)
(* vring_get_avail, uses the buffer, and gives it back in the used ring    *)
(* with vring_put_used; Linux then reclaims it.  Both rings have NUM slots *)
(* and both indices are 16-bit counters that wrap (IDXMOD here).           *)
(*                                                                         *)
(* The two C functions take no lock.  They are therefore modelled one      *)
(* memory access at a time, for a set of Callers (tasks of core1) that may *)
(* be interrupted between any two of them.  The dmb in each function keeps *)
(* its accesses in program order, so program order is what a step sees.    *)
(***************************************************************************)
EXTENDS Integers, Sequences, FiniteSets

CONSTANTS
    NUM,        \* slots in each ring, and descriptors: VRING_NUM
    IDXMOD,     \* the 16-bit idx fields count modulo IDXMOD
    Lens,       \* the lengths core1 may report with a used buffer
    Callers     \* the tasks of core1 that call into this vring

ASSUME NumAssumption    == NUM \in Nat \ {0}
ASSUME IdxModAssumption == /\ IDXMOD \in Nat
                           /\ IDXMOD > NUM
                           /\ IDXMOD % NUM = 0

VARIABLES
    avail_idx,  \* struct vring_avail, written by Linux: the next slot ...
    avail_ring, \* ... and the descriptor in each slot
    used_idx,   \* struct vring_used, written by core1: the next slot ...
    used_ring,  \* ... and the [id, len] in each slot
    last_avail, \* core1's consumer cursor, shared by its tasks
    call,       \* per caller: where it is in a vring function, and its locals
    held,       \* per caller: descriptors taken and not yet given back
    free,       \* Linux: descriptors it may offer again
    last_used,  \* Linux: its cursor in the used ring
    broken      \* Linux: virtqueue_get_buf met an id it had not offered

core1Vars == <<used_idx, used_ring, last_avail, call, held>>
linuxVars == <<avail_idx, avail_ring, free, last_used, broken>>
vars      == <<core1Vars, linuxVars>>

Desc  == 0 .. NUM - 1
Slots == 0 .. NUM - 1
Idx   == 0 .. IDXMOD - 1
Elem  == [id : Desc, len : Lens]

\* Program points inside the two functions; "out" is between calls.
PCs == {"out", "ring", "load", "store", "id", "len", "publish"}

\* The slot of an index, and the next index of a 16-bit field.
Slot(i) == i % NUM
Next16(i) == (i + 1) % IDXMOD
\* How far index b is ahead of index a, whatever wrapped in between.
Ahead(a, b) == (b - a) % IDXMOD

TypeOK ==
    /\ avail_idx \in Idx
    /\ avail_ring \in [Slots -> Desc]
    /\ used_idx \in Idx
    /\ used_ring \in [Slots -> Elem]
    /\ last_avail \in Idx
    /\ call \in [Callers -> [pc : PCs, desc : Desc, idx : Idx, len : Lens]]
    /\ held \in [Callers -> SUBSET Desc]
    /\ free \in SUBSET Desc
    /\ last_used \in Idx
    /\ broken \in BOOLEAN

\* Linux has zeroed the vring and owns every descriptor; the handshake has
\* reset the cursor.
Init ==
    \E len0 \in Lens :
        /\ avail_idx = 0
        /\ avail_ring = [s \in Slots |-> 0]
        /\ used_idx = 0
        /\ used_ring = [s \in Slots |-> [id |-> 0, len |-> len0]]
        /\ last_avail = 0
        /\ call = [t \in Callers |->
                      [pc |-> "out", desc |-> 0, idx |-> 0, len |-> len0]]
        /\ held = [t \in Callers |-> {}]
        /\ free = Desc
        /\ last_used = 0
        /\ broken = FALSE
----------------------------------------------------------------------------
(* vring_get_avail *)

\* A mistake, for the mutation runs: the cursor is not advanced.
GetAvailNoAdvance(t) ==
    /\ call[t].pc = "store"
    /\ held' = [held EXCEPT ![t] = @ \union {call[t].desc}]
    /\ call' = [call EXCEPT ![t] = [@ EXCEPT !.pc = "out", !.desc = 0, !.idx = 0]]
    /\ UNCHANGED <<used_idx, used_ring, last_avail, linuxVars>>

\* A mistake, for the mutation runs: the cursor is the 32-bit variable it
\* once was (rpmsg_vring.c:12), and does not wrap with avail->idx.
GetAvail32(t) ==
    /\ call[t].pc = "store"
    /\ last_avail' = call[t].idx + 1
    /\ held' = [held EXCEPT ![t] = @ \union {call[t].desc}]
    /\ call' = [call EXCEPT ![t] = [@ EXCEPT !.pc = "out", !.desc = 0, !.idx = 0]]
    /\ UNCHANGED <<used_idx, used_ring, linuxVars>>

\* Reads avail->idx; an equal cursor means nothing new, and -1 is returned.
GetAvailCheck(t) ==
    /\ call[t].pc = "out"
    /\ last_avail # avail_idx
    /\ call' = [call EXCEPT ![t] = [@ EXCEPT !.pc = "ring"]]
    /\ UNCHANGED <<used_idx, used_ring, last_avail, held, linuxVars>>

GetAvailEmpty(t) ==
    /\ call[t].pc = "out"
    /\ last_avail = avail_idx
    /\ UNCHANGED vars

\* *desc_idx = avail->ring[*last_avail % num]
GetAvailRing(t) ==
    /\ call[t].pc = "ring"
    /\ call' = [call EXCEPT ![t] =
                    [@ EXCEPT !.pc = "load", !.desc = avail_ring[Slot(last_avail)]]]
    /\ UNCHANGED <<used_idx, used_ring, last_avail, held, linuxVars>>

\* (*last_avail)++ is a load and a store: the store through desc_idx, a
\* uint16_t too, forces the compiler to load the cursor again.
GetAvailLoad(t) ==
    /\ call[t].pc = "load"
    /\ call' = [call EXCEPT ![t] = [@ EXCEPT !.pc = "store", !.idx = last_avail]]
    /\ UNCHANGED <<used_idx, used_ring, last_avail, held, linuxVars>>

GetAvailStore(t) ==
    /\ call[t].pc = "store"
    /\ last_avail' = Next16(call[t].idx)
    /\ held' = [held EXCEPT ![t] = @ \union {call[t].desc}]
    /\ call' = [call EXCEPT ![t] = [@ EXCEPT !.pc = "out", !.desc = 0, !.idx = 0]]
    /\ UNCHANGED <<used_idx, used_ring, linuxVars>>

GetAvail(t) ==
    \/ GetAvailCheck(t)
    \/ GetAvailEmpty(t)
    \/ GetAvailRing(t)
    \/ GetAvailLoad(t)
    \/ GetAvailStore(t)
----------------------------------------------------------------------------
(* vring_put_used: its callers only pass a descriptor they hold. *)

\* Mistakes: idx published before the entry is written; len not written; idx
\* not published.
PutUsedPublishFirst(t, d, len) ==
    /\ call[t].pc = "out"
    /\ call' = [call EXCEPT ![t] = [pc |-> "id", desc |-> d, idx |-> used_idx, len |-> len]]
    /\ used_idx' = Next16(used_idx)
    /\ UNCHANGED <<used_ring, last_avail, held, linuxVars>>

PutUsedNoLen(t) ==
    /\ call[t].pc = "len"
    /\ call' = [call EXCEPT ![t] = [@ EXCEPT !.pc = "publish"]]
    /\ UNCHANGED <<used_idx, used_ring, last_avail, held, linuxVars>>

PutUsedRead(t, d, len) ==
    /\ call[t].pc = "out"
    /\ call' = [call EXCEPT ![t] = [pc |-> "id", desc |-> d, idx |-> used_idx, len |-> len]]
    /\ UNCHANGED <<used_idx, used_ring, last_avail, held, linuxVars>>

PutUsedId(t) ==
    /\ call[t].pc = "id"
    /\ used_ring' = [used_ring EXCEPT ![Slot(call[t].idx)] =
                          [@ EXCEPT !.id = call[t].desc]]
    /\ call' = [call EXCEPT ![t] = [@ EXCEPT !.pc = "len"]]
    /\ UNCHANGED <<used_idx, last_avail, held, linuxVars>>

PutUsedLen(t) ==
    /\ call[t].pc = "len"
    /\ used_ring' = [used_ring EXCEPT ![Slot(call[t].idx)] =
                          [@ EXCEPT !.len = call[t].len]]
    /\ call' = [call EXCEPT ![t] = [@ EXCEPT !.pc = "publish"]]
    /\ UNCHANGED <<used_idx, last_avail, held, linuxVars>>

PutUsedNoPublish(t) ==
    /\ call[t].pc = "publish"
    /\ held' = [held EXCEPT ![t] = @ \ {call[t].desc}]
    /\ call' = [call EXCEPT ![t] = [@ EXCEPT !.pc = "out", !.desc = 0, !.idx = 0]]
    /\ UNCHANGED <<used_idx, used_ring, last_avail, linuxVars>>

\* After the dmb: used->idx = used_idx + 1, stored in 16 bits.
PutUsedPublish(t) ==
    /\ call[t].pc = "publish"
    /\ used_idx' = Next16(call[t].idx)
    /\ held' = [held EXCEPT ![t] = @ \ {call[t].desc}]
    /\ call' = [call EXCEPT ![t] = [@ EXCEPT !.pc = "out", !.desc = 0, !.idx = 0]]
    /\ UNCHANGED <<used_ring, last_avail, linuxVars>>

PutUsed(t) ==
    \/ \E d \in held[t], len \in Lens : PutUsedRead(t, d, len)
    \/ PutUsedId(t)
    \/ PutUsedLen(t)
    \/ PutUsedPublish(t)
----------------------------------------------------------------------------
(* Linux's virtio driver (external): virtqueue_add and virtqueue_get_buf.  *)
(* Each is one step: Linux's own barriers order it, and core1 looks at a   *)
(* slot only after the index that covers it has moved.                     *)

LinuxOffer(d) ==
    /\ ~broken
    /\ d \in free
    /\ avail_ring' = [avail_ring EXCEPT ![Slot(avail_idx)] = d]
    /\ avail_idx' = Next16(avail_idx)
    /\ free' = free \ {d}
    /\ UNCHANGED <<core1Vars, last_used, broken>>

LinuxReclaim ==
    /\ ~broken
    /\ last_used # used_idx
    /\ LET id == used_ring[Slot(last_used)].id
       IN  IF id \in free
             THEN broken' = TRUE /\ UNCHANGED <<free, last_used>>
             ELSE /\ free' = free \union {id}
                  /\ last_used' = Next16(last_used)
                  /\ UNCHANGED broken
    /\ UNCHANGED <<core1Vars, avail_idx, avail_ring>>

Core1(t) == GetAvail(t) \/ PutUsed(t)

Linux == LinuxReclaim \/ \E d \in Desc : LinuxOffer(d)

Next == Linux \/ \E t \in Callers : Core1(t)

Spec == Init /\ [][Next]_vars
----------------------------------------------------------------------------
(* What the two rings contain.                                             *)

\* The descriptors Linux has offered and core1 has not taken, oldest first.
Offered ==
    [k \in 1 .. Ahead(last_avail, avail_idx) |->
        avail_ring[Slot((last_avail + k - 1) % IDXMOD)]]

\* The used entries core1 has published and Linux has not reclaimed.
Returned ==
    [k \in 1 .. Ahead(last_used, used_idx) |->
        used_ring[Slot((last_used + k - 1) % IDXMOD)]]

OfferedDesc  == {Offered[k] : k \in DOMAIN Offered}
ReturnedDesc == {Returned[k].id : k \in DOMAIN Returned}
HeldDesc     == UNION {held[t] : t \in Callers}

\* What the callers inside vring_put_used are giving back.
Giving == {[id |-> call[t].desc, len |-> call[t].len] :
              t \in {u \in Callers : call[u].pc \in {"id", "len", "publish"}}}

(* A descriptor is in one hand at a time: free in Linux, waiting in the    *)
(* avail ring, held by one task of core1, or waiting in the used ring; it  *)
(* is there once; and none is lost.  This is what the wrap of the 16-bit   *)
(* cursors (rpmsg_vring.c:22, 31) and of the slots (28, 41) must preserve. *)
DescriptorExclusive ==
    /\ free \intersect OfferedDesc = {}
    /\ free \intersect HeldDesc = {}
    /\ free \intersect ReturnedDesc = {}
    /\ OfferedDesc \intersect HeldDesc = {}
    /\ OfferedDesc \intersect ReturnedDesc = {}
    /\ HeldDesc \intersect ReturnedDesc = {}
    /\ free \union OfferedDesc \union HeldDesc \union ReturnedDesc = Desc
    /\ Cardinality(OfferedDesc) = Len(Offered)
    /\ Cardinality(ReturnedDesc) = Len(Returned)

(* Linux never finds in the used ring an id it did not offer, which would  *)
(* make virtio declare the ring broken and stop the channel for good.      *)
RingNotBroken == ~broken

\* The exchange of buffers the ring is meant to be.
Exchange == INSTANCE BufferExchange
    WITH offered <- Offered,
         taken <- HeldDesc \ {e.id : e \in Giving},
         giving <- Giving,
         returned <- Returned

(* Every step of the ring is a step of BufferExchange or invisible to its  *)
(* users: first in, first out in both directions, no entry read before it  *)
(* is written (the order of rpmsg_vring.c:41-44), none with another's len. *)
ImplementsExchange == Exchange!Spec
============================================================================
