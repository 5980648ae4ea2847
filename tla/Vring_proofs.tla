---------------------------- MODULE Vring_proofs ----------------------------
(* Theorems about Vring, for every ring size, index width and set of       *)
(* lengths: the types for any set of callers; that a descriptor is in one  *)
(* hand and the implementation of BufferExchange for one caller.           *)
EXTENDS Vring, FiniteSetTheorems, SequenceTheorems, TLAPS

\* A slot number is a slot, and a 16-bit successor is a 16-bit index.
LEMMA IndexArithmetic ==
    /\ \A i \in Idx : Slot(i) \in Slots
    /\ \A i \in Idx : Next16(i) \in Idx
    /\ 0 \in Idx
    /\ 0 \in Slots
BY NumAssumption, IdxModAssumption, SMT DEF Idx, Slots, Slot, Next16

\* The rings, cursors and locals keep their types at every step a caller may
\* take, even if it gave back a descriptor it does not hold.
LEMMA TypeKept ==
    ASSUME TypeOK,
           \/ Linux
           \/ \E t \in Callers :
                 \/ GetAvail(t) \/ PutUsedId(t) \/ PutUsedLen(t) \/ PutUsedPublish(t)
                 \/ \E d \in Desc, len \in Lens : PutUsedRead(t, d, len)
           \/ UNCHANGED vars
    PROVE  TypeOK'
<1> USE IndexArithmetic DEF TypeOK
<1>1. ASSUME NEW t \in Callers, GetAvail(t)
      PROVE  TypeOK'
  <2>1. CASE GetAvailCheck(t)
    BY <2>1 DEF GetAvailCheck, linuxVars, PCs
  <2>2. CASE GetAvailEmpty(t)
    BY <2>2 DEF GetAvailEmpty, vars, core1Vars, linuxVars
  <2>3. CASE GetAvailRing(t)
    BY <2>3 DEF GetAvailRing, linuxVars, PCs
  <2>4. CASE GetAvailLoad(t)
    BY <2>4 DEF GetAvailLoad, linuxVars, PCs
  <2>5. CASE GetAvailStore(t)
    BY <2>5 DEF GetAvailStore, linuxVars, PCs, Desc, Slots
  <2> QED
    BY <1>1, <2>1, <2>2, <2>3, <2>4, <2>5 DEF GetAvail
<1>2. ASSUME NEW t \in Callers, NEW d \in Desc, NEW len \in Lens, PutUsedRead(t, d, len)
      PROVE  TypeOK'
  BY <1>2 DEF PutUsedRead, linuxVars, PCs
<1>3. ASSUME NEW t \in Callers, PutUsedId(t)
      PROVE  TypeOK'
  BY <1>3 DEF PutUsedId, linuxVars, PCs, Elem
<1>4. ASSUME NEW t \in Callers, PutUsedLen(t)
      PROVE  TypeOK'
  BY <1>4 DEF PutUsedLen, linuxVars, PCs, Elem
<1>5. ASSUME NEW t \in Callers, PutUsedPublish(t)
      PROVE  TypeOK'
  BY <1>5 DEF PutUsedPublish, linuxVars, PCs, Desc, Slots
<1>6. ASSUME NEW d \in Desc, LinuxOffer(d)
      PROVE  TypeOK'
  BY <1>6 DEF LinuxOffer, core1Vars
<1>7. CASE LinuxReclaim
  <2>1. used_ring[Slot(last_used)].id \in Desc
    BY DEF Elem
  <2> QED
    BY <1>7, <2>1 DEF LinuxReclaim, core1Vars
<1>8. CASE UNCHANGED vars
  BY <1>8 DEF vars, core1Vars, linuxVars
<1> HIDE DEF TypeOK
<1> QED
  BY <1>1, <1>2, <1>3, <1>4, <1>5, <1>6, <1>7, <1>8 DEF Linux

\* The rings, cursors and locals keep the types of rpmsg_vring.h:42-64,
\* however the callers interleave inside vring_get_avail and vring_put_used.
THEOREM TypeCorrect == Spec => []TypeOK
<1>1. ASSUME Init PROVE TypeOK
  <2>1. PICK len0 \in Lens :
            /\ used_ring = [s \in Slots |-> [id |-> 0, len |-> len0]]
            /\ call = [t \in Callers |->
                          [pc |-> "out", desc |-> 0, idx |-> 0, len |-> len0]]
    BY <1>1 DEF Init
  <2>2. 0 \in Desc
    BY IndexArithmetic DEF Desc, Slots
  <2>3. used_ring \in [Slots -> Elem]
    BY <2>1, <2>2 DEF Elem
  <2>4. call \in [Callers -> [pc : PCs, desc : Desc, idx : Idx, len : Lens]]
    BY <2>1, <2>2, IndexArithmetic DEF PCs
  <2>5. /\ avail_idx \in Idx
        /\ avail_ring \in [Slots -> Desc]
        /\ used_idx \in Idx
        /\ last_avail \in Idx
        /\ held \in [Callers -> SUBSET Desc]
        /\ free \in SUBSET Desc
        /\ last_used \in Idx
        /\ broken \in BOOLEAN
    BY <1>1, <2>2, IndexArithmetic DEF Init
  <2> QED
    BY <2>3, <2>4, <2>5 DEF TypeOK
<1>2. TypeOK /\ [Next]_vars => TypeOK'
  <2> SUFFICES ASSUME TypeOK, [Next]_vars
               PROVE  TypeOK'
    OBVIOUS
  <2>1. ASSUME NEW t \in Callers, PutUsed(t)
        PROVE  \/ PutUsedId(t) \/ PutUsedLen(t) \/ PutUsedPublish(t)
               \/ \E d \in Desc, len \in Lens : PutUsedRead(t, d, len)
    BY <2>1 DEF PutUsed, TypeOK
  <2> QED
    BY <2>1, TypeKept DEF Next, Core1
<1> QED
  BY <1>1, <1>2, PTL DEF Spec
-----------------------------------------------------------------------------
(* The arithmetic of indices and slots.                                    *)
At(i, k) == (i + k) % IDXMOD

\* A remainder is told by any quotient that fits.
LEMMA Remainder ==
    ASSUME NEW a \in Nat, NEW q \in Int, NEW r \in Slots, a = NUM * q + r
    PROVE  a % NUM = r
  BY NumAssumption, SMTT(20) DEF Slots

LEMMA AtIs ==
    ASSUME NEW i \in Idx, NEW k \in Nat, k < IDXMOD
    PROVE  /\ At(i, k) \in Idx
           /\ i + k < IDXMOD => At(i, k) = i + k
           /\ i + k >= IDXMOD => At(i, k) = i + k - IDXMOD
  BY NumAssumption, IdxModAssumption, SMTT(20) DEF At, Idx

LEMMA AheadIs ==
    ASSUME NEW a \in Idx, NEW b \in Idx
    PROVE  /\ Ahead(a, b) \in Nat /\ Ahead(a, b) < IDXMOD
           /\ b >= a => Ahead(a, b) = b - a
           /\ b < a => Ahead(a, b) = b - a + IDXMOD
  BY NumAssumption, IdxModAssumption, SMTT(20) DEF Ahead, Idx

LEMMA NextIs ==
    ASSUME NEW i \in Idx
    PROVE  /\ Next16(i) \in Idx
           /\ i + 1 < IDXMOD => Next16(i) = i + 1
           /\ i + 1 = IDXMOD => Next16(i) = 0
  BY NumAssumption, IdxModAssumption, SMTT(20) DEF Next16, Idx

\* The consumer's index and the distance give the producer's; a push adds
\* one to the distance and a pop takes one away, wrapped or not.
LEMMA Distance ==
    ASSUME NEW a \in Idx, NEW b \in Idx
    PROVE  /\ At(a, Ahead(a, b)) = b
           /\ At(a, 0) = a
           /\ Ahead(a, b) = 0 <=> a = b
           /\ Ahead(a, b) + 1 < IDXMOD => Ahead(a, Next16(b)) = Ahead(a, b) + 1
           /\ a # b => Ahead(Next16(a), b) = Ahead(a, b) - 1
<1>1. IDXMOD \in Nat /\ IDXMOD > 0 /\ a \in Int /\ b \in Int /\ 0 <= a /\ 0 <= b
      /\ a < IDXMOD /\ b < IDXMOD
  BY NumAssumption, IdxModAssumption DEF Idx
<1>2. Next16(a) \in Idx /\ Next16(b) \in Idx
  BY NextIs
<1>3. At(a, Ahead(a, b)) = b
  <2> DEFINE d == Ahead(a, b)
  <2>1. d \in Nat /\ d < IDXMOD /\ (b >= a => d = b - a) /\ (b < a => d = b - a + IDXMOD)
    BY AheadIs
  <2> HIDE DEF d
  <2>2. (a + d < IDXMOD => At(a, d) = a + d) /\ (a + d >= IDXMOD => At(a, d) = a + d - IDXMOD)
    BY <2>1, AtIs
  <2>3. At(a, d) = b
    BY <1>1, <2>1, <2>2
  <2> QED
    BY <2>3 DEF d
<1>4. At(a, 0) = a /\ (Ahead(a, b) = 0 <=> a = b)
  <2>1. 0 \in Nat /\ 0 < IDXMOD /\ a + 0 = a
    BY <1>1
  <2>2. At(a, 0) = a
    BY <1>1, <2>1, AtIs
  <2>3. Ahead(a, b) = 0 <=> a = b
    BY <1>1, AheadIs
  <2> QED
    BY <2>2, <2>3
<1>5. Ahead(a, b) + 1 < IDXMOD => Ahead(a, Next16(b)) = Ahead(a, b) + 1
  BY <1>1, <1>2, AheadIs, NextIs
<1>6. a # b => Ahead(Next16(a), b) = Ahead(a, b) - 1
  BY <1>1, <1>2, AheadIs, NextIs
<1> QED
  BY <1>3, <1>4, <1>5, <1>6

\* IDXMOD is a multiple of NUM, so the wrap of the index is not seen in the
\* slot.
LEMMA SlotAt ==
    ASSUME NEW i \in Idx, NEW k \in Nat, k < IDXMOD
    PROVE  Slot(At(i, k)) = (i + k) % NUM /\ Slot(At(i, k)) \in Slots
<1>1. /\ NUM \in Nat /\ NUM > 0 /\ IDXMOD \in Nat /\ i \in Nat
      /\ At(i, k) \in Nat
  BY AtIs, NumAssumption, IdxModAssumption DEF Idx
<1>2. Slot(At(i, k)) \in Slots
  BY AtIs, IndexArithmetic
<1>3. CASE i + k < IDXMOD
  BY <1>2, <1>3, AtIs DEF Slot
<1>4. CASE i + k >= IDXMOD
  <2> DEFINE y == i + k - IDXMOD
  <2>1. y \in Nat /\ At(i, k) = y
    BY <1>1, <1>4, AtIs
  <2>2. y = NUM * (y \div NUM) + (y % NUM) /\ y \div NUM \in Int /\ y % NUM \in Slots
    BY <1>1, <2>1, SMTT(20) DEF Slots
  <2>3. IDXMOD = NUM * (IDXMOD \div NUM) /\ IDXMOD \div NUM \in Int
    BY <1>1, IdxModAssumption, SMTT(20)
  <2>4. ASSUME NEW p \in Int, NEW q \in Int
        PROVE  NUM * p + NUM * q = NUM * (p + q)
    BY <1>1, SMTT(20)
  <2>5. i + k = NUM * (y \div NUM + IDXMOD \div NUM) + (y % NUM)
    <3> DEFINE p == y \div NUM
               q == IDXMOD \div NUM
               r == y % NUM
    <3>1. /\ p \in Int /\ q \in Int /\ r \in Int
          /\ y = NUM * p + r /\ IDXMOD = NUM * q /\ i + k = y + IDXMOD
      BY <1>1, <2>2, <2>3 DEF Slots
    <3>2. NUM * p + NUM * q = NUM * (p + q)
      BY <3>1, <2>4
    <3>3. NUM * p \in Int /\ NUM * q \in Int
      BY <3>1, <1>1
    <3> HIDE DEF p, q, r, y
    <3>4. i + k = NUM * (p + q) + r
      BY <3>1, <3>2, <3>3
    <3> QED BY <3>4 DEF p, q, r
  <2>6. (i + k) % NUM = y % NUM
    <3> DEFINE q == y \div NUM + IDXMOD \div NUM
               r == y % NUM
    <3>1. q \in Int /\ r \in Slots /\ i + k \in Nat /\ i + k = NUM * q + r
      BY <1>1, <2>2, <2>3, <2>5
    <3> HIDE DEF q, r
    <3>2. (i + k) % NUM = r
      BY <3>1, Remainder
    <3> QED BY <3>2 DEF r
  <2> QED
    BY <1>2, <2>1, <2>6 DEF Slot
<1> QED
  BY <1>1, <1>3, <1>4, IdxModAssumption

\* Fewer than NUM apart, two places of a ring are two slots.
LEMMA SlotsDiffer ==
    ASSUME NEW i \in Idx, NEW k \in 0 .. NUM - 1, NEW l \in 0 .. NUM - 1, k # l
    PROVE  Slot(At(i, k)) # Slot(At(i, l))
<1>1. ASSUME NEW x \in Nat, NEW y \in Nat, x < y, y < x + NUM
      PROVE  x % NUM # y % NUM
  <2>1. /\ x = NUM * (x \div NUM) + (x % NUM) /\ x \div NUM \in Int
        /\ y = NUM * (y \div NUM) + (y % NUM) /\ y \div NUM \in Int
        /\ x % NUM \in Slots /\ y % NUM \in Slots
    BY NumAssumption, SMTT(20) DEF Slots
  <2> DEFINE p == x \div NUM
             q == y \div NUM
             r == x % NUM
  <2> SUFFICES ASSUME x % NUM = y % NUM PROVE FALSE
    OBVIOUS
  <2>2. x = NUM * p + r /\ y = NUM * q + r /\ p \in Int /\ q \in Int /\ r \in Int
    BY <2>1 DEF Slots
  <2> HIDE DEF p, q, r
  <2>3. NUM * p \in Int /\ NUM * q \in Int
    BY <2>2, NumAssumption
  <2>4. NUM * q > NUM * p /\ NUM * q < NUM * p + NUM
    BY <1>1, <2>2, <2>3, NumAssumption
  <2>5. NUM * p + NUM = NUM * (p + 1)
    BY <2>2, NumAssumption, SMTT(20)
  <2>6. p >= q => NUM * p >= NUM * q
    BY <2>2, NumAssumption, SMTT(20)
  <2>7. q >= p + 1 => NUM * q >= NUM * (p + 1)
    BY <2>2, NumAssumption, SMTT(20)
  <2> QED
    BY <2>2, <2>3, <2>4, <2>5, <2>6, <2>7, NumAssumption
<1>2. /\ NUM \in Nat /\ i \in Nat /\ k \in Nat /\ l \in Nat
      /\ k < NUM /\ l < NUM /\ k < IDXMOD /\ l < IDXMOD
  BY NumAssumption, IdxModAssumption DEF Idx
<1>3. Slot(At(i, k)) = (i + k) % NUM /\ Slot(At(i, l)) = (i + l) % NUM
  BY <1>2, SlotAt
<1>4. CASE k < l
  <2>1. i + k \in Nat /\ i + l \in Nat /\ i + k < i + l /\ i + l < (i + k) + NUM
    BY <1>2, <1>4
  <2>2. (i + k) % NUM # (i + l) % NUM
    BY <1>1, <2>1
  <2> QED
    BY <1>3, <2>2
<1>5. CASE l < k
  <2>1. i + l \in Nat /\ i + k \in Nat /\ i + l < i + k /\ i + k < (i + l) + NUM
    BY <1>2, <1>5
  <2>2. (i + l) % NUM # (i + k) % NUM
    BY <1>1, <2>1
  <2> QED
    BY <1>3, <2>2
<1> QED
  BY <1>2, <1>4, <1>5
-----------------------------------------------------------------------------
(* Where the descriptors are, with one caller: the places of the rings that*)
(* are in use, counted from the consumer's index.                          *)
Entry(ring, i, k) == ring[Slot(At(i, k))]

Waiting == Ahead(last_avail, avail_idx)
Done    == Ahead(last_used, used_idx)

InAvail(d) == \E k \in 0 .. Waiting - 1 : Entry(avail_ring, last_avail, k) = d
InUsed(d)  == \E k \in 0 .. Done - 1 : Entry(used_ring, last_used, k).id = d
Held(d)    == \E t \in Callers : d \in held[t]

Bounded == Waiting <= NUM /\ Done <= NUM

Once ==
    /\ \A k, l \in 0 .. Waiting - 1 :
          Entry(avail_ring, last_avail, k) = Entry(avail_ring, last_avail, l) => k = l
    /\ \A k, l \in 0 .. Done - 1 :
          Entry(used_ring, last_used, k).id = Entry(used_ring, last_used, l).id => k = l

OneHand ==
    \A d \in Desc :
        /\ d \in free \/ InAvail(d) \/ Held(d) \/ InUsed(d)
        /\ d \in free => ~InAvail(d) /\ ~Held(d) /\ ~InUsed(d)
        /\ InAvail(d) => ~Held(d) /\ ~InUsed(d)
        /\ Held(d) => ~InUsed(d)

\* What a caller has read is still so, and what it has written is there.
CallInv ==
    \A t \in Callers :
        /\ call[t].pc \in {"ring", "load", "store"} => last_avail # avail_idx
        /\ call[t].pc \in {"load", "store"} =>
              call[t].desc = Entry(avail_ring, last_avail, 0)
        /\ call[t].pc = "store" => call[t].idx = last_avail
        /\ call[t].pc \in {"id", "len", "publish"} =>
              call[t].desc \in held[t] /\ call[t].idx = used_idx
        /\ call[t].pc \in {"len", "publish"} =>
              used_ring[Slot(used_idx)].id = call[t].desc
        /\ call[t].pc = "publish" => used_ring[Slot(used_idx)].len = call[t].len

Hands == Bounded /\ Once /\ OneHand

RingInv == TypeOK /\ Hands /\ CallInv /\ ~broken

\* Distinct descriptors of which one is left over do not fill a ring.
LEMMA Pigeons ==
    ASSUME NEW n \in Nat, NEW g \in [0 .. n - 1 -> Desc], NEW d \in Desc,
           \A k, l \in 0 .. n - 1 : g[k] = g[l] => k = l,
           \A k \in 0 .. n - 1 : g[k] # d
    PROVE  n < NUM
<1> SUFFICES ASSUME n >= NUM PROVE FALSE
  BY NumAssumption
<1>1. /\ IsFiniteSet(0 .. n - 1) /\ Cardinality(0 .. n - 1) = n
  BY FS_Interval, NumAssumption
<1>2. IsFiniteSet(Desc) /\ Cardinality(Desc) = NUM
  BY FS_Interval, NumAssumption DEF Desc
<1>3. IsFiniteSet(Desc \ {d}) /\ Cardinality(Desc \ {d}) = NUM - 1
  BY <1>2, FS_RemoveElement
<1>4. g \in [0 .. n - 1 -> Desc \ {d}]
  OBVIOUS
<1>5. Cardinality(Desc \ {d}) < Cardinality(0 .. n - 1)
  BY <1>1, <1>3, NumAssumption
<1>6. \E k, l \in 0 .. n - 1 : k # l /\ g[k] = g[l]
  BY <1>1, <1>3, <1>4, <1>5, FS_PigeonHole
<1> QED
  BY <1>6

\* The places of both rings are slots, and hold descriptors.
LEMMA Places ==
    ASSUME TypeOK, Bounded
    PROVE  /\ Waiting \in Nat /\ Waiting <= NUM /\ Done \in Nat /\ Done <= NUM
           /\ \A k \in 0 .. NUM : Slot(At(last_avail, k)) \in Slots
           /\ \A k \in 0 .. NUM : Slot(At(last_used, k)) \in Slots
           /\ \A k \in 0 .. NUM : Entry(avail_ring, last_avail, k) \in Desc
           /\ \A k \in 0 .. NUM : Entry(used_ring, last_used, k) \in Elem
           /\ avail_idx = At(last_avail, Waiting) /\ used_idx = At(last_used, Done)
<1> USE DEF TypeOK, Bounded
<1>1. Waiting \in Nat /\ Done \in Nat
  BY AheadIs DEF Waiting, Done
<1>2. \A k \in 0 .. NUM : k \in Nat /\ k < IDXMOD
  BY NumAssumption, IdxModAssumption
<1>3. /\ \A k \in 0 .. NUM : Slot(At(last_avail, k)) \in Slots
      /\ \A k \in 0 .. NUM : Slot(At(last_used, k)) \in Slots
  BY <1>2, SlotAt
<1>4. avail_idx = At(last_avail, Waiting) /\ used_idx = At(last_used, Done)
  BY Distance DEF Waiting, Done
<1> QED
  BY <1>1, <1>3, <1>4 DEF Entry

LEMMA RoomInAvail ==
    ASSUME TypeOK, Bounded, Once, NEW d \in Desc, ~InAvail(d)
    PROVE  Waiting < NUM
<1> DEFINE g == [k \in 0 .. Waiting - 1 |-> Entry(avail_ring, last_avail, k)]
<1>1. Waiting \in Nat /\ g \in [0 .. Waiting - 1 -> Desc]
  BY Places, NumAssumption
<1>2. \A k, l \in 0 .. Waiting - 1 : g[k] = g[l] => k = l
  BY DEF Once
<1>3. \A k \in 0 .. Waiting - 1 : g[k] # d
  BY DEF InAvail
<1> HIDE DEF g
<1> QED
  BY <1>1, <1>2, <1>3, Pigeons

LEMMA RoomInUsed ==
    ASSUME TypeOK, Bounded, Once, NEW d \in Desc, ~InUsed(d)
    PROVE  Done < NUM
<1> DEFINE g == [k \in 0 .. Done - 1 |-> Entry(used_ring, last_used, k).id]
<1>1. Done \in Nat /\ g \in [0 .. Done - 1 -> Desc]
  BY Places, NumAssumption DEF Elem
<1>2. \A k, l \in 0 .. Done - 1 : g[k] = g[l] => k = l
  BY DEF Once
<1>3. \A k \in 0 .. Done - 1 : g[k] # d
  BY DEF InUsed
<1> HIDE DEF g
<1> QED
  BY <1>1, <1>2, <1>3, Pigeons

\* The next free place of a ring is none of those in use.
LEMMA NextPlace ==
    ASSUME NEW i \in Idx, NEW n \in 0 .. NUM - 1
    PROVE  /\ Slot(At(i, n)) \in Slots
           /\ \A k \in 0 .. n - 1 :
                 Slot(At(i, k)) \in Slots /\ Slot(At(i, k)) # Slot(At(i, n))
<1>1. n \in Nat /\ n < IDXMOD
      /\ \A k \in 0 .. n - 1 : k \in 0 .. NUM - 1 /\ k \in Nat /\ k < IDXMOD /\ k # n
  BY NumAssumption, IdxModAssumption
<1> QED
  BY <1>1, SlotAt, SlotsDiffer

\* After a pop every place has moved up by one.
LEMMA Shifted ==
    ASSUME NEW ring, NEW i \in Idx, NEW k \in 0 .. NUM - 1
    PROVE  Entry(ring, Next16(i), k) = Entry(ring, i, k + 1)
<1>1. /\ k \in Nat /\ k + 1 \in Nat /\ k < IDXMOD /\ k + 1 < IDXMOD /\ IDXMOD \in Nat
      /\ i \in Nat /\ i < IDXMOD
  BY NumAssumption, IdxModAssumption DEF Idx
<1>2. Next16(i) \in Idx /\ (i + 1 < IDXMOD => Next16(i) = i + 1)
      /\ (i + 1 = IDXMOD => Next16(i) = 0)
  BY NextIs
<1>3. At(Next16(i), k) = At(i, k + 1)
  <2>1. /\ i + (k + 1) < IDXMOD => At(i, k + 1) = i + (k + 1)
        /\ i + (k + 1) >= IDXMOD => At(i, k + 1) = i + (k + 1) - IDXMOD
    BY <1>1, AtIs
  <2>2. /\ Next16(i) + k < IDXMOD => At(Next16(i), k) = Next16(i) + k
        /\ Next16(i) + k >= IDXMOD => At(Next16(i), k) = Next16(i) + k - IDXMOD
    BY <1>1, <1>2, AtIs
  <2> QED
    BY <1>1, <1>2, <2>1, <2>2
<1> QED
  BY <1>3 DEF Entry
-----------------------------------------------------------------------------
(* The steps, for one caller.                                              *)
\* A step that leaves the rings, the indices and the hands alone.
LEMMA HandsKept ==
    ASSUME Hands, UNCHANGED <<avail_idx, avail_ring, used_idx, used_ring, last_avail, held,
                              free, last_used>>
    PROVE  Hands'
  BY DEF Hands, Bounded, Once, OneHand, InAvail, InUsed, Held, Waiting, Done, Entry, At

\* A new offer goes to the next place of the avail ring, and there is one.
LEMMA OfferRing ==
    ASSUME RingInv, NEW d \in Desc, LinuxOffer(d)
    PROVE  /\ Waiting \in Nat /\ Waiting < NUM /\ Waiting' = Waiting + 1
           /\ ~InAvail(d) /\ ~InUsed(d) /\ ~Held(d)
           /\ Entry(avail_ring', last_avail, Waiting) = d
           /\ \A k \in 0 .. Waiting - 1 :
                 Entry(avail_ring', last_avail, k) = Entry(avail_ring, last_avail, k)
<1> USE DEF RingInv, Hands
<1> DEFINE n == Waiting
<1>1. /\ avail_ring' = [avail_ring EXCEPT ![Slot(avail_idx)] = d]
      /\ avail_idx' = Next16(avail_idx) /\ free' = free \ {d} /\ d \in free /\ ~broken'
      /\ UNCHANGED <<used_idx, used_ring, last_avail, call, held, last_used>>
  BY DEF LinuxOffer, core1Vars
<1>2. ~InAvail(d) /\ ~InUsed(d) /\ ~Held(d)
  BY <1>1 DEF OneHand
<1>3. n \in Nat /\ n < NUM /\ n \in 0 .. NUM - 1
  BY <1>2, Places, RoomInAvail, NumAssumption
<1>4. Waiting' = n + 1
  <2>1. n + 1 < IDXMOD
    BY <1>3, NumAssumption, IdxModAssumption
  <2> QED
    BY <1>1, <2>1, Distance DEF Waiting, TypeOK
<1>5. /\ Entry(avail_ring', last_avail, n) = d
      /\ \A k \in 0 .. n - 1 :
            Entry(avail_ring', last_avail, k) = Entry(avail_ring, last_avail, k)
  <2>1. avail_ring' = [avail_ring EXCEPT ![Slot(At(last_avail, n))] = d]
    BY <1>1, Places
  <2>2. avail_ring \in [Slots -> Desc] /\ last_avail \in Idx
    BY DEF TypeOK
  <2> HIDE DEF n, RingInv, Hands
  <2>3. /\ Slot(At(last_avail, n)) \in Slots
        /\ \A k \in 0 .. n - 1 : Slot(At(last_avail, k)) \in Slots
                                   /\ Slot(At(last_avail, k)) # Slot(At(last_avail, n))
    BY <1>3, <2>2, NextPlace
  <2> QED
    BY <2>1, <2>2, <2>3 DEF Entry
<1> QED
  BY <1>2, <1>3, <1>4, <1>5

LEMMA OfferStep ==
    ASSUME RingInv, NEW r, Callers = {r}, NEW d \in Desc, LinuxOffer(d), TypeOK'
    PROVE  RingInv'
<1> USE DEF RingInv, Hands
<1> DEFINE n == Waiting
<1>1. /\ avail_ring' = [avail_ring EXCEPT ![Slot(avail_idx)] = d]
      /\ avail_idx' = Next16(avail_idx) /\ free' = free \ {d} /\ d \in free /\ ~broken'
      /\ UNCHANGED <<used_idx, used_ring, last_avail, call, held, last_used>>
  BY DEF LinuxOffer, core1Vars
<1>2. ~InAvail(d) /\ ~InUsed(d) /\ ~Held(d)
  BY OfferRing
<1>3. n \in Nat /\ n < NUM /\ n \in 0 .. NUM - 1
  BY OfferRing, NumAssumption
<1>4. Waiting' = n + 1
  BY OfferRing
<1>5. /\ Entry(avail_ring', last_avail, n) = d
      /\ \A k \in 0 .. n - 1 :
            Entry(avail_ring', last_avail, k) = Entry(avail_ring, last_avail, k)
  BY OfferRing
<1>6. Done' = Done /\ \A x : (InUsed(x)' <=> InUsed(x)) /\ (Held(x)' <=> Held(x))
  BY <1>1 DEF Done, InUsed, Held, Entry, At
<1>7. \A x : InAvail(x)' <=> InAvail(x) \/ x = d
  <2> TAKE x
  <2>1. InAvail(x)' <=> \E k \in 0 .. n : Entry(avail_ring', last_avail, k) = x
    BY <1>1, <1>3, <1>4 DEF InAvail, Entry, At
  <2>2. \A k : k \in 0 .. n <=> k \in 0 .. n - 1 \/ k = n
    BY <1>3
  <2> HIDE DEF n
  <2> QED
    BY <2>1, <2>2, <1>5 DEF InAvail, n
<1>8. Bounded'
  BY <1>3, <1>4, <1>6, NumAssumption DEF Bounded
<1>9. Once'
  <2>1. \A k, l \in 0 .. n :
          Entry(avail_ring', last_avail, k) = Entry(avail_ring', last_avail, l) => k = l
    <3>1. \A k \in 0 .. n : k \in 0 .. n - 1 \/ k = n
      BY <1>3
    <3>2. \A k \in 0 .. n - 1 : Entry(avail_ring', last_avail, k) # d
      BY <1>2, <1>5 DEF InAvail
    <3> QED
      BY <1>5, <3>1, <3>2 DEF Once
  <2>2. (Waiting - 1)' = n
    BY <1>3, <1>4
  <2> QED
    BY <1>1, <1>6, <2>1, <2>2 DEF Once, Entry, At
<1>10. OneHand'
  BY <1>1, <1>2, <1>6, <1>7 DEF OneHand
<1>11. CallInv'
  <2>1. \A t \in Callers : call[t].pc \in {"ring", "load", "store"} =>
            last_avail # avail_idx' /\ Entry(avail_ring', last_avail, 0)
                                        = Entry(avail_ring, last_avail, 0)
    <3> SUFFICES ASSUME last_avail # avail_idx
                 PROVE  last_avail # avail_idx' /\ Entry(avail_ring', last_avail, 0)
                                                    = Entry(avail_ring, last_avail, 0)
      BY DEF CallInv
    <3>1. n # 0 /\ n + 1 # 0
      BY <1>3, Distance DEF Waiting, TypeOK
    <3>2. last_avail # avail_idx'
      BY <1>1, <1>4, <3>1, Distance DEF Waiting, TypeOK
    <3>3. 0 \in 0 .. n - 1
      BY <1>3, <3>1
    <3> QED
      BY <1>5, <3>2, <3>3
  <2> QED
    BY <1>1, <2>1 DEF CallInv, Entry, At
<1> QED
  BY <1>1, <1>8, <1>9, <1>10, <1>11

LEMMA TakeStep ==
    ASSUME RingInv, NEW r, Callers = {r}, GetAvailStore(r), TypeOK'
    PROVE  RingInv'
<1> USE DEF RingInv, Hands
<1> DEFINE n == Waiting
           e == Entry(avail_ring, last_avail, 0)
<1>1. /\ call[r].pc = "store" /\ last_avail # avail_idx /\ call[r].desc = e
      /\ last_avail' = Next16(last_avail)
      /\ held' = [held EXCEPT ![r] = held[r] \union {e}]
      /\ call'[r].pc = "out"
      /\ UNCHANGED <<avail_idx, avail_ring, used_idx, used_ring, free, last_used, broken>>
  BY DEF GetAvailStore, linuxVars, CallInv, TypeOK
<1>2. n \in Nat /\ n > 0 /\ n <= NUM /\ Waiting' = n - 1
  BY <1>1, Places, Distance DEF Waiting, TypeOK
<1>3. \A k \in 0 .. n - 2 : Entry(avail_ring, last_avail', k)
                              = Entry(avail_ring, last_avail, k + 1)
  <2>1. \A k \in 0 .. n - 2 : k \in 0 .. NUM - 1
    BY <1>2, NumAssumption
  <2> QED
    BY <1>1, <2>1, Shifted DEF TypeOK
<1>4. e \in Desc /\ InAvail(e)
  <2>1. 0 \in 0 .. n - 1 /\ 0 \in 0 .. NUM
    BY <1>2, NumAssumption
  <2> QED
    BY <2>1, Places DEF InAvail
<1>5. Done' = Done /\ \A x : InUsed(x)' <=> InUsed(x)
  BY <1>1 DEF Done, InUsed, Entry, At
<1>6. \A x : Held(x)' <=> Held(x) \/ x = e
  BY <1>1 DEF Held, TypeOK
<1>7. \A x : InAvail(x)' <=> InAvail(x) /\ x # e
  <2> TAKE x
  <2>1. InAvail(x)' <=> \E k \in 0 .. n - 2 : Entry(avail_ring, last_avail', k) = x
    BY <1>1, <1>2 DEF InAvail, Entry, At
  <2>2. InAvail(x)' <=> \E k \in 0 .. n - 2 : Entry(avail_ring, last_avail, k + 1) = x
    BY <1>3, <2>1
  <2>3. /\ \A k \in 0 .. n - 2 : k + 1 \in 0 .. n - 1 /\ k + 1 # 0
        /\ \A k \in 0 .. n - 1 : k = 0 \/ (k - 1 \in 0 .. n - 2 /\ (k - 1) + 1 = k)
        /\ 0 \in 0 .. n - 1
    BY <1>2
  <2>4. ASSUME InAvail(x)' PROVE InAvail(x) /\ x # e
    <3>1. PICK k \in 0 .. n - 2 : Entry(avail_ring, last_avail, k + 1) = x
      BY <2>2, <2>4
    <3> QED
      BY <2>3, <3>1 DEF InAvail, Once
  <2>5. ASSUME InAvail(x), x # e PROVE InAvail(x)'
    <3>1. PICK k \in 0 .. n - 1 : Entry(avail_ring, last_avail, k) = x
      BY <2>5 DEF InAvail
    <3>2. k - 1 \in 0 .. n - 2 /\ (k - 1) + 1 = k
      BY <2>3, <2>5, <3>1
    <3> QED
      BY <2>2, <3>1, <3>2
  <2> QED
    BY <2>4, <2>5
<1>8. Bounded'
  BY <1>2, <1>5, NumAssumption DEF Bounded
<1>9. Once'
  <2>1. \A k, l \in 0 .. n - 2 :
          Entry(avail_ring, last_avail', k) = Entry(avail_ring, last_avail', l) => k = l
    <3>1. \A k \in 0 .. n - 2 : k + 1 \in 0 .. n - 1 /\ k \in Int
      BY <1>2
    <3>2. ASSUME NEW k \in 0 .. n - 2, NEW l \in 0 .. n - 2,
                 Entry(avail_ring, last_avail', k) = Entry(avail_ring, last_avail', l)
          PROVE  k = l
      <4>1. k + 1 = l + 1
        BY <1>3, <3>1, <3>2 DEF Once
      <4> QED
        BY <3>1, <4>1
    <3> QED
      BY <3>2
  <2>2. (Waiting - 1)' = n - 2
    BY <1>2
  <2> QED
    BY <1>1, <1>5, <2>1, <2>2 DEF Once, Entry, At
<1>10. OneHand'
  BY <1>1, <1>4, <1>5, <1>6, <1>7 DEF OneHand
<1>11. CallInv'
  BY <1>1 DEF CallInv
<1> QED
  BY <1>1, <1>8, <1>9, <1>10, <1>11
\* Writing the entry of a buffer that is given back: the place written
\* is not one of those Linux may read.
LEMMA FillRing ==
    ASSUME RingInv, NEW r, Callers = {r}, PutUsedId(r) \/ PutUsedLen(r), TypeOK'
    PROVE  \A k \in 0 .. Done - 1 :
              Entry(used_ring', last_used, k) = Entry(used_ring, last_used, k)
<1> USE DEF RingInv, Hands
<1> DEFINE n == Done
           e == used_ring'[Slot(used_idx)]
<1>1. /\ call[r].pc \in {"id", "len"} /\ call[r].desc \in held[r] /\ call[r].desc \in Desc
      /\ call[r].idx = used_idx
      /\ call'[r].desc = call[r].desc /\ call'[r].idx = call[r].idx
      /\ UNCHANGED <<avail_idx, avail_ring, used_idx, last_avail, held, free, last_used, broken>>
  BY DEF PutUsedId, PutUsedLen, linuxVars, CallInv, TypeOK
<1>2. n \in Nat /\ n \in 0 .. NUM - 1 /\ used_idx = At(last_used, n)
  <2>1. ~InUsed(call[r].desc)
    BY <1>1 DEF OneHand, Held
  <2> QED
    BY <1>1, <2>1, Places, RoomInUsed, NumAssumption
<1>3. used_ring' = [used_ring EXCEPT ![Slot(At(last_used, n))] = e]
  <2>1. Slot(used_idx) \in Slots
    BY <1>1, IndexArithmetic DEF TypeOK
  <2> QED
    BY <1>1, <1>2, <2>1 DEF PutUsedId, PutUsedLen, TypeOK
<1>4. \A k \in 0 .. n - 1 : Entry(used_ring', last_used, k) = Entry(used_ring, last_used, k)
  <2>1. used_ring \in [Slots -> Elem] /\ last_used \in Idx
    BY DEF TypeOK
  <2> HIDE DEF n, e, RingInv, Hands
  <2>2. /\ Slot(At(last_used, n)) \in Slots
        /\ \A k \in 0 .. n - 1 : Slot(At(last_used, k)) \in Slots
                                   /\ Slot(At(last_used, k)) # Slot(At(last_used, n))
    BY <1>2, <2>1, NextPlace
  <2> QED
    BY <1>3, <2>1, <2>2 DEF Entry
<1> QED
  BY <1>4

LEMMA FillStep ==
    ASSUME RingInv, NEW r, Callers = {r}, PutUsedId(r) \/ PutUsedLen(r), TypeOK'
    PROVE  RingInv'
<1> USE DEF RingInv, Hands
<1>1. /\ call[r].pc \in {"id", "len"} /\ call[r].desc \in held[r] /\ call[r].desc \in Desc
      /\ call[r].idx = used_idx
      /\ call'[r].desc = call[r].desc /\ call'[r].idx = call[r].idx
      /\ UNCHANGED <<avail_idx, avail_ring, used_idx, last_avail, held, free, last_used, broken>>
  BY DEF PutUsedId, PutUsedLen, linuxVars, CallInv, TypeOK
<1>4. \A k \in 0 .. Done - 1 : Entry(used_ring', last_used, k) = Entry(used_ring, last_used, k)
  BY FillRing
<1>5. /\ Waiting' = Waiting /\ Done' = Done
      /\ \A x : (InAvail(x)' <=> InAvail(x)) /\ (Held(x)' <=> Held(x))
  BY <1>1 DEF Waiting, Done, InAvail, Held, Entry, At
<1>6. \A x : InUsed(x)' <=> InUsed(x)
  BY <1>1, <1>4, <1>5 DEF InUsed, Entry, At
<1>7. Bounded' /\ OneHand'
  BY <1>1, <1>5, <1>6 DEF Bounded, OneHand
<1>8. Once'
  BY <1>1, <1>4, <1>5 DEF Once, Entry, At
<1>9. CallInv'
  <2>1. Slot(used_idx) \in Slots
    BY IndexArithmetic DEF TypeOK
  <2>2. CASE PutUsedId(r)
    <3>1. call'[r].pc = "len" /\ used_ring'[Slot(used_idx)].id = call[r].desc
      BY <1>1, <2>1, <2>2 DEF PutUsedId, TypeOK, Elem
    <3> QED
      BY <1>1, <3>1 DEF CallInv
  <2>3. CASE PutUsedLen(r)
    <3>1. /\ call'[r].pc = "publish" /\ call'[r].len = call[r].len
          /\ used_ring'[Slot(used_idx)].id = call[r].desc
          /\ used_ring'[Slot(used_idx)].len = call[r].len
      BY <1>1, <2>1, <2>3 DEF PutUsedLen, TypeOK, Elem, CallInv
    <3> QED
      BY <1>1, <3>1 DEF CallInv
  <2> QED
    BY <2>2, <2>3
<1> QED
  BY <1>1, <1>7, <1>8, <1>9

LEMMA PublishStep ==
    ASSUME RingInv, NEW r, Callers = {r}, PutUsedPublish(r), TypeOK'
    PROVE  RingInv'
<1> USE DEF RingInv, Hands
<1> DEFINE n == Done
           d == call[r].desc
<1>1. /\ call[r].pc = "publish" /\ d \in held[r] /\ d \in Desc
      /\ used_ring[Slot(used_idx)].id = d
      /\ used_idx' = Next16(used_idx)
      /\ held' = [held EXCEPT ![r] = held[r] \ {d}]
      /\ call'[r].pc = "out"
      /\ UNCHANGED <<avail_idx, avail_ring, used_ring, last_avail, free, last_used, broken>>
  BY DEF PutUsedPublish, linuxVars, CallInv, TypeOK
<1>2. ~InUsed(d)
  BY <1>1 DEF OneHand, Held
<1>3. n \in Nat /\ n < NUM /\ used_idx = At(last_used, n)
  BY <1>1, <1>2, Places, RoomInUsed
<1>4. Done' = n + 1
  <2>1. n + 1 < IDXMOD
    BY <1>3, NumAssumption, IdxModAssumption
  <2> QED
    BY <1>1, <2>1, Distance DEF Done, TypeOK
<1>5. Entry(used_ring, last_used, n).id = d
  BY <1>1, <1>3 DEF Entry
<1>6. /\ Waiting' = Waiting /\ \A x : InAvail(x)' <=> InAvail(x)
      /\ \A x : Held(x)' <=> Held(x) /\ x # d
  BY <1>1 DEF Waiting, InAvail, Held, Entry, At, TypeOK
<1>7. \A k : k \in 0 .. n <=> k \in 0 .. n - 1 \/ k = n
  BY <1>3
<1>8. \A x : InUsed(x)' <=> InUsed(x) \/ x = d
  <2> TAKE x
  <2>1. InUsed(x)' <=> \E k \in 0 .. n : Entry(used_ring, last_used, k).id = x
    BY <1>1, <1>3, <1>4 DEF InUsed, Entry, At
  <2> HIDE DEF n
  <2> QED
    BY <2>1, <1>5, <1>7 DEF InUsed, n
<1>9. Bounded'
  BY <1>3, <1>4, <1>6, NumAssumption DEF Bounded
<1>10. Once'
  <2>1. \A k, l \in 0 .. n :
          Entry(used_ring, last_used, k).id = Entry(used_ring, last_used, l).id => k = l
    <3>1. \A k \in 0 .. n - 1 : Entry(used_ring, last_used, k).id # d
      BY <1>2 DEF InUsed
    <3> QED
      BY <1>5, <1>7, <3>1 DEF Once
  <2>2. (Done - 1)' = n
    BY <1>3, <1>4
  <2> QED
    BY <1>1, <1>6, <2>1, <2>2 DEF Once, Entry, At
<1>11. OneHand'
  BY <1>1, <1>2, <1>6, <1>8 DEF OneHand, Held
<1>12. CallInv'
  BY <1>1 DEF CallInv
<1> QED
  BY <1>1, <1>9, <1>10, <1>11, <1>12

LEMMA ReclaimStep ==
    ASSUME RingInv, NEW r, Callers = {r}, LinuxReclaim, TypeOK'
    PROVE  RingInv'
<1> USE DEF RingInv, Hands
<1> DEFINE n == Done
           d == Entry(used_ring, last_used, 0).id
<1>1. last_used # used_idx /\ UNCHANGED <<core1Vars, avail_idx, avail_ring>>
  BY DEF LinuxReclaim
<1>2. n \in Nat /\ n > 0 /\ n <= NUM /\ d \in Desc /\ InUsed(d)
  <2>1. n \in Nat /\ n > 0 /\ n <= NUM
    BY <1>1, Places, Distance DEF Done, TypeOK
  <2>2. 0 \in 0 .. n - 1 /\ 0 \in 0 .. NUM
    BY <2>1, NumAssumption
  <2> QED
    BY <2>1, <2>2, Places DEF InUsed, Elem
<1>3. d = used_ring[Slot(last_used)].id /\ d \notin free
  BY <1>2, Distance DEF Entry, TypeOK, OneHand
<1>4. /\ free' = free \union {d} /\ last_used' = Next16(last_used) /\ ~broken'
      /\ UNCHANGED <<avail_idx, avail_ring, used_idx, used_ring, last_avail, call, held>>
  BY <1>1, <1>3 DEF LinuxReclaim, core1Vars
<1>5. Done' = n - 1
  BY <1>1, <1>4, Distance DEF Done, TypeOK
<1>6. \A k \in 0 .. n - 2 : Entry(used_ring, last_used', k)
                              = Entry(used_ring, last_used, k + 1)
  <2>1. \A k \in 0 .. n - 2 : k \in 0 .. NUM - 1
    BY <1>2, NumAssumption
  <2> QED
    BY <1>4, <2>1, Shifted DEF TypeOK
<1>7. /\ Waiting' = Waiting
      /\ \A x : (InAvail(x)' <=> InAvail(x)) /\ (Held(x)' <=> Held(x))
  BY <1>4 DEF Waiting, InAvail, Held, Entry, At
<1>8. /\ \A k \in 0 .. n - 2 : k + 1 \in 0 .. n - 1 /\ k + 1 # 0 /\ k \in Int
      /\ \A k \in 0 .. n - 1 : k = 0 \/ (k - 1 \in 0 .. n - 2 /\ (k - 1) + 1 = k)
      /\ 0 \in 0 .. n - 1 /\ (Done - 1)' = n - 2
  BY <1>2, <1>5
<1>9. \A x : InUsed(x)' <=> InUsed(x) /\ x # d
  <2> TAKE x
  <2>1. InUsed(x)' <=> \E k \in 0 .. n - 2 : Entry(used_ring, last_used', k).id = x
    BY <1>4, <1>8 DEF InUsed, Entry, At
  <2>2. InUsed(x)' <=> \E k \in 0 .. n - 2 : Entry(used_ring, last_used, k + 1).id = x
    BY <1>6, <2>1
  <2>3. ASSUME InUsed(x)' PROVE InUsed(x) /\ x # d
    <3>1. PICK k \in 0 .. n - 2 : Entry(used_ring, last_used, k + 1).id = x
      BY <2>2, <2>3
    <3> QED
      BY <1>8, <3>1 DEF InUsed, Once
  <2>4. ASSUME InUsed(x), x # d PROVE InUsed(x)'
    <3>1. PICK k \in 0 .. n - 1 : Entry(used_ring, last_used, k).id = x
      BY <2>4 DEF InUsed
    <3>2. k - 1 \in 0 .. n - 2 /\ (k - 1) + 1 = k
      BY <1>8, <2>4, <3>1
    <3> QED
      BY <2>2, <3>1, <3>2
  <2> QED
    BY <2>3, <2>4
<1>10. Bounded'
  BY <1>2, <1>5, <1>7, NumAssumption DEF Bounded
<1>11. Once'
  <2>1. ASSUME NEW k \in 0 .. n - 2, NEW l \in 0 .. n - 2,
               Entry(used_ring, last_used', k).id = Entry(used_ring, last_used', l).id
        PROVE  k = l
    <3>1. k + 1 = l + 1
      BY <1>6, <1>8, <2>1 DEF Once
    <3> QED
      BY <1>8, <3>1
  <2> QED
    BY <1>4, <1>7, <1>8, <2>1 DEF Once, Entry, At
<1>12. OneHand'
  BY <1>2, <1>4, <1>7, <1>9 DEF OneHand
<1>13. CallInv'
  BY <1>4 DEF CallInv, Entry, At
<1> QED
  BY <1>4, <1>10, <1>11, <1>12, <1>13
\* A step of vring_get_avail or vring_put_used that only notes something.
LEMMA LocalStep ==
    ASSUME RingInv, NEW r, Callers = {r}, TypeOK',
           \/ GetAvailCheck(r) \/ GetAvailRing(r) \/ GetAvailLoad(r)
           \/ \E d \in held[r], len \in Lens : PutUsedRead(r, d, len)
    PROVE  RingInv'
<1> USE DEF RingInv
<1>1. UNCHANGED <<avail_idx, avail_ring, used_idx, used_ring, last_avail, held, free,
                  last_used, broken>>
  BY DEF GetAvailCheck, GetAvailRing, GetAvailLoad, PutUsedRead, linuxVars
<1>2. Hands'
  BY <1>1, HandsKept
<1>3. call[r] \in [pc : PCs, desc : Desc, idx : Idx, len : Lens] /\ r \in DOMAIN call
  BY DEF TypeOK
<1>4. avail_ring[Slot(last_avail)] = Entry(avail_ring, last_avail, 0)
  BY Distance DEF Entry, TypeOK
<1>5. CallInv'
  <2>1. CASE GetAvailCheck(r)
    <3>1. call'[r].pc = "ring" /\ last_avail # avail_idx
      BY <1>3, <2>1 DEF GetAvailCheck
    <3> QED
      BY <1>1, <3>1 DEF CallInv, Entry, At
  <2>2. CASE GetAvailRing(r)
    <3>1. /\ call'[r].pc = "load" /\ last_avail # avail_idx
          /\ call'[r].desc = Entry(avail_ring, last_avail, 0)
      BY <1>3, <1>4, <2>2 DEF GetAvailRing, CallInv
    <3> QED
      BY <1>1, <3>1 DEF CallInv, Entry, At
  <2>3. CASE GetAvailLoad(r)
    <3>1. /\ call'[r].pc = "store" /\ last_avail # avail_idx /\ call'[r].idx = last_avail
          /\ call'[r].desc = Entry(avail_ring, last_avail, 0)
      BY <1>3, <2>3 DEF GetAvailLoad, CallInv
    <3> QED
      BY <1>1, <3>1 DEF CallInv, Entry, At
  <2>4. ASSUME NEW d \in held[r], NEW len \in Lens, PutUsedRead(r, d, len)
        PROVE  CallInv'
    <3>1. call'[r].pc = "id" /\ call'[r].desc \in held[r] /\ call'[r].idx = used_idx
      BY <1>3, <2>4 DEF PutUsedRead
    <3> QED
      BY <1>1, <3>1 DEF CallInv
  <2> QED
    BY <2>1, <2>2, <2>3, <2>4
<1> QED
  BY <1>1, <1>2, <1>5

LEMMA RingInit == ASSUME Init, TypeOK, NEW r, Callers = {r} PROVE RingInv
<1>1. /\ avail_idx = 0 /\ last_avail = 0 /\ used_idx = 0 /\ last_used = 0
      /\ free = Desc /\ ~broken /\ \A t \in Callers : held[t] = {} /\ call[t].pc = "out"
  BY DEF Init
<1>2. Waiting = 0 /\ Done = 0
  BY <1>1, IndexArithmetic, Distance DEF Waiting, Done
<1>3. Bounded /\ Once /\ OneHand
  BY <1>1, <1>2, NumAssumption DEF Bounded, Once, OneHand, InAvail, InUsed, Held
<1>4. CallInv
  BY <1>1 DEF CallInv
<1> QED
  BY <1>1, <1>3, <1>4 DEF RingInv, Hands

LEMMA RingNext ==
    ASSUME RingInv, [Next]_vars, TypeOK', NEW r, Callers = {r}
    PROVE  RingInv'
<1>1. CASE UNCHANGED vars
  <2>1. UNCHANGED <<avail_idx, avail_ring, used_idx, used_ring, last_avail, held, free,
                    last_used, broken, call>>
    BY <1>1 DEF vars, core1Vars, linuxVars
  <2>2. Hands'
    BY <2>1, HandsKept DEF RingInv
  <2>3. CallInv'
    BY <2>1 DEF RingInv, CallInv, Entry, At
  <2> QED
    BY <2>1, <2>2, <2>3 DEF RingInv
<1>2. CASE LinuxReclaim
  BY <1>2, ReclaimStep
<1>3. ASSUME NEW d \in Desc, LinuxOffer(d) PROVE RingInv'
  BY <1>3, OfferStep
<1>4. CASE GetAvail(r)
  BY <1>1, <1>4, LocalStep, TakeStep DEF GetAvail, GetAvailEmpty
<1>5. CASE PutUsed(r)
  BY <1>5, LocalStep, FillStep, PublishStep DEF PutUsed
<1> QED
  BY <1>1, <1>2, <1>3, <1>4, <1>5 DEF Next, Linux, Core1

\* A descriptor about to be taken is not in the caller's hands yet.
LEMMA TakenIsNew ==
    ASSUME RingInv, NEW r \in Callers, call[r].pc = "store"
    PROVE  call[r].desc \in Desc \ held[r]
<1>1. /\ last_avail # avail_idx /\ last_avail \in Idx /\ avail_idx \in Idx
      /\ call[r].desc = Entry(avail_ring, last_avail, 0)
      /\ call[r].desc \in Desc
  BY DEF RingInv, CallInv, TypeOK
<1>2. Waiting \in Nat /\ Waiting # 0
  <2> DEFINE w == Ahead(last_avail, avail_idx)
  <2>1. /\ w \in Nat
        /\ avail_idx >= last_avail => w = avail_idx - last_avail
        /\ avail_idx < last_avail => w = avail_idx - last_avail + IDXMOD
    BY <1>1, AheadIs
  <2>2. w # 0
    BY <1>1, <2>1, IdxModAssumption DEF Idx
  <2> QED
    BY <2>1, <2>2 DEF Waiting
<1>3. 0 \in 0 .. Waiting - 1
  BY <1>2
<1>4. InAvail(call[r].desc)
  BY <1>1, <1>3 DEF InAvail
<1> QED
  BY <1>1, <1>4 DEF RingInv, Hands, OneHand, Held

THEOREM RingsSound ==
    ASSUME NEW r, Callers = {r}
    PROVE  Spec => []RingInv
<1>1. TypeOK /\ Init => RingInv
  BY RingInit
<1>2. RingInv /\ [Next]_vars /\ TypeOK' => RingInv'
  BY RingNext
<1> QED
  BY TypeCorrect, <1>1, <1>2, PTL DEF Spec

\* With one task in the two functions Linux never finds an id it did not
\* offer, whatever the ring's size and wherever the 16-bit indices wrap.
THEOREM NeverBroken ==
    ASSUME NEW r, Callers = {r}
    PROVE  Spec => []RingNotBroken
<1>1. RingInv => RingNotBroken
  BY DEF RingInv, RingNotBroken
<1> QED
  BY RingsSound, <1>1, PTL

\* With one task in the two functions every descriptor is in one hand, once,
\* and none is lost.
THEOREM OneHandEach ==
    ASSUME NEW r, Callers = {r}
    PROVE  Spec => []DescriptorExclusive
<1>1. ASSUME RingInv PROVE DescriptorExclusive
  <2> USE DEF RingInv, Hands
  <2>1. /\ Waiting \in Nat /\ Waiting <= NUM /\ Done \in Nat /\ Done <= NUM
        /\ \A k \in 0 .. NUM : Entry(avail_ring, last_avail, k) \in Desc
        /\ \A k \in 0 .. NUM : Entry(used_ring, last_used, k) \in Elem
    BY <1>1, Places
  <2>2. /\ Offered = [k \in 1 .. Waiting |-> Entry(avail_ring, last_avail, k - 1)]
        /\ Returned = [k \in 1 .. Done |-> Entry(used_ring, last_used, k - 1)]
    <3>1. /\ \A k \in 1 .. Waiting : last_avail + k - 1 = last_avail + (k - 1)
          /\ \A k \in 1 .. Done : last_used + k - 1 = last_used + (k - 1)
      BY <1>1, <2>1 DEF TypeOK, Idx
    <3> QED
      BY <3>1 DEF Offered, Returned, Entry, At, Waiting, Done
  <2>3. /\ \A k \in 1 .. Waiting : k - 1 \in 0 .. Waiting - 1 /\ k - 1 \in 0 .. NUM
        /\ \A k \in 0 .. Waiting - 1 : k + 1 \in 1 .. Waiting /\ (k + 1) - 1 = k
        /\ \A k \in 1 .. Done : k - 1 \in 0 .. Done - 1 /\ k - 1 \in 0 .. NUM
        /\ \A k \in 0 .. Done - 1 : k + 1 \in 1 .. Done /\ (k + 1) - 1 = k
    BY <2>1, NumAssumption
  <2>4. OfferedDesc \subseteq Desc /\ \A d \in Desc : d \in OfferedDesc <=> InAvail(d)
    <3>1. OfferedDesc = {Entry(avail_ring, last_avail, k - 1) : k \in 1 .. Waiting}
      BY <2>2 DEF OfferedDesc
    <3>2. OfferedDesc \subseteq Desc
      BY <2>1, <2>3, <3>1
    <3>3. ASSUME NEW d, d \in OfferedDesc PROVE InAvail(d)
      BY <2>3, <3>1, <3>3 DEF InAvail
    <3>4. ASSUME NEW d, InAvail(d) PROVE d \in OfferedDesc
      <4>1. PICK k \in 0 .. Waiting - 1 : Entry(avail_ring, last_avail, k) = d
        BY <3>4 DEF InAvail
      <4>2. k + 1 \in 1 .. Waiting /\ Entry(avail_ring, last_avail, (k + 1) - 1) = d
        BY <2>3, <4>1
      <4> QED
        BY <3>1, <4>2
    <3> QED
      BY <3>2, <3>3, <3>4
  <2>5. ReturnedDesc \subseteq Desc /\ \A d \in Desc : d \in ReturnedDesc <=> InUsed(d)
    <3>1. ReturnedDesc = {Entry(used_ring, last_used, k - 1).id : k \in 1 .. Done}
      BY <2>2 DEF ReturnedDesc
    <3>2. ReturnedDesc \subseteq Desc
      BY <2>1, <2>3, <3>1 DEF Elem
    <3>3. ASSUME NEW d, d \in ReturnedDesc PROVE InUsed(d)
      BY <2>3, <3>1, <3>3 DEF InUsed
    <3>4. ASSUME NEW d, InUsed(d) PROVE d \in ReturnedDesc
      <4>1. PICK k \in 0 .. Done - 1 : Entry(used_ring, last_used, k).id = d
        BY <3>4 DEF InUsed
      <4>2. k + 1 \in 1 .. Done /\ Entry(used_ring, last_used, (k + 1) - 1).id = d
        BY <2>3, <4>1
      <4> QED
        BY <3>1, <4>2
    <3> QED
      BY <3>2, <3>3, <3>4
  <2>6. HeldDesc \subseteq Desc /\ free \subseteq Desc
        /\ \A d \in Desc : d \in HeldDesc <=> Held(d)
    BY <1>1 DEF HeldDesc, Held, TypeOK
  <2>7. Cardinality(OfferedDesc) = Len(Offered)
    <3>1. Offered \in [1 .. Waiting -> OfferedDesc]
      BY <2>2 DEF OfferedDesc
    <3>2. Len(Offered) = Waiting
      BY <2>1, <2>2, <3>1, LenProperties
    <3>3. \A k, l \in 1 .. Waiting : Offered[k] = Offered[l] => k = l
      <4> SUFFICES ASSUME NEW k \in 1 .. Waiting, NEW l \in 1 .. Waiting,
                          Offered[k] = Offered[l]
                   PROVE  k = l
        OBVIOUS
      <4>1. k - 1 = l - 1
        BY <1>1, <2>2, <2>3 DEF Once
      <4> QED
        BY <4>1
    <3>4. ExistsBijection(1 .. Waiting, OfferedDesc)
      <4>1. \A d \in OfferedDesc : \E k \in 1 .. Waiting : Offered[k] = d
        BY <2>2 DEF OfferedDesc
      <4> QED
        BY <3>1, <3>3, <4>1 DEF ExistsBijection, Bijection, Injection, Surjection, IsInjective
    <3> QED
      BY <2>1, <3>2, <3>4, FS_CountingElements
  <2>8. Cardinality(ReturnedDesc) = Len(Returned)
    <3> DEFINE ids == [k \in 1 .. Done |-> Returned[k].id]
    <3>1. ids \in [1 .. Done -> ReturnedDesc]
      BY <2>2 DEF ReturnedDesc
    <3>2. Len(Returned) = Done
      BY <2>1, <2>2, LenProperties
    <3>3. \A k, l \in 1 .. Done : ids[k] = ids[l] => k = l
      <4> SUFFICES ASSUME NEW k \in 1 .. Done, NEW l \in 1 .. Done, ids[k] = ids[l]
                   PROVE  k = l
        OBVIOUS
      <4>1. k - 1 = l - 1
        BY <1>1, <2>2, <2>3 DEF Once
      <4> QED
        BY <4>1
    <3>4. ExistsBijection(1 .. Done, ReturnedDesc)
      <4>1. \A d \in ReturnedDesc : \E k \in 1 .. Done : ids[k] = d
        BY <2>2 DEF ReturnedDesc
      <4> HIDE DEF ids
      <4> QED
        BY <3>1, <3>3, <4>1 DEF ExistsBijection, Bijection, Injection, Surjection, IsInjective
    <3> QED
      BY <2>1, <3>2, <3>4, FS_CountingElements
  <2> HIDE DEF RingInv, Hands
  <2>9. OneHand
    BY <1>1 DEF RingInv, Hands
  <2> QED
    BY <2>4, <2>5, <2>6, <2>7, <2>8, <2>9 DEF OneHand, DescriptorExclusive
<1> QED
  BY RingsSound, <1>1, PTL
-----------------------------------------------------------------------------
(* The rings as queues, and the exchange of buffers they implement.        *)
QueueOf(ring, i, n) == [k \in 1 .. n |-> Entry(ring, i, k - 1)]

LEMMA QueueSeq ==
    ASSUME NEW S, NEW ring \in [Slots -> S], NEW i \in Idx, NEW n \in Nat, n <= NUM
    PROVE  QueueOf(ring, i, n) \in Seq(S) /\ Len(QueueOf(ring, i, n)) = n
<1>1. \A k \in 1 .. n : k - 1 \in Nat /\ k - 1 < IDXMOD
  BY NumAssumption, IdxModAssumption
<1>2. \A k \in 1 .. n : Entry(ring, i, k - 1) \in S
  BY <1>1, SlotAt DEF Entry
<1> QED
  BY <1>2 DEF QueueOf

LEMMA QueuePush ==
    ASSUME NEW S, NEW ring \in [Slots -> S], NEW i \in Idx, NEW n \in Nat, n < NUM
    PROVE  QueueOf(ring, i, n + 1) = Append(QueueOf(ring, i, n), Entry(ring, i, n))
<1> DEFINE e == Entry(ring, i, n)
           q == QueueOf(ring, i, n)
           a == Append(q, e)
           p == QueueOf(ring, i, n + 1)
<1>1. n + 1 \in Nat /\ n <= NUM /\ n + 1 <= NUM
  BY NumAssumption
<1>2. q \in Seq(S) /\ Len(q) = n /\ p \in Seq(S) /\ Len(p) = n + 1
  BY <1>1, QueueSeq
<1>3. \A k \in 1 .. n : q[k] = p[k]
  <2>1. \A k \in 1 .. n : k - 1 \in 0 .. n - 1 /\ k \in 1 .. n + 1
    OBVIOUS
  <2> QED
    BY <2>1 DEF QueueOf
<1>4. p[n + 1] = e
  <2>1. n + 1 \in 1 .. n + 1 /\ (n + 1) - 1 = n
    OBVIOUS
  <2> QED
    BY <2>1 DEF QueueOf
<1>5. e \in S
  <2>1. n < IDXMOD
    BY NumAssumption, IdxModAssumption
  <2> QED
    BY <2>1, SlotAt DEF Entry
<1> HIDE DEF q, p, e
<1>6. a \in Seq(S) /\ Len(a) = n + 1 /\ a[n + 1] = e /\ \A k \in 1 .. n : a[k] = q[k]
  BY <1>2, <1>5
<1>7. \A k \in 1 .. n + 1 : k \in 1 .. n \/ k = n + 1
  OBVIOUS
<1>8. \A k \in 1 .. Len(p) : p[k] = a[k]
  BY <1>2, <1>3, <1>4, <1>6, <1>7
<1> HIDE DEF a
<1>9. p = a
  BY <1>2, <1>6, <1>8, SeqEqual
<1> QED
  BY <1>9 DEF p, a, q, e

LEMMA QueuePop ==
    ASSUME NEW S, NEW ring \in [Slots -> S], NEW i \in Idx, NEW n \in Nat, n > 0, n <= NUM
    PROVE  /\ QueueOf(ring, i, n) # <<>>
           /\ Head(QueueOf(ring, i, n)) = Entry(ring, i, 0)
           /\ Tail(QueueOf(ring, i, n)) = QueueOf(ring, Next16(i), n - 1)
<1> DEFINE q == QueueOf(ring, i, n)
           p == QueueOf(ring, Next16(i), n - 1)
<1>1. n - 1 \in Nat /\ n - 1 <= NUM /\ Next16(i) \in Idx
  BY NextIs, NumAssumption
<1>2. q \in Seq(S) /\ Len(q) = n /\ p \in Seq(S) /\ Len(p) = n - 1
  BY <1>1, QueueSeq, ZenonT(30)
<1>3. q[1] = Entry(ring, i, 0)
  <2>1. 1 \in 1 .. n /\ 1 - 1 = 0
    OBVIOUS
  <2> QED
    BY <2>1 DEF QueueOf
<1>4. \A k \in 1 .. n - 1 : p[k] = q[k + 1]
  <2> TAKE k \in 1 .. n - 1
  <2>1. k - 1 \in 0 .. NUM - 1 /\ (k - 1) + 1 = (k + 1) - 1 /\ k + 1 \in 1 .. n
    BY NumAssumption
  <2>2. Entry(ring, Next16(i), k - 1) = Entry(ring, i, (k - 1) + 1)
    BY <2>1, Shifted
  <2> QED
    BY <2>1, <2>2 DEF QueueOf
<1> HIDE DEF q, p
<1>5. q # <<>>
  BY <1>2
<1>6. Head(q) = q[1]
  BY <1>2, <1>5
<1>7. /\ Tail(q) \in Seq(S) /\ Len(Tail(q)) = n - 1
      /\ \A k \in 1 .. n - 1 : Tail(q)[k] = q[k + 1]
  BY <1>2, <1>5, HeadTailProperties
<1>8. Tail(q) = p
  BY <1>2, <1>4, <1>7, SeqEqual
<1> QED
  BY <1>3, <1>5, <1>6, <1>8 DEF q, p
LEMMA OfferedIs == ASSUME TypeOK PROVE Offered = QueueOf(avail_ring, last_avail, Waiting)
<1>1. \A k \in 1 .. Waiting : last_avail + k - 1 = last_avail + (k - 1)
  BY AheadIs DEF TypeOK, Idx, Waiting
<1> QED
  BY <1>1 DEF Offered, QueueOf, Entry, At, Waiting

LEMMA ReturnedIs == ASSUME TypeOK PROVE Returned = QueueOf(used_ring, last_used, Done)
<1>1. \A k \in 1 .. Done : last_used + k - 1 = last_used + (k - 1)
  BY AheadIs DEF TypeOK, Idx, Done
<1> QED
  BY <1>1 DEF Returned, QueueOf, Entry, At, Done

\* The same after a step.
LEMMA QueuesNext ==
    ASSUME TypeOK'
    PROVE  /\ Offered' = QueueOf(avail_ring', last_avail', Waiting')
           /\ Returned' = QueueOf(used_ring', last_used', Done')
<1>1. /\ \A k \in 1 .. Waiting' : last_avail' + k - 1 = last_avail' + (k - 1)
      /\ \A k \in 1 .. Done' : last_used' + k - 1 = last_used' + (k - 1)
  BY AheadIs DEF TypeOK, Idx, Waiting, Done
<1> QED
  BY <1>1 DEF Offered, Returned, QueueOf, Entry, At, Waiting, Done

\* What one caller holds and gives back.
LEMMA OneCaller ==
    ASSUME NEW r, Callers = {r}, TypeOK
    PROVE  /\ HeldDesc = held[r]
           /\ call[r].pc \in {"id", "len", "publish"} =>
                 Giving = {[id |-> call[r].desc, len |-> call[r].len]}
           /\ call[r].pc \notin {"id", "len", "publish"} => Giving = {}
  BY DEF HeldDesc, Giving, TypeOK

LEMMA OneCallerNext ==
    ASSUME NEW r, Callers = {r}, TypeOK'
    PROVE  /\ HeldDesc' = held'[r]
           /\ call'[r].pc \in {"id", "len", "publish"} =>
                 Giving' = {[id |-> call'[r].desc, len |-> call'[r].len]}
           /\ call'[r].pc \notin {"id", "len", "publish"} => Giving' = {}
  BY DEF HeldDesc, Giving, TypeOK

\* A step after which nothing visible has changed.
LEMMA Invisible ==
    ASSUME TypeOK, TypeOK', NEW r, Callers = {r},
           UNCHANGED <<avail_idx, avail_ring, used_idx, last_avail, held, free, last_used>>,
           QueueOf(used_ring', last_used, Done) = QueueOf(used_ring, last_used, Done),
           Giving' = Giving
    PROVE  UNCHANGED Exchange!vars
<1>1. Waiting' = Waiting /\ Done' = Done
  BY DEF Waiting, Done
<1>2. Offered' = Offered /\ Returned' = Returned
  BY <1>1, QueuesNext, OfferedIs, ReturnedIs
<1> QED
  BY <1>2 DEF Exchange!vars, HeldDesc

LEMMA StepSimulates ==
    ASSUME RingInv, RingInv', [Next]_vars, NEW r, Callers = {r}
    PROVE  [Exchange!Next]_(Exchange!vars)
<1> DEFINE taken == HeldDesc \ {e.id : e \in Giving}
<1>1. TypeOK /\ TypeOK' /\ Bounded
  BY DEF RingInv, Hands
<1>2. /\ Waiting \in Nat /\ Waiting <= NUM /\ Done \in Nat /\ Done <= NUM
      /\ used_idx = At(last_used, Done)
  BY <1>1, Places
<1>3. /\ call[r] \in [pc : PCs, desc : Desc, idx : Idx, len : Lens] /\ r \in DOMAIN call
      /\ held \in [Callers -> SUBSET Desc]
  BY <1>1 DEF TypeOK
<1>4. ASSUME NEW d \in Desc, LinuxOffer(d) PROVE Exchange!Offer(d)
  <2>1. /\ d \in free /\ free' = free \ {d} /\ Waiting < NUM /\ Waiting' = Waiting + 1
        /\ Entry(avail_ring', last_avail, Waiting) = d
        /\ \A k \in 0 .. Waiting - 1 :
              Entry(avail_ring', last_avail, k) = Entry(avail_ring, last_avail, k)
        /\ UNCHANGED <<used_idx, used_ring, last_avail, call, held, last_used>>
    BY <1>4, OfferRing DEF LinuxOffer, core1Vars
  <2>2. /\ avail_ring \in [Slots -> Desc] /\ avail_ring' \in [Slots -> Desc]
        /\ last_avail \in Idx
    BY <1>1 DEF TypeOK
  <2>3. QueueOf(avail_ring', last_avail, Waiting + 1)
          = Append(QueueOf(avail_ring, last_avail, Waiting), d)
    <3>1. QueueOf(avail_ring', last_avail, Waiting + 1)
            = Append(QueueOf(avail_ring', last_avail, Waiting),
                     Entry(avail_ring', last_avail, Waiting))
      BY <1>2, <2>1, <2>2, QueuePush
    <3>2. \A k \in 1 .. Waiting : k - 1 \in 0 .. Waiting - 1
      BY <1>2
    <3>3. QueueOf(avail_ring', last_avail, Waiting) = QueueOf(avail_ring, last_avail, Waiting)
      BY <2>1, <3>2 DEF QueueOf
    <3> QED
      BY <2>1, <3>1, <3>3
  <2>4. Offered' = Append(Offered, d)
    BY <1>1, <2>1, <2>3, QueuesNext, OfferedIs
  <2>5. Returned' = Returned /\ HeldDesc' = HeldDesc /\ Giving' = Giving
    BY <2>1 DEF Returned, HeldDesc, Giving
  <2> QED
    BY <2>1, <2>4, <2>5 DEF Exchange!Offer
<1>5. CASE LinuxReclaim
  <2>1. last_used # used_idx /\ UNCHANGED <<core1Vars, avail_idx, avail_ring>>
    BY <1>5 DEF LinuxReclaim
  <2>2. Done > 0
    BY <1>1, <1>2, <2>1, Distance DEF TypeOK, Done
  <2>3. /\ used_ring \in [Slots -> Elem] /\ last_used \in Idx
        /\ used_ring[Slot(last_used)] = Entry(used_ring, last_used, 0)
    BY <1>1, Distance DEF TypeOK, Entry
  <2>4. /\ free' = free \union {Entry(used_ring, last_used, 0).id}
        /\ last_used' = Next16(last_used)
        /\ UNCHANGED <<used_idx, used_ring, last_avail, call, held>>
    BY <1>5, <2>1, <2>3 DEF LinuxReclaim, core1Vars, RingInv
  <2>5. Done' = Done - 1
    BY <1>1, <2>1, <2>4, Distance DEF TypeOK, Done
  <2>6. /\ QueueOf(used_ring, last_used, Done) # <<>>
        /\ Head(QueueOf(used_ring, last_used, Done)) = Entry(used_ring, last_used, 0)
        /\ Tail(QueueOf(used_ring, last_used, Done))
              = QueueOf(used_ring, Next16(last_used), Done - 1)
    BY <1>2, <2>2, <2>3, QueuePop
  <2>7. /\ Returned # <<>> /\ Head(Returned) = Entry(used_ring, last_used, 0)
        /\ Returned' = Tail(Returned)
    BY <1>1, <2>4, <2>5, <2>6, QueuesNext, ReturnedIs
  <2>8. Offered' = Offered /\ HeldDesc' = HeldDesc /\ Giving' = Giving
    BY <2>1, <2>4 DEF Offered, HeldDesc, Giving
  <2> QED
    BY <2>4, <2>7, <2>8 DEF Exchange!Reclaim, Exchange!Next
<1>6. CASE GetAvailStore(r)
  <2>1. /\ call[r].pc = "store" /\ last_avail # avail_idx
        /\ call[r].desc = Entry(avail_ring, last_avail, 0)
        /\ last_avail' = Next16(last_avail)
        /\ held'[r] = held[r] \union {Entry(avail_ring, last_avail, 0)}
        /\ call'[r].pc = "out"
        /\ UNCHANGED <<avail_idx, avail_ring, used_idx, used_ring, free, last_used>>
    BY <1>3, <1>6 DEF GetAvailStore, linuxVars, RingInv, CallInv
  <2>2. Waiting > 0 /\ Waiting' = Waiting - 1
    BY <1>1, <1>2, <2>1, Distance DEF TypeOK, Waiting
  <2>3. /\ QueueOf(avail_ring, last_avail, Waiting) # <<>>
        /\ Head(QueueOf(avail_ring, last_avail, Waiting)) = Entry(avail_ring, last_avail, 0)
        /\ Tail(QueueOf(avail_ring, last_avail, Waiting))
              = QueueOf(avail_ring, Next16(last_avail), Waiting - 1)
    <3>1. avail_ring \in [Slots -> Desc] /\ last_avail \in Idx
      BY <1>1 DEF TypeOK
    <3> QED
      BY <1>2, <2>2, <3>1, QueuePop
  <2>4. /\ Offered # <<>> /\ Head(Offered) = Entry(avail_ring, last_avail, 0)
        /\ Offered' = Tail(Offered)
    BY <1>1, <2>1, <2>2, <2>3, QueuesNext, OfferedIs
  <2>5. Returned' = Returned
    BY <2>1 DEF Returned
  <2>6. /\ Giving = {} /\ Giving' = {} /\ HeldDesc = held[r] /\ HeldDesc' = held'[r]
    BY <1>1, <2>1, OneCaller, OneCallerNext
  <2> QED
    BY <2>1, <2>4, <2>5, <2>6 DEF Exchange!Take, Exchange!Next
<1>7. ASSUME NEW d \in held[r], NEW len \in Lens, PutUsedRead(r, d, len)
      PROVE  Exchange!Next
  <2>1. /\ call[r].pc = "out" /\ call'[r].pc = "id" /\ call'[r].desc = d /\ call'[r].len = len
        /\ UNCHANGED <<avail_idx, avail_ring, used_idx, used_ring, last_avail, held, free,
                       last_used>>
    BY <1>3, <1>7 DEF PutUsedRead, linuxVars
  <2>2. Offered' = Offered /\ Returned' = Returned /\ d \in Desc
    BY <1>3, <2>1 DEF Offered, Returned
  <2>3. /\ Giving = {} /\ Giving' = {[id |-> d, len |-> len]}
        /\ HeldDesc = held[r] /\ HeldDesc' = held[r]
    BY <1>1, <2>1, OneCaller, OneCallerNext
  <2>4. Exchange!Give(d, len)
    BY <1>7, <2>1, <2>2, <2>3 DEF Exchange!Give
  <2> QED
    BY <2>2, <2>4 DEF Exchange!Next
<1>8. CASE PutUsedPublish(r)
  <2> DEFINE e == [id |-> call[r].desc, len |-> call[r].len]
  <2>1. /\ call[r].pc = "publish" /\ call[r].desc \in held[r]
        /\ used_idx' = Next16(used_idx)
        /\ held'[r] = held[r] \ {call[r].desc} /\ call'[r].pc = "out"
        /\ UNCHANGED <<avail_idx, avail_ring, used_ring, last_avail, free, last_used>>
        /\ used_ring[Slot(used_idx)].id = call[r].desc
        /\ used_ring[Slot(used_idx)].len = call[r].len
    BY <1>3, <1>8 DEF PutUsedPublish, linuxVars, RingInv, CallInv
  <2>2. used_ring \in [Slots -> Elem] /\ last_used \in Idx /\ Slot(used_idx) \in Slots
    BY <1>1, IndexArithmetic DEF TypeOK
  <2>3. Entry(used_ring, last_used, Done) = e /\ e \in Elem
    BY <1>2, <2>1, <2>2 DEF Entry, Elem
  <2>4. Done < NUM
    <3>1. call[r].desc \in Desc /\ ~InUsed(call[r].desc)
      BY <1>3, <2>1 DEF RingInv, Hands, OneHand, Held
    <3> QED
      BY <1>1, <3>1, RoomInUsed DEF RingInv, Hands
  <2>5. Done' = Done + 1
    <3>1. Done + 1 < IDXMOD
      BY <1>2, <2>4, NumAssumption, IdxModAssumption
    <3> QED
      BY <1>1, <2>1, <3>1, Distance DEF Done, TypeOK
  <2> HIDE DEF e
  <2>6. QueueOf(used_ring, last_used, Done + 1)
          = Append(QueueOf(used_ring, last_used, Done), e)
    <3>1. QueueOf(used_ring, last_used, Done + 1)
            = Append(QueueOf(used_ring, last_used, Done), Entry(used_ring, last_used, Done))
      BY <1>2, <2>2, <2>4, QueuePush
    <3> QED
      BY <2>3, <3>1
  <2>7. Returned' = Append(Returned, e)
    BY <1>1, <2>1, <2>5, <2>6, QueuesNext, ReturnedIs
  <2>8. Offered' = Offered
    BY <2>1 DEF Offered
  <2>9. Giving = {e} /\ Giving' = {} /\ HeldDesc = held[r] /\ HeldDesc' = held'[r]
        /\ e.id = call[r].desc
    BY <1>1, <2>1, OneCaller, OneCallerNext DEF e
  <2>10. Exchange!Return(e)
    BY <2>1, <2>7, <2>8, <2>9 DEF Exchange!Return
  <2> QED
    BY <2>9, <2>10 DEF Exchange!Next
<1>9. CASE PutUsedId(r) \/ PutUsedLen(r)
  <2>1. /\ UNCHANGED <<avail_idx, avail_ring, used_idx, last_avail, held, free, last_used>>
        /\ call[r].pc \in {"id", "len"} /\ call'[r].pc \in {"len", "publish"}
        /\ call'[r].desc = call[r].desc /\ call'[r].len = call[r].len
    BY <1>3, <1>9 DEF PutUsedId, PutUsedLen, linuxVars
  <2>2. Giving' = Giving
    <3>1. Giving = {[id |-> call[r].desc, len |-> call[r].len]}
      BY <1>1, <2>1, OneCaller
    <3>2. Giving' = {[id |-> call'[r].desc, len |-> call'[r].len]}
      BY <1>1, <2>1, OneCallerNext
    <3> QED
      BY <2>1, <3>1, <3>2
  <2>3. \A k \in 0 .. Done - 1 : Entry(used_ring', last_used, k) = Entry(used_ring, last_used, k)
    BY <1>1, <1>9, FillRing
  <2>4. QueueOf(used_ring', last_used, Done) = QueueOf(used_ring, last_used, Done)
    <3>1. \A k \in 1 .. Done : k - 1 \in 0 .. Done - 1
      BY <1>2
    <3> QED
      BY <2>3, <3>1 DEF QueueOf
  <2> QED
    BY <1>1, <2>1, <2>2, <2>4, Invisible
<1>10. CASE GetAvailCheck(r) \/ GetAvailRing(r) \/ GetAvailLoad(r) \/ UNCHANGED vars
  <2>1. UNCHANGED <<avail_idx, avail_ring, used_idx, used_ring, last_avail, held, free,
                    last_used>>
    BY <1>10 DEF GetAvailCheck, GetAvailRing, GetAvailLoad, linuxVars, core1Vars, vars
  <2>2. Giving' = Giving
    <3>1. CASE UNCHANGED vars
      BY <3>1 DEF vars, core1Vars, Giving
    <3>2. CASE GetAvailCheck(r) \/ GetAvailRing(r) \/ GetAvailLoad(r)
      <4>1. call[r].pc \notin {"id", "len", "publish"} /\ call'[r].pc \notin {"id", "len", "publish"}
        BY <1>3, <3>2, ZenonT(30) DEF GetAvailCheck, GetAvailRing, GetAvailLoad
      <4> QED
        BY <1>1, <4>1, OneCaller, OneCallerNext
    <3> QED
      BY <1>10, <3>1, <3>2
  <2> QED
    BY <1>1, <2>1, <2>2, Invisible
<1> QED
  BY <1>4, <1>5, <1>6, <1>7, <1>8, <1>9, <1>10
     DEF Next, Linux, Core1, GetAvail, PutUsed, GetAvailEmpty, Exchange!Next

\* With one task in the two functions the ring implements BufferExchange:
\* first in, first out both ways, no entry read before it is written, none
\* with another's length, for every size of the ring and of its indices.
THEOREM RingImplementsExchange ==
    ASSUME NEW r, Callers = {r}
    PROVE  Spec => ImplementsExchange
<1>1. Init /\ TypeOK => Exchange!Init
  <2> SUFFICES ASSUME Init, TypeOK PROVE Exchange!Init
    OBVIOUS
  <2>1. /\ avail_idx = 0 /\ last_avail = 0 /\ used_idx = 0 /\ last_used = 0
        /\ free = Desc /\ held[r] = {} /\ call[r].pc = "out"
    BY DEF Init
  <2>2. Waiting = 0 /\ Done = 0
    BY <2>1, IndexArithmetic, Distance DEF Waiting, Done
  <2>3. Offered = <<>> /\ Returned = <<>>
    <3>1. 0 \in Nat /\ 0 <= NUM /\ 0 \in Idx
      BY NumAssumption, IndexArithmetic
    <3>2. Len(Offered) = 0 /\ Offered \in Seq(Desc)
      BY <2>1, <2>2, <3>1, OfferedIs, QueueSeq DEF TypeOK
    <3>3. Len(Returned) = 0 /\ Returned \in Seq(Elem)
      <4>1. used_ring \in [Slots -> Elem] /\ last_used \in Idx
        BY DEF TypeOK
      <4>2. QueueOf(used_ring, last_used, 0) \in Seq(Elem)
            /\ Len(QueueOf(used_ring, last_used, 0)) = 0
        BY <3>1, <4>1, QueueSeq
      <4> QED
        BY <2>2, <4>2, ReturnedIs
    <3> QED
      BY <3>2, <3>3, EmptySeq
  <2>4. HeldDesc = {} /\ Giving = {}
    BY <2>1, OneCaller
  <2> QED
    BY <2>1, <2>3, <2>4 DEF Exchange!Init
<1>2. RingInv /\ RingInv' /\ [Next]_vars => [Exchange!Next]_(Exchange!vars)
  BY StepSimulates
<1> QED
  BY RingsSound, TypeCorrect, <1>1, <1>2, PTL DEF Spec, ImplementsExchange, Exchange!Spec
=============================================================================
