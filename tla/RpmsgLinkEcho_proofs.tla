------------------------ MODULE RpmsgLinkEcho_proofs ------------------------
(* More theorems about RpmsgLink while core1 only echoes: no message        *)
(* reaches Linux twice, what rpmsg_send reports is true, and the echoes     *)
(* keep the order of the messages as long as no kick times out.             *)
(* RpmsgLink_proofs has the types, the frames, and vq1 under its one        *)
(* caller.                                                                  *)
EXTENDS RpmsgLink_proofs

-----------------------------------------------------------------------------
(* vq0 with vRpmsgTask as its one caller                                   *)
Calls0 == [t \in {Rpmsg} |-> vq0_call[t]]
Held0  == [t \in {Rpmsg} |-> vq0_held[t]]

S0 == INSTANCE Vring_proofs WITH Callers <- {Rpmsg},
    avail_idx <- vq0_avail_idx, avail_ring <- vq0_avail_ring,
    used_idx <- vq0_used_idx, used_ring <- vq0_used_ring,
    last_avail <- vq0_last_avail, call <- Calls0, held <- Held0,
    free <- vq0_free, last_used <- vq0_last_used, broken <- vq0_broken

\* rpmsg_send holds the buffer that it fills and gives back.
Alone0 ==
    /\ S0!RingInv
    /\ stack[Rpmsg] # <<>> /\ Holding0(Top(Rpmsg)) => Top(Rpmsg).desc \in vq0_held[Rpmsg]

\* A step that touches vq0 is one of a virtqueue with one caller.
LEMMA Alone0Next ==
    ASSUME VQ0!TypeOK, S0!RingInv,
           \/ VQ0!LinuxReclaim
           \/ \E d \in Desc : VQ0!LinuxOffer(d)
           \/ GetAvail0(Rpmsg)
           \/ \E d \in vq0_held[Rpmsg] : VQ0!PutUsedRead(Rpmsg, d, 1)
           \/ VQ0!PutUsedId(Rpmsg) \/ VQ0!PutUsedLen(Rpmsg) \/ VQ0!PutUsedPublish(Rpmsg)
           \/ UNCHANGED vq0
    PROVE  S0!RingInv'
<1> USE DEF VQ0!Desc, S0!Desc, VQ0!Idx, S0!Idx, VQ0!Slots, S0!Slots, VQ0!Elem, S0!Elem,
            VQ0!PCs, S0!PCs, VQ0!Slot, S0!Slot, VQ0!Next16, S0!Next16, Desc, VQ0!Desc,
            VQ0!linuxVars, S0!linuxVars, VQ0!core1Vars, S0!core1Vars, VQ0!vars, S0!vars
<1>1. Rpmsg \in Tasks /\ S0!TypeOK
  BY DEF Tasks, S0!RingInv
<1>2. /\ vq0_call \in [Tasks -> [pc : VQ0!PCs, desc : VQ0!Desc, idx : VQ0!Idx, len : Lens]]
      /\ vq0_held \in [Tasks -> SUBSET VQ0!Desc]
  BY DEF VQ0!TypeOK
<1>3. Calls0[Rpmsg] = vq0_call[Rpmsg] /\ Held0[Rpmsg] = vq0_held[Rpmsg]
  BY DEF Calls0, Held0
\* What a step writes in the whole functions, it writes in the restricted ones.
<1>4. ASSUME NEW c, vq0_call' = [vq0_call EXCEPT ![Rpmsg] = c]
      PROVE  Calls0' = [Calls0 EXCEPT ![Rpmsg] = c]
  BY <1>1, <1>2, <1>4 DEF Calls0
<1>5. ASSUME NEW h, vq0_held' = [vq0_held EXCEPT ![Rpmsg] = h]
      PROVE  Held0' = [Held0 EXCEPT ![Rpmsg] = h]
  BY <1>1, <1>2, <1>5 DEF Held0
<1>6. (vq0_held' = vq0_held => Held0' = Held0) /\ (vq0_call' = vq0_call => Calls0' = Calls0)
  BY DEF Calls0, Held0
<1>7. CASE VQ0!LinuxReclaim \/ \E d \in Desc : VQ0!LinuxOffer(d)
  <2>1. S0!Linux
    BY <1>6, <1>7 DEF S0!Linux, VQ0!LinuxReclaim, S0!LinuxReclaim, VQ0!LinuxOffer, S0!LinuxOffer
  <2> QED
    BY <1>1, <2>1, S0!TypeKept, S0!RingNext, RingAssumption DEF S0!Next
<1>8. CASE GetAvail0(Rpmsg)
  <2>1. S0!GetAvail(Rpmsg)
    <3>1. CASE VQ0!GetAvailCheck(Rpmsg)
      BY <1>3, <1>4, <1>6, <3>1 DEF VQ0!GetAvailCheck, S0!GetAvailCheck, S0!GetAvail
    <3>2. CASE VQ0!GetAvailRing(Rpmsg)
      BY <1>3, <1>4, <1>6, <3>2 DEF VQ0!GetAvailRing, S0!GetAvailRing, S0!GetAvail
    <3>3. CASE VQ0!GetAvailLoad(Rpmsg)
      BY <1>3, <1>4, <1>6, <3>3 DEF VQ0!GetAvailLoad, S0!GetAvailLoad, S0!GetAvail
    <3>4. CASE VQ0!GetAvailStore(Rpmsg)
      BY <1>3, <1>4, <1>5, <3>4 DEF VQ0!GetAvailStore, S0!GetAvailStore, S0!GetAvail
    <3>5. CASE VQ0!GetAvailEmpty(Rpmsg)
      BY <1>3, <1>6, <3>5 DEF VQ0!GetAvailEmpty, S0!GetAvailEmpty, S0!GetAvail
    <3> QED
      BY <1>8, <3>1, <3>2, <3>3, <3>4, <3>5 DEF GetAvail0
  <2> QED
    BY <1>1, <2>1, S0!TypeKept, S0!RingNext, RingAssumption DEF S0!Next, S0!Core1
<1>9. CASE \/ \E d \in vq0_held[Rpmsg] : VQ0!PutUsedRead(Rpmsg, d, 1)
           \/ VQ0!PutUsedId(Rpmsg) \/ VQ0!PutUsedLen(Rpmsg) \/ VQ0!PutUsedPublish(Rpmsg)
  <2>1. S0!PutUsed(Rpmsg)
    <3>1. CASE \E d \in vq0_held[Rpmsg] : VQ0!PutUsedRead(Rpmsg, d, 1)
      BY <1>3, <1>4, <1>6, <3>1 DEF VQ0!PutUsedRead, S0!PutUsedRead, S0!PutUsed, Lens
    <3>2. CASE VQ0!PutUsedId(Rpmsg)
      BY <1>3, <1>4, <1>6, <3>2 DEF VQ0!PutUsedId, S0!PutUsedId, S0!PutUsed
    <3>3. CASE VQ0!PutUsedLen(Rpmsg)
      BY <1>3, <1>4, <1>6, <3>3 DEF VQ0!PutUsedLen, S0!PutUsedLen, S0!PutUsed
    <3>4. CASE VQ0!PutUsedPublish(Rpmsg)
      BY <1>3, <1>4, <1>5, <3>4 DEF VQ0!PutUsedPublish, S0!PutUsedPublish, S0!PutUsed
    <3> QED
      BY <1>9, <3>1, <3>2, <3>3, <3>4
  <2>2. /\ \E t \in {Rpmsg} :
              \/ S0!PutUsedId(t) \/ S0!PutUsedLen(t) \/ S0!PutUsedPublish(t)
              \/ \E d \in S0!Desc, len \in Lens : S0!PutUsedRead(t, d, len)
        /\ S0!Next
    <3>1. Held0[Rpmsg] \subseteq S0!Desc
      BY <1>1, <1>2, <1>3
    <3> QED
      BY <2>1, <3>1 DEF S0!PutUsed, S0!Next, S0!Core1
  <2> QED
    BY <1>1, <2>2, S0!TypeKept, S0!RingNext, RingAssumption
<1>10. CASE UNCHANGED vq0
  <2>1. UNCHANGED S0!vars
    BY <1>6, <1>10 DEF vq0
  <2> QED
    BY <1>1, <2>1, S0!TypeKept, S0!RingNext, RingAssumption
<1> QED
  BY <1>7, <1>8, <1>9, <1>10

\* Linux has offered every buffer and core1 has taken none since.
LEMMA Alone0Init == ASSUME Init, LinkTypes PROVE Alone0
<1> USE DEF S0!Desc, S0!Slots, S0!Idx, VQ0!Slots, VQ0!Desc, VQ0!Idx, Desc
<1>1. /\ NUM \in Nat \ {0} /\ IDXMOD \in Nat /\ IDXMOD > NUM /\ IDXMOD % NUM = 0
      /\ 1 \in S0!Idx /\ NUM \in S0!Idx
  BY RingAssumption
<1>2. /\ vq0_avail_idx = (NUM + 1) % IDXMOD /\ vq0_last_avail = 1
      /\ vq0_used_idx = 1 /\ vq0_last_used = 1
      /\ vq0_free = {} /\ vq0_broken = FALSE /\ stack[Rpmsg] = <<>>
      /\ vq0_avail_ring = [k \in VQ0!Slots |-> k]
      /\ vq0_call[Rpmsg].pc = "out" /\ vq0_held[Rpmsg] = {}
  BY DEF Init, Tasks
<1>3. VQ0!TypeOK /\ Rpmsg \in Tasks
  BY DEF LinkTypes, TypeOK, Tasks
<1>4. /\ Calls0 \in [{Rpmsg} -> [pc : VQ0!PCs, desc : VQ0!Desc, idx : VQ0!Idx, len : Lens]]
      /\ Held0 \in [{Rpmsg} -> SUBSET VQ0!Desc]
      /\ Held0[Rpmsg] = {} /\ Calls0[Rpmsg].pc = "out"
  BY <1>2, <1>3 DEF VQ0!TypeOK, Calls0, Held0
<1>5. S0!TypeOK
  BY <1>3, <1>4 DEF VQ0!TypeOK, S0!TypeOK, VQ0!Elem, S0!Elem, VQ0!PCs, S0!PCs
<1>6. S0!Done = 0
  BY <1>1, <1>2, S0!Distance, RingAssumption DEF S0!Done
<1>7. S0!Waiting = NUM
  <2>1. vq0_avail_idx = S0!At(1, NUM) /\ NUM < IDXMOD /\ 1 + NUM = NUM + 1
    BY <1>1, <1>2 DEF S0!At
  <2>2. /\ vq0_avail_idx \in S0!Idx
        /\ 1 + NUM < IDXMOD => vq0_avail_idx = 1 + NUM
        /\ 1 + NUM >= IDXMOD => vq0_avail_idx = 1 + NUM - IDXMOD
    BY <1>1, <2>1, S0!AtIs, RingAssumption
  <2>3. /\ vq0_avail_idx >= 1 => S0!Ahead(1, vq0_avail_idx) = vq0_avail_idx - 1
        /\ vq0_avail_idx < 1 => S0!Ahead(1, vq0_avail_idx) = vq0_avail_idx - 1 + IDXMOD
    BY <1>1, <2>2, S0!AheadIs, RingAssumption
  <2>4. S0!Ahead(1, vq0_avail_idx) = NUM
    <3>1. CASE 1 + NUM < IDXMOD
      BY <1>1, <2>2, <2>3, <3>1
    <3>2. CASE 1 + NUM >= IDXMOD
      <4>1. IDXMOD = 1 + NUM /\ vq0_avail_idx = 0
        BY <1>1, <2>2, <3>2
      <4> QED
        BY <1>1, <2>3, <4>1
    <3> QED
      BY <1>1, <3>1, <3>2
  <2> QED
    BY <1>2, <2>4 DEF S0!Waiting
\* Descriptor d is at the place of slot d.
<1>8. ASSUME NEW k \in 0 .. NUM - 1
      PROVE  /\ S0!Entry(vq0_avail_ring, vq0_last_avail, k) = S0!Slot(S0!At(1, k))
             /\ S0!Entry(vq0_avail_ring, vq0_last_avail, k) = (1 + k) % NUM
  <2>1. k \in Nat /\ k < IDXMOD
    BY <1>1
  <2>2. S0!Slot(S0!At(1, k)) = (1 + k) % NUM /\ S0!Slot(S0!At(1, k)) \in S0!Slots
    BY <1>1, <2>1, S0!SlotAt, RingAssumption
  <2> QED
    BY <1>2, <2>2 DEF S0!Entry
<1>9. ASSUME NEW d \in Desc PROVE S0!InAvail(d)
  <2>1. CASE d = 0
    <3>1. NUM - 1 \in 0 .. NUM - 1 /\ 1 + (NUM - 1) = NUM /\ NUM % NUM = 0
      BY <1>1, SMTT(20)
    <3> QED
      BY <1>7, <1>8, <2>1, <3>1 DEF S0!InAvail
  <2>2. CASE d # 0
    <3>1. d - 1 \in 0 .. NUM - 1 /\ 1 + (d - 1) = d /\ d % NUM = d
      BY <1>1, <2>2, SMTT(20)
    <3> QED
      BY <1>7, <1>8, <3>1 DEF S0!InAvail
  <2> QED
    BY <2>1, <2>2
<1>10. S0!Bounded
  BY <1>1, <1>6, <1>7 DEF S0!Bounded
<1>11. S0!Once
  <2>1. ASSUME NEW k \in 0 .. NUM - 1, NEW l \in 0 .. NUM - 1,
               S0!Entry(vq0_avail_ring, vq0_last_avail, k)
                 = S0!Entry(vq0_avail_ring, vq0_last_avail, l)
        PROVE  k = l
    BY <1>1, <1>8, <2>1, S0!SlotsDiffer, RingAssumption
  <2> QED
    BY <1>6, <1>7, <2>1 DEF S0!Once
<1>12. S0!OneHand
  <2>1. \A d : ~S0!InUsed(d) /\ ~S0!Held(d)
    BY <1>4, <1>6 DEF S0!InUsed, S0!Held
  <2> QED
    BY <1>2, <1>9, <2>1 DEF S0!OneHand
<1>13. S0!CallInv
  BY <1>4 DEF S0!CallInv
<1> QED
  BY <1>2, <1>5, <1>10, <1>11, <1>12, <1>13 DEF Alone0, S0!RingInv, S0!Hands

\* The frame under the top one does not hold a buffer of vq0: it waits for
\* one, or it is one of rpmsg_handle_vq1.
LEMMA UnderTop ==
    ASSUME stack \in Stacks, NEW t \in Tasks, stack[t] # <<>>, Nested(stack[t]), Pop(t),
           stack'[t] # <<>>
    PROVE  ~Holding0(Top(t)') /\ (Top(t)'.fn = "send" => Top(t)'.pc = "take")
<1>1. /\ Len(stack'[t]) = Depth(t) - 1 /\ Depth(t) \in Nat \ {0}
      /\ \A i \in 1 .. Depth(t) - 1 : stack'[t][i] = stack[t][i]
      /\ stack'[t] \in Seq(Frame)
  BY Popped DEF Stacks
<1>2. Depth(t) - 1 \in 1 .. Len(stack[t]) - 1 /\ Depth(t) = Len(stack[t])
  <2>1. Len(stack'[t]) \in Nat /\ Len(stack'[t]) # 0
    BY <1>1
  <2> QED
    BY <1>1, <2>1 DEF Depth
<1>3. Top(t)' = stack[t][Depth(t) - 1]
  BY <1>1, <1>2 DEF Top, Depth
<1> QED
  BY <1>2, <1>3 DEF Nested, Holding0

\* A step of vRpmsgTask keeps the ring sound and its buffer in hand.
LEMMA Alone0Step ==
    ASSUME LinkTypes, LeakInv, AloneInv, Alone0, Step(Rpmsg)
    PROVE  Alone0'
<1> DEFINE t == Rpmsg
           H == stack'[t] # <<>> /\ Holding0(Top(t)') => Top(t)'.desc \in vq0_held'[t]
<1>1. /\ VQ0!TypeOK /\ stack \in Stacks /\ LeakOf(t) /\ t \in Tasks
      /\ S0!RingInv /\ Nested(stack[t])
      /\ stack[t] # <<>> /\ Holding0(Top(t)) => Top(t).desc \in vq0_held[t]
  BY DEF LinkTypes, TypeOK, Stacks, LeakInv, AloneInv, Alone0, Tasks
<1>2. stack[t] # <<>> /\ stack' \in Stacks
  BY <1>1, StepTypes
<1>3. /\ Top(t) \in Frame /\ Depth(t) \in Nat \ {0} /\ Depth(t) = Len(stack[t])
      /\ Top(t).desc \in Desc /\ Top(t) = stack[t][Depth(t)]
  BY <1>1, <1>2, TopIs, FrameFacts DEF Depth
<1>4. vq0_call[t].desc \in Desc /\ vq1_call[t].desc \in Desc /\ 0 \in Desc
  BY <1>1, DescIs, RingAssumption DEF LinkTypes, TypeOK, VQ0!TypeOK, VQ1!TypeOK
<1>5. SUFFICES S0!RingInv' /\ H
  BY DEF Alone0
<1> HIDE DEF t
\* rpmsg_handle_vq1: vq0 is not touched, and the new top frame holds nothing.
<1>6. ASSUME UNCHANGED vq0, stack'[t] # <<>> => ~Holding0(Top(t)')
      PROVE  S0!RingInv' /\ H
  BY <1>1, <1>6, Alone0Next
<1>7. ASSUME UNCHANGED vq0, Stay PROVE S0!RingInv' /\ H
  <2>1. Top(t)' = Top(t) /\ vq0_held' = vq0_held /\ stack' = stack
    BY <1>7 DEF Stay, Top, Depth, vq0
  <2> QED
    BY <1>1, <1>7, <2>1, Alone0Next
<1>8. ASSUME NEW pc, NEW d, Goto(t, pc, d), [Top(t) EXCEPT !.pc = pc, !.desc = d] \in Frame
      PROVE  Top(t)'.fn = Top(t).fn /\ Top(t)'.pc = pc /\ Top(t)'.desc = d
  <2>1. Len(stack'[t]) = Depth(t) /\ TopBecomes(t, pc, d)
    BY <1>1, <1>2, <1>8, Gone
  <2>2. Top(t)' = stack'[t][Depth(t)]
    BY <2>1 DEF Top, Depth
  <2> QED
    BY <2>1, <2>2 DEF TopBecomes
<1>9. ASSUME NEW ret, NEW f \in Frame, [Top(t) EXCEPT !.pc = ret] \in Frame, Push(t, ret, f)
      PROVE  Top(t)' = f
  BY <1>1, <1>2, <1>9, Pushed DEF Top, Depth
<1>10. CASE SendTake(t)
  <2>1. /\ Top(t).fn = "send" /\ Top(t).pc = "take" /\ GetAvail0(t)
        /\ \/ VQ0!GetAvailStore(t) /\ Goto(t, "fill", vq0_call[t].desc)
           \/ Stay
           \/ Push(t, "take", Vq1Frame)
    BY <1>10 DEF SendTake, At, GetAvail0
  <2>2. S0!RingInv'
    BY <1>1, <2>1, Alone0Next DEF t
  <2>3. CASE VQ0!GetAvailStore(t) /\ Goto(t, "fill", vq0_call[t].desc)
    <3>1. [Top(t) EXCEPT !.pc = "fill", !.desc = vq0_call[t].desc] \in Frame
      BY <1>3, <1>4, <2>1, FrameFacts
    <3>2. Top(t)'.desc = vq0_call[t].desc
      BY <1>8, <2>3, <3>1
    <3>3. vq0_held'[t] = vq0_held[t] \union {vq0_call[t].desc}
      BY <1>1, <2>1, <2>3, Taking0
    <3> QED
      BY <2>2, <3>2, <3>3
  <2>4. CASE Stay
    <3>1. Top(t)' = Top(t)
      BY <2>4 DEF Stay, Top, Depth
    <3> QED
      BY <2>1, <2>2, <3>1 DEF Holding0
  <2>5. CASE Push(t, "take", Vq1Frame)
    <3>1. [Top(t) EXCEPT !.pc = "take"] \in Frame
      BY <1>3, <2>1, FrameFacts
    <3>2. Top(t)' = Vq1Frame
      BY <1>9, <2>5, <3>1, NewFrames
    <3> QED
      BY <2>2, <3>2 DEF Holding0, Vq1Frame
  <2> QED
    BY <2>1, <2>3, <2>4, <2>5
<1>11. CASE SendFill(t)
  <2>1. Top(t).fn = "send" /\ Top(t).pc = "fill" /\ UNCHANGED vq0
    BY <1>11 DEF SendFill, At
  <2>2. /\ Len(stack'[t]) = Depth(t)
        /\ stack'[t][Depth(t)] = [Top(t) EXCEPT !.pc = "put", !.msg = Payload(t)]
    BY <1>1, <1>11, Filled
  <2>3. Top(t)'.desc = Top(t).desc
    BY <1>3, <2>2, TopFields DEF Top, Depth
  <2>4. S0!RingInv' /\ vq0_held' = vq0_held
    BY <1>1, <2>1, Alone0Next DEF vq0
  <2> QED
    BY <1>1, <1>2, <2>1, <2>3, <2>4 DEF Holding0
<1>12. CASE SendPut(t)
  <2>1. /\ Top(t).fn = "send" /\ Top(t).pc = "put"
        /\ \/ VQ0!PutUsedRead(t, Top(t).desc, 1) \/ VQ0!PutUsedId(t) \/ VQ0!PutUsedLen(t)
           \/ VQ0!PutUsedPublish(t)
        /\ Stay \/ Goto(t, "kick", Top(t).desc)
    BY <1>12 DEF SendPut, At
  <2>2. S0!RingInv'
    BY <1>1, <1>2, <2>1, Alone0Next DEF Holding0, t
  <2>3. CASE VQ0!PutUsedPublish(t)
    <3>1. Goto(t, "kick", Top(t).desc)
      BY <1>12, <2>3 DEF SendPut, VQ0!PutUsedPublish, VQ0!PutUsedRead, VQ0!PutUsedId,
                        VQ0!PutUsedLen
    <3>2. [Top(t) EXCEPT !.pc = "kick", !.desc = Top(t).desc] \in Frame
      BY <1>3, <2>1, FrameFacts
    <3>3. Top(t)'.pc = "kick"
      BY <1>8, <3>1, <3>2
    <3> QED
      BY <2>2, <3>3 DEF Holding0
  <2>4. CASE ~VQ0!PutUsedPublish(t)
    <3>1. Stay /\ vq0_held'[t] = vq0_held[t]
      BY <1>1, <1>3, <1>12, <2>1, <2>4, Giving0 DEF SendPut
    <3>2. Top(t)' = Top(t) /\ stack' = stack
      BY <3>1 DEF Stay, Top, Depth
    <3> QED
      BY <1>1, <2>2, <3>1, <3>2
  <2> QED
    BY <2>3, <2>4
<1>13. CASE SendKick(t)
  <2>1. UNCHANGED vq0 /\ (Stay \/ Pop(t))
    BY <1>13 DEF SendKick
  <2> QED
    BY <1>1, <1>2, <1>6, <1>7, <2>1, UnderTop
<1>14. CASE Vq1Take(t)
  <2>1. /\ Top(t).fn = "vq1" /\ UNCHANGED vq0
        /\ Stay \/ Pop(t) \/ Goto(t, "recv", vq1_call[t].desc)
    BY <1>14 DEF Vq1Take, At
  <2>2. [Top(t) EXCEPT !.pc = "recv", !.desc = vq1_call[t].desc] \in Frame
    BY <1>3, <1>4, <2>1, FrameFacts
  <2>3. Goto(t, "recv", vq1_call[t].desc) => ~Holding0(Top(t)')
    BY <1>8, <2>1, <2>2 DEF Holding0
  <2> QED
    BY <1>1, <1>2, <1>6, <1>7, <2>1, <2>3, UnderTop
<1>15. CASE Vq1Recv(t)
  <2>1. /\ Top(t).fn = "vq1" /\ UNCHANGED vq0
        /\ Goto(t, "put", Top(t).desc) \/ Push(t, "put", SendFrame(Blank))
    BY <1>15 DEF Vq1Recv, At
  <2>2. /\ [Top(t) EXCEPT !.pc = "put", !.desc = Top(t).desc] \in Frame
        /\ [Top(t) EXCEPT !.pc = "put"] \in Frame
        /\ SendFrame(Blank) \in Frame
    BY <1>3, <2>1, FrameFacts, NewFrames DEF Message
  <2>3. Goto(t, "put", Top(t).desc) => ~Holding0(Top(t)')
    BY <1>8, <2>1, <2>2 DEF Holding0
  <2>4. Push(t, "put", SendFrame(Blank)) => ~Holding0(Top(t)')
    BY <1>9, <2>2 DEF Holding0, SendFrame
  <2> QED
    BY <1>6, <2>1, <2>3, <2>4
<1>16. CASE Vq1Put(t)
  <2>1. /\ Top(t).fn = "vq1" /\ UNCHANGED vq0
        /\ Stay \/ Goto(t, "kick", Top(t).desc)
    BY <1>16 DEF Vq1Put, At
  <2>2. [Top(t) EXCEPT !.pc = "kick", !.desc = Top(t).desc] \in Frame
    BY <1>3, <2>1, FrameFacts
  <2>3. Goto(t, "kick", Top(t).desc) => ~Holding0(Top(t)')
    BY <1>8, <2>1, <2>2 DEF Holding0
  <2> QED
    BY <1>6, <1>7, <2>1, <2>3
<1>17. CASE Vq1Kick(t)
  <2>1. /\ Top(t).fn = "vq1" /\ UNCHANGED vq0
        /\ Stay \/ Pop(t) \/ Goto(t, "take", 0)
    BY <1>17 DEF Vq1Kick, At
  <2>2. [Top(t) EXCEPT !.pc = "take", !.desc = 0] \in Frame
    BY <1>3, <1>4, <2>1, FrameFacts
  <2>3. Goto(t, "take", 0) => ~Holding0(Top(t)')
    BY <1>8, <2>1, <2>2 DEF Holding0
  <2> QED
    BY <1>1, <1>2, <1>6, <1>7, <2>1, <2>3, UnderTop
<1> QED
  BY <1>10, <1>11, <1>12, <1>13, <1>14, <1>15, <1>16, <1>17 DEF Step, t

\* So does every other step, as vTask1 takes none.
LEMMA Alone0Kept ==
    ASSUME NActive = 0, LinkTypes, LeakInv, AloneInv, Alone0, [Next]_vars
    PROVE  Alone0'
<1>1. T1 \in Tasks /\ Rpmsg \in Tasks /\ T1 # Rpmsg /\ Tasks = {T1, Rpmsg}
  BY DEF Tasks, T1, Rpmsg
<1>2. VQ0!TypeOK /\ stack \in Stacks /\ base[T1] = "delay" /\ S0!RingInv
  BY DEF LinkTypes, TypeOK, Stacks, AloneInv, Alone0
<1>3. ASSUME VQ0!LinuxReclaim \/ (\E d \in Desc : VQ0!LinuxOffer(d)) \/ UNCHANGED vq0,
             UNCHANGED stack
      PROVE  Alone0'
  <2>1. S0!RingInv'
    BY <1>2, <1>3, Alone0Next
  <2>2. vq0_held' = vq0_held
    BY <1>3 DEF VQ0!LinuxReclaim, VQ0!LinuxOffer, VQ0!core1Vars, vq0
  <2>3. Top(Rpmsg)' = Top(Rpmsg) /\ stack' = stack
    BY <1>3 DEF Top, Depth
  <2> QED
    BY <2>1, <2>2, <2>3 DEF Alone0
<1>4. CASE Linux
  <2>1. UNCHANGED stack
    BY <1>4 DEF Linux, LinuxIrq, LinuxSend, LinuxRing, LinuxTxPoll, LinuxReclaimVq1,
                LinuxReceive, LinuxRefill, LinuxIrqRead, LinuxIrqDone, LinuxIrqClear
  <2>2. VQ0!LinuxReclaim \/ (\E d \in Desc : VQ0!LinuxOffer(d)) \/ UNCHANGED vq0
    <3>1. CASE LinuxRefill
      BY <1>2, <3>1, DescIs DEF LinuxRefill, VQ0!TypeOK
    <3>2. CASE ~LinuxRefill
      BY <1>4, <3>2
         DEF Linux, LinuxIrq, LinuxSend, LinuxRing, LinuxTxPoll, LinuxReclaimVq1, LinuxReceive,
             LinuxIrqRead, LinuxIrqDone, LinuxIrqClear
    <3> QED
      BY <3>1, <3>2
  <2> QED
    BY <1>3, <2>1, <2>2
<1>5. CASE IsrClear \/ IsrNotify \/ UNCHANGED vars
  <2>1. UNCHANGED stack /\ UNCHANGED vq0
    BY <1>5 DEF IsrClear, IsrNotify, vars
  <2> QED
    BY <1>3, <2>1
<1>6. CASE NotifyTake
  <2>1. /\ UNCHANGED vq0
        /\ stack' = stack \/ stack' = [stack EXCEPT ![Rpmsg] = <<Vq1Frame>>]
    BY <1>6 DEF NotifyTake
  <2>2. CASE stack' = [stack EXCEPT ![Rpmsg] = <<Vq1Frame>>]
    <3>1. stack'[Rpmsg] = <<Vq1Frame>>
      BY <1>1, <1>2, <2>2 DEF Stacks
    <3>2. ~Holding0(Top(Rpmsg)')
      BY <3>1 DEF Top, Depth, Vq1Frame, Holding0
    <3>3. S0!RingInv'
      BY <1>2, <2>1, Alone0Next
    <3> QED
      BY <3>2, <3>3 DEF Alone0
  <2> QED
    BY <1>3, <2>1, <2>2
<1>7. ~T1Wake /\ ~T1Check /\ ~Step(T1)
  BY <1>2, T1Silent DEF AloneInv
<1>8. CASE Step(Rpmsg)
  BY <1>8, Alone0Step
<1> QED
  BY <1>1, <1>4, <1>5, <1>6, <1>7, <1>8 DEF Next, Core1
-----------------------------------------------------------------------------
(* Where the messages are                                                  *)

\* Frame i of a stack has received a message that core1 has still to copy: it
\* is looking at it, or its call of rpmsg_send has not filled a buffer yet.
Copying(s, i) ==
    /\ i \in 1 .. Len(s)
    /\ s[i].fn = "vq1"
    /\ \/ s[i].pc = "recv"
       \/ s[i].pc = "put" /\ i < Len(s) /\ s[i + 1].pc \in {"take", "fill"}

\* The buffers of vq1 whose message may still be echoed, and the buffers of
\* vq0 whose message is on its way to Linux.
Live1 == {d \in Desc : S1!InAvail(d) \/ \E i \in Nat : Copying(stack[Rpmsg], i)
                                                    /\ stack[Rpmsg][i].desc = d}
Live0 == {d \in Desc : S0!InUsed(d)
                       \/ /\ stack[Rpmsg] # <<>>
                          /\ Top(Rpmsg).fn = "send" /\ Top(Rpmsg).pc = "put"
                          /\ Top(Rpmsg).desc = d}

\* The messages Linux has sent.
Sent(n) == {FromLinux(i) : i \in 1 .. n}

\* A message of Linux is in one buffer, or received once, or gone.
OnceInv ==
    /\ \A d \in Live1 : buf1[d] \in Sent(sent)
    /\ \A d \in Live0 : buf0[d] \in Sent(sent)
    /\ \A i \in 1 .. Len(received) : received[i] \in Sent(sent)
    /\ \A d, e \in Live1 : buf1[d] = buf1[e] => d = e
    /\ \A d, e \in Live0 : buf0[d] = buf0[e] => d = e
    /\ \A i, j \in 1 .. Len(received) : received[i] = received[j] => i = j
    /\ \A d \in Live1, e \in Live0 : buf1[d] # buf0[e]
    /\ \A d \in Live1, i \in 1 .. Len(received) : buf1[d] # received[i]
    /\ \A d \in Live0, i \in 1 .. Len(received) : buf0[d] # received[i]

\* The rings of vq0 and a descriptor, before and after a step.
LEMMA Hand0 ==
    ASSUME S0!RingInv, NEW d \in Desc
    PROVE  /\ d \in vq0_free \/ S0!InAvail(d) \/ d \in vq0_held[Rpmsg] \/ S0!InUsed(d)
           /\ d \in vq0_free => ~S0!InAvail(d) /\ d \notin vq0_held[Rpmsg] /\ ~S0!InUsed(d)
           /\ S0!InAvail(d) => d \notin vq0_held[Rpmsg] /\ ~S0!InUsed(d)
           /\ d \in vq0_held[Rpmsg] => ~S0!InUsed(d)
<1>1. S0!Held(d) <=> d \in vq0_held[Rpmsg]
  BY DEF S0!Held, Held0
<1> QED
  BY <1>1, DescIs DEF S0!RingInv, S0!Hands, S0!OneHand, S0!Desc

LEMMA Hand0Next ==
    ASSUME S0!RingInv', NEW d \in Desc
    PROVE  /\ d \in vq0_free' \/ S0!InAvail(d)' \/ d \in vq0_held'[Rpmsg] \/ S0!InUsed(d)'
           /\ d \in vq0_free' => ~S0!InAvail(d)' /\ d \notin vq0_held'[Rpmsg] /\ ~S0!InUsed(d)'
           /\ S0!InAvail(d)' => d \notin vq0_held'[Rpmsg] /\ ~S0!InUsed(d)'
           /\ d \in vq0_held'[Rpmsg] => ~S0!InUsed(d)'
<1>1. S0!Held(d)' <=> d \in vq0_held'[Rpmsg]
  BY DEF S0!Held, Held0
<1> QED
  BY <1>1, DescIs DEF S0!RingInv, S0!Hands, S0!OneHand, S0!Desc

\* What is in a ring depends on that ring and its two indices only.
LEMMA SameAvail0 ==
    ASSUME UNCHANGED <<vq0_avail_idx, vq0_avail_ring, vq0_last_avail>>, NEW d
    PROVE  S0!InAvail(d)' <=> S0!InAvail(d)
  BY DEF S0!InAvail, S0!Entry, S0!At, S0!Waiting

LEMMA SameUsed0 ==
    ASSUME UNCHANGED <<vq0_used_idx, vq0_used_ring, vq0_last_used>>, NEW d
    PROVE  S0!InUsed(d)' <=> S0!InUsed(d)
  BY DEF S0!InUsed, S0!Entry, S0!At, S0!Done

\* core1 gives back what it holds, and that only once the index has moved.
LEMMA Gives0 ==
    ASSUME VQ0!TypeOK, S0!RingInv, S0!RingInv', NEW d \in Desc,
           \/ VQ0!PutUsedRead(Rpmsg, d, 1) \/ VQ0!PutUsedId(Rpmsg) \/ VQ0!PutUsedLen(Rpmsg)
           \/ VQ0!PutUsedPublish(Rpmsg)
    PROVE  \A x \in Desc : S0!InUsed(x)' =>
              \/ S0!InUsed(x)
              \/ VQ0!PutUsedPublish(Rpmsg) /\ x = vq0_call[Rpmsg].desc
<1>1. UNCHANGED <<vq0_avail_idx, vq0_avail_ring, vq0_last_avail, vq0_free>>
  BY DEF VQ0!PutUsedRead, VQ0!PutUsedId, VQ0!PutUsedLen, VQ0!PutUsedPublish, VQ0!linuxVars
<1>2. \A x \in Desc : S0!InAvail(x)' <=> S0!InAvail(x)
  BY <1>1, SameAvail0
<1>3. \/ VQ0!PutUsedPublish(Rpmsg) /\ vq0_held'[Rpmsg] = vq0_held[Rpmsg] \ {vq0_call[Rpmsg].desc}
      \/ vq0_held'[Rpmsg] = vq0_held[Rpmsg]
  BY Giving0 DEF Tasks
<1> TAKE x \in Desc
<1>4. HAVE S0!InUsed(x)'
<1>5. x \notin vq0_free' /\ ~S0!InAvail(x)' /\ x \notin vq0_held'[Rpmsg]
  BY <1>4, Hand0Next
<1> QED
  BY <1>1, <1>2, <1>3, <1>5, Hand0

\* Linux takes a buffer of vq0 out of the used ring, and it is gone from it.
LEMMA Reclaims0 ==
    ASSUME VQ0!TypeOK, S0!RingInv, S0!RingInv', VQ0!LinuxReclaim,
           NEW d, d = vq0_used_ring[VQ0!Slot(vq0_last_used)].id
    PROVE  /\ d \in Desc /\ S0!InUsed(d) /\ ~S0!InUsed(d)' /\ ~vq0_broken'
           /\ \A x \in Desc : S0!InUsed(x)' => S0!InUsed(x)
           /\ vq0_held' = vq0_held /\ d \notin vq0_held[Rpmsg]
<1>1. /\ UNCHANGED <<vq0_avail_idx, vq0_avail_ring, vq0_last_avail, vq0_held>>
      /\ ~vq0_broken'
  BY DEF VQ0!LinuxReclaim, VQ0!core1Vars, S0!RingInv
<1>2. d \notin vq0_free /\ vq0_free' = vq0_free \union {d}
  <2>1. IF d \in vq0_free THEN vq0_broken' = TRUE /\ UNCHANGED <<vq0_free, vq0_last_used>>
        ELSE vq0_free' = vq0_free \union {d}
    BY DEF VQ0!LinuxReclaim
  <2> QED
    BY <1>1, <2>1
<1>3. d \in Desc
  <2>1. vq0_free' \subseteq Desc
    BY DescIs DEF S0!RingInv, S0!TypeOK, S0!Desc
  <2> QED
    BY <1>2, <2>1
<1>4. \A x \in Desc : S0!InAvail(x)' <=> S0!InAvail(x)
  BY <1>1, SameAvail0
<1>5. ~S0!InAvail(d)' /\ d \notin vq0_held'[Rpmsg] /\ ~S0!InUsed(d)'
  BY <1>2, <1>3, Hand0Next
<1>6. S0!InUsed(d) /\ d \notin vq0_held[Rpmsg]
  BY <1>1, <1>2, <1>3, <1>4, <1>5, Hand0
<1>7. ASSUME NEW x \in Desc, S0!InUsed(x)' PROVE S0!InUsed(x)
  <2>1. x \notin vq0_free' /\ ~S0!InAvail(x)' /\ x \notin vq0_held'[Rpmsg]
    BY <1>7, Hand0Next
  <2> QED
    BY <1>1, <1>2, <1>4, <2>1, Hand0
<1> QED
  BY <1>1, <1>3, <1>5, <1>6, <1>7

\* Below the top frame a step leaves every message where it is, unless the
\* top frame was the one that was to copy it.
LEMMA CopyBelow ==
    ASSUME NEW s, NEW r, Len(s) \in Nat \ {0}, Len(r) \in Nat, Len(r) >= Len(s) - 1,
           Nested(s), \A i \in 1 .. Len(s) - 1 : r[i] = s[i],
           Len(r) >= Len(s) /\ r[Len(s)].pc \in {"take", "fill"} /\ s[Len(s)].fn = "send" =>
              s[Len(s)].pc \in {"take", "fill"},
           Len(r) > Len(s) => Len(r) = Len(s) + 1 /\ r[Len(r)].pc = "take"
    PROVE  \A i : Copying(r, i) =>
              \/ Copying(s, i) /\ r[i].desc = s[i].desc /\ i < Len(s)
              \/ i = Len(s)
<1> DEFINE n == Len(s)
           m == Len(r)
<1> SUFFICES ASSUME NEW i, Copying(r, i), i # n
             PROVE  Copying(s, i) /\ r[i].desc = s[i].desc /\ i < n
  OBVIOUS
<1>1. /\ n \in Nat \ {0} /\ m \in Nat /\ i \in Nat \ {0} /\ i <= m
      /\ r[i].fn = "vq1"
      /\ \/ r[i].pc = "recv"
         \/ r[i].pc = "put" /\ i < m /\ r[i + 1].pc \in {"take", "fill"}
  BY DEF Copying
<1>2. i <= n
  <2> SUFFICES ASSUME i > n PROVE FALSE
    BY <1>1
  <2>1. m = n + 1 /\ i = m /\ r[m].pc = "take"
    BY <1>1
  <2> QED
    BY <1>1, <2>1
<1>3. i \in 1 .. n - 1 /\ i \in 1 .. n /\ r[i] = s[i]
  BY <1>1, <1>2
<1>4. s[i].pc = "put"
  BY <1>1, <1>3 DEF Nested
<1>5. i < m /\ r[i + 1].pc \in {"take", "fill"}
  BY <1>1, <1>3, <1>4
<1>6. s[i + 1].pc \in {"take", "fill"}
  <2>1. CASE i + 1 = n
    <3>1. s[n].fn = "send"
      <4>1. i % 2 = 1
        BY <1>1, <1>3 DEF Nested
      <4>2. (i + 1) % 2 = 0
        <5>1. \A j \in Nat : j % 2 = 1 => (j + 1) % 2 = 0
          BY SMTT(20)
        <5>2. i \in Nat
          BY <1>1
        <5> QED
          BY <4>1, <5>1, <5>2
      <4>3. n \in 1 .. n /\ n % 2 # 1
        BY <1>1, <2>1, <4>2
      <4> QED
        BY <4>3 DEF Nested
    <3>2. m >= n /\ r[n].pc \in {"take", "fill"}
      BY <1>1, <1>5, <2>1
    <3> QED
      BY <2>1, <3>1, <3>2
  <2>2. CASE i + 1 # n
    <3>1. i + 1 \in 1 .. n - 1
      BY <1>1, <1>3, <2>2
    <3> QED
      BY <1>5, <3>1
  <2> QED
    BY <2>1, <2>2
<1> QED
  BY <1>1, <1>3, <1>4, <1>6 DEF Copying

-----------------------------------------------------------------------------
(* How the steps move messages                                             *)

\* A step that moves no message on.
LEMMA OnceSame ==
    ASSUME OnceInv, Live1' \subseteq Live1, Live0' \subseteq Live0,
           UNCHANGED <<buf0, buf1, sent, received>>
    PROVE  OnceInv'
  BY DEF OnceInv

\* Linux puts its next message in a buffer that carried none.
LEMMA OnceSend ==
    ASSUME OnceInv, sent \in Nat, buf1 \in [Desc -> Message],
           NEW d \in Desc, d \notin Live1,
           Live1' \subseteq Live1 \union {d}, Live0' \subseteq Live0,
           buf1' = [buf1 EXCEPT ![d] = FromLinux(sent + 1)], sent' = sent + 1,
           UNCHANGED <<buf0, received>>
    PROVE  OnceInv'
<1> DEFINE m == FromLinux(sent + 1)
<1>1. m \in Sent(sent') /\ m \notin Sent(sent) /\ \A x \in Sent(sent) : x \in Sent(sent')
  BY DEF Sent, FromLinux
<1>2. \A x \in Live1' : \/ x = d /\ buf1'[x] = m
                        \/ x # d /\ x \in Live1 /\ buf1'[x] = buf1[x]
  BY DEF Live1
<1> HIDE DEF m
<1>3. \A x \in Live1' : buf1'[x] \in Sent(sent')
  BY <1>1, <1>2 DEF OnceInv
<1>4. /\ \A x \in Live0' : buf0'[x] \in Sent(sent')
      /\ \A i \in 1 .. Len(received') : received'[i] \in Sent(sent')
  BY <1>1 DEF OnceInv
<1>5. \A x, y \in Live1' : buf1'[x] = buf1'[y] => x = y
  BY <1>1, <1>2 DEF OnceInv
<1>6. /\ \A x, y \in Live0' : buf0'[x] = buf0'[y] => x = y
      /\ \A i, j \in 1 .. Len(received') : received'[i] = received'[j] => i = j
      /\ \A x \in Live0', i \in 1 .. Len(received') : buf0'[x] # received'[i]
  BY DEF OnceInv
<1>7. \A x \in Live1', y \in Live0' : buf1'[x] # buf0'[y]
  BY <1>1, <1>2 DEF OnceInv
<1>8. \A x \in Live1', i \in 1 .. Len(received') : buf1'[x] # received'[i]
  BY <1>1, <1>2 DEF OnceInv
<1> QED
  BY <1>3, <1>4, <1>5, <1>6, <1>7, <1>8 DEF OnceInv

\* core1 copies a message from its buffer of vq1 to one of vq0.
LEMMA OnceFill ==
    ASSUME OnceInv, buf0 \in [Desc -> Message],
           NEW d \in Desc, d \notin Live0, NEW e \in Live1,
           Live1' \subseteq Live1 \ {e}, Live0' \subseteq Live0 \union {d},
           buf0' = [buf0 EXCEPT ![d] = buf1[e]], UNCHANGED <<buf1, sent, received>>
    PROVE  OnceInv'
<1>1. \A x \in Live0' : \/ x = d /\ buf0'[x] = buf1[e]
                        \/ x # d /\ x \in Live0 /\ buf0'[x] = buf0[x]
  BY DEF Live0
<1>2. \A x \in Live1' : x \in Live1 /\ x # e /\ buf1'[x] = buf1[x]
  OBVIOUS
<1>3. /\ \A x \in Live1' : buf1'[x] \in Sent(sent')
      /\ \A x \in Live0' : buf0'[x] \in Sent(sent')
      /\ \A i \in 1 .. Len(received') : received'[i] \in Sent(sent')
  BY <1>1, <1>2 DEF OnceInv
<1>4. /\ \A x, y \in Live1' : buf1'[x] = buf1'[y] => x = y
      /\ \A i, j \in 1 .. Len(received') : received'[i] = received'[j] => i = j
  BY <1>2 DEF OnceInv
<1>5. \A x, y \in Live0' : buf0'[x] = buf0'[y] => x = y
  BY <1>1 DEF OnceInv
<1>6. \A x \in Live1', y \in Live0' : buf1'[x] # buf0'[y]
  BY <1>1, <1>2 DEF OnceInv
<1>7. /\ \A x \in Live1', i \in 1 .. Len(received') : buf1'[x] # received'[i]
      /\ \A x \in Live0', i \in 1 .. Len(received') : buf0'[x] # received'[i]
  BY <1>1, <1>2 DEF OnceInv
<1> QED
  BY <1>3, <1>4, <1>5, <1>6, <1>7 DEF OnceInv

\* Linux takes a message out of its buffer of vq0.
LEMMA OnceReceive ==
    ASSUME OnceInv, received \in Seq(Message), NEW d \in Live0,
           Live1' \subseteq Live1, Live0' \subseteq Live0 \ {d},
           received' = Append(received, buf0[d]), UNCHANGED <<buf0, buf1, sent>>
    PROVE  OnceInv'
<1> DEFINE n == Len(received)
<1>1. /\ n \in Nat /\ Len(received') = n + 1
      /\ \A i \in 1 .. n + 1 : \/ i = n + 1 /\ received'[i] = buf0[d]
                               \/ i \in 1 .. n /\ received'[i] = received[i]
  OBVIOUS
<1> HIDE DEF n
<1>2. \A x \in Live0' : x \in Live0 /\ x # d /\ buf0'[x] = buf0[x]
  OBVIOUS
<1>3. /\ \A x \in Live1' : buf1'[x] \in Sent(sent')
      /\ \A x \in Live0' : buf0'[x] \in Sent(sent')
      /\ \A x, y \in Live1' : buf1'[x] = buf1'[y] => x = y
      /\ \A x, y \in Live0' : buf0'[x] = buf0'[y] => x = y
      /\ \A x \in Live1', y \in Live0' : buf1'[x] # buf0'[y]
  BY <1>2 DEF OnceInv
<1>4. \A i \in 1 .. Len(received') : received'[i] \in Sent(sent')
  BY <1>1 DEF OnceInv, n
<1>5. \A i, j \in 1 .. Len(received') : received'[i] = received'[j] => i = j
  BY <1>1 DEF OnceInv, n
<1>6. \A x \in Live1', i \in 1 .. Len(received') : buf1'[x] # received'[i]
  BY <1>1 DEF OnceInv, n
<1>7. \A x \in Live0', i \in 1 .. Len(received') : buf0'[x] # received'[i]
  BY <1>1, <1>2 DEF OnceInv, n
<1> QED
  BY <1>3, <1>4, <1>5, <1>6, <1>7 DEF OnceInv

\* What becomes of the frames that have a message to copy.
LEMMA StillCopied ==
    ASSUME Depth(Rpmsg) \in Nat \ {0}, Nested(stack[Rpmsg]),
           Len(stack'[Rpmsg]) \in Nat, Len(stack'[Rpmsg]) >= Depth(Rpmsg) - 1,
           \A i \in 1 .. Depth(Rpmsg) - 1 : stack'[Rpmsg][i] = stack[Rpmsg][i],
           Len(stack'[Rpmsg]) >= Depth(Rpmsg)
             /\ stack'[Rpmsg][Depth(Rpmsg)].pc \in {"take", "fill"} /\ Top(Rpmsg).fn = "send" =>
                Top(Rpmsg).pc \in {"take", "fill"},
           Len(stack'[Rpmsg]) > Depth(Rpmsg) =>
              Len(stack'[Rpmsg]) = Depth(Rpmsg) + 1 /\ stack'[Rpmsg][Len(stack'[Rpmsg])].pc = "take"
    PROVE  \A i : Copying(stack'[Rpmsg], i) =>
              \/ /\ Copying(stack[Rpmsg], i) /\ i < Depth(Rpmsg)
                 /\ stack'[Rpmsg][i].desc = stack[Rpmsg][i].desc
              \/ i = Depth(Rpmsg)
<1> DEFINE s == stack[Rpmsg]
           r == stack'[Rpmsg]
<1>1. Depth(Rpmsg) = Len(s) /\ Top(Rpmsg) = s[Len(s)]
  BY DEF Depth, Top
<1>2. Len(s) \in Nat \ {0} /\ Nested(s) /\ Len(r) \in Nat /\ Len(r) >= Len(s) - 1
  BY <1>1
<1>3. \A i \in 1 .. Len(s) - 1 : r[i] = s[i]
  BY <1>1
<1>4. Len(r) >= Len(s) /\ r[Len(s)].pc \in {"take", "fill"} /\ s[Len(s)].fn = "send" =>
         s[Len(s)].pc \in {"take", "fill"}
  BY <1>1
<1>5. Len(r) > Len(s) => Len(r) = Len(s) + 1 /\ r[Len(r)].pc = "take"
  BY <1>1
<1>6. \A i : Copying(r, i) => \/ Copying(s, i) /\ r[i].desc = s[i].desc /\ i < Len(s)
                             \/ i = Len(s)
  <2> HIDE DEF s, r
  <2> QED
    BY <1>2, <1>3, <1>4, <1>5, CopyBelow
<1> QED
  BY <1>1, <1>6

\* When no message joins those on their way to Linux.
LEMMA StillLive0 ==
    ASSUME \A x \in Desc : S0!InUsed(x)' => x \in Live0,
           stack'[Rpmsg] # <<>> /\ Top(Rpmsg)'.fn = "send" /\ Top(Rpmsg)'.pc = "put" =>
              Top(Rpmsg)'.desc \in Live0
    PROVE  Live0' \subseteq Live0
<1>1. \A x \in Live0' : \/ x \in Desc /\ S0!InUsed(x)'
                        \/ /\ stack'[Rpmsg] # <<>>
                           /\ Top(Rpmsg)'.fn = "send" /\ Top(Rpmsg)'.pc = "put"
                           /\ Top(Rpmsg)'.desc = x
  BY DEF Live0
<1> QED
  BY <1>1

\* An echo: the message goes from the buffer of vq1 that the frame below
\* holds to the buffer of vq0 that rpmsg_send holds.
Echoes(d, e) ==
    /\ UNCHANGED <<vq0, vq1, buf1, sent, received>>
    /\ buf0' = [buf0 EXCEPT ![d] = buf1[e]]
    /\ Top(Rpmsg).pc = "fill" /\ d \notin Live0
    /\ Live1' \subseteq Live1 \ {e} /\ Live0' \subseteq Live0 \union {d}
    /\ Depth(Rpmsg) \in Nat \ {0, 1}
    /\ stack[Rpmsg][Depth(Rpmsg)].fn = "send"
    /\ Copying(stack[Rpmsg], Depth(Rpmsg) - 1)
    /\ stack[Rpmsg][Depth(Rpmsg) - 1].desc = e
    /\ \A i : Copying(stack'[Rpmsg], i) =>
          /\ Copying(stack[Rpmsg], i) /\ i # Depth(Rpmsg) - 1
          /\ stack'[Rpmsg][i].desc = stack[Rpmsg][i].desc

LEMMA EchoMoves ==
    ASSUME LinkTypes, AloneInv, Alone0, SendFill(Rpmsg)
    PROVE  \E d \in Desc, e \in Live1 : Echoes(d, e)
<1> DEFINE s == stack[Rpmsg]
           r == stack'[Rpmsg]
           n == Len(s)
           d == s[n].desc
           e == s[n - 1].desc
<1>1. /\ stack \in Stacks /\ Rpmsg \in Tasks /\ Nested(s) /\ S1!RingInv /\ S0!RingInv
      /\ RecvDescs(s) = vq1_held[Rpmsg] /\ buf0 \in [Desc -> Message]
  BY DEF LinkTypes, TypeOK, Stacks, AloneInv, Alone0, Tasks
<1>2. /\ s # <<>> /\ s[n].fn = "send" /\ s[n].pc = "fill"
      /\ UNCHANGED <<vq0, vq1, buf1, sent, received>>
  BY DEF SendFill, At, Top, Depth, lin
<1>3. /\ n \in Nat \ {0} /\ d \in Desc
      /\ Top(Rpmsg) = s[n] /\ Depth(Rpmsg) = n /\ s[n] \in Frame
      /\ \A i \in 1 .. n : s[i] \in Frame
  BY <1>1, <1>2, TopIs, FrameFacts DEF Top, Depth
<1>4. /\ Len(r) = n /\ \A i \in 1 .. n - 1 : r[i] = s[i]
      /\ r[n] = [s[n] EXCEPT !.pc = "put", !.msg = Payload(Rpmsg)]
      /\ buf0' = [buf0 EXCEPT ![d] = Payload(Rpmsg)]
  BY <1>1, <1>3, Filled
<1>5. r[n].fn = "send" /\ r[n].pc = "put" /\ r[n].desc = d
  BY <1>2, <1>3, <1>4, TopFields
<1>6. n > 1
  <2>1. 1 % 2 = 1 /\ 1 \in 1 .. n
    BY <1>3
  <2>2. s[1].fn = "vq1"
    BY <1>1, <2>1 DEF Nested
  <2> QED
    BY <1>2, <1>3, <2>2
<1>7. n - 1 \in 1 .. n - 1 /\ n - 1 \in 1 .. n /\ (n - 1) + 1 = n /\ n - 1 \in Nat
  BY <1>3, <1>6
<1>8. s[n - 1].fn = "vq1" /\ s[n - 1].pc = "put"
  <2>1. n % 2 # 1
    <3> SUFFICES ASSUME n % 2 = 1 PROVE FALSE
      OBVIOUS
    <3>1. n \in 1 .. n
      BY <1>3
    <3> QED
      BY <1>1, <1>2, <3>1 DEF Nested
  <2>2. (n - 1) % 2 = 1
    <3>1. \A j \in Nat \ {0} : j % 2 # 1 => (j - 1) % 2 = 1
      BY SMTT(20)
    <3> QED
      BY <1>3, <2>1, <3>1
  <2> QED
    BY <1>1, <1>7, <2>2 DEF Nested
<1>9. Payload(Rpmsg) = buf1[e]
  BY <1>3, <1>6 DEF Payload
<1>10. n - 1 \in Receives(s) /\ e \in Desc /\ e \in vq1_held[Rpmsg]
  <2>1. n - 1 \in Receives(s)
    BY <1>7, <1>8 DEF Receives
  <2>2. e \in RecvDescs(s)
    BY <2>1, ReceivesIs
  <2>3. s[n - 1] \in Frame
    BY <1>3, <1>7
  <2>4. e \in Desc
    BY <2>3, FrameFacts
  <2> QED
    BY <1>1, <2>1, <2>2, <2>4
<1>11. Copying(s, n - 1)
  BY <1>2, <1>3, <1>6, <1>7, <1>8 DEF Copying
<1>12. e \in Live1
  BY <1>7, <1>10, <1>11 DEF Live1
<1>13. d \notin Live0
  <2>1. d \in vq0_held[Rpmsg]
    BY <1>2, <1>3 DEF Alone0, Holding0
  <2>2. ~S0!InUsed(d)
    BY <1>1, <1>3, <2>1, Hand0
  <2>3. Top(Rpmsg).pc = "fill"
    BY <1>2, <1>3
  <2> QED
    BY <2>2, <2>3 DEF Live0
<1>14. /\ \A x : S1!InAvail(x)' <=> S1!InAvail(x)
       /\ \A x : S0!InUsed(x)' <=> S0!InUsed(x)
  BY <1>2, SameAvail1, SameUsed0 DEF vq0, vq1
<1>15. \A i : Copying(r, i) => Copying(s, i) /\ r[i].desc = s[i].desc /\ i # n - 1
  <2>1. Len(r) \in Nat /\ Len(r) >= n - 1 /\ ~(Len(r) > n)
    BY <1>3, <1>4
  <2>2. Len(r) >= n /\ r[n].pc \in {"take", "fill"} /\ s[n].fn = "send" =>
           s[n].pc \in {"take", "fill"}
    BY <1>2
  <2>3. /\ n \in Nat \ {0} /\ \A i \in 1 .. n - 1 : r[i] = s[i]
        /\ Nested(s)
    BY <1>1, <1>3, <1>4
  <2>4. Len(r) > n => Len(r) = n + 1 /\ r[Len(r)].pc = "take"
    BY <2>1
  <2>5. \A i : Copying(r, i) => \/ Copying(s, i) /\ r[i].desc = s[i].desc /\ i < Len(s)
                               \/ i = Len(s)
    <3> HIDE DEF s, r
    <3> QED
      BY <2>1, <2>2, <2>3, <2>4, CopyBelow
  <2>6. ~Copying(r, n)
    BY <1>5 DEF Copying
  <2>7. ~Copying(r, n - 1)
    <3>1. r[n - 1].pc = "put" /\ r[(n - 1) + 1].pc = "put"
      BY <1>4, <1>5, <1>7, <1>8
    <3> QED
      BY <3>1 DEF Copying
  <2> QED
    BY <2>5, <2>6, <2>7
<1>16. Live1' \subseteq Live1 \ {e}
  <2> SUFFICES ASSUME NEW x \in Live1' PROVE x \in Live1 \ {e}
    OBVIOUS
  <2>1. x \in Desc /\ (S1!InAvail(x)' \/ \E i \in Nat : Copying(r, i) /\ r[i].desc = x)
    BY DEF Live1
  <2>2. CASE S1!InAvail(x)'
    <3>1. S1!InAvail(x) /\ x \notin vq1_held[Rpmsg]
      BY <1>1, <1>14, <2>1, <2>2, Hand1
    <3> QED
      BY <1>10, <2>1, <3>1 DEF Live1
  <2>3. CASE \E i \in Nat : Copying(r, i) /\ r[i].desc = x
    <3>1. PICK i \in Nat : Copying(r, i) /\ r[i].desc = x
      BY <2>3
    <3>2. Copying(s, i) /\ s[i].desc = x /\ i # n - 1
      BY <1>15, <3>1
    <3>3. i \in Receives(s)
      BY <3>2 DEF Copying, Receives
    <3>4. x # e
      BY <1>1, <1>10, <3>2, <3>3 DEF Nested
    <3> QED
      BY <2>1, <3>2, <3>4 DEF Live1
  <2> QED
    BY <2>1, <2>2, <2>3
<1>17. Live0' \subseteq Live0 \union {d}
  <2>1. Top(Rpmsg)'.desc = d
    BY <1>4, <1>5 DEF Top, Depth
  <2> QED
    BY <1>14, <2>1 DEF Live0
<1>18. buf0' = [buf0 EXCEPT ![d] = buf1[e]]
  BY <1>4, <1>9
<1>19. Echoes(d, e)
  BY <1>2, <1>3, <1>6, <1>11, <1>13, <1>15, <1>16, <1>17, <1>18 DEF Echoes
<1> HIDE DEF s, r, n, d, e
<1> QED
  BY <1>3, <1>12, <1>19

LEMMA OnceEcho ==
    ASSUME LinkTypes, AloneInv, Alone0, OnceInv, SendFill(Rpmsg)
    PROVE  OnceInv'
<1>1. PICK d \in Desc, e \in Live1 : Echoes(d, e)
  BY EchoMoves
<1>2. buf0 \in [Desc -> Message]
  BY DEF LinkTypes, TypeOK
<1> QED
  BY <1>1, <1>2, OnceFill DEF Echoes

\* A step of vRpmsgTask that copies no message: it may take one from vq1, in
\* the buffer that was first in the ring.
MovesNone ==
    /\ UNCHANGED <<buf0, buf1, sent, received>>
    /\ Live0' \subseteq Live0
    /\ \/ UNCHANGED <<vq1_avail_idx, vq1_avail_ring, vq1_last_avail>>
       \/ VQ1!GetAvailStore(Rpmsg)
    /\ \A i : Copying(stack'[Rpmsg], i) =>
          \/ /\ Copying(stack[Rpmsg], i)
             /\ stack'[Rpmsg][i].desc = stack[Rpmsg][i].desc
          \/ /\ VQ1!GetAvailStore(Rpmsg)
             /\ stack'[Rpmsg][i].desc = vq1_call[Rpmsg].desc

\* A step of vRpmsgTask copies one message, or moves none.
LEMMA StepMoves ==
    ASSUME LinkTypes, LeakInv, AloneInv, Alone0, Step(Rpmsg), ~SendFill(Rpmsg), S0!RingInv'
    PROVE  MovesNone
<1> DEFINE t == Rpmsg
<1>1. /\ VQ0!TypeOK /\ VQ1!TypeOK /\ stack \in Stacks /\ LeakOf(t) /\ t \in Tasks
      /\ S0!RingInv /\ S1!RingInv /\ Nested(stack[t])
  BY DEF LinkTypes, TypeOK, Stacks, LeakInv, AloneInv, Alone0, Tasks
<1>2. stack[t] # <<>> /\ stack' \in Stacks /\ UNCHANGED <<buf1, sent, received>>
  BY <1>1, StepTypes DEF lin
<1>3. /\ Top(t) \in Frame /\ Depth(t) \in Nat \ {0} /\ Depth(t) = Len(stack[t])
      /\ Top(t).desc \in Desc /\ Top(t) = stack[t][Depth(t)]
  BY <1>1, <1>2, TopIs, FrameFacts DEF Depth
<1>4. vq0_call[t].desc \in Desc /\ vq1_call[t].desc \in Desc /\ 0 \in Desc
  BY <1>1, DescIs, RingAssumption DEF LinkTypes, TypeOK, VQ0!TypeOK, VQ1!TypeOK
\* Where the messages are before the step.
<1>5. /\ \A x \in Desc : S0!InUsed(x) => x \in Live0
      /\ Top(t).fn = "send" /\ Top(t).pc = "put" => Top(t).desc \in Live0
      /\ Top(t).fn = "vq1" /\ Top(t).pc = "recv" => Copying(stack[t], Depth(t))
  BY <1>2, <1>3 DEF Live0, Copying, t
<1> HIDE DEF t
<1>6. ASSUME Stay, UNCHANGED buf0,
             UNCHANGED <<vq1_avail_idx, vq1_avail_ring, vq1_last_avail>>,
             \A x \in Desc : S0!InUsed(x)' => x \in Live0
      PROVE  MovesNone
  <2>1. stack' = stack /\ Top(t)' = Top(t)
    BY <1>6 DEF Stay, Top, Depth
  <2>2. Live0' \subseteq Live0
    BY <1>3, <1>5, <1>6, <2>1, StillLive0 DEF t
  <2> QED
    BY <1>2, <1>6, <2>1, <2>2 DEF MovesNone
<1>7. ASSUME NEW pc, NEW d, Goto(t, pc, d), [Top(t) EXCEPT !.pc = pc, !.desc = d] \in Frame,
             UNCHANGED buf0,
             \/ UNCHANGED <<vq1_avail_idx, vq1_avail_ring, vq1_last_avail>> /\ pc # "recv"
             \/ VQ1!GetAvailStore(t) /\ d = vq1_call[t].desc,
             \A x \in Desc : S0!InUsed(x)' => x \in Live0,
             pc \in {"take", "fill"} /\ Top(t).fn = "send" => Top(t).pc \in {"take", "fill"},
             Top(t).fn = "send" => pc # "put"
      PROVE  MovesNone
  <2>1. /\ Len(stack'[t]) = Depth(t) /\ TopBecomes(t, pc, d)
        /\ \A i \in 1 .. Depth(t) - 1 : stack'[t][i] = stack[t][i]
    BY <1>1, <1>2, <1>7, Gone
  <2>2. Top(t)' = stack'[t][Depth(t)]
    BY <2>1 DEF Top, Depth
  <2>3. Copying(stack'[t], Depth(t)) =>
           VQ1!GetAvailStore(t) /\ stack'[t][Depth(t)].desc = vq1_call[t].desc
    BY <1>3, <1>7, <2>1 DEF Copying, TopBecomes
  <2>4. stack'[t][Depth(t)].pc \in {"take", "fill"} /\ Top(t).fn = "send" =>
           Top(t).pc \in {"take", "fill"}
    BY <1>7, <2>1 DEF TopBecomes
  <2>5. Len(stack'[t]) \in Nat /\ Len(stack'[t]) >= Depth(t) - 1 /\ ~(Len(stack'[t]) > Depth(t))
    BY <1>3, <2>1
  <2>6. \A i : Copying(stack'[t], i) =>
           \/ /\ Copying(stack[t], i) /\ i < Depth(t)
              /\ stack'[t][i].desc = stack[t][i].desc
           \/ i = Depth(t)
    BY <1>1, <1>3, <2>1, <2>4, <2>5, StillCopied DEF t
  <2>7. Live0' \subseteq Live0
    BY <1>3, <1>7, <2>1, <2>2, StillLive0 DEF t, TopBecomes
  <2> QED
    BY <1>2, <1>7, <2>3, <2>6, <2>7 DEF MovesNone, t
<1>8. ASSUME NEW ret, NEW f \in Frame, [Top(t) EXCEPT !.pc = ret] \in Frame, Push(t, ret, f),
             UNCHANGED <<buf0, vq1, vq0>>, f.pc = "take",
             Top(t).fn = "send" => Top(t).pc = "take" /\ ret = "take",
             Top(t).fn = "vq1" => Top(t).pc = "recv" /\ ret = "put"
      PROVE  MovesNone
  <2>1. /\ Len(stack'[t]) = Depth(t) + 1
        /\ \A i \in 1 .. Depth(t) - 1 : stack'[t][i] = stack[t][i]
        /\ stack'[t][Depth(t)] = [Top(t) EXCEPT !.pc = ret]
        /\ stack'[t][Depth(t) + 1] = f
    BY <1>1, <1>2, <1>8, Pushed
  <2>2. /\ stack'[t][Depth(t)].fn = Top(t).fn /\ stack'[t][Depth(t)].pc = ret
        /\ stack'[t][Depth(t)].desc = Top(t).desc
    BY <1>3, <2>1, TopFields
  <2>3. /\ Len(stack'[t]) \in Nat /\ Len(stack'[t]) >= Depth(t) - 1
        /\ stack'[t][Len(stack'[t])].pc = "take"
    BY <1>3, <1>8, <2>1
  <2>4. Copying(stack'[t], Depth(t)) =>
           Copying(stack[t], Depth(t)) /\ stack'[t][Depth(t)].desc = stack[t][Depth(t)].desc
    BY <1>3, <1>5, <1>8, <2>2 DEF Copying
  <2>5. stack'[t][Depth(t)].pc \in {"take", "fill"} /\ Top(t).fn = "send" =>
           Top(t).pc \in {"take", "fill"}
    BY <1>8
  <2>6. \A i : Copying(stack'[t], i) =>
           \/ /\ Copying(stack[t], i) /\ i < Depth(t)
              /\ stack'[t][i].desc = stack[t][i].desc
           \/ i = Depth(t)
    BY <1>1, <1>3, <2>1, <2>3, <2>5, StillCopied DEF t
  <2>7. \A x \in Desc : S0!InUsed(x)' => x \in Live0
    BY <1>5, <1>8, SameUsed0 DEF vq0
  <2>8. Top(t)'.pc = "take"
    BY <2>3 DEF Top, Depth
  <2>9. Live0' \subseteq Live0
    BY <2>7, <2>8, StillLive0 DEF t
  <2> QED
    BY <1>2, <1>8, <2>4, <2>6, <2>9 DEF MovesNone, t, vq1
<1>9. ASSUME Pop(t), UNCHANGED <<buf0, vq0, vq1>>
      PROVE  MovesNone
  <2>1. /\ Len(stack'[t]) = Depth(t) - 1
        /\ \A i \in 1 .. Depth(t) - 1 : stack'[t][i] = stack[t][i]
    BY <1>1, <1>2, <1>9, Popped
  <2>2. /\ Len(stack'[t]) \in Nat /\ Len(stack'[t]) >= Depth(t) - 1
        /\ ~(Len(stack'[t]) >= Depth(t)) /\ ~(Len(stack'[t]) > Depth(t))
    BY <1>3, <2>1
  <2>3. ~Copying(stack'[t], Depth(t))
    BY <1>3, <2>2 DEF Copying
  <2>4. \A i : Copying(stack'[t], i) =>
           \/ /\ Copying(stack[t], i) /\ i < Depth(t)
              /\ stack'[t][i].desc = stack[t][i].desc
           \/ i = Depth(t)
    BY <1>1, <1>3, <2>1, <2>2, StillCopied DEF t
  <2>5. \A x \in Desc : S0!InUsed(x)' => x \in Live0
    BY <1>5, <1>9, SameUsed0 DEF vq0
  <2>6. stack'[t] # <<>> => ~(Top(t)'.fn = "send" /\ Top(t)'.pc = "put")
    BY <1>1, <1>2, <1>9, UnderTop DEF Holding0
  <2>7. Live0' \subseteq Live0
    BY <2>5, <2>6, StillLive0 DEF t
  <2> QED
    BY <1>2, <1>9, <2>3, <2>4, <2>7 DEF MovesNone, t, vq1
<1>10. CASE SendTake(t)
  <2>1. /\ Top(t).fn = "send" /\ Top(t).pc = "take" /\ UNCHANGED <<vq1, buf0>>
        /\ GetAvail0(t)
        /\ Stay \/ Goto(t, "fill", vq0_call[t].desc) 
           \/ (Push(t, "take", Vq1Frame) /\ UNCHANGED vq0)
    BY <1>10 DEF SendTake, At, GetAvail0, VQ0!GetAvailEmpty, VQ0!vars, VQ0!core1Vars,
                 VQ0!linuxVars, vq0
  <2>2. UNCHANGED <<vq0_used_idx, vq0_used_ring, vq0_last_used>>
    BY <2>1 DEF GetAvail0, VQ0!GetAvailCheck, VQ0!GetAvailRing, VQ0!GetAvailLoad,
                VQ0!GetAvailStore, VQ0!GetAvailEmpty, VQ0!vars, VQ0!core1Vars, VQ0!linuxVars
  <2>3. \A x \in Desc : S0!InUsed(x)' => x \in Live0
    BY <1>5, <2>2, SameUsed0
  <2>4. /\ [Top(t) EXCEPT !.pc = "fill", !.desc = vq0_call[t].desc] \in Frame
        /\ [Top(t) EXCEPT !.pc = "take"] \in Frame
    BY <1>3, <1>4, <2>1, FrameFacts
  <2>5. CASE Stay
    BY <1>6, <2>1, <2>3, <2>5 DEF vq1
  <2>6. CASE Goto(t, "fill", vq0_call[t].desc)
    BY <1>7, <2>1, <2>3, <2>4, <2>6 DEF vq1
  <2>7. CASE Push(t, "take", Vq1Frame) /\ UNCHANGED vq0
    BY <1>8, <2>1, <2>4, <2>7, NewFrames DEF Vq1Frame
  <2> QED
    BY <2>1, <2>5, <2>6, <2>7
<1>11. CASE SendPut(t)
  <2>1. /\ Top(t).fn = "send" /\ Top(t).pc = "put" /\ UNCHANGED <<vq1, buf0>>
        /\ \/ VQ0!PutUsedRead(t, Top(t).desc, 1) \/ VQ0!PutUsedId(t) \/ VQ0!PutUsedLen(t)
           \/ VQ0!PutUsedPublish(t)
        /\ Stay \/ Goto(t, "kick", Top(t).desc)
    BY <1>11 DEF SendPut, At
  <2>2. ASSUME VQ0!PutUsedPublish(t) PROVE vq0_call[t].desc = Top(t).desc
    BY <1>1, <2>2 DEF VQ0!PutUsedPublish, LeakOf, GivingPCs
  <2>3. \A x \in Desc : S0!InUsed(x)' =>
           S0!InUsed(x) \/ (VQ0!PutUsedPublish(t) /\ x = vq0_call[t].desc)
    <3>1. ASSUME NEW d \in Desc,
                 \/ VQ0!PutUsedRead(t, d, 1) \/ VQ0!PutUsedId(t) \/ VQ0!PutUsedLen(t)
                 \/ VQ0!PutUsedPublish(t)
          PROVE  \A x \in Desc : S0!InUsed(x)' =>
                    S0!InUsed(x) \/ (VQ0!PutUsedPublish(t) /\ x = vq0_call[t].desc)
      BY <1>1, <3>1, Gives0 DEF t
    <3> QED
      BY <1>3, <2>1, <3>1
  <2>4. \A x \in Desc : S0!InUsed(x)' => x \in Live0
    BY <1>5, <2>1, <2>2, <2>3
  <2>5. [Top(t) EXCEPT !.pc = "kick", !.desc = Top(t).desc] \in Frame
    BY <1>3, <2>1, FrameFacts
  <2>6. CASE Stay
    BY <1>6, <2>1, <2>4, <2>6 DEF vq1
  <2>7. CASE Goto(t, "kick", Top(t).desc)
    BY <1>7, <2>1, <2>4, <2>5, <2>7 DEF vq1
  <2> QED
    BY <2>1, <2>6, <2>7
<1>12. CASE SendKick(t)
  <2>1. UNCHANGED <<vq0, vq1, buf0>> /\ (Stay \/ Pop(t))
    BY <1>12 DEF SendKick
  <2>2. \A x \in Desc : S0!InUsed(x)' => x \in Live0
    BY <1>5, <2>1, SameUsed0 DEF vq0
  <2> QED
    BY <1>6, <1>9, <2>1, <2>2 DEF vq1
<1>13. CASE Vq1Take(t)
  <2>1. /\ Top(t).fn = "vq1" /\ UNCHANGED <<vq0, buf0>>
        /\ \/ Stay /\ UNCHANGED <<vq1_avail_idx, vq1_avail_ring, vq1_last_avail>>
           \/ VQ1!GetAvailStore(t) /\ Goto(t, "recv", vq1_call[t].desc)
           \/ Pop(t) /\ UNCHANGED vq1
    BY <1>13
       DEF Vq1Take, At, VQ1!GetAvailCheck, VQ1!GetAvailRing, VQ1!GetAvailLoad,
           VQ1!GetAvailEmpty, VQ1!vars, VQ1!core1Vars, VQ1!linuxVars, vq1
  <2>2. \A x \in Desc : S0!InUsed(x)' => x \in Live0
    BY <1>5, <2>1, SameUsed0 DEF vq0
  <2>3. CASE Stay /\ UNCHANGED <<vq1_avail_idx, vq1_avail_ring, vq1_last_avail>>
    BY <1>6, <2>1, <2>2, <2>3
  <2>4. CASE VQ1!GetAvailStore(t) /\ Goto(t, "recv", vq1_call[t].desc)
    <3>1. [Top(t) EXCEPT !.pc = "recv", !.desc = vq1_call[t].desc] \in Frame
      BY <1>3, <1>4, <2>1, FrameFacts
    <3> QED
      BY <1>7, <2>1, <2>2, <2>4, <3>1
  <2>5. CASE Pop(t) /\ UNCHANGED vq1
    BY <1>9, <2>1, <2>5
  <2> QED
    BY <2>1, <2>3, <2>4, <2>5
<1>14. CASE Vq1Recv(t)
  <2>1. /\ Top(t).fn = "vq1" /\ Top(t).pc = "recv" /\ UNCHANGED <<vq0, vq1, buf0>>
        /\ Goto(t, "put", Top(t).desc) \/ Push(t, "put", SendFrame(Blank))
    BY <1>14 DEF Vq1Recv, At
  <2>2. /\ [Top(t) EXCEPT !.pc = "put", !.desc = Top(t).desc] \in Frame
        /\ [Top(t) EXCEPT !.pc = "put"] \in Frame
        /\ SendFrame(Blank) \in Frame /\ SendFrame(Blank).pc = "take"
    BY <1>3, <2>1, FrameFacts, NewFrames DEF Message, SendFrame
  <2>3. \A x \in Desc : S0!InUsed(x)' => x \in Live0
    BY <1>5, <2>1, SameUsed0 DEF vq0
  <2>4. CASE Goto(t, "put", Top(t).desc)
    BY <1>7, <2>1, <2>2, <2>3, <2>4 DEF vq1
  <2>5. CASE Push(t, "put", SendFrame(Blank))
    BY <1>8, <2>1, <2>2, <2>5
  <2> QED
    BY <2>1, <2>4, <2>5
<1>15. CASE Vq1Put(t)
  <2>1. /\ Top(t).fn = "vq1" /\ UNCHANGED <<vq0, buf0>>
        /\ UNCHANGED <<vq1_avail_idx, vq1_avail_ring, vq1_last_avail>>
        /\ Stay \/ Goto(t, "kick", Top(t).desc)
    BY <1>15 DEF Vq1Put, At, VQ1!PutUsedRead, VQ1!PutUsedId, VQ1!PutUsedLen,
                 VQ1!PutUsedPublish, VQ1!linuxVars
  <2>2. [Top(t) EXCEPT !.pc = "kick", !.desc = Top(t).desc] \in Frame
    BY <1>3, <2>1, FrameFacts
  <2>3. \A x \in Desc : S0!InUsed(x)' => x \in Live0
    BY <1>5, <2>1, SameUsed0 DEF vq0
  <2>4. CASE Stay
    BY <1>6, <2>1, <2>3, <2>4
  <2>5. CASE Goto(t, "kick", Top(t).desc)
    BY <1>7, <2>1, <2>2, <2>3, <2>5
  <2> QED
    BY <2>1, <2>4, <2>5
<1>16. CASE Vq1Kick(t)
  <2>1. /\ Top(t).fn = "vq1" /\ UNCHANGED <<vq0, vq1, buf0>>
        /\ Stay \/ Pop(t) \/ Goto(t, "take", 0)
    BY <1>16 DEF Vq1Kick, At
  <2>2. [Top(t) EXCEPT !.pc = "take", !.desc = 0] \in Frame
    BY <1>3, <1>4, <2>1, FrameFacts
  <2>3. \A x \in Desc : S0!InUsed(x)' => x \in Live0
    BY <1>5, <2>1, SameUsed0 DEF vq0
  <2>4. CASE Stay
    BY <1>6, <2>1, <2>3, <2>4 DEF vq1
  <2>5. CASE Pop(t)
    BY <1>9, <2>1, <2>5
  <2>6. CASE Goto(t, "take", 0)
    BY <1>7, <2>1, <2>2, <2>3, <2>6 DEF vq1
  <2> QED
    BY <2>1, <2>4, <2>5, <2>6
<1> QED
  BY <1>10, <1>11, <1>12, <1>13, <1>14, <1>15, <1>16 DEF Step, t

\* A buffer of vq1 with a message of Linux in it is one that had it before.
LEMMA MovesLive ==
    ASSUME VQ1!TypeOK, S1!RingInv, S1!RingInv', MovesNone
    PROVE  Live1' \subseteq Live1
<1>1. ASSUME VQ1!GetAvailStore(Rpmsg)
      PROVE  /\ vq1_call[Rpmsg].desc \in Live1
             /\ \A x \in Desc : S1!InAvail(x)' => S1!InAvail(x)
  BY <1>1, Takes1 DEF Live1
<1>2. \A x \in Desc : S1!InAvail(x)' => S1!InAvail(x)
  BY <1>1, SameAvail1 DEF MovesNone
<1>3. \A i : Copying(stack'[Rpmsg], i) =>
         \/ Copying(stack[Rpmsg], i) /\ stack'[Rpmsg][i].desc = stack[Rpmsg][i].desc
         \/ stack'[Rpmsg][i].desc \in Live1
  BY <1>1 DEF MovesNone
<1> QED
  BY <1>2, <1>3 DEF Live1

\* Linux sends in a buffer that carries no message.
Sends(d) ==
    /\ VQ1!LinuxOffer(d)
    /\ buf1' = [buf1 EXCEPT ![d] = FromLinux(sent + 1)] /\ sent' = sent + 1
    /\ UNCHANGED <<vq0, buf0, received, stack>>
    /\ d \notin Live1
    /\ Live1' \subseteq Live1 \union {d} /\ Live0' \subseteq Live0

LEMMA SendMoves ==
    ASSUME LinkTypes, AloneInv, S1!RingInv', LinuxSend
    PROVE  \E d \in Desc : Sends(d)
<1>1. /\ VQ1!TypeOK /\ S1!RingInv
      /\ RecvDescs(stack[Rpmsg]) = vq1_held[Rpmsg]
  BY DEF LinkTypes, TypeOK, AloneInv
<1>2. PICK d \in vq1_free : /\ VQ1!LinuxOffer(d)
                            /\ buf1' = [buf1 EXCEPT ![d] = FromLinux(sent + 1)]
  BY DEF LinuxSend
<1>3. /\ d \in Desc /\ sent' = sent + 1
      /\ UNCHANGED <<vq0, buf0, received, stack>>
  BY <1>1, DescIs DEF LinuxSend, VQ1!TypeOK
<1>4. /\ ~S1!InAvail(d) /\ d \notin vq1_held[Rpmsg]
      /\ \A x \in Desc : S1!InAvail(x)' => x = d \/ S1!InAvail(x)
  BY <1>1, <1>2, <1>3, Offers1
<1>5. d \notin Live1
  <2>1. ASSUME NEW i, Copying(stack[Rpmsg], i) PROVE stack[Rpmsg][i].desc \in vq1_held[Rpmsg]
    <3>1. i \in Receives(stack[Rpmsg])
      BY <2>1 DEF Copying, Receives
    <3> QED
      BY <1>1, <3>1, ReceivesIs
  <2> QED
    BY <1>4, <2>1 DEF Live1
<1>6. Live1' \subseteq Live1 \union {d}
  BY <1>3, <1>4 DEF Live1
<1>7. Live0' \subseteq Live0
  <2>1. \A x : S0!InUsed(x)' <=> S0!InUsed(x)
    BY <1>3, SameUsed0 DEF vq0
  <2>2. Top(Rpmsg)' = Top(Rpmsg)
    BY <1>3 DEF Top, Depth
  <2> QED
    BY <1>3, <2>1, <2>2 DEF Live0
<1> QED
  BY <1>2, <1>3, <1>5, <1>6, <1>7 DEF Sends

\* Linux takes a message that was on its way.
Gets(d) ==
    /\ received' = Append(received, buf0[d])
    /\ UNCHANGED <<vq1, buf0, buf1, sent, stack>>
    /\ Live1' \subseteq Live1 /\ Live0' \subseteq Live0 \ {d}

LEMMA ReceiveMoves ==
    ASSUME LinkTypes, Alone0, S0!RingInv', LinuxReceive
    PROVE  \E d \in Live0 : Gets(d)
<1>1. VQ0!TypeOK /\ S0!RingInv
  BY DEF LinkTypes, TypeOK, Alone0
<1>2. PICK d : d = vq0_used_ring[VQ0!Slot(vq0_last_used)].id
  OBVIOUS
<1>3. /\ VQ0!LinuxReclaim /\ UNCHANGED <<vq1, buf0, buf1, sent, stack>>
      /\ received' = IF vq0_broken' THEN received ELSE Append(received, buf0[d])
  BY <1>2 DEF LinuxReceive
<1>4. /\ d \in Desc /\ S0!InUsed(d) /\ ~S0!InUsed(d)' /\ ~vq0_broken'
      /\ \A x \in Desc : S0!InUsed(x)' => S0!InUsed(x)
      /\ d \notin vq0_held[Rpmsg]
  BY <1>1, <1>2, <1>3, Reclaims0
<1>5. d \in Live0
  BY <1>4 DEF Live0
<1>6. Live0' \subseteq Live0 \ {d}
  <2>1. Top(Rpmsg)' = Top(Rpmsg)
    BY <1>3 DEF Top, Depth
  <2>2. stack[Rpmsg] # <<>> /\ Top(Rpmsg).fn = "send" /\ Top(Rpmsg).pc = "put" =>
           Top(Rpmsg).desc # d
    BY <1>4 DEF Alone0, Holding0
  <2> QED
    BY <1>3, <1>4, <2>1, <2>2 DEF Live0
<1>7. Live1' \subseteq Live1
  <2>1. \A x : S1!InAvail(x)' <=> S1!InAvail(x)
    BY <1>3, SameAvail1 DEF vq1
  <2> QED
    BY <1>3, <2>1 DEF Live1
<1>8. received' = Append(received, buf0[d])
  BY <1>3, <1>4
<1> QED
  BY <1>3, <1>5, <1>6, <1>7, <1>8 DEF Gets

\* Linux sends a message, or takes one; an echo copies one; and no other
\* step moves any but out of vq1.
LEMMA NextMoves ==
    ASSUME NActive = 0, LinkTypes, LeakInv, AloneInv, Alone0, [Next]_vars
    PROVE  LinuxSend \/ LinuxReceive \/ SendFill(Rpmsg) \/ MovesNone
<1>1. Rpmsg \in Tasks /\ Tasks = {T1, Rpmsg} /\ stack \in Stacks /\ base[T1] = "delay"
  BY DEF LinkTypes, TypeOK, Stacks, AloneInv, Tasks
\* Steps that take no buffer of vq1 out of a hand or give Linux one of vq0.
<1>2. ASSUME UNCHANGED <<buf0, buf1, sent, received>>,
             stack' = stack \/ stack'[Rpmsg] = <<Vq1Frame>>,
             UNCHANGED <<vq1_avail_idx, vq1_avail_ring, vq1_last_avail>>,
             UNCHANGED <<vq0_used_idx, vq0_used_ring, vq0_last_used>>
      PROVE  MovesNone
  <2>1. \A x : S0!InUsed(x)' <=> S0!InUsed(x)
    BY <1>2, SameUsed0
  <2>2. \A i : Copying(stack'[Rpmsg], i) => stack' = stack
    BY <1>2 DEF Copying, Vq1Frame
  <2>3. \/ Top(Rpmsg)' = Top(Rpmsg) /\ stack' = stack
        \/ Top(Rpmsg)' = Vq1Frame
    BY <1>2 DEF Top, Depth
  <2>4. Live0' \subseteq Live0
    BY <2>1, <2>3 DEF Live0, Vq1Frame
  <2> QED
    BY <1>2, <2>2, <2>4 DEF MovesNone
<1>3. CASE \/ LinuxRing \/ LinuxTxPoll \/ LinuxReclaimVq1
           \/ LinuxIrqRead \/ LinuxIrqDone \/ LinuxIrqClear
  BY <1>2, <1>3 DEF LinuxRing, LinuxTxPoll, LinuxReclaimVq1, LinuxIrqRead, LinuxIrqDone,
                    LinuxIrqClear, VQ1!LinuxReclaim, VQ1!core1Vars, vq0, vq1, lin
<1>4. CASE LinuxRefill
  BY <1>2, <1>4 DEF LinuxRefill, VQ0!LinuxOffer, VQ0!core1Vars, vq1, lin
<1>5. CASE IsrClear \/ IsrNotify \/ UNCHANGED vars
  BY <1>2, <1>5 DEF IsrClear, IsrNotify, vars, vq0, vq1, lin
<1>6. CASE NotifyTake
  <2>1. /\ UNCHANGED <<vq0, vq1, buf0, buf1, lin>>
        /\ stack' = stack \/ stack' = [stack EXCEPT ![Rpmsg] = <<Vq1Frame>>]
    BY <1>6 DEF NotifyTake
  <2>2. stack' = stack \/ stack'[Rpmsg] = <<Vq1Frame>>
    BY <1>1, <2>1 DEF Stacks
  <2> QED
    BY <1>2, <2>1, <2>2 DEF vq0, vq1, lin
<1>7. ~T1Wake /\ ~T1Check /\ ~Step(T1)
  BY <1>1, T1Silent
<1>8. CASE Step(Rpmsg)
  BY <1>8, Alone0Kept, StepMoves DEF Alone0
<1> QED
  BY <1>1, <1>3, <1>4, <1>5, <1>6, <1>7, <1>8 DEF Next, Core1, Linux, LinuxIrq

\* Every step keeps each message in one place.
LEMMA OnceNext ==
    ASSUME NActive = 0, LinkTypes, LeakInv, AloneInv, Alone0, OnceInv, [Next]_vars
    PROVE  OnceInv'
<1>1. /\ S1!RingInv' /\ S0!RingInv' /\ S1!RingInv /\ VQ1!TypeOK
      /\ sent \in Nat /\ buf1 \in [Desc -> Message] /\ received \in Seq(Message)
  BY AloneKept, Alone0Kept DEF AloneInv, Alone0, LinkTypes, TypeOK
<1>2. CASE LinuxSend
  <2>1. PICK d \in Desc : Sends(d)
    BY <1>1, <1>2, SendMoves
  <2> QED
    BY <1>1, <2>1, OnceSend DEF Sends
<1>3. CASE LinuxReceive
  <2>1. PICK d \in Live0 : Gets(d)
    BY <1>1, <1>3, ReceiveMoves
  <2> QED
    BY <1>1, <2>1, OnceReceive DEF Gets
<1>4. CASE SendFill(Rpmsg)
  BY <1>4, OnceEcho
<1>5. CASE MovesNone
  <2>1. Live1' \subseteq Live1
    BY <1>1, <1>5, MovesLive
  <2> QED
    BY <1>5, <2>1, OnceSame DEF MovesNone
<1> QED
  BY <1>2, <1>3, <1>4, <1>5, NextMoves

\* At first there is no message anywhere.
LEMMA NothingYet ==
    ASSUME Init
    PROVE  /\ Live1 = {} /\ Live0 = {} /\ received = <<>> /\ stack[Rpmsg] = <<>>
           /\ S1!Waiting = 0
<1>1. /\ received = <<>> /\ stack[Rpmsg] = <<>>
      /\ vq1_last_avail = 0 /\ vq1_avail_idx = 0 /\ vq0_used_idx = 1 /\ vq0_last_used = 1
  BY DEF Init, VQ1!Init, Tasks
<1>2. S1!Waiting = 0 /\ S0!Done = 0
  <2>1. 0 \in S1!Idx /\ 1 \in S0!Idx /\ IDXMOD \in Nat \ {0}
    BY RingAssumption DEF S1!Idx, S0!Idx
  <2>2. S1!Waiting = 0
    BY <1>1, <2>1, S1!Distance, RingAssumption DEF S1!Waiting
  <2>3. S0!Done = 0
    BY <1>1, <2>1, S0!Distance, RingAssumption DEF S0!Done
  <2> QED
    BY <2>2, <2>3
<1>3. \A d : ~S1!InAvail(d) /\ ~S0!InUsed(d)
  BY <1>2 DEF S1!InAvail, S0!InUsed
<1>4. \A i : ~Copying(stack[Rpmsg], i)
  BY <1>1 DEF Copying
<1> QED
  BY <1>1, <1>2, <1>3, <1>4 DEF Live1, Live0

LEMMA OnceInit == ASSUME Init PROVE OnceInv
  BY NothingYet DEF OnceInv

(* No message reaches Linux twice, and none that Linux did not send: the   *)
(* echo is copied out of a buffer that Linux has filled and core1 holds    *)
(* (rpmsg_core.c:285) into one that core1 holds (rpmsg_core.c:244), however *)
(* deep rpmsg_send and rpmsg_handle_vq1 have called each other, whichever  *)
(* kicks have timed out, and when Linux refills both rings meanwhile.      *)
THEOREM EachOnce == ASSUME NActive = 0 PROVE Spec => []EachMessageOnce
<1>1. Init => LinkTypes /\ LeakInv /\ AloneInv /\ Alone0 /\ OnceInv
  BY LinkTypesInit, LeakInit, AloneInit, Alone0Init, OnceInit
<1>2. LinkTypes /\ LeakInv /\ AloneInv /\ Alone0 /\ OnceInv /\ [Next]_vars
        => (LinkTypes /\ LeakInv /\ AloneInv /\ Alone0 /\ OnceInv)'
  BY LinkTypesNext, LeakNext, AloneKept, Alone0Kept, OnceNext
<1>3. LinkTypes /\ OnceInv => EachMessageOnce
  <2> SUFFICES ASSUME LinkTypes, OnceInv PROVE EachMessageOnce
    OBVIOUS
  <2> DEFINE n == Len(received)
  <2>1. received \in Seq(Message) /\ n \in Nat /\ DOMAIN received = 1 .. n
    BY DEF LinkTypes, TypeOK
  <2>2. Blank \notin Received
    BY <2>1 DEF OnceInv, Received, Sent, FromLinux, Blank
  <2>3. ExistsBijection(1 .. n, Received)
    <3>1. received \in [1 .. n -> Received]
      BY <2>1 DEF Received
    <3>2. \A i, j \in 1 .. n : received[i] = received[j] => i = j
      BY DEF OnceInv
    <3>3. \A x \in Received : \E i \in 1 .. n : received[i] = x
      BY <2>1 DEF Received
    <3> QED
      BY <3>1, <3>2, <3>3 DEF ExistsBijection, Bijection, Injection, Surjection, IsInjective
  <2>4. Cardinality(Received) = n
    BY <2>1, <2>3, FS_CountingElements
  <2> QED
    BY <2>2, <2>4 DEF EachMessageOnce
<1> QED
  BY <1>1, <1>2, <1>3, PTL DEF Spec
-----------------------------------------------------------------------------
(* What rpmsg_send has reported                                            *)

\* A message that Linux has or will find in the used ring of vq0.
Landed(m) == m \in Received \/ \E d \in Desc : S0!InUsed(d) /\ buf0[d] = m

\* rpmsg_send knows which message its buffer carries until it has kicked.
ReportTop ==
    stack[Rpmsg] # <<>> /\ Top(Rpmsg).fn = "send" =>
       /\ Top(Rpmsg).pc = "put" => buf0[Top(Rpmsg).desc] = Top(Rpmsg).msg
       /\ \A m : Top(Rpmsg).pc = "kick" /\ m = Top(Rpmsg).msg => Landed(m)

ReportInv == ReportTop /\ \A m \in claimed : Landed(m)

\* A step that leaves the used ring and what is in its buffers.
LEMMA LandedSame ==
    ASSUME NEW m, Landed(m), received' = received,
           \A x \in Desc : S0!InUsed(x) => S0!InUsed(x)' /\ buf0'[x] = buf0[x]
    PROVE  Landed(m)'
  BY DEF Landed, Received

\* core1 gives a buffer back, and none that it has given back goes.
LEMMA GivesMore0 ==
    ASSUME VQ0!TypeOK, S0!RingInv, S0!RingInv', NEW d \in Desc,
           \/ VQ0!PutUsedRead(Rpmsg, d, 1) \/ VQ0!PutUsedId(Rpmsg) \/ VQ0!PutUsedLen(Rpmsg)
           \/ VQ0!PutUsedPublish(Rpmsg)
    PROVE  /\ \A x \in Desc : S0!InUsed(x) => S0!InUsed(x)'
           /\ \A x \in Desc : VQ0!PutUsedPublish(Rpmsg) /\ x = vq0_call[Rpmsg].desc
                                  /\ x \in vq0_held[Rpmsg] => S0!InUsed(x)'
<1>1. UNCHANGED <<vq0_avail_idx, vq0_avail_ring, vq0_last_avail, vq0_free>>
  BY DEF VQ0!PutUsedRead, VQ0!PutUsedId, VQ0!PutUsedLen, VQ0!PutUsedPublish, VQ0!linuxVars
<1>2. \A x \in Desc : S0!InAvail(x)' <=> S0!InAvail(x)
  BY <1>1, SameAvail0
<1>3. \/ VQ0!PutUsedPublish(Rpmsg) /\ vq0_held'[Rpmsg] = vq0_held[Rpmsg] \ {vq0_call[Rpmsg].desc}
      \/ ~VQ0!PutUsedPublish(Rpmsg) /\ vq0_held'[Rpmsg] = vq0_held[Rpmsg]
  BY Giving0 DEF Tasks
<1>4. ASSUME NEW x \in Desc, S0!InUsed(x) PROVE S0!InUsed(x)'
  <2>1. x \notin vq0_free /\ ~S0!InAvail(x) /\ x \notin vq0_held[Rpmsg]
    BY <1>4, Hand0
  <2> QED
    BY <1>1, <1>2, <1>3, <2>1, Hand0Next
<1>5. ASSUME NEW x \in Desc, VQ0!PutUsedPublish(Rpmsg), x = vq0_call[Rpmsg].desc,
             x \in vq0_held[Rpmsg]
      PROVE  S0!InUsed(x)'
  <2>1. x \notin vq0_free /\ ~S0!InAvail(x)
    BY <1>5, Hand0
  <2> QED
    BY <1>1, <1>2, <1>3, <1>5, <2>1, Hand0Next
<1> QED
  BY <1>4, <1>5

\* Linux takes one buffer out of the used ring and leaves the others in it.
LEMMA Leaves0 ==
    ASSUME VQ0!TypeOK, S0!RingInv, S0!RingInv', VQ0!LinuxReclaim,
           NEW d, d = vq0_used_ring[VQ0!Slot(vq0_last_used)].id
    PROVE  \A x \in Desc : S0!InUsed(x) /\ x # d => S0!InUsed(x)'
<1>1. /\ UNCHANGED <<vq0_avail_idx, vq0_avail_ring, vq0_last_avail, vq0_held>>
      /\ vq0_free' \subseteq vq0_free \union {d}
  BY DEF VQ0!LinuxReclaim, VQ0!core1Vars
<1>2. \A x \in Desc : S0!InAvail(x)' <=> S0!InAvail(x)
  BY <1>1, SameAvail0
<1> TAKE x \in Desc
<1>3. HAVE S0!InUsed(x) /\ x # d
<1>4. x \notin vq0_free /\ ~S0!InAvail(x) /\ x \notin vq0_held[Rpmsg]
  BY <1>3, Hand0
<1> QED
  BY <1>1, <1>2, <1>3, <1>4, Hand0Next

\* What has landed stays with Linux.
LEMMA LandedNext ==
    ASSUME NActive = 0, LinkTypes, LeakInv, AloneInv, Alone0, [Next]_vars, NEW m, Landed(m)
    PROVE  Landed(m)'
<1>1. Rpmsg \in Tasks /\ Tasks = {T1, Rpmsg} /\ base[T1] = "delay" /\ stack \in Stacks
      /\ VQ0!TypeOK /\ S0!RingInv /\ buf0 \in [Desc -> Message] /\ received \in Seq(Message)
  BY DEF LinkTypes, TypeOK, Stacks, AloneInv, Alone0, Tasks
<1>2. S0!RingInv'
  BY Alone0Kept DEF Alone0
<1>3. ASSUME UNCHANGED <<vq0_used_idx, vq0_used_ring, vq0_last_used, buf0, received>>
      PROVE  Landed(m)'
  BY <1>3, SameUsed0, LandedSame
<1>4. CASE LinuxReceive
  <2>1. PICK d : d = vq0_used_ring[VQ0!Slot(vq0_last_used)].id
    OBVIOUS
  <2>2. /\ VQ0!LinuxReclaim /\ buf0' = buf0
        /\ received' = IF vq0_broken' THEN received ELSE Append(received, buf0[d])
    BY <1>4, <2>1 DEF LinuxReceive
  <2>3. ~vq0_broken'
    BY <1>1, <1>2, <2>1, <2>2, Reclaims0
  <2>4. received' = Append(received, buf0[d])
    BY <2>2, <2>3
  <2>5. Received' = Received \union {buf0[d]}
    <3>1. /\ Len(received) \in Nat /\ Len(received') = Len(received) + 1
          /\ DOMAIN received = 1 .. Len(received)
          /\ DOMAIN received' = 1 .. Len(received) + 1
          /\ received'[Len(received) + 1] = buf0[d]
          /\ \A i \in 1 .. Len(received) : received'[i] = received[i]
      BY <1>1, <2>4
    <3> QED
      BY <3>1 DEF Received
  <2>6. \A x \in Desc : S0!InUsed(x) /\ x # d => S0!InUsed(x)'
    BY <1>1, <1>2, <2>1, <2>2, Leaves0
  <2> QED
    BY <2>2, <2>5, <2>6 DEF Landed
<1>5. CASE LinuxSend \/ LinuxRing \/ LinuxTxPoll \/ LinuxReclaimVq1 \/ LinuxIrqRead \/ LinuxIrqDone
           \/ LinuxIrqClear
  BY <1>3, <1>5 DEF LinuxSend, LinuxRing, LinuxTxPoll, LinuxReclaimVq1, LinuxIrqRead,
                    LinuxIrqDone, LinuxIrqClear, vq0, lin
<1>6. CASE LinuxRefill
  BY <1>3, <1>6 DEF LinuxRefill, VQ0!LinuxOffer, VQ0!core1Vars, lin
<1>7. CASE IsrClear \/ IsrNotify \/ NotifyTake \/ UNCHANGED vars
  BY <1>3, <1>7 DEF IsrClear, IsrNotify, NotifyTake, vars, vq0, lin
<1>8. ~T1Wake /\ ~T1Check /\ ~Step(T1)
  BY <1>1, T1Silent
<1>9. CASE Step(Rpmsg)
  <2>1. received' = received /\ stack[Rpmsg] # <<>>
    BY <1>1, <1>9, StepTypes DEF lin
  <2>2. CASE SendFill(Rpmsg)
    <3>1. /\ UNCHANGED vq0
          /\ buf0' = [buf0 EXCEPT ![Top(Rpmsg).desc] = Payload(Rpmsg)]
          /\ Top(Rpmsg).fn = "send" /\ Top(Rpmsg).pc = "fill"
      BY <1>1, <2>2, Filled DEF SendFill, At
    <3>2. Top(Rpmsg).desc \in vq0_held[Rpmsg]
      BY <2>1, <3>1 DEF Alone0, Holding0
    <3>3. \A x \in Desc : S0!InUsed(x) => x # Top(Rpmsg).desc
      BY <1>1, <3>2, Hand0
    <3>4. \A x \in Desc : S0!InUsed(x) => S0!InUsed(x)'
      BY <3>1, SameUsed0 DEF vq0
    <3>5. \A x \in Desc : S0!InUsed(x) => S0!InUsed(x)' /\ buf0'[x] = buf0[x]
      BY <1>1, <3>1, <3>3, <3>4
    <3> QED
      BY <2>1, <3>5, LandedSame
  <2>3. CASE SendPut(Rpmsg)
    <3>1. /\ buf0' = buf0
          /\ \/ VQ0!PutUsedRead(Rpmsg, Top(Rpmsg).desc, 1) \/ VQ0!PutUsedId(Rpmsg)
             \/ VQ0!PutUsedLen(Rpmsg) \/ VQ0!PutUsedPublish(Rpmsg)
      BY <2>3 DEF SendPut
    <3>2. Top(Rpmsg).desc \in Desc
      BY <1>1, <2>1, TopIs, FrameFacts
    <3>3. \A x \in Desc : S0!InUsed(x) => S0!InUsed(x)'
      <4>1. ASSUME NEW d \in Desc,
                   \/ VQ0!PutUsedRead(Rpmsg, d, 1) \/ VQ0!PutUsedId(Rpmsg)
                   \/ VQ0!PutUsedLen(Rpmsg) \/ VQ0!PutUsedPublish(Rpmsg)
            PROVE  \A x \in Desc : S0!InUsed(x) => S0!InUsed(x)'
        BY <1>1, <1>2, <4>1, GivesMore0
      <4> QED
        BY <3>1, <3>2, <4>1
    <3> QED
      BY <2>1, <3>1, <3>3, LandedSame
  <2>4. CASE SendTake(Rpmsg)
    <3>1. UNCHANGED <<vq0_used_idx, vq0_used_ring, vq0_last_used, buf0>>
      BY <2>4 DEF SendTake, VQ0!GetAvailCheck, VQ0!GetAvailRing, VQ0!GetAvailLoad,
                  VQ0!GetAvailStore, VQ0!GetAvailEmpty, VQ0!vars, VQ0!core1Vars, VQ0!linuxVars
    <3> QED
      BY <1>3, <2>1, <3>1
  <2>5. CASE \/ SendKick(Rpmsg) \/ Vq1Take(Rpmsg) \/ Vq1Recv(Rpmsg) \/ Vq1Put(Rpmsg)
             \/ Vq1Kick(Rpmsg)
    BY <1>3, <2>1, <2>5 DEF SendKick, Vq1Take, Vq1Recv, Vq1Put, Vq1Kick, vq0
  <2> QED
    BY <1>9, <2>2, <2>3, <2>4, <2>5 DEF Step
<1> QED
  BY <1>1, <1>4, <1>5, <1>6, <1>7, <1>8, <1>9 DEF Next, Core1, Linux, LinuxIrq

\* A step of vRpmsgTask reports only what has landed.
LEMMA ReportStep ==
    ASSUME NActive = 0, LinkTypes, LeakInv, AloneInv, Alone0, ReportInv, Step(Rpmsg)
    PROVE  ReportInv'
<1> DEFINE t == Rpmsg
<1>1. /\ VQ0!TypeOK /\ VQ1!TypeOK /\ stack \in Stacks /\ LeakOf(t) /\ t \in Tasks
      /\ S0!RingInv /\ Nested(stack[t]) /\ buf0 \in [Desc -> Message]
  BY DEF LinkTypes, TypeOK, Stacks, LeakInv, AloneInv, Alone0, Tasks
<1>2. stack[t] # <<>> /\ stack' \in Stacks
  BY <1>1, StepTypes
<1>3. /\ Top(t) \in Frame /\ Depth(t) \in Nat \ {0} /\ Depth(t) = Len(stack[t])
      /\ Top(t).desc \in Desc /\ Top(t) = stack[t][Depth(t)]
  BY <1>1, <1>2, TopIs, FrameFacts DEF Depth
<1>4. vq0_call[t].desc \in Desc /\ vq1_call[t].desc \in Desc /\ 0 \in Desc
  BY <1>1, DescIs, RingAssumption DEF LinkTypes, TypeOK, VQ0!TypeOK, VQ1!TypeOK
<1>5. Next /\ S0!RingInv'
  BY <1>1, Alone0Step DEF Next, Core1, Alone0
<1>6. /\ \A m : Landed(m) => Landed(m)'
      /\ \A m \in claimed : Landed(m)
      /\ Top(t).fn = "send" /\ Top(t).pc = "put" => buf0[Top(t).desc] = Top(t).msg
      /\ Top(t).fn = "send" /\ Top(t).pc = "kick" => Landed(Top(t).msg)
  <2>1. \A m : Landed(m) => Landed(m)'
    BY <1>5, LandedNext
  <2> QED
    BY <1>2, <2>1 DEF ReportInv, ReportTop
<1>7. SUFFICES (\A m \in claimed' : Landed(m)') /\ ReportTop'
  BY DEF ReportInv
<1>8. claimed' = claimed => \A m \in claimed' : Landed(m)'
  BY <1>6
<1> HIDE DEF t
<1>9. ASSUME Stay, buf0' = buf0 PROVE ReportTop'
  <2>1. Top(t)' = Top(t) /\ stack' = stack
    BY <1>9 DEF Stay, Top, Depth
  <2> QED
    BY <1>6, <1>9, <2>1 DEF ReportTop, t
<1>10. ASSUME NEW pc, NEW d, Goto(t, pc, d), [Top(t) EXCEPT !.pc = pc, !.desc = d] \in Frame
       PROVE  /\ Top(t)'.fn = Top(t).fn /\ Top(t)'.pc = pc /\ Top(t)'.desc = d
              /\ Top(t)'.msg = Top(t).msg
  <2>1. Len(stack'[t]) = Depth(t) /\ TopBecomes(t, pc, d)
    BY <1>1, <1>2, <1>10, Gone
  <2>2. Top(t)' = stack'[t][Depth(t)]
    BY <2>1 DEF Top, Depth
  <2> QED
    BY <2>1, <2>2 DEF TopBecomes
<1>11. ASSUME NEW ret, NEW f \in Frame, [Top(t) EXCEPT !.pc = ret] \in Frame, Push(t, ret, f),
              f.pc = "take"
       PROVE  ReportTop'
  <2>1. Top(t)' = f
    BY <1>1, <1>2, <1>11, Pushed DEF Top, Depth
  <2> QED
    BY <1>11, <2>1 DEF ReportTop, t
<1>12. ASSUME Pop(t) PROVE ReportTop'
  <2>1. stack'[t] # <<>> => (Top(t)'.fn = "send" => Top(t)'.pc = "take")
    BY <1>1, <1>2, <1>12, UnderTop
  <2> QED
    BY <2>1 DEF ReportTop, t
<1>13. ASSUME Top(t)'.fn = "vq1" PROVE ReportTop'
  BY <1>13 DEF ReportTop, t
<1>14. CASE SendTake(t)
  <2>1. /\ Top(t).fn = "send" /\ buf0' = buf0 /\ claimed' = claimed
        /\ Stay \/ Goto(t, "fill", vq0_call[t].desc) \/ Push(t, "take", Vq1Frame)
    BY <1>14 DEF SendTake, At, rest
  <2>2. /\ [Top(t) EXCEPT !.pc = "fill", !.desc = vq0_call[t].desc] \in Frame
        /\ [Top(t) EXCEPT !.pc = "take"] \in Frame
    BY <1>3, <1>4, <2>1, FrameFacts
  <2>3. Goto(t, "fill", vq0_call[t].desc) => ReportTop'
    <3> SUFFICES ASSUME Goto(t, "fill", vq0_call[t].desc) PROVE ReportTop'
      OBVIOUS
    <3>1. Top(t)'.pc = "fill"
      BY <1>10, <2>2
    <3> QED
      BY <3>1 DEF ReportTop, t
  <2>4. Push(t, "take", Vq1Frame) => ReportTop'
    BY <1>11, <2>2, NewFrames DEF Vq1Frame
  <2> QED
    BY <1>8, <1>9, <2>1, <2>3, <2>4
<1>15. CASE SendFill(t)
  <2>1. claimed' = claimed /\ Top(t).fn = "send"
    BY <1>15 DEF SendFill, At, rest
  <2>2. /\ Len(stack'[t]) = Depth(t)
        /\ stack'[t][Depth(t)] = [Top(t) EXCEPT !.pc = "put", !.msg = Payload(t)]
        /\ buf0' = [buf0 EXCEPT ![Top(t).desc] = Payload(t)]
    BY <1>1, <1>15, Filled
  <2>3. Top(t)' = [Top(t) EXCEPT !.pc = "put", !.msg = Payload(t)]
    BY <2>2 DEF Top, Depth
  <2>4. Top(t)'.desc = Top(t).desc /\ Top(t)'.pc = "put"
    BY <1>3, <2>3, TopFields
  <2>5. Top(t)'.msg = Payload(t)
    BY <1>3, <2>3 DEF Frame
  <2>6. buf0'[Top(t).desc] = Payload(t)
    BY <1>1, <1>3, <2>2
  <2> QED
    BY <1>8, <2>1, <2>4, <2>5, <2>6 DEF ReportTop, t
<1>16. CASE SendPut(t)
  <2>1. /\ Top(t).fn = "send" /\ Top(t).pc = "put" /\ buf0' = buf0 /\ claimed' = claimed
        /\ Stay \/ (VQ0!PutUsedPublish(t) /\ Goto(t, "kick", Top(t).desc))
    BY <1>16 DEF SendPut, At, rest
  <2>2. CASE VQ0!PutUsedPublish(t) /\ Goto(t, "kick", Top(t).desc)
    <3>1. vq0_call[t].desc = Top(t).desc
      BY <1>1, <2>2 DEF VQ0!PutUsedPublish, LeakOf, GivingPCs
    <3>2. Top(t).desc \in vq0_held[t]
      BY <1>2, <2>1 DEF Alone0, Holding0, t
    <3>3. \A d \in Desc : d = Top(t).desc => S0!InUsed(d)'
      BY <1>1, <1>3, <1>5, <2>2, <3>1, <3>2, GivesMore0 DEF t
    <3>4. \A d \in Desc : d = Top(t).desc => buf0'[d] = Top(t).msg
      BY <1>6, <2>1
    <3>5. \A m : m = Top(t).msg => Landed(m)'
      BY <1>3, <3>3, <3>4 DEF Landed
    <3>6. [Top(t) EXCEPT !.pc = "kick", !.desc = Top(t).desc] \in Frame
      BY <1>3, <2>1, FrameFacts
    <3>7. Top(t)'.pc = "kick" /\ Top(t)'.msg = Top(t).msg
      BY <1>10, <2>2, <3>6
    <3>8. ReportTop'
      BY <3>5, <3>7 DEF ReportTop, t
    <3> QED
      BY <1>8, <2>1, <3>8
  <2>3. CASE Stay
    BY <1>8, <1>9, <2>1, <2>3
  <2> QED
    BY <2>1, <2>2, <2>3
<1>17. CASE SendKick(t)
  <2>1. /\ Top(t).fn = "send" /\ Top(t).pc = "kick" /\ buf0' = buf0
        /\ Stay \/ Pop(t)
        /\ claimed' \subseteq claimed \union {Top(t).msg}
    BY <1>17 DEF SendKick, At
  <2>2. \A m \in claimed' : Landed(m)'
    BY <1>6, <2>1
  <2> QED
    BY <1>9, <1>12, <2>1, <2>2
<1>18. CASE Vq1Take(t)
  <2>1. /\ Top(t).fn = "vq1" /\ buf0' = buf0 /\ claimed' = claimed
        /\ Stay \/ Pop(t) \/ Goto(t, "recv", vq1_call[t].desc)
    BY <1>18 DEF Vq1Take, At, rest
  <2>2. [Top(t) EXCEPT !.pc = "recv", !.desc = vq1_call[t].desc] \in Frame
    BY <1>3, <1>4, <2>1, FrameFacts
  <2>3. Goto(t, "recv", vq1_call[t].desc) => ReportTop'
    BY <1>10, <1>13, <2>1, <2>2
  <2> QED
    BY <1>8, <1>9, <1>12, <2>1, <2>3
<1>19. CASE Vq1Recv(t)
  <2>1. /\ Top(t).fn = "vq1" /\ buf0' = buf0 /\ claimed' = claimed
        /\ Goto(t, "put", Top(t).desc) \/ Push(t, "put", SendFrame(Blank))
    BY <1>19 DEF Vq1Recv, At
  <2>2. /\ [Top(t) EXCEPT !.pc = "put", !.desc = Top(t).desc] \in Frame
        /\ [Top(t) EXCEPT !.pc = "put"] \in Frame
        /\ SendFrame(Blank) \in Frame /\ SendFrame(Blank).pc = "take"
    BY <1>3, <2>1, FrameFacts, NewFrames DEF Message, SendFrame
  <2>3. Goto(t, "put", Top(t).desc) => ReportTop'
    BY <1>10, <1>13, <2>1, <2>2
  <2>4. Push(t, "put", SendFrame(Blank)) => ReportTop'
    BY <1>11, <2>2
  <2> QED
    BY <1>8, <2>1, <2>3, <2>4
<1>20. CASE Vq1Put(t)
  <2>1. /\ Top(t).fn = "vq1" /\ buf0' = buf0 /\ claimed' = claimed
        /\ Stay \/ Goto(t, "kick", Top(t).desc)
    BY <1>20 DEF Vq1Put, At, rest
  <2>2. [Top(t) EXCEPT !.pc = "kick", !.desc = Top(t).desc] \in Frame
    BY <1>3, <2>1, FrameFacts
  <2>3. Goto(t, "kick", Top(t).desc) => ReportTop'
    BY <1>10, <1>13, <2>1, <2>2
  <2> QED
    BY <1>8, <1>9, <2>1, <2>3
<1>21. CASE Vq1Kick(t)
  <2>1. /\ Top(t).fn = "vq1" /\ buf0' = buf0 /\ claimed' = claimed
        /\ Stay \/ Pop(t) \/ Goto(t, "take", 0)
    BY <1>21 DEF Vq1Kick, At
  <2>2. [Top(t) EXCEPT !.pc = "take", !.desc = 0] \in Frame
    BY <1>3, <1>4, <2>1, FrameFacts
  <2>3. Goto(t, "take", 0) => ReportTop'
    BY <1>10, <1>13, <2>1, <2>2
  <2> QED
    BY <1>8, <1>9, <1>12, <2>1, <2>3
<1> QED
  BY <1>14, <1>15, <1>16, <1>17, <1>18, <1>19, <1>20, <1>21 DEF Step, t

\* Every step keeps what has been reported true.
LEMMA ReportNext ==
    ASSUME NActive = 0, LinkTypes, LeakInv, AloneInv, Alone0, ReportInv, [Next]_vars
    PROVE  ReportInv'
<1>1. Tasks = {T1, Rpmsg} /\ base[T1] = "delay" /\ stack \in Stacks /\ Rpmsg \in Tasks
  BY DEF LinkTypes, TypeOK, Stacks, AloneInv, Tasks
<1>2. \A m : Landed(m) => Landed(m)'
  BY LandedNext
<1>3. ASSUME claimed' = claimed, buf0' = buf0, stack' = stack
      PROVE  ReportInv'
  <2>1. Top(Rpmsg)' = Top(Rpmsg)
    BY <1>3 DEF Top, Depth
  <2> QED
    BY <1>2, <1>3, <2>1 DEF ReportInv, ReportTop
<1>4. CASE Linux
  BY <1>3, <1>4 DEF Linux, LinuxIrq, LinuxSend, LinuxRing, LinuxTxPoll, LinuxReclaimVq1,
                LinuxReceive, LinuxRefill, LinuxIrqRead, LinuxIrqDone, LinuxIrqClear, rest
<1>5. CASE IsrClear \/ IsrNotify \/ UNCHANGED vars
  BY <1>3, <1>5 DEF IsrClear, IsrNotify, vars, rest
<1>6. CASE NotifyTake
  <2>1. /\ claimed' = claimed /\ buf0' = buf0
        /\ stack' = stack \/ stack' = [stack EXCEPT ![Rpmsg] = <<Vq1Frame>>]
    BY <1>6 DEF NotifyTake, rest
  <2>2. CASE stack' = [stack EXCEPT ![Rpmsg] = <<Vq1Frame>>]
    <3>1. stack'[Rpmsg] = <<Vq1Frame>>
      BY <1>1, <2>2 DEF Stacks
    <3>2. Top(Rpmsg)'.fn = "vq1"
      BY <3>1 DEF Top, Depth, Vq1Frame
    <3> QED
      BY <1>2, <2>1, <3>2 DEF ReportInv, ReportTop
  <2> QED
    BY <1>3, <2>1, <2>2
<1>7. ~T1Wake /\ ~T1Check /\ ~Step(T1)
  BY <1>1, T1Silent
<1>8. CASE Step(Rpmsg)
  BY <1>8, ReportStep
<1> QED
  BY <1>1, <1>4, <1>5, <1>6, <1>7, <1>8 DEF Next, Core1

\* What is in the used ring is one of its entries, as Linux counts them.
LEMMA UsedIsReturned ==
    ASSUME VQ0!TypeOK, NEW d, S0!InUsed(d)
    PROVE  \E k \in DOMAIN VQ0!Returned : VQ0!Returned[k].id = d
<1>1. PICK k \in 0 .. S0!Done - 1 : S0!Entry(vq0_used_ring, vq0_last_used, k).id = d
  BY DEF S0!InUsed
<1>2. /\ vq0_last_used \in Nat /\ S0!Done = VQ0!Ahead(vq0_last_used, vq0_used_idx)
      /\ S0!Done \in Nat
  <2>1. /\ vq0_last_used \in Nat /\ vq0_used_idx \in Nat /\ IDXMOD \in Nat \ {0}
    BY RingAssumption DEF VQ0!TypeOK, VQ0!Idx
  <2>2. S0!Done = VQ0!Ahead(vq0_last_used, vq0_used_idx)
    BY DEF S0!Done, S0!Ahead, VQ0!Ahead
  <2>3. (vq0_used_idx - vq0_last_used) % IDXMOD \in Nat
    BY <2>1
  <2> QED
    BY <2>1, <2>2, <2>3 DEF VQ0!Ahead
<1>3. k + 1 \in 1 .. VQ0!Ahead(vq0_last_used, vq0_used_idx)
      /\ vq0_last_used + (k + 1) - 1 = vq0_last_used + k
  BY <1>1, <1>2
<1>4. VQ0!Returned[k + 1] = vq0_used_ring[VQ0!Slot((vq0_last_used + k) % IDXMOD)]
      /\ k + 1 \in DOMAIN VQ0!Returned
  BY <1>3 DEF VQ0!Returned
<1>5. VQ0!Returned[k + 1].id = d
  BY <1>1, <1>4 DEF S0!Entry, S0!At, S0!Slot, VQ0!Slot
<1> QED
  BY <1>4, <1>5

(* What rpmsg_send reports as sent (rpmsg_core.h:54) is with Linux or on   *)
(* its way, through every nested poll and every kick that times out, as    *)
(* long as vRpmsgTask is its only caller.  With vTask1 as a second one it   *)
(* is not: run race.                                                       *)
THEOREM ReportsTrue == ASSUME NActive = 0 PROVE Spec => []ReportedMeansSent
<1>1. Init => LinkTypes /\ LeakInv /\ AloneInv /\ Alone0 /\ ReportInv
  <2>1. ASSUME Init PROVE ReportInv
    <3>1. claimed = {} /\ stack[Rpmsg] = <<>>
      BY <2>1 DEF Init, Tasks
    <3> QED
      BY <3>1 DEF ReportInv, ReportTop
  <2> QED
    BY <2>1, LinkTypesInit, LeakInit, AloneInit, Alone0Init
<1>2. LinkTypes /\ LeakInv /\ AloneInv /\ Alone0 /\ ReportInv /\ [Next]_vars
        => (LinkTypes /\ LeakInv /\ AloneInv /\ Alone0 /\ ReportInv)'
  BY LinkTypesNext, LeakNext, AloneKept, Alone0Kept, ReportNext
<1>3. LinkTypes /\ ReportInv => ReportedMeansSent
  <2> SUFFICES ASSUME LinkTypes, ReportInv, NEW m \in claimed, m \notin Received
               PROVE  \E k \in DOMAIN VQ0!Returned : buf0[VQ0!Returned[k].id] = m
    BY DEF ReportedMeansSent
  <2>1. PICK d \in Desc : S0!InUsed(d) /\ buf0[d] = m
    BY DEF ReportInv, Landed
  <2>2. PICK k \in DOMAIN VQ0!Returned : VQ0!Returned[k].id = d
    BY <2>1, UsedIsReturned DEF LinkTypes, TypeOK
  <2> QED
    BY <2>1, <2>2
<1> QED
  BY <1>1, <1>2, <1>3, PTL DEF Spec
-----------------------------------------------------------------------------
(* The order of the echoes, while no kick times out                        *)

\* Linux has taken every buffer of vq0 that was given back, and offered it.
AllBack == vq0_free = {} /\ vq0_last_used = vq0_used_idx

\* vRpmsgTask has yet to kick for the buffer that it gives back, or gave.
Unserved ==
    /\ stack[Rpmsg] # <<>>
    /\ Top(Rpmsg).pc = "kick" \/ (Top(Rpmsg).fn = "vq1" /\ Top(Rpmsg).pc = "put")

\* mbox_kick writes only when Linux has left its interrupt handler.
KickInv ==
    /\ irq # "idle" => b2a_status
    /\ kick[Rpmsg] = "write" => ~b2a_status

\* Outside those kicks Linux has served vq0, so rpmsg_send finds a buffer and
\* never polls; and the kick of an echo is heard before the next one.
ServeInv ==
    /\ KickInv
    /\ Depth(Rpmsg) <= 2
    /\ ~Unserved => AllBack
    /\ Unserved /\ Top(Rpmsg).fn = "vq1" =>
          (b2a_status \/ AllBack) /\ (irq = "clear" => AllBack)

\* While everything is back only the depth of the stack is left to show.
LEMMA ServedAll ==
    ASSUME KickInv', Depth(Rpmsg)' <= 2, AllBack'
    PROVE  ServeInv'
  BY DEF ServeInv

\* A step during which vRpmsgTask stays where it is.
LEMMA ServedSame ==
    ASSUME ServeInv, KickInv', stack'[Rpmsg] = stack[Rpmsg], AllBack => AllBack',
           b2a_status' = b2a_status \/ irq = "clear",
           irq' = "clear" => irq = "clear" \/ AllBack
    PROVE  ServeInv'
<1>1. /\ Depth(Rpmsg)' = Depth(Rpmsg) /\ Top(Rpmsg)' = Top(Rpmsg)
      /\ Unserved' <=> Unserved
  BY DEF Depth, Top, Unserved
<1> QED
  BY <1>1 DEF ServeInv

LEMMA KickNext ==
    ASSUME NActive = 0, KickMayTimeOut = FALSE, LinkTypes, AloneInv, KickInv, [Next]_vars
    PROVE  KickInv'
<1>1. /\ base[T1] = "delay" /\ Tasks = {T1, Rpmsg} /\ T1 # Rpmsg /\ Rpmsg \in Tasks
      /\ kick \in [Tasks -> MB!KickPCs]
  BY DEF AloneInv, Tasks, T1, Rpmsg, LinkTypes, TypeOK, MB!TypeOK
<1>2. ~T1Wake /\ ~T1Check /\ ~Step(T1)
  BY <1>1, T1Silent
<1>3. ASSUME UNCHANGED <<b2a_status, irq, kick>> PROVE KickInv'
  BY <1>3 DEF KickInv
<1>4. CASE Linux
  <2>1. CASE LinuxSend \/ LinuxRing \/ LinuxTxPoll \/ LinuxReclaimVq1
    BY <1>3, <2>1 DEF LinuxSend, LinuxRing, LinuxTxPoll, LinuxReclaimVq1, mbox,
                      MB!LinuxSendMessage, MB!LinuxTxPoll, MB!b2aVars
  <2>2. CASE LinuxReceive \/ LinuxRefill
    BY <1>3, <2>2 DEF LinuxReceive, LinuxRefill, mbox
  <2>3. CASE LinuxIrqRead \/ LinuxIrqDone \/ LinuxIrqClear
    BY <2>3 DEF LinuxIrqRead, LinuxIrqDone, LinuxIrqClear, MB!IrqRead, MB!IrqReceived,
                MB!IrqClear, KickInv
  <2> QED
    BY <1>4, <2>1, <2>2, <2>3 DEF Linux, LinuxIrq
<1>5. CASE IsrClear \/ IsrNotify \/ NotifyTake \/ UNCHANGED vars
  BY <1>3, <1>5 DEF IsrClear, IsrNotify, NotifyTake, vars, mbox, MB!Core1ClearDoorbell,
                    MB!b2aVars
<1>6. ASSUME MB!KickReady(Rpmsg) \/ MB!KickWrite(Rpmsg) PROVE KickInv'
  <2>1. CASE MB!KickReady(Rpmsg)
    BY <2>1 DEF MB!KickReady, KickInv
  <2>2. CASE MB!KickWrite(Rpmsg)
    <3>1. kick'[Rpmsg] = "out" /\ b2a_status' = TRUE
      BY <1>1, <2>2 DEF MB!KickWrite
    <3> QED
      BY <3>1 DEF KickInv
  <2> QED
    BY <1>6, <2>1, <2>2
<1>7. CASE Step(Rpmsg)
  BY <1>3, <1>6, <1>7 DEF Step, SendTake, SendFill, SendPut, SendKick, Vq1Take, Vq1Recv,
                          Vq1Put, Vq1Kick, mbox
<1> QED
  BY <1>1, <1>2, <1>4, <1>5, <1>7 DEF Next, Core1

\* With every buffer back, and none in the hands of rpmsg_send, vq_take_buffer
\* finds one.
LEMMA NeverEmpty ==
    ASSUME LinkTypes, LeakInv, AloneInv, Alone0, AllBack, Depth(Rpmsg) \in Nat \ {0},
           Depth(Rpmsg) <= 2, Top(Rpmsg).fn = "send", Top(Rpmsg).pc = "take"
    PROVE  vq0_last_avail # vq0_avail_idx
<1> DEFINE s == stack[Rpmsg]
<1>1. /\ vq0_held[Rpmsg] \subseteq SendDescs(s) /\ Nested(s) /\ S0!RingInv
      /\ vq0_avail_idx \in S0!Idx /\ vq0_last_avail \in S0!Idx
      /\ vq0_used_idx \in S0!Idx /\ vq0_last_used \in S0!Idx
  BY DEF LeakInv, LeakOf, AloneInv, Alone0, Tasks, S0!RingInv, S0!TypeOK
<1>2. Len(s) \in 1 .. 2 /\ s[Len(s)].pc = "take"
  <2>1. Depth(Rpmsg) = Len(s) /\ Top(Rpmsg) = s[Len(s)]
    BY DEF Depth, Top
  <2>2. Depth(Rpmsg) \in 1 .. 2
    OBVIOUS
  <2> QED
    BY <2>1, <2>2
<1>3. SendDescs(s) = {}
  <2> SUFFICES ASSUME NEW i \in 1 .. Len(s), s[i].fn = "send", s[i].pc \in {"fill", "put"}
               PROVE  FALSE
    BY DEF SendDescs
  <2>1. i # Len(s)
    BY <1>2
  <2>2. i = 1 /\ i % 2 = 1
    BY <1>2, <2>1
  <2> QED
    BY <1>1, <2>2 DEF Nested
<1>4. 0 \in Desc
  BY RingAssumption DEF Desc, VQ0!Desc
<1>5. S0!Done = 0 /\ ~S0!InUsed(0)
  <2>1. S0!Done = 0
    BY <1>1, S0!Distance, RingAssumption DEF AllBack, S0!Done
  <2> QED
    BY <2>1 DEF S0!InUsed
<1>6. S0!InAvail(0)
  BY <1>1, <1>3, <1>4, <1>5, Hand0 DEF AllBack
<1>7. S0!Waiting # 0
  BY <1>6 DEF S0!InAvail
<1> QED
  BY <1>1, <1>7, S0!Distance, RingAssumption DEF S0!Waiting

\* A step of vRpmsgTask: it polls from its own loop only.
LEMMA ServeStep ==
    ASSUME KickMayTimeOut = FALSE, LinkTypes, LeakInv, AloneInv, Alone0, ServeInv, KickInv',
           Step(Rpmsg)
    PROVE  ServeInv'
<1> DEFINE t == Rpmsg
<1>1. stack \in Stacks /\ t \in Tasks /\ Nested(stack[t])
  BY DEF LinkTypes, TypeOK, Stacks, AloneInv, Tasks
<1>2. stack[t] # <<>>
  BY <1>1, StepTypes
<1>3. /\ Top(t) \in Frame /\ Depth(t) \in Nat \ {0} /\ Depth(t) = Len(stack[t])
      /\ Top(t).desc \in Desc /\ Depth(t) <= 2
      /\ Top(t).fn = "vq1" <=> Depth(t) = 1
      /\ Top(t).fn = "send" => Depth(t) = 2
  <2>1. Depth(t) \in Nat \ {0} /\ Depth(t) <= 2
    BY <1>1, <1>2, TopIs DEF ServeInv
  <2>2. Top(t) \in Frame /\ Top(t) = stack[t][Depth(t)] /\ Depth(t) = Len(stack[t])
    BY <1>1, <1>2, TopIs DEF Depth
  <2>3. Depth(t) \in 1 .. Len(stack[t]) /\ Depth(t) \in {1, 2}
    <3>1. Depth(t) \in 1 .. Depth(t) /\ Depth(t) \in {1, 2}
      BY <2>1
    <3> QED
      BY <2>2, <3>1, Zenon
  <2>4. 1 % 2 = 1 /\ 2 % 2 # 1
    OBVIOUS
  <2>5. stack[t][Depth(t)].fn = IF Depth(t) % 2 = 1 THEN "vq1" ELSE "send"
    BY <1>1, <2>3 DEF Nested
  <2>6. Top(t).fn = "vq1" <=> Depth(t) = 1
    BY <2>2, <2>3, <2>4, <2>5
  <2>7. Top(t).desc \in Desc
    BY <2>2, FrameFacts
  <2>8. Top(t).fn = "send" => Depth(t) = 2
    BY <2>3, <2>6
  <2> QED
    BY <2>1, <2>2, <2>6, <2>7, <2>8
<1>4. vq0_call[t].desc \in Desc /\ vq1_call[t].desc \in Desc /\ 0 \in Desc
  BY <1>1, DescIs, RingAssumption DEF LinkTypes, TypeOK, VQ0!TypeOK, VQ1!TypeOK
<1>5. KickInv /\ (~Unserved => AllBack)
  BY DEF ServeInv
<1> HIDE DEF t
\* What becomes of the depth and of the last frame.
<1>6. ASSUME NEW pc, NEW d, Goto(t, pc, d), [Top(t) EXCEPT !.pc = pc, !.desc = d] \in Frame
      PROVE  Depth(t)' <= 2 /\ stack'[t] # <<>> /\ Top(t)'.pc = pc /\ Top(t)'.fn = Top(t).fn
  <2>1. Len(stack'[t]) = Depth(t) /\ TopBecomes(t, pc, d)
    BY <1>1, <1>2, <1>6, Gone
  <2> QED
    BY <1>3, <2>1 DEF Depth, Top, TopBecomes
<1>7. ASSUME Pop(t)
      PROVE  /\ Depth(t)' <= 2
             /\ Depth(t) = 2 => stack'[t] # <<>> /\ Top(t)'.pc = "put" /\ Top(t)'.fn = "vq1"
  <2>1. /\ Len(stack'[t]) = Depth(t) - 1
        /\ \A i \in 1 .. Depth(t) - 1 : stack'[t][i] = stack[t][i]
    BY <1>1, <1>2, <1>7, Popped
  <2>2. Depth(t)' <= 2
    BY <1>3, <2>1 DEF Depth
  <2>3. ASSUME Depth(t) = 2
        PROVE  stack'[t] # <<>> /\ Top(t)'.pc = "put" /\ Top(t)'.fn = "vq1"
    <3>1. /\ Len(stack'[t]) = 1 /\ stack'[t][1] = stack[t][1] /\ Len(stack[t]) = 2
          /\ 1 \in 1 .. Len(stack[t]) - 1 /\ 1 \in 1 .. Len(stack[t]) /\ 1 % 2 = 1
      BY <1>3, <2>1, <2>3
    <3>2. stack[t][1].fn = "vq1" /\ stack[t][1].pc = "put"
      BY <1>1, <3>1 DEF Nested
    <3> QED
      BY <3>1, <3>2 DEF Top, Depth
  <2> QED
    BY <2>2, <2>3
<1>8. ASSUME Depth(t)' <= 2, UNCHANGED vq0, ~Unserved PROVE ServeInv'
  <2>1. AllBack'
    BY <1>5, <1>8 DEF AllBack, vq0
  <2> QED
    BY <1>8, <2>1, ServedAll DEF t
<1>9. ASSUME Stay, UNCHANGED <<vq0_free, vq0_last_used, vq0_used_idx, b2a_status, irq>>
      PROVE  ServeInv'
  <2>1. stack' = stack /\ (AllBack => AllBack')
    BY <1>9 DEF Stay, AllBack
  <2> QED
    BY <1>9, <2>1, ServedSame
\* The kick: Linux has cleared the last one, so it is out of the handler.
<1>10. ASSUME MB!KickWrite(t) PROVE ~b2a_status /\ b2a_status' = TRUE /\ irq' = "idle"
  BY <1>5, <1>10 DEF MB!KickWrite, KickInv, t
<1>11. CASE SendTake(t)
  <2>1. Top(t).fn = "send" /\ Top(t).pc = "take" /\ UNCHANGED mbox
    BY <1>11 DEF SendTake, At
  <2>2. ~Unserved
    BY <2>1 DEF Unserved, t
  <2>3. vq0_last_avail # vq0_avail_idx
    BY <1>3, <1>5, <2>1, <2>2, NeverEmpty DEF t
  <2>4. ~VQ0!GetAvailEmpty(t)
    BY <2>3 DEF VQ0!GetAvailEmpty
  <2>5. /\ UNCHANGED <<vq0_free, vq0_last_used, vq0_used_idx>>
        /\ Stay \/ Goto(t, "fill", vq0_call[t].desc)
    BY <1>11, <2>4 DEF SendTake, VQ0!GetAvailCheck, VQ0!GetAvailRing, VQ0!GetAvailLoad,
                       VQ0!GetAvailStore, VQ0!linuxVars
  <2>6. [Top(t) EXCEPT !.pc = "fill", !.desc = vq0_call[t].desc] \in Frame
    BY <1>3, <1>4, <2>1, FrameFacts
  <2>7. CASE Goto(t, "fill", vq0_call[t].desc)
    <3>1. Depth(t)' <= 2
      BY <1>6, <2>6, <2>7
    <3>2. AllBack'
      BY <1>5, <2>2, <2>5 DEF AllBack
    <3> QED
      BY <3>1, <3>2, ServedAll DEF t
  <2> QED
    BY <1>9, <2>1, <2>5, <2>7 DEF mbox
<1>12. CASE SendFill(t)
  <2>1. UNCHANGED vq0 /\ ~Unserved
    BY <1>12 DEF SendFill, At, Unserved, t
  <2>2. Len(stack'[t]) = Depth(t)
    BY <1>1, <1>12, Filled
  <2> QED
    BY <1>3, <1>8, <2>1, <2>2 DEF Depth
<1>13. CASE SendPut(t)
  <2>1. /\ Top(t).fn = "send" /\ Top(t).pc = "put" /\ UNCHANGED mbox
        /\ \/ Stay /\ UNCHANGED <<vq0_free, vq0_last_used, vq0_used_idx>>
           \/ Goto(t, "kick", Top(t).desc)
    BY <1>13 DEF SendPut, At, VQ0!PutUsedRead, VQ0!PutUsedId, VQ0!PutUsedLen, VQ0!linuxVars
  <2>2. [Top(t) EXCEPT !.pc = "kick", !.desc = Top(t).desc] \in Frame
    BY <1>3, <2>1, FrameFacts
  <2>3. CASE Goto(t, "kick", Top(t).desc)
    <3>1. Depth(t)' <= 2 /\ Unserved' /\ Top(t)'.fn = "send"
      BY <1>6, <2>1, <2>2, <2>3 DEF Unserved, t
    <3> QED
      BY <3>1 DEF ServeInv, t
  <2> QED
    BY <1>9, <2>1, <2>3 DEF mbox
<1>14. CASE SendKick(t)
  <2>1. /\ Top(t).fn = "send" /\ UNCHANGED vq0
        /\ \/ Stay /\ UNCHANGED <<b2a_status, irq>>
           \/ MB!KickWrite(t) /\ Pop(t)
    BY <1>14 DEF SendKick, At, MB!KickReady
  <2>2. CASE MB!KickWrite(t) /\ Pop(t)
    <3>1. Depth(t) = 2
      BY <1>3, <2>1
    <3>2. Depth(t)' <= 2 /\ Unserved'
      BY <1>7, <2>2, <3>1 DEF Unserved, t
    <3>3. b2a_status' = TRUE /\ irq' = "idle"
      BY <1>10, <2>2
    <3> QED
      BY <3>2, <3>3 DEF ServeInv, t
  <2> QED
    BY <1>9, <2>1, <2>2 DEF vq0
<1>15. CASE Vq1Take(t)
  <2>1. /\ Top(t).fn = "vq1" /\ Top(t).pc = "take" /\ UNCHANGED <<vq0, mbox>>
        /\ Stay \/ Goto(t, "recv", vq1_call[t].desc) \/ Pop(t)
    BY <1>15 DEF Vq1Take, At
  <2>2. [Top(t) EXCEPT !.pc = "recv", !.desc = vq1_call[t].desc] \in Frame
    BY <1>3, <1>4, <2>1, FrameFacts
  <2>3. ~Unserved
    BY <2>1 DEF Unserved, t
  <2>4. Stay \/ Depth(t)' <= 2
    BY <1>6, <1>7, <2>1, <2>2
  <2> QED
    BY <1>8, <1>9, <2>1, <2>3, <2>4 DEF vq0, mbox
<1>16. CASE Vq1Recv(t)
  <2>1. /\ Top(t).fn = "vq1" /\ Top(t).pc = "recv" /\ UNCHANGED vq0
        /\ Goto(t, "put", Top(t).desc) \/ Push(t, "put", SendFrame(Blank))
    BY <1>16 DEF Vq1Recv, At
  <2>2. /\ [Top(t) EXCEPT !.pc = "put", !.desc = Top(t).desc] \in Frame
        /\ [Top(t) EXCEPT !.pc = "put"] \in Frame
        /\ SendFrame(Blank) \in Frame
    BY <1>3, <2>1, FrameFacts, NewFrames DEF Message
  <2>3. ~Unserved
    BY <2>1 DEF Unserved, t
  <2>4. CASE Push(t, "put", SendFrame(Blank))
    <3>1. Len(stack'[t]) = Depth(t) + 1 /\ Depth(t) = 1
      BY <1>1, <1>2, <1>3, <2>1, <2>2, <2>4, Pushed
    <3>2. Depth(t)' <= 2
      BY <3>1 DEF Depth
    <3> QED
      BY <1>8, <2>1, <2>3, <3>2
  <2>5. CASE Goto(t, "put", Top(t).desc)
    BY <1>6, <1>8, <2>1, <2>2, <2>3, <2>5
  <2> QED
    BY <2>1, <2>4, <2>5
<1>17. CASE Vq1Put(t)
  <2>1. /\ Top(t).fn = "vq1" /\ Top(t).pc = "put" /\ UNCHANGED <<vq0, mbox>>
        /\ Stay \/ Goto(t, "kick", Top(t).desc)
    BY <1>17 DEF Vq1Put, At
  <2>2. [Top(t) EXCEPT !.pc = "kick", !.desc = Top(t).desc] \in Frame
    BY <1>3, <2>1, FrameFacts
  <2>3. CASE Goto(t, "kick", Top(t).desc)
    <3>1. Depth(t)' <= 2 /\ Unserved' /\ Unserved
      BY <1>2, <1>6, <2>1, <2>2, <2>3 DEF Unserved, t
    <3>2. (b2a_status \/ AllBack) /\ (irq = "clear" => AllBack)
      BY <2>1, <3>1 DEF ServeInv, t
    <3>3. (AllBack => AllBack') /\ b2a_status' = b2a_status /\ irq' = irq
      BY <2>1 DEF AllBack, vq0, mbox
    <3> QED
      BY <3>1, <3>2, <3>3 DEF ServeInv, t
  <2> QED
    BY <1>9, <2>1, <2>3 DEF vq0, mbox
<1>18. CASE Vq1Kick(t)
  <2>1. /\ Top(t).fn = "vq1" /\ Top(t).pc = "kick" /\ UNCHANGED vq0
        /\ \/ Stay /\ UNCHANGED <<b2a_status, irq>>
           \/ MB!KickWrite(t) /\ Goto(t, "take", 0)
    BY <1>18 DEF Vq1Kick, At, MB!KickReady
  <2>2. [Top(t) EXCEPT !.pc = "take", !.desc = 0] \in Frame
    BY <1>3, <1>4, <2>1, FrameFacts
  <2>3. CASE MB!KickWrite(t) /\ Goto(t, "take", 0)
    <3>1. Unserved /\ ~b2a_status
      BY <1>2, <1>10, <2>1, <2>3 DEF Unserved, t
    <3>2. AllBack'
      BY <2>1, <3>1 DEF ServeInv, AllBack, vq0, t
    <3>3. Depth(t)' <= 2
      BY <1>6, <2>2, <2>3
    <3> QED
      BY <3>2, <3>3, ServedAll DEF t
  <2> QED
    BY <1>9, <2>1, <2>3 DEF vq0
<1> QED
  BY <1>11, <1>12, <1>13, <1>14, <1>15, <1>16, <1>17, <1>18 DEF Step, t

LEMMA ServeNext ==
    ASSUME NActive = 0, KickMayTimeOut = FALSE, LinkTypes, LeakInv, AloneInv, Alone0, ServeInv,
           [Next]_vars
    PROVE  ServeInv'
<1>1. /\ base[T1] = "delay" /\ Tasks = {T1, Rpmsg} /\ T1 # Rpmsg /\ Rpmsg \in Tasks
      /\ stack \in Stacks /\ ~vq0_broken
  BY DEF AloneInv, Alone0, S0!RingInv, Tasks, T1, Rpmsg, LinkTypes, TypeOK, Stacks
<1>2. ~T1Wake /\ ~T1Check /\ ~Step(T1)
  BY <1>1, T1Silent
<1>3. KickInv'
  BY KickNext DEF ServeInv
<1>4. ASSUME stack' = stack, UNCHANGED <<vq0, b2a_status, irq>> PROVE ServeInv'
  BY <1>3, <1>4, ServedSame DEF AllBack, vq0
<1>5. CASE Linux
  <2>1. CASE LinuxSend \/ LinuxRing \/ LinuxTxPoll \/ LinuxReclaimVq1
    BY <1>4, <2>1 DEF LinuxSend, LinuxRing, LinuxTxPoll, LinuxReclaimVq1, mbox,
                      MB!LinuxSendMessage, MB!LinuxTxPoll, MB!b2aVars
  <2>2. CASE LinuxReceive \/ LinuxRefill
    <3>1. ~AllBack
      BY <2>2 DEF LinuxReceive, LinuxRefill, VQ0!LinuxReclaim, AllBack
    <3>2. stack' = stack /\ UNCHANGED <<b2a_status, irq>>
      BY <2>2 DEF LinuxReceive, LinuxRefill, mbox
    <3> QED
      BY <1>3, <3>1, <3>2, ServedSame
  <2>3. CASE LinuxIrqRead \/ LinuxIrqDone \/ LinuxIrqClear
    <3>1. /\ stack' = stack /\ UNCHANGED vq0
          /\ b2a_status' = b2a_status \/ irq = "clear"
          /\ irq' = "clear" => irq = "clear" \/ AllBack
      BY <1>1, <2>3 DEF LinuxIrqRead, LinuxIrqDone, LinuxIrqClear, MB!IrqRead, MB!IrqReceived,
                        MB!IrqClear, AllBack
    <3>2. AllBack => AllBack'
      BY <3>1 DEF AllBack, vq0
    <3> QED
      BY <1>3, <3>1, <3>2, ServedSame
  <2> QED
    BY <1>5, <2>1, <2>2, <2>3 DEF Linux, LinuxIrq
<1>6. CASE IsrClear \/ IsrNotify \/ UNCHANGED vars
  BY <1>4, <1>6 DEF IsrClear, IsrNotify, vars, mbox, MB!Core1ClearDoorbell, MB!b2aVars
<1>7. CASE NotifyTake
  <2>1. /\ UNCHANGED <<vq0, mbox>> /\ base[Rpmsg] \in {"take", "blocked"}
        /\ stack' = stack \/ stack' = [stack EXCEPT ![Rpmsg] = <<Vq1Frame>>]
    BY <1>7 DEF NotifyTake
  <2>2. CASE stack' = [stack EXCEPT ![Rpmsg] = <<Vq1Frame>>]
    <3>1. stack'[Rpmsg] = <<Vq1Frame>>
      BY <1>1, <2>2 DEF Stacks
    <3>2. stack[Rpmsg] = <<>>
      BY <2>1 DEF LeakInv, AtHome
    <3>3. AllBack'
      BY <2>1, <3>2 DEF ServeInv, Unserved, AllBack, vq0
    <3>4. Depth(Rpmsg)' <= 2
      BY <3>1 DEF Depth
    <3> QED
      BY <1>3, <3>3, <3>4, ServedAll
  <2> QED
    BY <1>4, <2>1, <2>2 DEF mbox
<1>8. CASE Step(Rpmsg)
  BY <1>3, <1>8, ServeStep
<1> QED
  BY <1>1, <1>2, <1>5, <1>6, <1>7, <1>8 DEF Next, Core1

LEMMA ServeInit == ASSUME Init PROVE ServeInv
<1>1. /\ vq0_free = {} /\ vq0_last_used = 1 /\ vq0_used_idx = 1 /\ stack[Rpmsg] = <<>>
      /\ irq = "idle" /\ kick[Rpmsg] = "out"
  BY DEF Init, MB!Init, Tasks
<1> QED
  BY <1>1 DEF ServeInv, KickInv, Unserved, AllBack, Depth

\* The descriptor of the k-th message that waits in vq1, from 0.
Place1(k) == S1!Entry(vq1_avail_ring, vq1_last_avail, k)

\* The messages in vq1 are in the order Linux sent them, after the one that
\* rpmsg_handle_vq1 has in its hands.
Queued ==
    /\ \A k, l \in 0 .. S1!Waiting - 1 : k < l => buf1[Place1(k)][2] < buf1[Place1(l)][2]
    /\ \A i \in Nat, d \in Desc :
          Copying(stack[Rpmsg], i) /\ S1!InAvail(d) =>
             buf1[stack[Rpmsg][i].desc][2] < buf1[d][2]

\* What Linux has received is older than the one echo on its way, and that is
\* older than every message still to be echoed.
Sorted ==
    /\ \A d, e \in Live0 : d = e
    /\ \A e \in Live0, d \in Live1 : buf0[e][2] < buf1[d][2]
    /\ \A i \in 1 .. Len(received) :
          /\ \A d \in Live1 : received[i][2] < buf1[d][2]
          /\ \A e \in Live0 : received[i][2] < buf0[e][2]
    /\ \A i, j \in 1 .. Len(received) : i < j => received[i][2] < received[j][2]

OrderInv == Queued /\ Sorted

\* A message has the number that Linux gave it.
LEMMA SentNumber ==
    ASSUME NEW n \in Nat, NEW m \in Sent(n)
    PROVE  m[2] \in Nat /\ m[2] <= n
<1>1. PICK i \in 1 .. n : m = FromLinux(i)
  BY DEF Sent
<1>2. m[2] = i
  BY <1>1 DEF FromLinux
<1> QED
  BY <1>1, <1>2

\* The buffers of vq1 that are in use have a message of Linux.
LEMMA LiveIs ==
    ASSUME LinkTypes, OnceInv
    PROVE  /\ \A d \in Desc : S1!InAvail(d) => d \in Live1
           /\ \A i \in Nat : Copying(stack[Rpmsg], i) => stack[Rpmsg][i].desc \in Live1
           /\ \A d \in Live1 : buf1[d][2] \in Nat /\ buf1[d][2] <= sent
<1>1. /\ stack[Rpmsg] \in Seq(Frame) /\ sent \in Nat
  BY DEF LinkTypes, TypeOK, Tasks
<1>2. ASSUME NEW i \in Nat, Copying(stack[Rpmsg], i) PROVE stack[Rpmsg][i].desc \in Live1
  <2>1. stack[Rpmsg][i] \in Frame
    BY <1>1, <1>2 DEF Copying
  <2>2. stack[Rpmsg][i].desc \in Desc
    BY <2>1, FrameFacts
  <2> QED
    BY <1>2, <2>2 DEF Live1
<1>3. \A d \in Live1 : buf1[d][2] \in Nat /\ buf1[d][2] <= sent
  BY <1>1, SentNumber DEF OnceInv
<1> QED
  BY <1>2, <1>3 DEF Live1

\* vRpmsgTask takes the message that is first in vq1.
LEMMA QueuedTake ==
    ASSUME VQ1!TypeOK, S1!RingInv, Queued, MovesNone, VQ1!GetAvailStore(Rpmsg)
    PROVE  Queued'
<1>1. /\ Calls1[Rpmsg] = vq1_call[Rpmsg] /\ vq1_call[Rpmsg].pc = "store"
      /\ vq1_last_avail \in S1!Idx /\ vq1_avail_idx \in S1!Idx
      /\ vq1_last_avail' = S1!Next16(vq1_call[Rpmsg].idx)
      /\ UNCHANGED <<vq1_avail_idx, vq1_avail_ring>>
      /\ S1!CallInv /\ S1!Bounded
  BY DEF Calls1, VQ1!GetAvailStore, VQ1!linuxVars, VQ1!Next16, S1!Next16, S1!RingInv, S1!TypeOK,
         S1!Hands
<1>2. /\ vq1_call[Rpmsg].desc = Place1(0) /\ vq1_last_avail # vq1_avail_idx
      /\ vq1_last_avail' = S1!Next16(vq1_last_avail)
  BY <1>1 DEF S1!CallInv, Place1
<1>3. S1!Waiting' = S1!Waiting - 1 /\ S1!Waiting \in Nat /\ S1!Waiting <= NUM
  BY <1>1, <1>2, S1!Distance, S1!AheadIs, RingAssumption DEF S1!Waiting, S1!Bounded
<1>4. ASSUME NEW k \in 0 .. S1!Waiting' - 1
      PROVE  /\ Place1(k)' = Place1(k + 1)
             /\ k + 1 \in 0 .. S1!Waiting - 1 /\ 0 \in 0 .. S1!Waiting - 1 /\ 0 < k + 1
  <2>1. /\ k \in 0 .. NUM - 1
        /\ k + 1 \in 0 .. S1!Waiting - 1 /\ 0 \in 0 .. S1!Waiting - 1 /\ 0 < k + 1
    BY <1>3, RingAssumption
  <2>2. S1!Entry(vq1_avail_ring, S1!Next16(vq1_last_avail), k)
           = S1!Entry(vq1_avail_ring, vq1_last_avail, k + 1)
    BY <1>1, <2>1, S1!Shifted, RingAssumption
  <2>3. Place1(k)' = S1!Entry(vq1_avail_ring, S1!Next16(vq1_last_avail), k)
    BY <1>1, <1>2 DEF Place1, S1!Entry, S1!At
  <2> QED
    BY <2>1, <2>2, <2>3 DEF Place1
<1>5. buf1' = buf1
  BY DEF MovesNone
<1>6. ASSUME NEW k \in 0 .. S1!Waiting' - 1, NEW l \in 0 .. S1!Waiting' - 1, k < l
      PROVE  buf1'[Place1(k)'][2] < buf1'[Place1(l)'][2]
  <2>1. k + 1 < l + 1
    BY <1>3, <1>6
  <2> QED
    BY <1>4, <1>5, <2>1 DEF Queued
<1>7. ASSUME NEW i \in Nat, NEW d \in Desc, Copying(stack'[Rpmsg], i), S1!InAvail(d)'
      PROVE  buf1'[stack'[Rpmsg][i].desc][2] < buf1'[d][2]
  <2>1. PICK k \in 0 .. S1!Waiting' - 1 : Place1(k)' = d
    BY <1>7 DEF S1!InAvail, Place1
  <2>2. d = Place1(k + 1) /\ k + 1 \in 0 .. S1!Waiting - 1
    BY <1>4, <2>1
  <2>3. CASE Copying(stack[Rpmsg], i) /\ stack'[Rpmsg][i].desc = stack[Rpmsg][i].desc
    <3>1. S1!InAvail(d)
      BY <2>2 DEF S1!InAvail, Place1
    <3> QED
      BY <1>5, <2>3, <3>1 DEF Queued
  <2>4. CASE stack'[Rpmsg][i].desc = vq1_call[Rpmsg].desc
    BY <1>2, <1>4, <1>5, <2>2, <2>4 DEF Queued
  <2> QED
    BY <1>7, <2>3, <2>4 DEF MovesNone
<1> QED
  BY <1>6, <1>7 DEF Queued

\* A step that leaves vq1 as it is and takes no message to copy.
LEMMA QueuedSame ==
    ASSUME Queued, buf1' = buf1, UNCHANGED <<vq1_avail_idx, vq1_avail_ring, vq1_last_avail>>,
           \A i : Copying(stack'[Rpmsg], i) =>
              Copying(stack[Rpmsg], i) /\ stack'[Rpmsg][i].desc = stack[Rpmsg][i].desc
    PROVE  Queued'
<1>1. S1!Waiting' = S1!Waiting /\ \A k : Place1(k)' = Place1(k)
  BY DEF S1!Waiting, Place1, S1!Entry, S1!At
<1>2. \A d : S1!InAvail(d)' <=> S1!InAvail(d)
  BY SameAvail1
<1>3. \A k, l \in 0 .. S1!Waiting' - 1 : k < l => buf1'[Place1(k)'][2] < buf1'[Place1(l)'][2]
  BY <1>1 DEF Queued
<1>4. \A i \in Nat, d \in Desc :
         Copying(stack'[Rpmsg], i) /\ S1!InAvail(d)' =>
            buf1'[stack'[Rpmsg][i].desc][2] < buf1'[d][2]
  BY <1>2 DEF Queued
<1> QED
  BY <1>3, <1>4 DEF Queued

\* Linux puts a message at the end of vq1, with a number of its own.
LEMMA OrderSend ==
    ASSUME LinkTypes, AloneInv, OnceInv, OrderInv, S1!RingInv', NEW d \in Desc, Sends(d)
    PROVE  OrderInv'
<1> USE DEF VQ1!Desc, S1!Desc, Desc, VQ0!Desc
<1>1. S1!LinuxOffer(d)
  BY DEF Sends, VQ1!LinuxOffer, S1!LinuxOffer, VQ1!Slot, S1!Slot, VQ1!Next16, S1!Next16,
         VQ1!core1Vars, S1!core1Vars, Calls1, Held1
<1>2. /\ S1!Waiting \in Nat /\ S1!Waiting' = S1!Waiting + 1 /\ ~S1!InAvail(d)
      /\ S1!Entry(vq1_avail_ring', vq1_last_avail, S1!Waiting) = d
      /\ \A k \in 0 .. S1!Waiting - 1 :
            S1!Entry(vq1_avail_ring', vq1_last_avail, k) = Place1(k)
  BY <1>1, S1!OfferRing, RingAssumption DEF AloneInv, Place1
<1>3. \A k : Place1(k)' = S1!Entry(vq1_avail_ring', vq1_last_avail, k)
  BY DEF Sends, VQ1!LinuxOffer, VQ1!core1Vars, Place1, S1!Entry, S1!At
<1>4. /\ sent \in Nat /\ buf1 \in [Desc -> Message] /\ buf1'[d] = FromLinux(sent + 1)
      /\ buf1'[d][2] = sent + 1 /\ d \notin Live1
      /\ \A x \in Desc : x # d => buf1'[x] = buf1[x]
  BY DEF LinkTypes, TypeOK, Sends, FromLinux
<1> HIDE DEF VQ1!Desc, S1!Desc, Desc, VQ0!Desc
\* A message that was there has its place and a lower number.
<1>5. \A x \in Live1 : buf1'[x] = buf1[x] /\ buf1[x][2] \in Nat /\ buf1[x][2] < buf1'[d][2]
  <2> TAKE x \in Live1
  <2>1. x \in Desc /\ x # d
    BY <1>4 DEF Live1
  <2>2. buf1[x][2] \in Nat /\ buf1[x][2] <= sent
    BY LiveIs
  <2> QED
    BY <1>4, <2>1, <2>2
<1>6. ASSUME NEW k \in 0 .. S1!Waiting - 1
      PROVE  Place1(k)' = Place1(k) /\ Place1(k) \in Live1
  <2>1. /\ S1!Waiting <= NUM
        /\ \A l \in 0 .. NUM : S1!Entry(vq1_avail_ring, vq1_last_avail, l) \in S1!Desc
    BY S1!Places, RingAssumption DEF AloneInv, S1!RingInv, S1!Hands
  <2>2. k \in 0 .. NUM /\ S1!Desc = Desc
    BY <1>2, <2>1, RingAssumption DEF S1!Desc, Desc, VQ0!Desc
  <2>3. Place1(k) \in Desc
    BY <2>1, <2>2 DEF Place1
  <2>4. S1!InAvail(Place1(k))
    BY DEF S1!InAvail, Place1
  <2> QED
    BY <1>2, <1>3, <2>3, <2>4 DEF Live1
<1>7. ASSUME NEW k \in 0 .. S1!Waiting' - 1, NEW l \in 0 .. S1!Waiting' - 1, k < l
      PROVE  buf1'[Place1(k)'][2] < buf1'[Place1(l)'][2]
  <2>1. k \in 0 .. S1!Waiting - 1 /\ (l \in 0 .. S1!Waiting - 1 \/ l = S1!Waiting)
    BY <1>2, <1>7
  <2>2. CASE l = S1!Waiting
    BY <1>2, <1>3, <1>5, <1>6, <2>1, <2>2
  <2>3. CASE l \in 0 .. S1!Waiting - 1
    BY <1>5, <1>6, <1>7, <2>1, <2>3 DEF OrderInv, Queued
  <2> QED
    BY <2>1, <2>2, <2>3
<1>8. ASSUME NEW i \in Nat, NEW x \in Desc, Copying(stack'[Rpmsg], i), S1!InAvail(x)'
      PROVE  buf1'[stack'[Rpmsg][i].desc][2] < buf1'[x][2]
  <2>1. stack' = stack /\ Copying(stack[Rpmsg], i) /\ stack[Rpmsg][i].desc \in Live1
    BY <1>8, LiveIs DEF Sends
  <2>2. PICK k \in 0 .. S1!Waiting' - 1 : Place1(k)' = x
    BY <1>8 DEF S1!InAvail, Place1
  <2>3. CASE k = S1!Waiting
    BY <1>2, <1>3, <1>5, <2>1, <2>2, <2>3
  <2>4. CASE k # S1!Waiting
    <3>1. k \in 0 .. S1!Waiting - 1
      BY <1>2, <2>4
    <3>2. x = Place1(k) /\ x \in Live1 /\ S1!InAvail(x)
      BY <1>6, <2>2, <3>1 DEF S1!InAvail, Place1
    <3> QED
      BY <1>5, <2>1, <3>2 DEF OrderInv, Queued
  <2> QED
    BY <2>3, <2>4
<1>9. Queued'
  BY <1>7, <1>8 DEF Queued
\* Everything that was sent before has a lower number.
<1>10. ASSUME NEW m \in Sent(sent) PROVE m[2] < buf1'[d][2]
  BY <1>4, SentNumber
<1>11. \A e \in Live0', x \in Live1' : buf0'[e][2] < buf1'[x][2]
  <2> TAKE e \in Live0', x \in Live1'
  <2>1. buf0' = buf0 /\ e \in Live0 /\ (x = d \/ x \in Live1)
    BY DEF Sends
  <2>2. buf0[e] \in Sent(sent)
    BY <2>1 DEF OnceInv
  <2> QED
    BY <1>5, <1>10, <2>1, <2>2 DEF OrderInv, Sorted
<1>12. \A i \in 1 .. Len(received'), x \in Live1' : received'[i][2] < buf1'[x][2]
  <2> TAKE i \in 1 .. Len(received'), x \in Live1'
  <2>1. received' = received /\ i \in 1 .. Len(received) /\ (x = d \/ x \in Live1)
    BY DEF Sends
  <2>2. received[i] \in Sent(sent)
    BY <2>1 DEF OnceInv
  <2> QED
    BY <1>5, <1>10, <2>1, <2>2 DEF OrderInv, Sorted
<1>13. Sorted'
  BY <1>11, <1>12 DEF Sends, OrderInv, Sorted
<1> QED
  BY <1>9, <1>13 DEF OrderInv

\* An echo is copied while no other is on its way, out of the last frame but
\* one, and the buffers that still wait have higher numbers.
LEMMA OrderFill ==
    ASSUME LinkTypes, ServeInv, OrderInv, S0!RingInv, buf0 \in [Desc -> Message],
           NEW d \in Desc, NEW e \in Live1, Echoes(d, e)
    PROVE  OrderInv'
<1>1. /\ buf1' = buf1 /\ received' = received /\ buf0'[d] = buf1[e]
      /\ Top(Rpmsg).pc = "fill" /\ Live0' \subseteq Live0 \union {d}
      /\ UNCHANGED <<vq1_avail_idx, vq1_avail_ring, vq1_last_avail>>
  BY DEF Echoes, vq1
<1>2. Depth(Rpmsg) = 2 /\ Depth(Rpmsg) - 1 = 1
  BY DEF Echoes, ServeInv
<1>3. /\ Copying(stack[Rpmsg], 1) /\ stack[Rpmsg][1].desc = e /\ stack[Rpmsg][2].fn = "send"
      /\ \A i : Copying(stack'[Rpmsg], i) =>
            /\ Copying(stack[Rpmsg], i) /\ i # 1
            /\ stack'[Rpmsg][i].desc = stack[Rpmsg][i].desc
  BY <1>2 DEF Echoes
<1>4. Queued'
  BY <1>1, <1>3, QueuedSame DEF OrderInv
<1>5. Live0 = {}
  <2>1. vq0_last_used = vq0_used_idx
    BY <1>1 DEF ServeInv, Unserved, AllBack
  <2>2. S0!Done = 0
    BY <2>1, S0!Distance, RingAssumption DEF S0!Done, S0!RingInv, S0!TypeOK
  <2> QED
    BY <1>1, <2>2 DEF Live0, S0!InUsed
<1>6. \A i : ~Copying(stack'[Rpmsg], i)
  <2> SUFFICES ASSUME NEW i, Copying(stack'[Rpmsg], i) PROVE FALSE
    OBVIOUS
  <2>1. Copying(stack[Rpmsg], i) /\ i # 1
    BY <1>3
  <2>2. i \in 1 .. Depth(Rpmsg) /\ stack[Rpmsg][i].fn = "vq1"
    BY <2>1 DEF Copying, Depth
  <2>3. i = 2
    BY <1>2, <2>1, <2>2
  <2> QED
    BY <1>3, <2>2, <2>3
<1>7. \A x \in Live1' : x \in Live1 /\ buf1[e][2] < buf1[x][2]
  <2> TAKE x \in Live1'
  <2>1. x \in Desc /\ S1!InAvail(x)'
    BY <1>6 DEF Live1
  <2>2. S1!InAvail(x)
    BY <1>1, <2>1, SameAvail1
  <2> QED
    BY <1>3, <2>1, <2>2 DEF OrderInv, Queued, Live1
<1>8. \A i \in 1 .. Len(received) : received[i][2] < buf1[e][2]
  BY DEF OrderInv, Sorted
<1>9. Sorted'
  <2>1. \A x, y \in Live0' : x = y
    BY <1>1, <1>5
  <2>2. \A x \in Live0', y \in Live1' : buf0'[x][2] < buf1'[y][2]
    BY <1>1, <1>5, <1>7
  <2>3. \A i \in 1 .. Len(received') : /\ \A y \in Live1' : received'[i][2] < buf1'[y][2]
                                       /\ \A x \in Live0' : received'[i][2] < buf0'[x][2]
    BY <1>1, <1>5, <1>7, <1>8 DEF OrderInv, Sorted
  <2> QED
    BY <1>1, <2>1, <2>2, <2>3 DEF OrderInv, Sorted
<1> QED
  BY <1>4, <1>9 DEF OrderInv

\* Linux takes the one echo that is on its way.
LEMMA OrderReceive ==
    ASSUME received \in Seq(Message), OrderInv, NEW d \in Live0, Gets(d)
    PROVE  OrderInv'
<1> DEFINE n == Len(received)
<1>1. /\ n \in Nat /\ Len(received') = n + 1
      /\ \A i \in 1 .. n : received'[i] = received[i]
      /\ received'[n + 1] = buf0[d]
  BY DEF Gets
<1>2. Queued'
  BY QueuedSame DEF Gets, OrderInv, vq1
<1>3. Live0' = {} /\ Live1' \subseteq Live1 /\ buf0' = buf0 /\ buf1' = buf1
  BY DEF Gets, OrderInv, Sorted
<1> HIDE DEF n
<1>4. \A i \in 1 .. n + 1 : i \in 1 .. n \/ i = n + 1
  BY <1>1
<1>5. \A i \in 1 .. n + 1, x \in Live1' : received'[i][2] < buf1'[x][2]
  BY <1>1, <1>3, <1>4 DEF OrderInv, Sorted, n
<1>6. ASSUME NEW i \in 1 .. n + 1, NEW j \in 1 .. n + 1, i < j
      PROVE  received'[i][2] < received'[j][2]
  <2>1. i \in 1 .. n /\ (j \in 1 .. n \/ j = n + 1)
    BY <1>1, <1>6
  <2>2. CASE j = n + 1
    BY <1>1, <2>1, <2>2 DEF OrderInv, Sorted, n
  <2>3. CASE j \in 1 .. n
    BY <1>1, <1>6, <2>1, <2>3 DEF OrderInv, Sorted, n
  <2> QED
    BY <2>1, <2>2, <2>3
<1>7. Sorted'
  BY <1>1, <1>3, <1>5, <1>6 DEF Sorted
<1> QED
  BY <1>2, <1>7 DEF OrderInv

\* Every step keeps the order.
LEMMA OrderNext ==
    ASSUME NActive = 0, LinkTypes, LeakInv, AloneInv, Alone0, OnceInv, ServeInv, OrderInv,
           [Next]_vars
    PROVE  OrderInv'
<1>1. /\ S1!RingInv' /\ S0!RingInv' /\ S1!RingInv /\ S0!RingInv /\ VQ1!TypeOK
      /\ buf0 \in [Desc -> Message] /\ received \in Seq(Message)
  BY AloneKept, Alone0Kept DEF AloneInv, Alone0, LinkTypes, TypeOK
<1>2. CASE LinuxSend
  BY <1>1, <1>2, SendMoves, OrderSend
<1>3. CASE LinuxReceive
  BY <1>1, <1>3, ReceiveMoves, OrderReceive
<1>4. CASE SendFill(Rpmsg)
  BY <1>1, <1>4, EchoMoves, OrderFill
<1>5. CASE MovesNone
  <2>1. Queued'
    <3>1. CASE VQ1!GetAvailStore(Rpmsg)
      BY <1>1, <1>5, <3>1, QueuedTake DEF OrderInv
    <3>2. CASE ~VQ1!GetAvailStore(Rpmsg)
      BY <1>5, <3>2, QueuedSame DEF MovesNone, OrderInv
    <3> QED
      BY <3>1, <3>2
  <2>2. Live1' \subseteq Live1 /\ Live0' \subseteq Live0 /\ UNCHANGED <<buf0, buf1, received>>
    BY <1>1, <1>5, MovesLive DEF MovesNone
  <2>3. Sorted'
    BY <2>2 DEF OrderInv, Sorted
  <2> QED
    BY <2>1, <2>3 DEF OrderInv
<1> QED
  BY <1>2, <1>3, <1>4, <1>5, NextMoves

\* At first no message is anywhere.
LEMMA OrderInit == ASSUME Init PROVE OrderInv
<1>1. Live1 = {} /\ Live0 = {} /\ received = <<>> /\ stack[Rpmsg] = <<>> /\ S1!Waiting = 0
  BY NothingYet
<1>2. \A i : ~Copying(stack[Rpmsg], i)
  BY <1>1 DEF Copying
<1> QED
  BY <1>1, <1>2 DEF OrderInv, Queued, Sorted

\* The invariant of the two theorems below, and its step.
EchoInv == LinkTypes /\ LeakInv /\ AloneInv /\ Alone0 /\ OnceInv /\ ServeInv /\ OrderInv

LEMMA EchoInvariant ==
    ASSUME NActive = 0, KickMayTimeOut = FALSE
    PROVE  Spec => []EchoInv
<1>1. Init => EchoInv
  BY LinkTypesInit, LeakInit, AloneInit, Alone0Init, OnceInit, ServeInit, OrderInit DEF EchoInv
<1>2. EchoInv /\ [Next]_vars => EchoInv'
  BY LinkTypesNext, LeakNext, AloneKept, Alone0Kept, OnceNext, ServeNext, OrderNext DEF EchoInv
<1> QED
  BY <1>1, <1>2, PTL DEF Spec

(* As long as no kick times out rpmsg_send finds a buffer and never calls  *)
(* rpmsg_poll (rpmsg_core.c:234): the kick after each buffer of vq1        *)
(* (rpmsg_core.c:310) waits until Linux has served the one before it.      *)
THEOREM NeverPollsInside ==
    ASSUME NActive = 0, KickMayTimeOut = FALSE
    PROVE  Spec => [](Depth(Rpmsg) <= 2)
<1>1. EchoInv => Depth(Rpmsg) <= 2
  BY DEF EchoInv, ServeInv
<1> QED
  BY <1>1, EchoInvariant, PTL

(* The echoes come back in the order of the messages, whatever the size of *)
(* the rings: there is at most one on its way, older than all that wait,   *)
(* because the two kicks of each message (rpmsg_core.c:249, 310) hold core1 *)
(* back until Linux has taken the echo before.  A kick that times out, or  *)
(* vTask1 sending too, would break it.                                     *)
THEOREM EchoesOrdered ==
    ASSUME NActive = 0, KickMayTimeOut = FALSE
    PROVE  Spec => []EchoInOrder
<1>1. EchoInv => EchoInOrder
  <2> SUFFICES ASSUME EchoInv PROVE EchoInOrder
    OBVIOUS
  <2>1. DOMAIN received = 1 .. Len(received)
    BY DEF EchoInv, LinkTypes, TypeOK
  <2> QED
    BY <2>1 DEF EchoInv, OrderInv, Sorted, EchoInOrder
<1> QED
  BY <1>1, EchoInvariant, PTL
=============================================================================
