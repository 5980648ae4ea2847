-------------------------- MODULE RpmsgLink_proofs --------------------------
(* Theorems about RpmsgLink, for every ring size, index width, number of   *)
(* messages and pattern of kicks that time out: its types and its buffers; *)
(* while core1 only echoes, the depth of the nested calls, that no message *)
(* is stranded in vq1, and that failed kicks never leave the link dead.    *)
EXTENDS RpmsgLink, FiniteSetTheorems, SequenceTheorems, TLAPS

\* The lemmas on one virtqueue, for each of the two.
R0 == INSTANCE Vring_proofs WITH Callers <- Tasks,
    avail_idx <- vq0_avail_idx, avail_ring <- vq0_avail_ring,
    used_idx <- vq0_used_idx, used_ring <- vq0_used_ring,
    last_avail <- vq0_last_avail, call <- vq0_call, held <- vq0_held,
    free <- vq0_free, last_used <- vq0_last_used, broken <- vq0_broken

R1 == INSTANCE Vring_proofs WITH Callers <- Tasks,
    avail_idx <- vq1_avail_idx, avail_ring <- vq1_avail_ring,
    used_idx <- vq1_used_idx, used_ring <- vq1_used_ring,
    last_avail <- vq1_last_avail, call <- vq1_call, held <- vq1_held,
    free <- vq1_free, last_used <- vq1_last_used, broken <- vq1_broken

\* The steps of RpmsgLink that touch a queue are steps of its two functions,
\* of Linux, or none.
GetAvail0(t) == \/ VQ0!GetAvailCheck(t) \/ VQ0!GetAvailRing(t) \/ VQ0!GetAvailLoad(t)
                \/ VQ0!GetAvailStore(t) \/ VQ0!GetAvailEmpty(t)
GetAvail1(t) == \/ VQ1!GetAvailCheck(t) \/ VQ1!GetAvailRing(t) \/ VQ1!GetAvailLoad(t)
                \/ VQ1!GetAvailStore(t) \/ VQ1!GetAvailEmpty(t)
PutUsed0(t) == \/ \E d \in Desc : VQ0!PutUsedRead(t, d, 1)
               \/ VQ0!PutUsedId(t) \/ VQ0!PutUsedLen(t) \/ VQ0!PutUsedPublish(t)
PutUsed1(t) == \/ \E d \in Desc : VQ1!PutUsedRead(t, d, 1)
               \/ VQ1!PutUsedId(t) \/ VQ1!PutUsedLen(t) \/ VQ1!PutUsedPublish(t)

LEMMA Types0 ==
    ASSUME VQ0!TypeOK,
           \/ VQ0!LinuxReclaim
           \/ \E d \in Desc : VQ0!LinuxOffer(d)
           \/ \E t \in Tasks : GetAvail0(t) \/ PutUsed0(t)
           \/ UNCHANGED vq0
    PROVE  VQ0!TypeOK'
<1> USE DEF VQ0!Desc, R0!Desc, VQ0!Idx, R0!Idx, VQ0!Slots, R0!Slots, VQ0!Elem, R0!Elem,
            VQ0!PCs, R0!PCs, VQ0!Slot, R0!Slot, VQ0!Next16, R0!Next16, Desc,
            VQ0!linuxVars, R0!linuxVars, VQ0!core1Vars, R0!core1Vars, VQ0!vars, R0!vars
<1>1. R0!TypeOK
  BY DEF VQ0!TypeOK, R0!TypeOK
<1>2. ASSUME NEW t \in Tasks, GetAvail0(t) PROVE R0!GetAvail(t)
  BY <1>2 DEF GetAvail0, R0!GetAvail, VQ0!GetAvailCheck, R0!GetAvailCheck,
              VQ0!GetAvailRing, R0!GetAvailRing, VQ0!GetAvailLoad, R0!GetAvailLoad,
              VQ0!GetAvailStore, R0!GetAvailStore, VQ0!GetAvailEmpty, R0!GetAvailEmpty
<1>3. ASSUME NEW t \in Tasks, PutUsed0(t)
      PROVE  \/ R0!PutUsedId(t) \/ R0!PutUsedLen(t) \/ R0!PutUsedPublish(t)
             \/ \E d \in R0!Desc, len \in Lens : R0!PutUsedRead(t, d, len)
  BY <1>3 DEF PutUsed0, Lens, VQ0!PutUsedRead, R0!PutUsedRead, VQ0!PutUsedId, R0!PutUsedId,
              VQ0!PutUsedLen, R0!PutUsedLen, VQ0!PutUsedPublish, R0!PutUsedPublish
<1>4. ASSUME VQ0!LinuxReclaim \/ \E d \in Desc : VQ0!LinuxOffer(d) PROVE R0!Linux
  BY <1>4 DEF R0!Linux, VQ0!LinuxReclaim, R0!LinuxReclaim, VQ0!LinuxOffer, R0!LinuxOffer
<1>5. ASSUME UNCHANGED vq0 PROVE UNCHANGED R0!vars
  BY <1>5 DEF vq0
<1>6. R0!TypeOK'
  BY <1>1, <1>2, <1>3, <1>4, <1>5, R0!TypeKept, RingAssumption
<1> QED
  BY <1>6 DEF VQ0!TypeOK, R0!TypeOK

LEMMA Types1 ==
    ASSUME VQ1!TypeOK,
           \/ VQ1!LinuxReclaim
           \/ \E d \in Desc : VQ1!LinuxOffer(d)
           \/ \E t \in Tasks : GetAvail1(t) \/ PutUsed1(t)
           \/ UNCHANGED vq1
    PROVE  VQ1!TypeOK'
<1> USE DEF VQ1!Desc, R1!Desc, VQ1!Idx, R1!Idx, VQ1!Slots, R1!Slots, VQ1!Elem, R1!Elem,
            VQ1!PCs, R1!PCs, VQ1!Slot, R1!Slot, VQ1!Next16, R1!Next16, Desc, VQ0!Desc,
            VQ1!linuxVars, R1!linuxVars, VQ1!core1Vars, R1!core1Vars, VQ1!vars, R1!vars
<1>1. R1!TypeOK
  BY DEF VQ1!TypeOK, R1!TypeOK
<1>2. ASSUME NEW t \in Tasks, GetAvail1(t) PROVE R1!GetAvail(t)
  BY <1>2 DEF GetAvail1, R1!GetAvail, VQ1!GetAvailCheck, R1!GetAvailCheck,
              VQ1!GetAvailRing, R1!GetAvailRing, VQ1!GetAvailLoad, R1!GetAvailLoad,
              VQ1!GetAvailStore, R1!GetAvailStore, VQ1!GetAvailEmpty, R1!GetAvailEmpty
<1>3. ASSUME NEW t \in Tasks, PutUsed1(t)
      PROVE  \/ R1!PutUsedId(t) \/ R1!PutUsedLen(t) \/ R1!PutUsedPublish(t)
             \/ \E d \in R1!Desc, len \in Lens : R1!PutUsedRead(t, d, len)
  BY <1>3 DEF PutUsed1, Lens, VQ1!PutUsedRead, R1!PutUsedRead, VQ1!PutUsedId, R1!PutUsedId,
              VQ1!PutUsedLen, R1!PutUsedLen, VQ1!PutUsedPublish, R1!PutUsedPublish
<1>4. ASSUME VQ1!LinuxReclaim \/ \E d \in Desc : VQ1!LinuxOffer(d) PROVE R1!Linux
  BY <1>4 DEF R1!Linux, VQ1!LinuxReclaim, R1!LinuxReclaim, VQ1!LinuxOffer, R1!LinuxOffer
<1>5. ASSUME UNCHANGED vq1 PROVE UNCHANGED R1!vars
  BY <1>5 DEF vq1
<1>6. R1!TypeOK'
  BY <1>1, <1>2, <1>3, <1>4, <1>5, R1!TypeKept, RingAssumption
<1> QED
  BY <1>6 DEF VQ1!TypeOK, R1!TypeOK

LEMMA MailboxTypes ==
    ASSUME MB!TypeOK,
           \/ MB!LinuxSendMessage \/ MB!LinuxTxPoll \/ MB!Core1ClearDoorbell
           \/ MB!IrqRead \/ MB!IrqReceived \/ MB!IrqClear
           \/ \E t \in Tasks : MB!KickReady(t) \/ MB!KickTimeout(t) \/ MB!KickWrite(t)
           \/ UNCHANGED mbox
    PROVE  MB!TypeOK'
<1> USE LinkAssumption DEF MB!TypeOK, MB!IrqPCs, MB!KickPCs, MB!a2bVars, MB!b2aVars
<1>1. CASE MB!LinuxSendMessage
  <2>1. \/ UNCHANGED <<a2b_status, tx_queue, tx_active>>
        \/ /\ tx_queue # TxQueueLen
           /\ \/ tx_queue' = tx_queue + 1
              \/ tx_queue' = (tx_queue + 1) - 1
           /\ a2b_status' \in BOOLEAN /\ tx_active' \in BOOLEAN
    BY <1>1, Zenon DEF MB!LinuxSendMessage, MB!Submit
  <2>2. UNCHANGED <<b2a_status, irq, kick>>
    BY <1>1 DEF MB!LinuxSendMessage
  <2>3. tx_queue' \in 0 .. TxQueueLen
    BY <2>1
  <2>4. a2b_status' \in BOOLEAN /\ tx_active' \in BOOLEAN
    BY <2>1, Zenon
  <2> QED
    BY <2>2, <2>3, <2>4
<1>2. CASE MB!LinuxTxPoll
  <2>1. \/ tx_queue' = tx_queue /\ tx_active' = FALSE /\ a2b_status' = a2b_status
        \/ /\ tx_queue # 0 /\ tx_queue' = tx_queue - 1
           /\ tx_active' = tx_active /\ a2b_status' = TRUE
    BY <1>2, Zenon DEF MB!LinuxTxPoll
  <2>2. UNCHANGED <<b2a_status, irq, kick>>
    BY <1>2 DEF MB!LinuxTxPoll
  <2>3. tx_queue' \in 0 .. TxQueueLen
    BY <2>1
  <2>4. a2b_status' \in BOOLEAN /\ tx_active' \in BOOLEAN
    BY <2>1, Zenon
  <2> QED
    BY <2>2, <2>3, <2>4
<1>3. CASE MB!Core1ClearDoorbell
  BY <1>3 DEF MB!Core1ClearDoorbell
<1>4. CASE MB!IrqRead \/ MB!IrqReceived \/ MB!IrqClear
  BY <1>4 DEF MB!IrqRead, MB!IrqReceived, MB!IrqClear
<1>5. ASSUME NEW t \in Tasks, MB!KickReady(t) \/ MB!KickTimeout(t) \/ MB!KickWrite(t)
      PROVE  MB!TypeOK'
  BY <1>5 DEF MB!KickReady, MB!KickTimeout, MB!KickWrite, MB!vars
<1>6. CASE UNCHANGED mbox
  BY <1>6 DEF mbox
<1> QED
  BY <1>1, <1>2, <1>3, <1>4, <1>5, <1>6
-----------------------------------------------------------------------------
(* What each operation does to the stack of its task.                      *)
Stacks == [Tasks -> Seq(Frame)]

LEMMA TopSet ==
    ASSUME stack \in Stacks, NEW t \in Tasks, stack[t] # <<>>, NEW f \in Frame,
           stack' = [stack EXCEPT ![t][Depth(t)] = f]
    PROVE  /\ stack' \in Stacks
           /\ \A u \in Tasks \ {t} : stack'[u] = stack[u]
           /\ Len(stack'[t]) = Depth(t) /\ Depth(t) \in Nat \ {0}
           /\ \A i \in 1 .. Depth(t) - 1 : stack'[t][i] = stack[t][i]
           /\ stack'[t][Depth(t)] = f
<1> DEFINE s == stack[t]
           r == [s EXCEPT ![Len(s)] = f]
<1>1. s \in Seq(Frame) /\ Len(s) \in Nat /\ Len(s) # 0
  BY DEF Stacks
<1>2. r \in Seq(Frame) /\ Len(r) = Len(s) /\ r[Len(s)] = f
      /\ \A i \in 1 .. Len(s) - 1 : r[i] = s[i]
  BY <1>1
<1>3. stack' = [stack EXCEPT ![t] = r]
  BY DEF Depth
<1> QED
  BY <1>1, <1>2, <1>3 DEF Stacks, Depth

LEMMA Pushed ==
    ASSUME stack \in Stacks, NEW t \in Tasks, stack[t] # <<>>, NEW ret, NEW f \in Frame,
           Push(t, ret, f), [Top(t) EXCEPT !.pc = ret] \in Frame
    PROVE  /\ stack' \in Stacks
           /\ \A u \in Tasks \ {t} : stack'[u] = stack[u]
           /\ Len(stack'[t]) = Depth(t) + 1 /\ Depth(t) \in Nat \ {0}
           /\ \A i \in 1 .. Depth(t) - 1 : stack'[t][i] = stack[t][i]
           /\ stack'[t][Depth(t)] = [Top(t) EXCEPT !.pc = ret]
           /\ stack'[t][Depth(t) + 1] = f
           /\ base' = base
<1> DEFINE s == stack[t]
           g == [Top(t) EXCEPT !.pc = ret]
           r == [s EXCEPT ![Len(s)] = g]
           q == Append(r, f)
<1>1. s \in Seq(Frame) /\ Len(s) \in Nat /\ Len(s) # 0
  BY DEF Stacks
<1>2. stack' = [stack EXCEPT ![t] = q] /\ base' = base
  BY DEF Push, Depth, Top
<1>3. g \in Frame
  OBVIOUS
<1> HIDE DEF g
<1>4. r \in Seq(Frame) /\ Len(r) = Len(s) /\ r[Len(s)] = g
      /\ \A i \in 1 .. Len(s) - 1 : r[i] = s[i]
  BY <1>1, <1>3
<1> HIDE DEF r
<1>5. q \in Seq(Frame) /\ Len(q) = Len(s) + 1 /\ q[Len(s) + 1] = f
      /\ \A i \in 1 .. Len(s) : q[i] = r[i]
  BY <1>1, <1>4
<1> HIDE DEF q
<1>6. stack'[t] = q
  BY <1>2 DEF Stacks
<1>7. \A i \in 1 .. Len(s) - 1 : q[i] = s[i]
  BY <1>1, <1>4, <1>5
<1>8. q[Len(s)] = g
  BY <1>1, <1>4, <1>5
<1> QED
  BY <1>1, <1>2, <1>5, <1>6, <1>7, <1>8 DEF Stacks, Depth, g

LEMMA Popped ==
    ASSUME stack \in Stacks, NEW t \in Tasks, stack[t] # <<>>, Pop(t)
    PROVE  /\ stack' \in Stacks
           /\ \A u \in Tasks \ {t} : stack'[u] = stack[u]
           /\ Len(stack'[t]) = Depth(t) - 1 /\ Depth(t) \in Nat \ {0}
           /\ \A i \in 1 .. Depth(t) - 1 : stack'[t][i] = stack[t][i]
           /\ Depth(t) = 1 => stack'[t] = <<>>
<1> DEFINE s == stack[t]
           q == SubSeq(s, 1, Len(s) - 1)
<1>1. s \in Seq(Frame) /\ Len(s) \in Nat /\ Len(s) # 0
  BY DEF Stacks
<1>2. stack' = [stack EXCEPT ![t] = q]
  BY DEF Pop, Depth
<1>3. q \in Seq(Frame) /\ Len(q) = Len(s) - 1
      /\ \A i \in 1 .. Len(s) - 1 : q[i] = s[i]
  BY <1>1
<1>4. Len(s) = 1 => q = <<>>
  BY <1>1, <1>3
<1> HIDE DEF q
<1> QED
  BY <1>1, <1>2, <1>3, <1>4 DEF Stacks, Depth
-----------------------------------------------------------------------------
(* Types                                                                   *)
BasePCs == {"take", "blocked", "poll", "delay", "check", "send"}

\* What TypeOK needs to be inductive: base is a function, and vTask1 wakes
\* only if it has something to send.
LinkTypes ==
    /\ TypeOK
    /\ base \in [Tasks -> BasePCs]
    /\ base[T1] = "check" => active < NActive

LEMMA DescIs == Desc = 0 .. NUM - 1 /\ VQ0!Desc = Desc /\ VQ1!Desc = Desc
  BY DEF Desc, VQ0!Desc, VQ1!Desc

LEMMA FrameFacts ==
    ASSUME NEW f \in Frame
    PROVE  /\ f.desc \in Desc /\ f.msg \in Message
           /\ f.fn = "send" =>
                \A p \in {"take", "fill", "put", "kick"}, d \in Desc, m \in Message :
                   /\ [f EXCEPT !.pc = p, !.desc = d] \in Frame
                   /\ [f EXCEPT !.pc = p, !.msg = m] \in Frame
                   /\ [f EXCEPT !.pc = p] \in Frame
           /\ f.fn = "vq1" =>
                \A p \in {"take", "recv", "put", "kick"}, d \in Desc :
                   /\ [f EXCEPT !.pc = p, !.desc = d] \in Frame
                   /\ [f EXCEPT !.pc = p] \in Frame
<1>1. Blank \in Message
  BY DEF Message
<1>2. CASE f \in [fn : {"send"}, pc : {"take", "fill", "put", "kick"}, desc : Desc, msg : Message]
  BY <1>2 DEF Frame
<1>3. CASE f \in [fn : {"vq1"}, pc : {"take", "recv", "put", "kick"}, desc : Desc, msg : {Blank}]
  BY <1>1, <1>3 DEF Frame
<1> QED
  BY <1>2, <1>3 DEF Frame

LEMMA NewFrames == Vq1Frame \in Frame /\ \A m \in Message : SendFrame(m) \in Frame
<1>1. 0 \in Desc
  BY RingAssumption, DescIs
<1> QED
  BY <1>1 DEF Frame, Vq1Frame, SendFrame

LEMMA TopIs ==
    ASSUME stack \in Stacks, NEW t \in Tasks, stack[t] # <<>>
    PROVE  /\ Top(t) \in Frame /\ Depth(t) \in Nat \ {0} /\ Top(t) = stack[t][Depth(t)]
           /\ \A i \in 1 .. Depth(t) : stack[t][i] \in Frame
<1>1. stack[t] \in Seq(Frame)
  BY DEF Stacks
<1> QED
  BY <1>1 DEF Top, Depth

LEMMA StepQueueTypes ==
    ASSUME LinkTypes, NEW t \in Tasks, Step(t)
    PROVE  VQ0!TypeOK' /\ VQ1!TypeOK' /\ MB!TypeOK'
<1>1. VQ0!TypeOK /\ VQ1!TypeOK /\ MB!TypeOK /\ stack \in Stacks
  BY DEF LinkTypes, TypeOK, Stacks
<1>2. ASSUME NEW fn, NEW pc, At(t, fn, pc) PROVE Top(t).desc \in Desc
  BY <1>1, <1>2, TopIs, FrameFacts DEF At
<1>3. CASE SendTake(t)
  <2>1. GetAvail0(t) /\ UNCHANGED vq1 /\ UNCHANGED mbox
    BY <1>3 DEF SendTake, GetAvail0
  <2> QED
    BY <1>1, <2>1, Types0, Types1, MailboxTypes
<1>4. CASE SendFill(t)
  BY <1>1, <1>4, Types0, Types1, MailboxTypes DEF SendFill
<1>5. CASE SendPut(t)
  <2>1. PutUsed0(t) /\ UNCHANGED vq1 /\ UNCHANGED mbox
    BY <1>2, <1>5 DEF SendPut, PutUsed0
  <2> QED
    BY <1>1, <2>1, Types0, Types1, MailboxTypes
<1>6. CASE SendKick(t)
  <2>1. /\ MB!KickReady(t) \/ MB!KickTimeout(t) \/ MB!KickWrite(t)
        /\ UNCHANGED vq0 /\ UNCHANGED vq1
    BY <1>6 DEF SendKick
  <2> QED
    BY <1>1, <2>1, Types0, Types1, MailboxTypes
<1>7. CASE Vq1Take(t)
  <2>1. GetAvail1(t) /\ UNCHANGED vq0 /\ UNCHANGED mbox
    BY <1>7 DEF Vq1Take, GetAvail1
  <2> QED
    BY <1>1, <2>1, Types0, Types1, MailboxTypes
<1>8. CASE Vq1Recv(t)
  BY <1>1, <1>8, Types0, Types1, MailboxTypes DEF Vq1Recv
<1>9. CASE Vq1Put(t)
  <2>1. PutUsed1(t) /\ UNCHANGED vq0 /\ UNCHANGED mbox
    BY <1>2, <1>9 DEF Vq1Put, PutUsed1
  <2> QED
    BY <1>1, <2>1, Types0, Types1, MailboxTypes
<1>10. CASE Vq1Kick(t)
  <2>1. /\ MB!KickReady(t) \/ MB!KickTimeout(t) \/ MB!KickWrite(t)
        /\ UNCHANGED vq0 /\ UNCHANGED vq1
    BY <1>10 DEF Vq1Kick
  <2> QED
    BY <1>1, <2>1, Types0, Types1, MailboxTypes
<1> QED
  BY <1>3, <1>4, <1>5, <1>6, <1>7, <1>8, <1>9, <1>10 DEF Step

LEMMA QueueTypes ==
    ASSUME LinkTypes, [Next]_vars
    PROVE  VQ0!TypeOK' /\ VQ1!TypeOK' /\ MB!TypeOK'
<1>1. VQ0!TypeOK /\ VQ1!TypeOK /\ MB!TypeOK
  BY DEF LinkTypes, TypeOK
<1>2. ASSUME UNCHANGED mbox, UNCHANGED vq0, UNCHANGED vq1
      PROVE  VQ0!TypeOK' /\ VQ1!TypeOK' /\ MB!TypeOK'
  BY <1>1, <1>2, Types0, Types1, MailboxTypes
<1>3. CASE LinuxSend
  <2>1. UNCHANGED vq0 /\ UNCHANGED mbox
    BY <1>3 DEF LinuxSend
  <2>2. \E d \in Desc : VQ1!LinuxOffer(d)
    BY <1>1, <1>3, DescIs DEF LinuxSend, VQ1!TypeOK
  <2> QED
    BY <1>1, <2>1, <2>2, Types0, Types1, MailboxTypes
<1>4. CASE LinuxRing
  BY <1>1, <1>4, Types0, Types1, MailboxTypes DEF LinuxRing
<1>5. CASE LinuxTxPoll
  BY <1>1, <1>5, Types0, Types1, MailboxTypes DEF LinuxTxPoll
<1>6. CASE LinuxReclaimVq1
  BY <1>1, <1>6, Types0, Types1, MailboxTypes DEF LinuxReclaimVq1
<1>7. CASE LinuxIrqRead \/ LinuxIrqDone \/ LinuxIrqClear
  BY <1>1, <1>7, Types0, Types1, MailboxTypes DEF LinuxIrqRead, LinuxIrqDone, LinuxIrqClear
<1>8. CASE LinuxReceive \/ LinuxRefill
  <2>1. UNCHANGED vq1 /\ UNCHANGED mbox
    BY <1>8 DEF LinuxReceive, LinuxRefill
  <2>2. VQ0!LinuxReclaim \/ \E d \in Desc : VQ0!LinuxOffer(d)
    BY <1>1, <1>8, DescIs DEF LinuxReceive, LinuxRefill, VQ0!TypeOK
  <2> QED
    BY <1>1, <2>1, <2>2, Types0, Types1, MailboxTypes
<1>9. CASE IsrClear
  BY <1>1, <1>9, Types0, Types1, MailboxTypes DEF IsrClear
<1>10. CASE IsrNotify \/ NotifyTake \/ T1Wake \/ T1Check
  BY <1>2, <1>10 DEF IsrNotify, NotifyTake, T1Wake, T1Check
<1>11. CASE UNCHANGED vars
  BY <1>2, <1>11 DEF vars
<1> QED
  BY <1>3, <1>4, <1>5, <1>6, <1>7, <1>8, <1>9, <1>10, <1>11, StepQueueTypes
     DEF Next, Linux, LinuxIrq, Core1

\* The frame that Goto, Push and the copy leave in the place of the top one.
LEMMA TopFields ==
    ASSUME NEW f \in Frame, NEW p, NEW d, NEW m
    PROVE  /\ [f EXCEPT !.pc = p, !.desc = d].fn = f.fn
           /\ [f EXCEPT !.pc = p, !.desc = d].pc = p
           /\ [f EXCEPT !.pc = p, !.desc = d].desc = d
           /\ [f EXCEPT !.pc = p, !.desc = d].msg = f.msg
           /\ [f EXCEPT !.pc = p].fn = f.fn /\ [f EXCEPT !.pc = p].pc = p
           /\ [f EXCEPT !.pc = p].desc = f.desc
           /\ [f EXCEPT !.pc = p, !.msg = m].fn = f.fn
           /\ [f EXCEPT !.pc = p, !.msg = m].pc = p
           /\ [f EXCEPT !.pc = p, !.msg = m].desc = f.desc
<1>1. CASE f \in [fn : {"send"}, pc : {"take", "fill", "put", "kick"}, desc : Desc, msg : Message]
  BY <1>1
<1>2. CASE f \in [fn : {"vq1"}, pc : {"take", "recv", "put", "kick"}, desc : Desc, msg : {Blank}]
  BY <1>2
<1> QED
  BY <1>1, <1>2 DEF Frame

\* The frame now at the place of the top one.
TopBecomes(t, pc, d) ==
    /\ stack'[t][Depth(t)].fn = Top(t).fn
    /\ stack'[t][Depth(t)].pc = pc
    /\ stack'[t][Depth(t)].desc = d
    /\ stack'[t][Depth(t)].msg = Top(t).msg

LEMMA Gone ==
    ASSUME stack \in Stacks, NEW t \in Tasks, stack[t] # <<>>, NEW pc, NEW d,
           Goto(t, pc, d), [Top(t) EXCEPT !.pc = pc, !.desc = d] \in Frame
    PROVE  /\ stack' \in Stacks
           /\ \A u \in Tasks \ {t} : stack'[u] = stack[u]
           /\ Len(stack'[t]) = Depth(t) /\ Depth(t) \in Nat \ {0}
           /\ \A i \in 1 .. Depth(t) - 1 : stack'[t][i] = stack[t][i]
           /\ stack'[t][Depth(t)] = [Top(t) EXCEPT !.pc = pc, !.desc = d]
           /\ TopBecomes(t, pc, d)
           /\ base' = base
<1> DEFINE f == [Top(t) EXCEPT !.pc = pc, !.desc = d]
<1>1. stack[t] \in Seq(Frame) /\ Depth(t) \in 1 .. Len(stack[t])
  BY DEF Stacks, Depth
<1>2. stack' = [stack EXCEPT ![t][Depth(t)] = f] /\ base' = base
  BY <1>1 DEF Goto, Top, Stacks
<1>3. f \in Frame
  OBVIOUS
<1>5. f.fn = Top(t).fn /\ f.pc = pc /\ f.desc = d /\ f.msg = Top(t).msg
  BY <1>1, TopIs, TopFields
<1> HIDE DEF f
<1>4. /\ stack' \in Stacks
      /\ \A u \in Tasks \ {t} : stack'[u] = stack[u]
      /\ Len(stack'[t]) = Depth(t) /\ Depth(t) \in Nat \ {0}
      /\ \A i \in 1 .. Depth(t) - 1 : stack'[t][i] = stack[t][i]
      /\ stack'[t][Depth(t)] = f
  BY <1>2, <1>3, TopSet
<1>6. stack'[t][Depth(t)] = [Top(t) EXCEPT !.pc = pc, !.desc = d]
  BY <1>4 DEF f
<1> QED
  BY <1>2, <1>4, <1>5, <1>6 DEF TopBecomes

\* The copy of rpmsg_send: the payload of the message, or of its caller's.
Payload(t) == IF Depth(t) = 1 THEN Top(t).msg ELSE buf1[stack[t][Depth(t) - 1].desc]

LEMMA Filled ==
    ASSUME LinkTypes, NEW t \in Tasks, SendFill(t)
    PROVE  /\ stack[t] # <<>> /\ Payload(t) \in Message
           /\ buf0' = [buf0 EXCEPT ![Top(t).desc] = Payload(t)]
           /\ stack' \in Stacks
           /\ \A u \in Tasks \ {t} : stack'[u] = stack[u]
           /\ Len(stack'[t]) = Depth(t) /\ Depth(t) \in Nat \ {0}
           /\ \A i \in 1 .. Depth(t) - 1 : stack'[t][i] = stack[t][i]
           /\ stack'[t][Depth(t)] = [Top(t) EXCEPT !.pc = "put", !.msg = Payload(t)]
<1>1. stack \in Stacks /\ stack[t] # <<>> /\ Top(t).fn = "send" /\ buf1 \in [Desc -> Message]
  BY DEF LinkTypes, TypeOK, Stacks, SendFill, At
<1>2. Top(t) \in Frame /\ Depth(t) \in Nat \ {0}
      /\ \A i \in 1 .. Depth(t) : stack[t][i] \in Frame
  BY <1>1, TopIs
<1>3. Payload(t) \in Message
  <2>1. CASE Depth(t) = 1
    BY <1>2, <2>1, FrameFacts DEF Payload
  <2>2. CASE Depth(t) # 1
    <3>1. Depth(t) - 1 \in 1 .. Depth(t)
      BY <1>2, <2>2
    <3>2. stack[t][Depth(t) - 1].desc \in Desc
      BY <1>2, <3>1, FrameFacts
    <3> QED
      BY <1>1, <2>2, <3>2 DEF Payload
  <2> QED
    BY <2>1, <2>2
<1> DEFINE f == [Top(t) EXCEPT !.pc = "put", !.msg = Payload(t)]
<1>4. f \in Frame
  BY <1>1, <1>2, <1>3, FrameFacts
<1>5. stack[t] \in Seq(Frame) /\ Depth(t) \in 1 .. Len(stack[t])
  BY <1>1 DEF Stacks, Depth
<1>6. buf0' = [buf0 EXCEPT ![Top(t).desc] = Payload(t)]
  BY DEF SendFill, Payload
<1>7. stack' = [stack EXCEPT ![t][Depth(t)] = f]
  BY <1>1, <1>5 DEF SendFill, Payload, Top, Stacks
<1> HIDE DEF f
<1>8. /\ stack' \in Stacks
      /\ \A u \in Tasks \ {t} : stack'[u] = stack[u]
      /\ Len(stack'[t]) = Depth(t) /\ Depth(t) \in Nat \ {0}
      /\ \A i \in 1 .. Depth(t) - 1 : stack'[t][i] = stack[t][i]
      /\ stack'[t][Depth(t)] = f
  BY <1>1, <1>4, <1>7, TopSet
<1> QED
  BY <1>1, <1>3, <1>6, <1>8 DEF f

\* Where a task's own loop may be after a step of its frames.
LEMMA StepTypes ==
    ASSUME LinkTypes, NEW t \in Tasks, Step(t)
    PROVE  /\ stack' \in Stacks
           /\ \A u \in Tasks \ {t} : stack'[u] = stack[u]
           /\ stack[t] # <<>>
           /\ \/ base' = base
              \/ /\ stack'[t] = <<>>
                 /\ base' = [base EXCEPT ![t] = IF t = Rpmsg THEN "take" ELSE "delay"]
           /\ \/ buf0' = buf0
              \/ \E d \in Desc, m \in Message : buf0' = [buf0 EXCEPT ![d] = m]
           /\ UNCHANGED <<buf1, lin, isr, notified, active>>
           /\ have_linux_ept' \in BOOLEAN /\ kick_failed' \in BOOLEAN
           /\ claimed' \subseteq Message
<1>1. /\ VQ0!TypeOK /\ VQ1!TypeOK /\ stack \in Stacks /\ claimed \subseteq Message
      /\ have_linux_ept \in BOOLEAN /\ kick_failed \in BOOLEAN
  BY DEF LinkTypes, TypeOK, Stacks
<1>2. stack[t] # <<>>
  BY DEF Step, SendTake, SendFill, SendPut, SendKick, Vq1Take, Vq1Recv, Vq1Put, Vq1Kick, At
<1>3. Top(t) \in Frame /\ Top(t).desc \in Desc /\ Top(t).msg \in Message
  BY <1>1, <1>2, TopIs, FrameFacts
<1>4. vq0_call[t].desc \in Desc /\ vq1_call[t].desc \in Desc /\ 0 \in Desc
  BY <1>1, DescIs, RingAssumption DEF VQ0!TypeOK, VQ1!TypeOK
<1>5. ASSUME Stay PROVE stack' \in Stacks /\ (\A u \in Tasks \ {t} : stack'[u] = stack[u])
                        /\ base' = base
  BY <1>1, <1>5 DEF Stay
<1>6. ASSUME Pop(t)
      PROVE  /\ stack' \in Stacks /\ \A u \in Tasks \ {t} : stack'[u] = stack[u]
             /\ \/ base' = base
                \/ /\ stack'[t] = <<>>
                   /\ base' = [base EXCEPT ![t] = IF t = Rpmsg THEN "take" ELSE "delay"]
  <2>1. /\ stack' \in Stacks /\ \A u \in Tasks \ {t} : stack'[u] = stack[u]
        /\ Depth(t) \in Nat \ {0} /\ (Depth(t) = 1 => stack'[t] = <<>>)
    BY <1>1, <1>2, <1>6, Popped
  <2>2. \/ Depth(t) > 1 /\ base' = base
        \/ ~(Depth(t) > 1) /\ base' = [base EXCEPT ![t] = IF t = Rpmsg THEN "take" ELSE "delay"]
    BY <1>6 DEF Pop
  <2> QED
    BY <2>1, <2>2
<1>7. CASE SendTake(t)
  <2>1. At(t, "send", "take") /\ UNCHANGED <<vq1, mbox, buf0, buf1, lin, isr, notified, rest>>
    BY <1>7 DEF SendTake
  <2>2. \/ Stay
        \/ Goto(t, "fill", vq0_call[t].desc)
        \/ Push(t, "take", Vq1Frame)
    BY <1>7 DEF SendTake
  <2>3. /\ [Top(t) EXCEPT !.pc = "fill", !.desc = vq0_call[t].desc] \in Frame
        /\ [Top(t) EXCEPT !.pc = "take"] \in Frame
    BY <1>3, <1>4, <2>1, FrameFacts DEF At
  <2>4. stack' \in Stacks /\ (\A u \in Tasks \ {t} : stack'[u] = stack[u]) /\ base' = base
    BY <1>1, <1>2, <1>5, <2>2, <2>3, Gone, Pushed, NewFrames
  <2> QED
    BY <1>1, <1>2, <2>1, <2>4 DEF rest
<1>8. CASE SendFill(t)
  <2>1. UNCHANGED <<base, buf1, lin, isr, notified, rest>>
    BY <1>8 DEF SendFill
  <2> QED
    BY <1>1, <1>2, <1>3, <1>8, <2>1, Filled DEF rest
<1>9. CASE SendPut(t)
  <2>1. At(t, "send", "put") /\ UNCHANGED <<vq1, mbox, buf0, buf1, lin, isr, notified, rest>>
    BY <1>9 DEF SendPut
  <2>2. Stay \/ Goto(t, "kick", Top(t).desc)
    BY <1>9 DEF SendPut
  <2>3. [Top(t) EXCEPT !.pc = "kick", !.desc = Top(t).desc] \in Frame
    BY <1>3, <2>1, FrameFacts DEF At
  <2>4. stack' \in Stacks /\ (\A u \in Tasks \ {t} : stack'[u] = stack[u]) /\ base' = base
    BY <1>1, <1>2, <1>5, <2>2, <2>3, Gone
  <2> QED
    BY <1>1, <1>2, <2>1, <2>4 DEF rest
<1>10. CASE SendKick(t)
  <2>1. UNCHANGED <<buf0, buf1, lin, isr, notified, have_linux_ept, active>>
    BY <1>10 DEF SendKick
  <2>2. /\ Stay \/ Pop(t)
        /\ claimed' = claimed \/ claimed' = claimed \union {Top(t).msg}
        /\ kick_failed' = kick_failed \/ kick_failed' = TRUE \/ kick_failed' = FALSE
    BY <1>10, Zenon DEF SendKick
  <2>3. claimed' \subseteq Message
    BY <1>1, <1>3, <2>2
  <2>4. kick_failed' \in BOOLEAN /\ have_linux_ept' \in BOOLEAN
    BY <1>1, <2>1, <2>2
  <2> QED
    BY <1>2, <1>5, <1>6, <2>1, <2>2, <2>3, <2>4
<1>11. CASE Vq1Take(t)
  <2>1. At(t, "vq1", "take") /\ UNCHANGED <<vq0, mbox, buf0, buf1, lin, isr, notified, rest>>
    BY <1>11 DEF Vq1Take
  <2>2. Stay \/ Goto(t, "recv", vq1_call[t].desc) \/ Pop(t)
    BY <1>11 DEF Vq1Take
  <2>3. [Top(t) EXCEPT !.pc = "recv", !.desc = vq1_call[t].desc] \in Frame
    BY <1>3, <1>4, <2>1, FrameFacts DEF At
  <2>4. /\ stack' \in Stacks /\ \A u \in Tasks \ {t} : stack'[u] = stack[u]
        /\ \/ base' = base
           \/ /\ stack'[t] = <<>>
              /\ base' = [base EXCEPT ![t] = IF t = Rpmsg THEN "take" ELSE "delay"]
    BY <1>1, <1>2, <1>5, <1>6, <2>2, <2>3, Gone
  <2> QED
    BY <1>1, <1>2, <2>1, <2>4 DEF rest
<1>12. CASE Vq1Recv(t)
  <2>1. /\ At(t, "vq1", "recv")
        /\ UNCHANGED <<buf0, buf1, lin, isr, notified, active, claimed, kick_failed>>
        /\ have_linux_ept' \in BOOLEAN
    BY <1>1, <1>12, Zenon DEF Vq1Recv
  <2>2. Goto(t, "put", Top(t).desc) \/ Push(t, "put", SendFrame(Blank))
    BY <1>12 DEF Vq1Recv
  <2>3. /\ [Top(t) EXCEPT !.pc = "put", !.desc = Top(t).desc] \in Frame
        /\ [Top(t) EXCEPT !.pc = "put"] \in Frame
    BY <1>3, <2>1, FrameFacts DEF At
  <2>4. SendFrame(Blank) \in Frame
    BY NewFrames DEF Message
  <2>5. stack' \in Stacks /\ (\A u \in Tasks \ {t} : stack'[u] = stack[u]) /\ base' = base
    BY <1>1, <1>2, <2>2, <2>3, <2>4, Gone, Pushed
  <2> QED
    BY <1>1, <1>2, <2>1, <2>5
<1>13. CASE Vq1Put(t)
  <2>1. At(t, "vq1", "put") /\ UNCHANGED <<vq0, mbox, buf0, buf1, lin, isr, notified, rest>>
    BY <1>13 DEF Vq1Put
  <2>2. Stay \/ Goto(t, "kick", Top(t).desc)
    BY <1>13 DEF Vq1Put
  <2>3. [Top(t) EXCEPT !.pc = "kick", !.desc = Top(t).desc] \in Frame
    BY <1>3, <2>1, FrameFacts DEF At
  <2>4. stack' \in Stacks /\ (\A u \in Tasks \ {t} : stack'[u] = stack[u]) /\ base' = base
    BY <1>1, <1>2, <1>5, <2>2, <2>3, Gone
  <2> QED
    BY <1>1, <1>2, <2>1, <2>4 DEF rest
<1>14. CASE Vq1Kick(t)
  <2>1. At(t, "vq1", "kick")
        /\ UNCHANGED <<buf0, buf1, lin, isr, notified, have_linux_ept, active, claimed>>
    BY <1>14 DEF Vq1Kick
  <2>2. /\ Stay \/ Goto(t, "take", 0) \/ Pop(t)
        /\ kick_failed' = kick_failed \/ kick_failed' = TRUE \/ kick_failed' = FALSE
    BY <1>14, Zenon DEF Vq1Kick
  <2>3. [Top(t) EXCEPT !.pc = "take", !.desc = 0] \in Frame
    BY <1>3, <1>4, <2>1, FrameFacts DEF At
  <2>4. /\ stack' \in Stacks /\ \A u \in Tasks \ {t} : stack'[u] = stack[u]
        /\ \/ base' = base
           \/ /\ stack'[t] = <<>>
              /\ base' = [base EXCEPT ![t] = IF t = Rpmsg THEN "take" ELSE "delay"]
    BY <1>1, <1>2, <1>5, <1>6, <2>2, <2>3, Gone
  <2> QED
    BY <1>1, <1>2, <2>1, <2>2, <2>4
<1> QED
  BY <1>7, <1>8, <1>9, <1>10, <1>11, <1>12, <1>13, <1>14 DEF Step

\* TypeOK without the queues and the mailbox.
LinkFlags == {ringing, notified, have_linux_ept, kick_failed} \subseteq BOOLEAN

LinkData ==
    /\ buf0 \in [Desc -> Message] /\ buf1 \in [Desc -> Message]
    /\ sent \in 0 .. NMsgs /\ active \in 0 .. NActive
    /\ received \in Seq(Message) /\ claimed \subseteq Message
    /\ isr \in {"idle", "notify"}
    /\ base[Rpmsg] \in {"take", "blocked", "poll"}
    /\ base[T1] \in {"delay", "check", "send"}
    /\ stack \in Stacks
    /\ base \in [Tasks -> BasePCs]
    /\ base[T1] = "check" => active < NActive

LEMMA LinkTypesNext == ASSUME LinkTypes, [Next]_vars PROVE LinkTypes'
<1>1. VQ0!TypeOK' /\ VQ1!TypeOK' /\ MB!TypeOK'
  BY QueueTypes
<1>2. /\ buf0 \in [Desc -> Message] /\ buf1 \in [Desc -> Message]
      /\ sent \in 0 .. NMsgs /\ active \in 0 .. NActive
      /\ ringing \in BOOLEAN /\ notified \in BOOLEAN
      /\ have_linux_ept \in BOOLEAN /\ kick_failed \in BOOLEAN
      /\ received \in Seq(Message) /\ claimed \subseteq Message
      /\ isr \in {"idle", "notify"}
      /\ base[Rpmsg] \in {"take", "blocked", "poll"}
      /\ base[T1] \in {"delay", "check", "send"}
      /\ stack \in [Tasks -> Seq(Frame)]
      /\ base \in [Tasks -> BasePCs]
      /\ base[T1] = "check" => active < NActive
      /\ VQ0!TypeOK /\ VQ1!TypeOK
  BY DEF LinkTypes, TypeOK
<1>3. T1 \in Tasks /\ Rpmsg \in Tasks /\ T1 # Rpmsg /\ Tasks = {T1, Rpmsg}
  BY DEF Tasks, T1, Rpmsg
<1>0. LinkFlags /\ LinkData
  BY <1>2 DEF LinkFlags, LinkData, Stacks
<1> SUFFICES LinkFlags' /\ LinkData'
  BY <1>1 DEF LinkTypes, TypeOK, LinkFlags, LinkData, Stacks
<1>4. CASE LinuxSend
  <2>1. /\ sent < NMsgs /\ sent' = sent + 1 /\ ringing' = TRUE
        /\ \E d \in vq1_free : buf1' = [buf1 EXCEPT ![d] = FromLinux(sent + 1)]
        /\ UNCHANGED <<buf0, received, wake, stack, rest>>
    BY <1>4 DEF LinuxSend
  <2>2. sent + 1 \in 1 .. NMsgs
    BY <1>2, <2>1, LinkAssumption
  <2>3. FromLinux(sent + 1) \in Message
    BY <2>2 DEF Message
  <2>4. buf1' \in [Desc -> Message] /\ sent' \in 0 .. NMsgs
    <3>1. vq1_free \subseteq Desc
      BY <1>2, DescIs DEF VQ1!TypeOK
    <3> QED
      BY <1>2, <2>1, <2>2, <2>3, <3>1
  <2>8. LinkFlags'
    BY <1>0, <2>1, <2>4 DEF LinkFlags, wake, rest
  <2>9. LinkData'
    BY <1>0, <2>1, <2>4 DEF LinkData, wake, rest
  <2> QED
    BY <2>8, <2>9
<1>5. CASE LinuxReceive
  <2>1. /\ \/ received' = received
           \/ received' = Append(received, buf0[vq0_used_ring[VQ0!Slot(vq0_last_used)].id])
        /\ UNCHANGED <<buf0, buf1, sent, ringing, wake, stack, rest>>
    BY <1>5 DEF LinuxReceive
  <2>2. VQ0!Slot(vq0_last_used) \in VQ0!Slots
    BY <1>2, RingAssumption, SMTT(20) DEF VQ0!TypeOK, VQ0!Slot, VQ0!Slots, VQ0!Idx
  <2>3. vq0_used_ring[VQ0!Slot(vq0_last_used)].id \in Desc
    BY <1>2, <2>2, DescIs DEF VQ0!TypeOK, VQ0!Elem
  <2>4. received' \in Seq(Message)
    <3>1. received \in Seq(Message) /\ buf0[vq0_used_ring[VQ0!Slot(vq0_last_used)].id] \in Message
      BY <1>2, <2>3
    <3> QED
      BY <2>1, <3>1
  <2>8. LinkFlags'
    BY <1>0, <2>1, <2>4 DEF LinkFlags, wake, rest
  <2>9. LinkData'
    BY <1>0, <2>1, <2>4 DEF LinkData, wake, rest
  <2> QED
    BY <2>8, <2>9
<1>6. CASE LinuxRing
  <2>8. LinkFlags'
    BY <1>0, <1>6 DEF LinkFlags, LinuxRing, wake, rest
  <2>9. LinkData'
    BY <1>0, <1>6 DEF LinkData, LinuxRing, wake, rest
  <2> QED
    BY <2>8, <2>9
<1>7. CASE LinuxTxPoll \/ LinuxReclaimVq1 \/ LinuxIrqRead \/ LinuxRefill \/ LinuxIrqDone
           \/ LinuxIrqClear
  <2>1. UNCHANGED <<buf0, buf1, lin, wake, stack, rest>>
    BY <1>7 DEF LinuxTxPoll, LinuxReclaimVq1, LinuxIrqRead, LinuxRefill, LinuxIrqDone,
                LinuxIrqClear
  <2>8. LinkFlags'
    BY <1>0, <2>1 DEF LinkFlags, lin, wake, rest
  <2>9. LinkData'
    BY <1>0, <2>1 DEF LinkData, lin, wake, rest
  <2> QED
    BY <2>8, <2>9
<1>8. CASE IsrClear \/ IsrNotify
  <2>8. LinkFlags'
    BY <1>0, <1>8 DEF LinkFlags, IsrClear, IsrNotify, lin, rest
  <2>9. LinkData'
    BY <1>0, <1>8 DEF LinkData, IsrClear, IsrNotify, lin, rest
  <2> QED
    BY <2>8, <2>9
<1>9. CASE NotifyTake
  <2>1. /\ \/ /\ base' = [base EXCEPT ![Rpmsg] = "poll"]
              /\ stack' = [stack EXCEPT ![Rpmsg] = <<Vq1Frame>>]
              /\ notified' = FALSE
           \/ /\ base' = [base EXCEPT ![Rpmsg] = "blocked"]
              /\ UNCHANGED <<notified, stack>>
        /\ UNCHANGED <<buf0, buf1, lin, isr, rest>>
    BY <1>9 DEF NotifyTake
  <2>2. <<Vq1Frame>> \in Seq(Frame)
    BY NewFrames
  <2>3. stack' \in Stacks
    BY <1>2, <1>3, <2>1, <2>2 DEF Stacks
  <2>4. /\ base' \in [Tasks -> BasePCs] /\ base'[Rpmsg] \in {"take", "blocked", "poll"}
        /\ base'[T1] = base[T1]
    BY <1>2, <1>3, <2>1 DEF BasePCs
  <2>8. LinkFlags'
    BY <1>0, <2>1, <2>3, <2>4 DEF LinkFlags, lin, rest
  <2>9. LinkData'
    BY <1>0, <2>1, <2>3, <2>4 DEF LinkData, lin, rest
  <2> QED
    BY <2>8, <2>9
<1>10. CASE T1Wake
  <2>1. /\ base' = [base EXCEPT ![T1] = "check"] /\ active < NActive
        /\ UNCHANGED <<buf0, buf1, lin, isr, notified, stack, rest>>
    BY <1>10 DEF T1Wake
  <2>2. base' \in [Tasks -> BasePCs] /\ base'[Rpmsg] = base[Rpmsg] /\ base'[T1] = "check"
    BY <1>2, <1>3, <2>1 DEF BasePCs
  <2>8. LinkFlags'
    BY <1>0, <2>1, <2>2 DEF LinkFlags, lin, rest
  <2>9. LinkData'
    BY <1>0, <2>1, <2>2 DEF LinkData, lin, rest
  <2> QED
    BY <2>8, <2>9
<1>11. CASE T1Check
  <2>1. /\ base[T1] = "check"
        /\ \/ /\ base' = [base EXCEPT ![T1] = "send"]
              /\ active' = active + 1
              /\ stack' = [stack EXCEPT ![T1] = <<SendFrame(FromT1(active + 1))>>]
           \/ /\ base' = [base EXCEPT ![T1] = "delay"]
              /\ UNCHANGED <<active, stack>>
        /\ UNCHANGED <<buf0, buf1, lin, isr, notified, have_linux_ept, claimed, kick_failed>>
    BY <1>11 DEF T1Check
  <2>2. active + 1 \in 1 .. NActive
    BY <1>2, <2>1, LinkAssumption
  <2>3. FromT1(active + 1) \in Message
    BY <2>2 DEF Message
  <2>4. <<SendFrame(FromT1(active + 1))>> \in Seq(Frame)
    BY <2>3, NewFrames
  <2>5. stack' \in Stacks
    BY <1>2, <1>3, <2>1, <2>4 DEF Stacks
  <2>6. /\ base' \in [Tasks -> BasePCs] /\ base'[Rpmsg] = base[Rpmsg]
        /\ base'[T1] \in {"send", "delay"}
    BY <1>2, <1>3, <2>1 DEF BasePCs
  <2>7. active' \in 0 .. NActive
    BY <1>2, <2>1, <2>2
  <2>8. LinkFlags'
    BY <1>0, <2>1, <2>5, <2>6, <2>7 DEF LinkFlags, lin
  <2>9. LinkData'
    BY <1>0, <2>1, <2>5, <2>6, <2>7 DEF LinkData, lin
  <2> QED
    BY <2>8, <2>9
<1>12. ASSUME NEW t \in Tasks, Step(t) PROVE LinkFlags' /\ LinkData'
  <2>1. /\ stack' \in Stacks
        /\ \/ base' = base
           \/ base' = [base EXCEPT ![t] = IF t = Rpmsg THEN "take" ELSE "delay"]
        /\ \/ buf0' = buf0
           \/ \E d \in Desc, m \in Message : buf0' = [buf0 EXCEPT ![d] = m]
        /\ UNCHANGED <<buf1, lin, isr, notified, active>>
        /\ have_linux_ept' \in BOOLEAN /\ kick_failed' \in BOOLEAN
        /\ claimed' \subseteq Message
    BY <1>12, StepTypes
  <2>2. buf0' \in [Desc -> Message]
    BY <1>2, <2>1
  <2>3. /\ base' \in [Tasks -> BasePCs] /\ base'[Rpmsg] \in {"take", "blocked", "poll"}
        /\ base'[T1] = base[T1] \/ base'[T1] = "delay"
    BY <1>2, <1>3, <2>1 DEF BasePCs
  <2>8. LinkFlags'
    BY <1>0, <2>1, <2>2, <2>3 DEF LinkFlags, lin
  <2>9. LinkData'
    BY <1>0, <2>1, <2>2, <2>3 DEF LinkData, lin
  <2> QED
    BY <2>8, <2>9
<1>13. CASE UNCHANGED vars
  <2>8. LinkFlags'
    BY <1>0, <1>13 DEF LinkFlags, vars, lin, wake, rest
  <2>9. LinkData'
    BY <1>0, <1>13 DEF LinkData, vars, lin, wake, rest
  <2> QED
    BY <2>8, <2>9
<1> QED
  BY <1>4, <1>5, <1>6, <1>7, <1>8, <1>9, <1>10, <1>11, <1>12, <1>13
     DEF Next, Linux, LinuxIrq, Core1

LEMMA LinkTypesInit == ASSUME Init PROVE LinkTypes
<1>1. /\ 0 \in Desc /\ 0 \in VQ1!Idx /\ 0 \in VQ0!Idx /\ 1 \in VQ0!Idx
      /\ (NUM + 1) % IDXMOD \in VQ0!Idx /\ 1 \in Lens
      /\ VQ0!Slots = Desc /\ VQ1!Slots = Desc /\ VQ0!Desc = Desc /\ VQ1!Desc = Desc
  BY RingAssumption, DescIs, SMTT(20) DEF VQ0!Idx, VQ1!Idx, Lens, VQ0!Slots, VQ1!Slots
<1>2. VQ0!TypeOK
  BY <1>1 DEF Init, VQ0!TypeOK, VQ0!Elem, VQ0!PCs
<1>3. VQ1!TypeOK
  <2>1. /\ vq1_used_ring = [s \in VQ1!Slots |-> [id |-> 0, len |-> 1]]
        /\ vq1_call = [t \in Tasks |-> [pc |-> "out", desc |-> 0, idx |-> 0, len |-> 1]]
        /\ vq1_avail_idx = 0 /\ vq1_avail_ring = [s \in VQ1!Slots |-> 0] /\ vq1_used_idx = 0
        /\ vq1_last_avail = 0 /\ vq1_held = [t \in Tasks |-> {}] /\ vq1_free = VQ1!Desc
        /\ vq1_last_used = 0 /\ vq1_broken = FALSE
    BY DEF Init, VQ1!Init, Lens
  <2> QED
    BY <1>1, <2>1 DEF VQ1!TypeOK, VQ1!Elem, VQ1!PCs
<1>4. MB!TypeOK
  <2>1. 0 \in 0 .. TxQueueLen
    BY LinkAssumption
  <2> QED
    BY <2>1 DEF Init, MB!Init, MB!TypeOK, MB!IrqPCs, MB!KickPCs
<1>5. Blank \in Message
  BY DEF Message
<1>6. base \in [Tasks -> BasePCs] /\ base[Rpmsg] = "take" /\ base[T1] = "delay"
  BY DEF Init, Tasks, T1, Rpmsg, BasePCs
<1>7. stack \in [Tasks -> Seq(Frame)] /\ received \in Seq(Message)
  BY DEF Init
<1> QED
  <2>1. 0 \in 0 .. NMsgs /\ 0 \in 0 .. NActive
    BY LinkAssumption
  <2>2. /\ buf0 \in [Desc -> Message] /\ buf1 \in [Desc -> Message]
        /\ sent \in 0 .. NMsgs /\ active \in 0 .. NActive /\ claimed \subseteq Message
        /\ isr \in {"idle", "notify"}
    BY <1>5, <2>1 DEF Init
  <2>3. {ringing, notified, have_linux_ept, kick_failed} \subseteq BOOLEAN
    BY DEF Init
  <2> QED
    BY <1>2, <1>3, <1>4, <1>6, <1>7, <2>2, <2>3 DEF LinkTypes, TypeOK

(* Rings, registers, buffers and stacks of calls keep their types, however *)
(* vRpmsgTask preempts vTask1 and whatever kicks time out (rpmsg_core.c).  *)
THEOREM TypeCorrect == Spec => []TypeOK
<1>1. LinkTypes => TypeOK
  BY DEF LinkTypes
<1> QED
  BY LinkTypesInit, LinkTypesNext, <1>1, PTL DEF Spec
-----------------------------------------------------------------------------
(* Buffers and stacks: what a task holds is named by its frames.           *)

\* The descriptors of the frames that are between taking and giving: those
\* of vq0 in rpmsg_send, those of vq1 in rpmsg_handle_vq1.
SendDescs(s) == {s[i].desc : i \in {j \in 1 .. Len(s) : s[j].fn = "send" /\ s[j].pc \in {"fill", "put"}}}
RecvDescs(s) == {s[i].desc : i \in {j \in 1 .. Len(s) : s[j].fn = "vq1" /\ s[j].pc \in {"recv", "put"}}}

GivingPCs == {"id", "len", "publish"}

LeakOf(t) ==
    /\ vq0_held[t] \subseteq SendDescs(stack[t])
    /\ vq1_held[t] \subseteq RecvDescs(stack[t])
    /\ vq0_call[t].pc \in GivingPCs =>
          stack[t] # <<>> /\ Top(t).fn = "send" /\ Top(t).pc = "put"
                          /\ vq0_call[t].desc = Top(t).desc
    /\ vq1_call[t].pc \in GivingPCs =>
          stack[t] # <<>> /\ Top(t).fn = "vq1" /\ Top(t).pc = "put"
                          /\ vq1_call[t].desc = Top(t).desc

\* A task in its own loop is in no call.
AtHome ==
    /\ base[Rpmsg] \in {"take", "blocked"} => stack[Rpmsg] = <<>>
    /\ base[T1] \in {"delay", "check"} => stack[T1] = <<>>

LeakInv == AtHome /\ \A t \in Tasks : LeakOf(t)

\* A change of the top frame keeps what the frames below it name.
LEMMA SendsKept ==
    ASSUME NEW s, NEW r, Len(s) \in Nat \ {0}, Len(r) \in Nat, Len(r) >= Len(s) - 1,
           \A i \in 1 .. Len(s) - 1 : r[i] = s[i]
    PROVE  /\ SendDescs(s) \subseteq SendDescs(r) \union {s[Len(s)].desc}
           /\ ~(s[Len(s)].fn = "send" /\ s[Len(s)].pc \in {"fill", "put"}) => SendDescs(s) \subseteq SendDescs(r)
           /\ Len(r) >= Len(s) /\ r[Len(s)].fn = "send" /\ r[Len(s)].pc \in {"fill", "put"} =>
                 r[Len(s)].desc \in SendDescs(r)
<1>1. \A i \in 1 .. Len(s) : i = Len(s) \/ (i \in 1 .. Len(s) - 1 /\ i \in 1 .. Len(r))
  OBVIOUS
<1>2. Len(r) >= Len(s) => Len(s) \in 1 .. Len(r)
  OBVIOUS
<1> QED
  BY <1>1, <1>2 DEF SendDescs

LEMMA RecvsKept ==
    ASSUME NEW s, NEW r, Len(s) \in Nat \ {0}, Len(r) \in Nat, Len(r) >= Len(s) - 1,
           \A i \in 1 .. Len(s) - 1 : r[i] = s[i]
    PROVE  /\ RecvDescs(s) \subseteq RecvDescs(r) \union {s[Len(s)].desc}
           /\ ~(s[Len(s)].fn = "vq1" /\ s[Len(s)].pc \in {"recv", "put"}) => RecvDescs(s) \subseteq RecvDescs(r)
           /\ Len(r) >= Len(s) /\ r[Len(s)].fn = "vq1" /\ r[Len(s)].pc \in {"recv", "put"} =>
                 r[Len(s)].desc \in RecvDescs(r)
<1>1. \A i \in 1 .. Len(s) : i = Len(s) \/ (i \in 1 .. Len(s) - 1 /\ i \in 1 .. Len(r))
  OBVIOUS
<1>2. Len(r) >= Len(s) => Len(s) \in 1 .. Len(r)
  OBVIOUS
<1> QED
  BY <1>1, <1>2 DEF RecvDescs

\* What the accesses of vq0 do to the caller's locals and to what it holds.
LEMMA Taking0 ==
    ASSUME VQ0!TypeOK, NEW t \in Tasks, GetAvail0(t)
    PROVE  /\ \A u \in Tasks \ {t} : vq0_call'[u] = vq0_call[u] /\ vq0_held'[u] = vq0_held[u]
           /\ vq0_call'[t].pc \in {"out", "ring", "load", "store"}
           /\ vq0_call[t].pc \in {"out", "ring", "load", "store"}
           /\ \/ VQ0!GetAvailStore(t) /\ vq0_held'[t] = vq0_held[t] \union {vq0_call[t].desc}
              \/ ~VQ0!GetAvailStore(t) /\ vq0_held'[t] = vq0_held[t]
<1>1. /\ vq0_call \in [Tasks -> [pc : VQ0!PCs, desc : VQ0!Desc, idx : VQ0!Idx, len : Lens]]
      /\ vq0_held \in [Tasks -> SUBSET VQ0!Desc]
  BY DEF VQ0!TypeOK
<1>2. CASE VQ0!GetAvailStore(t)
  BY <1>1, <1>2 DEF VQ0!GetAvailStore
<1>3. CASE VQ0!GetAvailCheck(t) \/ VQ0!GetAvailRing(t) \/ VQ0!GetAvailLoad(t)
  <2>1. ~VQ0!GetAvailStore(t)
    BY <1>3 DEF VQ0!GetAvailStore, VQ0!GetAvailCheck, VQ0!GetAvailRing, VQ0!GetAvailLoad
  <2> QED
    BY <1>1, <1>3, <2>1 DEF VQ0!GetAvailCheck, VQ0!GetAvailRing, VQ0!GetAvailLoad
<1>4. CASE VQ0!GetAvailEmpty(t)
  <2>1. ~VQ0!GetAvailStore(t)
    BY <1>4 DEF VQ0!GetAvailStore, VQ0!GetAvailEmpty
  <2> QED
    BY <1>1, <1>4, <2>1 DEF VQ0!GetAvailEmpty, VQ0!vars, VQ0!core1Vars
<1> QED
  BY <1>2, <1>3, <1>4 DEF GetAvail0

LEMMA Giving0 ==
    ASSUME VQ0!TypeOK, NEW t \in Tasks, NEW d \in Desc,
           \/ VQ0!PutUsedRead(t, d, 1) \/ VQ0!PutUsedId(t) \/ VQ0!PutUsedLen(t)
           \/ VQ0!PutUsedPublish(t)
    PROVE  /\ \A u \in Tasks \ {t} : vq0_call'[u] = vq0_call[u] /\ vq0_held'[u] = vq0_held[u]
           /\ \/ /\ VQ0!PutUsedPublish(t) /\ vq0_call[t].pc = "publish" /\ vq0_call'[t].pc = "out"
                 /\ vq0_held'[t] = vq0_held[t] \ {vq0_call[t].desc}
              \/ /\ ~VQ0!PutUsedPublish(t) /\ vq0_held'[t] = vq0_held[t]
                 /\ vq0_call'[t].pc \in {"id", "len", "publish"}
                 /\ \/ vq0_call[t].pc = "out" /\ vq0_call'[t].desc = d
                    \/ vq0_call[t].pc \in {"id", "len"} /\ vq0_call'[t].desc = vq0_call[t].desc
<1>1. /\ vq0_call \in [Tasks -> [pc : VQ0!PCs, desc : VQ0!Desc, idx : VQ0!Idx, len : Lens]]
      /\ vq0_held \in [Tasks -> SUBSET VQ0!Desc]
  BY DEF VQ0!TypeOK
<1>2. CASE VQ0!PutUsedPublish(t)
  BY <1>1, <1>2 DEF VQ0!PutUsedPublish
<1>3. CASE VQ0!PutUsedRead(t, d, 1)
  <2>1. ~VQ0!PutUsedPublish(t)
    BY <1>3 DEF VQ0!PutUsedRead, VQ0!PutUsedPublish
  <2> QED
    BY <1>1, <1>3, <2>1 DEF VQ0!PutUsedRead
<1>4. CASE VQ0!PutUsedId(t) \/ VQ0!PutUsedLen(t)
  <2>1. ~VQ0!PutUsedPublish(t)
    BY <1>4 DEF VQ0!PutUsedId, VQ0!PutUsedLen, VQ0!PutUsedPublish
  <2> QED
    BY <1>1, <1>4, <2>1 DEF VQ0!PutUsedId, VQ0!PutUsedLen
<1> QED
  BY <1>2, <1>3, <1>4

\* What the accesses of vq1 do to the caller's locals and to what it holds.
LEMMA Taking1 ==
    ASSUME VQ1!TypeOK, NEW t \in Tasks, GetAvail1(t)
    PROVE  /\ \A u \in Tasks \ {t} : vq1_call'[u] = vq1_call[u] /\ vq1_held'[u] = vq1_held[u]
           /\ vq1_call'[t].pc \in {"out", "ring", "load", "store"}
           /\ vq1_call[t].pc \in {"out", "ring", "load", "store"}
           /\ \/ VQ1!GetAvailStore(t) /\ vq1_held'[t] = vq1_held[t] \union {vq1_call[t].desc}
              \/ ~VQ1!GetAvailStore(t) /\ vq1_held'[t] = vq1_held[t]
<1>1. /\ vq1_call \in [Tasks -> [pc : VQ1!PCs, desc : VQ1!Desc, idx : VQ1!Idx, len : Lens]]
      /\ vq1_held \in [Tasks -> SUBSET VQ1!Desc]
  BY DEF VQ1!TypeOK
<1>2. CASE VQ1!GetAvailStore(t)
  BY <1>1, <1>2 DEF VQ1!GetAvailStore
<1>3. CASE VQ1!GetAvailCheck(t) \/ VQ1!GetAvailRing(t) \/ VQ1!GetAvailLoad(t)
  <2>1. ~VQ1!GetAvailStore(t)
    BY <1>3 DEF VQ1!GetAvailStore, VQ1!GetAvailCheck, VQ1!GetAvailRing, VQ1!GetAvailLoad
  <2> QED
    BY <1>1, <1>3, <2>1 DEF VQ1!GetAvailCheck, VQ1!GetAvailRing, VQ1!GetAvailLoad
<1>4. CASE VQ1!GetAvailEmpty(t)
  <2>1. ~VQ1!GetAvailStore(t)
    BY <1>4 DEF VQ1!GetAvailStore, VQ1!GetAvailEmpty
  <2> QED
    BY <1>1, <1>4, <2>1 DEF VQ1!GetAvailEmpty, VQ1!vars, VQ1!core1Vars
<1> QED
  BY <1>2, <1>3, <1>4 DEF GetAvail1

LEMMA Giving1 ==
    ASSUME VQ1!TypeOK, NEW t \in Tasks, NEW d \in Desc,
           \/ VQ1!PutUsedRead(t, d, 1) \/ VQ1!PutUsedId(t) \/ VQ1!PutUsedLen(t)
           \/ VQ1!PutUsedPublish(t)
    PROVE  /\ \A u \in Tasks \ {t} : vq1_call'[u] = vq1_call[u] /\ vq1_held'[u] = vq1_held[u]
           /\ \/ /\ VQ1!PutUsedPublish(t) /\ vq1_call[t].pc = "publish" /\ vq1_call'[t].pc = "out"
                 /\ vq1_held'[t] = vq1_held[t] \ {vq1_call[t].desc}
              \/ /\ ~VQ1!PutUsedPublish(t) /\ vq1_held'[t] = vq1_held[t]
                 /\ vq1_call'[t].pc \in {"id", "len", "publish"}
                 /\ \/ vq1_call[t].pc = "out" /\ vq1_call'[t].desc = d
                    \/ vq1_call[t].pc \in {"id", "len"} /\ vq1_call'[t].desc = vq1_call[t].desc
<1>1. /\ vq1_call \in [Tasks -> [pc : VQ1!PCs, desc : VQ1!Desc, idx : VQ1!Idx, len : Lens]]
      /\ vq1_held \in [Tasks -> SUBSET VQ1!Desc]
  BY DEF VQ1!TypeOK
<1>2. CASE VQ1!PutUsedPublish(t)
  BY <1>1, <1>2 DEF VQ1!PutUsedPublish
<1>3. CASE VQ1!PutUsedRead(t, d, 1)
  <2>1. ~VQ1!PutUsedPublish(t)
    BY <1>3 DEF VQ1!PutUsedRead, VQ1!PutUsedPublish
  <2> QED
    BY <1>1, <1>3, <2>1 DEF VQ1!PutUsedRead
<1>4. CASE VQ1!PutUsedId(t) \/ VQ1!PutUsedLen(t)
  <2>1. ~VQ1!PutUsedPublish(t)
    BY <1>4 DEF VQ1!PutUsedId, VQ1!PutUsedLen, VQ1!PutUsedPublish
  <2> QED
    BY <1>1, <1>4, <2>1 DEF VQ1!PutUsedId, VQ1!PutUsedLen
<1> QED
  BY <1>2, <1>3, <1>4

\* A step of one task's frames leaves the others' as they were.
LEMMA LeakOther ==
    ASSUME NEW u \in Tasks, LeakOf(u), stack'[u] = stack[u],
           vq0_call'[u] = vq0_call[u], vq0_held'[u] = vq0_held[u],
           vq1_call'[u] = vq1_call[u], vq1_held'[u] = vq1_held[u]
    PROVE  LeakOf(u)'
  BY DEF LeakOf, SendDescs, RecvDescs, Top, Depth

\* How a step may change what is held, and where the top frame then has to be.
Holding0(f) == f.fn = "send" /\ f.pc \in {"fill", "put"}
Holding1(f) == f.fn = "vq1" /\ f.pc \in {"recv", "put"}

LEMMA LeakStep ==
    ASSUME NEW t \in Tasks, LeakOf(t), Depth(t) \in Nat \ {0},
           Len(stack'[t]) \in Nat, Len(stack'[t]) >= Depth(t) - 1,
           \A i \in 1 .. Depth(t) - 1 : stack'[t][i] = stack[t][i],
           vq0_call'[t].pc \notin GivingPCs, vq1_call'[t].pc \notin GivingPCs,
           \/ vq0_held'[t] = vq0_held[t] /\ ~Holding0(Top(t))
           \/ vq0_held'[t] = vq0_held[t] \ {Top(t).desc}
           \/ /\ Len(stack'[t]) >= Depth(t) /\ Holding0(stack'[t][Depth(t)])
              /\ vq0_held'[t] \subseteq vq0_held[t] \union {stack'[t][Depth(t)].desc}
              /\ Holding0(Top(t)) => Top(t).desc = stack'[t][Depth(t)].desc,
           \/ vq1_held'[t] = vq1_held[t] /\ ~Holding1(Top(t))
           \/ vq1_held'[t] = vq1_held[t] \ {Top(t).desc}
           \/ /\ Len(stack'[t]) >= Depth(t) /\ Holding1(stack'[t][Depth(t)])
              /\ vq1_held'[t] \subseteq vq1_held[t] \union {stack'[t][Depth(t)].desc}
              /\ Holding1(Top(t)) => Top(t).desc = stack'[t][Depth(t)].desc
    PROVE  LeakOf(t)'
<1> DEFINE s == stack[t]
           r == stack'[t]
<1>1. Len(s) = Depth(t) /\ s[Len(s)] = Top(t) /\ Len(s) \in Nat \ {0}
  BY DEF Depth, Top
<1>2. /\ Len(r) \in Nat /\ Len(r) >= Len(s) - 1 /\ \A i \in 1 .. Len(s) - 1 : r[i] = s[i]
  BY <1>1
<1>3. /\ SendDescs(s) \subseteq SendDescs(r) \union {Top(t).desc}
      /\ ~Holding0(Top(t)) => SendDescs(s) \subseteq SendDescs(r)
      /\ Len(r) >= Depth(t) /\ Holding0(r[Depth(t)]) => r[Depth(t)].desc \in SendDescs(r)
  <2> HIDE DEF s, r
  <2>1. /\ SendDescs(s) \subseteq SendDescs(r) \union {s[Len(s)].desc}
        /\ ~Holding0(s[Len(s)]) => SendDescs(s) \subseteq SendDescs(r)
        /\ Len(r) >= Len(s) /\ Holding0(r[Len(s)]) => r[Len(s)].desc \in SendDescs(r)
    <3>1. Len(s) \in Nat \ {0} /\ Len(r) \in Nat /\ Len(r) >= Len(s) - 1
          /\ \A i \in 1 .. Len(s) - 1 : r[i] = s[i]
      BY <1>1, <1>2
    <3> QED
      BY <3>1, SendsKept DEF Holding0
  <2> QED
    BY <1>1, <2>1
<1>4. /\ RecvDescs(s) \subseteq RecvDescs(r) \union {Top(t).desc}
      /\ ~Holding1(Top(t)) => RecvDescs(s) \subseteq RecvDescs(r)
      /\ Len(r) >= Depth(t) /\ Holding1(r[Depth(t)]) => r[Depth(t)].desc \in RecvDescs(r)
  <2> HIDE DEF s, r
  <2>1. /\ RecvDescs(s) \subseteq RecvDescs(r) \union {s[Len(s)].desc}
        /\ ~Holding1(s[Len(s)]) => RecvDescs(s) \subseteq RecvDescs(r)
        /\ Len(r) >= Len(s) /\ Holding1(r[Len(s)]) => r[Len(s)].desc \in RecvDescs(r)
    <3>1. Len(s) \in Nat \ {0} /\ Len(r) \in Nat /\ Len(r) >= Len(s) - 1
          /\ \A i \in 1 .. Len(s) - 1 : r[i] = s[i]
      BY <1>1, <1>2
    <3> QED
      BY <3>1, RecvsKept DEF Holding1
  <2> QED
    BY <1>1, <2>1
<1>5. vq0_held[t] \subseteq SendDescs(s) /\ vq1_held[t] \subseteq RecvDescs(s)
  BY DEF LeakOf
<1>6. vq0_held'[t] \subseteq SendDescs(r) /\ vq1_held'[t] \subseteq RecvDescs(r)
  BY <1>3, <1>4, <1>5
<1> QED
  BY <1>6 DEF LeakOf

LEMMA StepLeak ==
    ASSUME LinkTypes, LeakInv, NEW t \in Tasks, Step(t)
    PROVE  \A u \in Tasks : LeakOf(u)'
<1>1. VQ0!TypeOK /\ VQ1!TypeOK /\ stack \in Stacks /\ LeakOf(t)
  BY DEF LinkTypes, TypeOK, Stacks, LeakInv
<1>2. stack[t] # <<>> /\ stack' \in Stacks /\ \A u \in Tasks \ {t} : stack'[u] = stack[u]
  BY StepTypes
<1>3. Top(t) \in Frame /\ Depth(t) \in Nat \ {0} /\ Depth(t) = Len(stack[t]) /\ Top(t).desc \in Desc
  BY <1>1, <1>2, TopIs, FrameFacts DEF Depth
<1>4. vq0_call[t].desc \in Desc /\ vq1_call[t].desc \in Desc /\ 0 \in Desc
  BY <1>1, DescIs, RingAssumption DEF VQ0!TypeOK, VQ1!TypeOK
<1>5. ASSUME \A u \in Tasks \ {t} : /\ vq0_call'[u] = vq0_call[u] /\ vq0_held'[u] = vq0_held[u]
                                    /\ vq1_call'[u] = vq1_call[u] /\ vq1_held'[u] = vq1_held[u],
             LeakOf(t)'
      PROVE  \A u \in Tasks : LeakOf(u)'
  BY <1>2, <1>5, LeakOther DEF LeakInv
\* Where the top frame is not giving, the accesses of that queue are not either.
<1>6. /\ ~(Top(t).fn = "send" /\ Top(t).pc = "put") => vq0_call[t].pc \notin GivingPCs
      /\ ~(Top(t).fn = "vq1" /\ Top(t).pc = "put") => vq1_call[t].pc \notin GivingPCs
  BY <1>1 DEF LeakOf
<1>7. CASE SendTake(t)
  <2>1. Top(t).fn = "send" /\ Top(t).pc = "take" /\ UNCHANGED vq1 /\ GetAvail0(t)
    BY <1>7 DEF SendTake, At, GetAvail0
  <2>2. /\ \A u \in Tasks \ {t} : vq0_call'[u] = vq0_call[u] /\ vq0_held'[u] = vq0_held[u]
        /\ vq0_call'[t].pc \notin GivingPCs
        /\ UNCHANGED <<vq1_call, vq1_held>> /\ vq1_call[t].pc \notin GivingPCs
    BY <1>1, <1>6, <2>1, Taking0 DEF vq1, GivingPCs
  <2>3. ~Holding0(Top(t)) /\ ~Holding1(Top(t))
    BY <2>1 DEF Holding0, Holding1
  <2>4. CASE VQ0!GetAvailStore(t)
    <3>1. Goto(t, "fill", vq0_call[t].desc) /\ vq0_held'[t] = vq0_held[t] \union {vq0_call[t].desc}
      BY <1>1, <1>7, <2>1, <2>4, Taking0
         DEF SendTake, VQ0!GetAvailStore, VQ0!GetAvailCheck, VQ0!GetAvailRing,
             VQ0!GetAvailLoad, VQ0!GetAvailEmpty
    <3>2. [Top(t) EXCEPT !.pc = "fill", !.desc = vq0_call[t].desc] \in Frame
      BY <1>3, <1>4, <2>1, FrameFacts
    <3>3. /\ Len(stack'[t]) = Depth(t) /\ \A i \in 1 .. Depth(t) - 1 : stack'[t][i] = stack[t][i]
          /\ stack'[t][Depth(t)].fn = Top(t).fn
          /\ stack'[t][Depth(t)].pc = "fill" /\ stack'[t][Depth(t)].desc = vq0_call[t].desc
      <4>1. /\ Len(stack'[t]) = Depth(t) /\ \A i \in 1 .. Depth(t) - 1 : stack'[t][i] = stack[t][i]
            /\ TopBecomes(t, "fill", vq0_call[t].desc)
        BY <1>1, <1>2, <3>1, <3>2, Gone
      <4> QED
        BY <4>1 DEF TopBecomes
    <3>4. Holding0(stack'[t][Depth(t)]) /\ stack'[t][Depth(t)].desc = vq0_call[t].desc
      BY <1>3, <2>1, <3>3, TopFields DEF Holding0
    <3>5. LeakOf(t)'
      BY <1>1, <1>3, <2>2, <2>3, <3>1, <3>3, <3>4, LeakStep
    <3> QED
      BY <1>5, <2>2, <3>5
  <2>5. CASE ~VQ0!GetAvailStore(t)
    <3>1. (Stay \/ Push(t, "take", Vq1Frame)) /\ vq0_held'[t] = vq0_held[t]
      BY <1>1, <1>7, <2>1, <2>5, Taking0 DEF SendTake
    <3>2. [Top(t) EXCEPT !.pc = "take"] \in Frame
      BY <1>3, <2>1, FrameFacts
    <3>3. /\ Len(stack'[t]) \in Nat /\ Len(stack'[t]) >= Depth(t) - 1
          /\ \A i \in 1 .. Depth(t) - 1 : stack'[t][i] = stack[t][i]
      <4>1. CASE Stay
        BY <1>3, <4>1 DEF Stay
      <4>2. CASE Push(t, "take", Vq1Frame)
        BY <1>1, <1>2, <1>3, <3>2, <4>2, Pushed, NewFrames
      <4> QED
        BY <3>1, <4>1, <4>2
    <3>4. LeakOf(t)'
      BY <1>1, <1>3, <2>2, <2>3, <3>1, <3>3, LeakStep
    <3> QED
      BY <1>5, <2>2, <3>4
  <2> QED
    BY <2>4, <2>5
<1>8. CASE SendFill(t)
  <2>1. Top(t).fn = "send" /\ Top(t).pc = "fill" /\ UNCHANGED vq0 /\ UNCHANGED vq1
    BY <1>8 DEF SendFill, At
  <2>2. /\ UNCHANGED <<vq0_call, vq0_held, vq1_call, vq1_held>>
        /\ vq0_call[t].pc \notin GivingPCs /\ vq1_call[t].pc \notin GivingPCs
    BY <1>6, <2>1 DEF vq0, vq1
  <2>3. /\ Len(stack'[t]) = Depth(t) /\ \A i \in 1 .. Depth(t) - 1 : stack'[t][i] = stack[t][i]
        /\ stack'[t][Depth(t)] = [Top(t) EXCEPT !.pc = "put", !.msg = Payload(t)]
    BY <1>8, Filled
  <2>4. /\ Holding0(stack'[t][Depth(t)]) /\ stack'[t][Depth(t)].desc = Top(t).desc
        /\ ~Holding1(Top(t))
    BY <1>3, <2>1, <2>3, TopFields DEF Holding0, Holding1
  <2>5. /\ Len(stack'[t]) \in Nat /\ Len(stack'[t]) >= Depth(t) /\ Len(stack'[t]) >= Depth(t) - 1
        /\ vq0_call'[t].pc \notin GivingPCs /\ vq1_call'[t].pc \notin GivingPCs
        /\ vq0_held'[t] \subseteq vq0_held[t] \union {stack'[t][Depth(t)].desc}
        /\ vq1_held'[t] = vq1_held[t]
    BY <1>3, <2>2, <2>3
  <2>6. LeakOf(t)'
    BY <1>1, <1>3, <2>3, <2>4, <2>5, LeakStep
  <2> QED
    BY <1>5, <2>2, <2>6
<1>9. CASE SendPut(t)
  <2>1. Top(t).fn = "send" /\ Top(t).pc = "put" /\ UNCHANGED vq1
        /\ \/ VQ0!PutUsedRead(t, Top(t).desc, 1) \/ VQ0!PutUsedId(t) \/ VQ0!PutUsedLen(t)
           \/ VQ0!PutUsedPublish(t)
    BY <1>9 DEF SendPut, At
  <2>2. /\ \A u \in Tasks \ {t} : vq0_call'[u] = vq0_call[u] /\ vq0_held'[u] = vq0_held[u]
        /\ UNCHANGED <<vq1_call, vq1_held>> /\ vq1_call[t].pc \notin GivingPCs
    BY <1>1, <1>3, <1>6, <2>1, Giving0 DEF vq1
  <2>3. CASE VQ0!PutUsedPublish(t)
    <3>1. /\ Goto(t, "kick", Top(t).desc)
          /\ vq0_call[t].pc \in GivingPCs /\ vq0_call'[t].pc \notin GivingPCs
          /\ vq0_held'[t] = vq0_held[t] \ {vq0_call[t].desc}
      BY <1>1, <1>3, <1>9, <2>1, <2>3, Giving0
         DEF SendPut, GivingPCs, VQ0!PutUsedPublish, VQ0!PutUsedRead, VQ0!PutUsedId,
             VQ0!PutUsedLen
    <3>2. vq0_call[t].desc = Top(t).desc /\ ~Holding1(Top(t))
      BY <1>1, <2>1, <3>1 DEF LeakOf, Holding1
    <3>3. [Top(t) EXCEPT !.pc = "kick", !.desc = Top(t).desc] \in Frame
      BY <1>3, <2>1, FrameFacts
    <3>4. /\ Len(stack'[t]) = Depth(t) /\ \A i \in 1 .. Depth(t) - 1 : stack'[t][i] = stack[t][i]
      BY <1>1, <1>2, <3>1, <3>3, Gone
    <3>5. /\ Len(stack'[t]) \in Nat /\ Len(stack'[t]) >= Depth(t) - 1
          /\ vq1_call'[t].pc \notin GivingPCs
          /\ vq0_held'[t] = vq0_held[t] \ {Top(t).desc} /\ vq1_held'[t] = vq1_held[t]
      BY <1>3, <2>2, <3>1, <3>2, <3>4
    <3>6. LeakOf(t)'
      BY <1>1, <1>3, <3>1, <3>2, <3>4, <3>5, LeakStep
    <3> QED
      BY <1>5, <2>2, <3>6
  <2>4. CASE ~VQ0!PutUsedPublish(t)
    <3>1. /\ stack' = stack /\ vq0_held'[t] = vq0_held[t]
          /\ vq0_call'[t].desc = Top(t).desc
      <4>1. stack' = stack
        BY <1>9, <2>4 DEF SendPut, Stay
      <4>2. /\ vq0_held'[t] = vq0_held[t]
            /\ \/ vq0_call'[t].desc = Top(t).desc
               \/ vq0_call[t].pc \in {"id", "len"} /\ vq0_call'[t].desc = vq0_call[t].desc
        BY <1>1, <1>3, <2>1, <2>4, Giving0
      <4>3. vq0_call[t].pc \in {"id", "len"} => vq0_call[t].desc = Top(t).desc
        BY <1>1 DEF LeakOf, GivingPCs
      <4> QED
        BY <4>1, <4>2, <4>3
    <3>2. LeakOf(t)'
      BY <1>1, <1>2, <2>1, <2>2, <3>1 DEF LeakOf, SendDescs, RecvDescs, Top, Depth
    <3> QED
      BY <1>5, <2>2, <3>2
  <2> QED
    BY <2>3, <2>4
<1>10. CASE SendKick(t) \/ Vq1Kick(t)
  <2>1. /\ Top(t).pc = "kick" /\ UNCHANGED vq0 /\ UNCHANGED vq1
        /\ Stay \/ Pop(t) \/ (Top(t).fn = "vq1" /\ Goto(t, "take", 0))
    BY <1>10 DEF SendKick, Vq1Kick, At
  <2>2. /\ UNCHANGED <<vq0_call, vq0_held, vq1_call, vq1_held>>
        /\ vq0_call[t].pc \notin GivingPCs /\ vq1_call[t].pc \notin GivingPCs
        /\ ~Holding0(Top(t)) /\ ~Holding1(Top(t))
    BY <1>6, <2>1 DEF vq0, vq1, Holding0, Holding1
  <2>3. Top(t).fn = "vq1" => [Top(t) EXCEPT !.pc = "take", !.desc = 0] \in Frame
    BY <1>3, <1>4, FrameFacts
  <2>4. /\ Len(stack'[t]) \in Nat /\ Len(stack'[t]) >= Depth(t) - 1
        /\ \A i \in 1 .. Depth(t) - 1 : stack'[t][i] = stack[t][i]
    <3>1. CASE Stay
      BY <1>3, <3>1 DEF Stay
    <3>2. CASE Pop(t)
      BY <1>1, <1>2, <1>3, <3>2, Popped
    <3>3. CASE Top(t).fn = "vq1" /\ Goto(t, "take", 0)
      <4>1. Len(stack'[t]) = Depth(t) /\ \A i \in 1 .. Depth(t) - 1 : stack'[t][i] = stack[t][i]
        BY <1>1, <1>2, <2>3, <3>3, Gone
      <4> QED
        BY <1>3, <4>1
    <3> QED
      BY <2>1, <3>1, <3>2, <3>3
  <2>5. LeakOf(t)'
    BY <1>1, <1>3, <2>2, <2>4, LeakStep
  <2> QED
    BY <1>5, <2>2, <2>5
<1>11. CASE Vq1Take(t)
  <2>1. Top(t).fn = "vq1" /\ Top(t).pc = "take" /\ UNCHANGED vq0 /\ GetAvail1(t)
    BY <1>11 DEF Vq1Take, At, GetAvail1
  <2>2. /\ \A u \in Tasks \ {t} : vq1_call'[u] = vq1_call[u] /\ vq1_held'[u] = vq1_held[u]
        /\ vq1_call'[t].pc \notin GivingPCs
        /\ UNCHANGED <<vq0_call, vq0_held>> /\ vq0_call[t].pc \notin GivingPCs
    BY <1>1, <1>6, <2>1, Taking1 DEF vq0, GivingPCs
  <2>3. ~Holding0(Top(t)) /\ ~Holding1(Top(t))
    BY <2>1 DEF Holding0, Holding1
  <2>4. CASE VQ1!GetAvailStore(t)
    <3>1. Goto(t, "recv", vq1_call[t].desc) /\ vq1_held'[t] = vq1_held[t] \union {vq1_call[t].desc}
      BY <1>1, <1>11, <2>1, <2>4, Taking1
         DEF Vq1Take, VQ1!GetAvailStore, VQ1!GetAvailCheck, VQ1!GetAvailRing,
             VQ1!GetAvailLoad, VQ1!GetAvailEmpty
    <3>2. [Top(t) EXCEPT !.pc = "recv", !.desc = vq1_call[t].desc] \in Frame
      BY <1>3, <1>4, <2>1, FrameFacts
    <3>3. /\ Len(stack'[t]) = Depth(t) /\ \A i \in 1 .. Depth(t) - 1 : stack'[t][i] = stack[t][i]
          /\ stack'[t][Depth(t)].fn = Top(t).fn
          /\ stack'[t][Depth(t)].pc = "recv" /\ stack'[t][Depth(t)].desc = vq1_call[t].desc
      <4>1. /\ Len(stack'[t]) = Depth(t) /\ \A i \in 1 .. Depth(t) - 1 : stack'[t][i] = stack[t][i]
            /\ TopBecomes(t, "recv", vq1_call[t].desc)
        BY <1>1, <1>2, <3>1, <3>2, Gone
      <4> QED
        BY <4>1 DEF TopBecomes
    <3>4. Holding1(stack'[t][Depth(t)]) /\ stack'[t][Depth(t)].desc = vq1_call[t].desc
      BY <1>3, <2>1, <3>3, TopFields DEF Holding1
    <3>5. LeakOf(t)'
      BY <1>1, <1>3, <2>2, <2>3, <3>1, <3>3, <3>4, LeakStep
    <3> QED
      BY <1>5, <2>2, <3>5
  <2>5. CASE ~VQ1!GetAvailStore(t)
    <3>1. (Stay \/ Pop(t)) /\ vq1_held'[t] = vq1_held[t]
      BY <1>1, <1>11, <2>1, <2>5, Taking1 DEF Vq1Take
    <3>3. /\ Len(stack'[t]) \in Nat /\ Len(stack'[t]) >= Depth(t) - 1
          /\ \A i \in 1 .. Depth(t) - 1 : stack'[t][i] = stack[t][i]
      <4>1. CASE Stay
        BY <1>3, <4>1 DEF Stay
      <4>2. CASE Pop(t)
        BY <1>1, <1>2, <1>3, <4>2, Popped
      <4> QED
        BY <3>1, <4>1, <4>2
    <3>4. LeakOf(t)'
      BY <1>1, <1>3, <2>2, <2>3, <3>1, <3>3, LeakStep
    <3> QED
      BY <1>5, <2>2, <3>4
  <2> QED
    BY <2>4, <2>5
<1>12. CASE Vq1Recv(t)
  <2>1. /\ Top(t).fn = "vq1" /\ Top(t).pc = "recv" /\ UNCHANGED vq0 /\ UNCHANGED vq1
        /\ Goto(t, "put", Top(t).desc) \/ Push(t, "put", SendFrame(Blank))
    BY <1>12 DEF Vq1Recv, At
  <2>2. /\ UNCHANGED <<vq0_call, vq0_held, vq1_call, vq1_held>>
        /\ vq0_call[t].pc \notin GivingPCs /\ vq1_call[t].pc \notin GivingPCs
        /\ ~Holding0(Top(t))
    BY <1>6, <2>1 DEF vq0, vq1, Holding0
  <2>3. /\ [Top(t) EXCEPT !.pc = "put", !.desc = Top(t).desc] \in Frame
        /\ [Top(t) EXCEPT !.pc = "put"] \in Frame
        /\ SendFrame(Blank) \in Frame
    BY <1>3, <2>1, FrameFacts, NewFrames DEF Message
  <2>4. /\ Len(stack'[t]) \in Nat /\ Len(stack'[t]) >= Depth(t)
        /\ \A i \in 1 .. Depth(t) - 1 : stack'[t][i] = stack[t][i]
        /\ Holding1(stack'[t][Depth(t)]) /\ stack'[t][Depth(t)].desc = Top(t).desc
    <3>1. CASE Goto(t, "put", Top(t).desc)
      <4>1. /\ Len(stack'[t]) = Depth(t) /\ \A i \in 1 .. Depth(t) - 1 : stack'[t][i] = stack[t][i]
            /\ TopBecomes(t, "put", Top(t).desc)
        BY <1>1, <1>2, <2>3, <3>1, Gone
      <4>2. /\ Len(stack'[t]) = Depth(t) /\ \A i \in 1 .. Depth(t) - 1 : stack'[t][i] = stack[t][i]
            /\ stack'[t][Depth(t)].fn = Top(t).fn
            /\ stack'[t][Depth(t)].pc = "put" /\ stack'[t][Depth(t)].desc = Top(t).desc
        BY <4>1 DEF TopBecomes
      <4> QED
        BY <1>3, <2>1, <4>2, TopFields DEF Holding1
    <3>2. CASE Push(t, "put", SendFrame(Blank))
      <4>1. /\ Len(stack'[t]) = Depth(t) + 1 /\ \A i \in 1 .. Depth(t) - 1 : stack'[t][i] = stack[t][i]
            /\ stack'[t][Depth(t)] = [Top(t) EXCEPT !.pc = "put"]
        BY <1>1, <1>2, <2>3, <3>2, Pushed
      <4>2. Holding1(stack'[t][Depth(t)]) /\ stack'[t][Depth(t)].desc = Top(t).desc
        BY <1>3, <2>1, <4>1, TopFields DEF Holding1
      <4> QED
        BY <1>3, <4>1, <4>2
    <3> QED
      BY <2>1, <3>1, <3>2
  <2>5. LeakOf(t)'
    BY <1>1, <1>3, <2>2, <2>4, LeakStep
  <2> QED
    BY <1>5, <2>2, <2>5
<1>13. CASE Vq1Put(t)
  <2>1. Top(t).fn = "vq1" /\ Top(t).pc = "put" /\ UNCHANGED vq0
        /\ \/ VQ1!PutUsedRead(t, Top(t).desc, 1) \/ VQ1!PutUsedId(t) \/ VQ1!PutUsedLen(t)
           \/ VQ1!PutUsedPublish(t)
    BY <1>13 DEF Vq1Put, At
  <2>2. /\ \A u \in Tasks \ {t} : vq1_call'[u] = vq1_call[u] /\ vq1_held'[u] = vq1_held[u]
        /\ UNCHANGED <<vq0_call, vq0_held>> /\ vq0_call[t].pc \notin GivingPCs
    BY <1>1, <1>3, <1>6, <2>1, Giving1 DEF vq0
  <2>3. CASE VQ1!PutUsedPublish(t)
    <3>1. /\ Goto(t, "kick", Top(t).desc)
          /\ vq1_call[t].pc \in GivingPCs /\ vq1_call'[t].pc \notin GivingPCs
          /\ vq1_held'[t] = vq1_held[t] \ {vq1_call[t].desc}
      BY <1>1, <1>3, <1>13, <2>1, <2>3, Giving1
         DEF Vq1Put, GivingPCs, VQ1!PutUsedPublish, VQ1!PutUsedRead, VQ1!PutUsedId,
             VQ1!PutUsedLen
    <3>2. vq1_call[t].desc = Top(t).desc /\ ~Holding0(Top(t))
      BY <1>1, <2>1, <3>1 DEF LeakOf, Holding0
    <3>3. [Top(t) EXCEPT !.pc = "kick", !.desc = Top(t).desc] \in Frame
      BY <1>3, <2>1, FrameFacts
    <3>4. /\ Len(stack'[t]) = Depth(t) /\ \A i \in 1 .. Depth(t) - 1 : stack'[t][i] = stack[t][i]
      BY <1>1, <1>2, <3>1, <3>3, Gone
    <3>5. /\ Len(stack'[t]) \in Nat /\ Len(stack'[t]) >= Depth(t) - 1
          /\ vq0_call'[t].pc \notin GivingPCs
          /\ vq1_held'[t] = vq1_held[t] \ {Top(t).desc} /\ vq0_held'[t] = vq0_held[t]
      BY <1>3, <2>2, <3>1, <3>2, <3>4
    <3>6. LeakOf(t)'
      BY <1>1, <1>3, <3>1, <3>2, <3>4, <3>5, LeakStep
    <3> QED
      BY <1>5, <2>2, <3>6
  <2>4. CASE ~VQ1!PutUsedPublish(t)
    <3>1. /\ stack' = stack /\ vq1_held'[t] = vq1_held[t]
          /\ vq1_call'[t].desc = Top(t).desc
      <4>1. stack' = stack
        BY <1>13, <2>4 DEF Vq1Put, Stay
      <4>2. /\ vq1_held'[t] = vq1_held[t]
            /\ \/ vq1_call'[t].desc = Top(t).desc
               \/ vq1_call[t].pc \in {"id", "len"} /\ vq1_call'[t].desc = vq1_call[t].desc
        BY <1>1, <1>3, <2>1, <2>4, Giving1
      <4>3. vq1_call[t].pc \in {"id", "len"} => vq1_call[t].desc = Top(t).desc
        BY <1>1 DEF LeakOf, GivingPCs
      <4> QED
        BY <4>1, <4>2, <4>3
    <3>2. LeakOf(t)'
      BY <1>1, <1>2, <2>1, <2>2, <3>1 DEF LeakOf, SendDescs, RecvDescs, Top, Depth
    <3> QED
      BY <1>5, <2>2, <3>2
  <2> QED
    BY <2>3, <2>4
<1> QED
  BY <1>7, <1>8, <1>9, <1>10, <1>11, <1>12, <1>13 DEF Step

\* A task that enters a call from its own loop holds nothing yet.
LEMMA LeakEnter ==
    ASSUME NEW t \in Tasks, LeakOf(t), stack[t] = <<>>,
           UNCHANGED <<vq0_call, vq0_held, vq1_call, vq1_held>>
    PROVE  LeakOf(t)'
<1>1. SendDescs(<<>>) = {} /\ RecvDescs(<<>>) = {}
  BY DEF SendDescs, RecvDescs
<1> QED
  BY <1>1 DEF LeakOf

LEMMA StepHome ==
    ASSUME LinkTypes, AtHome, NEW t \in Tasks, Step(t)
    PROVE  AtHome'
<1>1. /\ \A u \in Tasks \ {t} : stack'[u] = stack[u]
      /\ stack[t] # <<>>
      /\ \/ base' = base
         \/ /\ stack'[t] = <<>>
            /\ base' = [base EXCEPT ![t] = IF t = Rpmsg THEN "take" ELSE "delay"]
  BY StepTypes
<1>2. T1 \in Tasks /\ Rpmsg \in Tasks /\ T1 # Rpmsg /\ (t = T1 \/ t = Rpmsg)
  BY DEF Tasks, T1, Rpmsg
<1>3. base \in [Tasks -> BasePCs]
  BY DEF LinkTypes
<1>4. CASE base' = base
  BY <1>1, <1>2, <1>4 DEF AtHome
<1>5. CASE stack'[t] = <<>> /\ base' = [base EXCEPT ![t] = IF t = Rpmsg THEN "take" ELSE "delay"]
  <2>1. \A u \in Tasks \ {t} : base'[u] = base[u]
    BY <1>3, <1>5
  <2> QED
    BY <1>1, <1>2, <1>5, <2>1 DEF AtHome
<1> QED
  BY <1>1, <1>4, <1>5

LEMMA LeakNext == ASSUME LinkTypes, LeakInv, [Next]_vars PROVE LeakInv'
<1>1. T1 \in Tasks /\ Rpmsg \in Tasks /\ T1 # Rpmsg /\ Tasks = {T1, Rpmsg}
  BY DEF Tasks, T1, Rpmsg
<1>2. stack \in Stacks /\ base \in [Tasks -> BasePCs]
  BY DEF LinkTypes, TypeOK, Stacks
<1>3. CASE \E t \in Tasks : Step(t)
  BY <1>3, StepLeak, StepHome DEF LeakInv
\* Linux, the interrupt and a task that does not enter a call.
<1>4. ASSUME UNCHANGED <<vq0_call, vq0_held, vq1_call, vq1_held, stack>>, AtHome' PROVE LeakInv'
  BY <1>4, LeakOther DEF LeakInv
<1>5. CASE Linux
  <2>1. UNCHANGED <<vq0_call, vq0_held>>
    <3>1. CASE LinuxReceive
      BY <3>1 DEF LinuxReceive, VQ0!LinuxReclaim, VQ0!core1Vars
    <3>2. CASE LinuxRefill
      BY <3>2 DEF LinuxRefill, VQ0!LinuxOffer, VQ0!core1Vars
    <3>3. CASE ~LinuxReceive /\ ~LinuxRefill
      BY <1>5, <3>3 DEF Linux, LinuxIrq, LinuxSend, LinuxRing, LinuxTxPoll, LinuxReclaimVq1,
                 LinuxIrqRead, LinuxIrqDone, LinuxIrqClear, vq0
    <3> QED
      BY <3>1, <3>2, <3>3
  <2>2. UNCHANGED <<vq1_call, vq1_held>>
    <3>1. CASE LinuxSend
      BY <3>1 DEF LinuxSend, VQ1!LinuxOffer, VQ1!core1Vars
    <3>2. CASE LinuxReclaimVq1
      BY <3>2 DEF LinuxReclaimVq1, VQ1!LinuxReclaim, VQ1!core1Vars
    <3>3. CASE ~LinuxSend /\ ~LinuxReclaimVq1
      BY <1>5, <3>3 DEF Linux, LinuxIrq, LinuxRing, LinuxTxPoll, LinuxReceive, LinuxRefill,
                 LinuxIrqRead, LinuxIrqDone, LinuxIrqClear, vq1
    <3> QED
      BY <3>1, <3>2, <3>3
  <2>3. UNCHANGED <<base, stack>>
    BY <1>5 DEF Linux, LinuxIrq, LinuxSend, LinuxRing, LinuxTxPoll, LinuxReclaimVq1,
                LinuxReceive, LinuxRefill, LinuxIrqRead, LinuxIrqDone, LinuxIrqClear, wake
  <2>4. AtHome'
    BY <2>3 DEF LeakInv, AtHome
  <2> QED
    BY <1>4, <2>1, <2>2, <2>3, <2>4
<1>6. CASE IsrClear \/ IsrNotify
  <2>1. UNCHANGED <<vq0_call, vq0_held, vq1_call, vq1_held, stack, base>>
    BY <1>6 DEF IsrClear, IsrNotify, vq0, vq1
  <2> QED
    BY <1>4, <2>1 DEF LeakInv, AtHome
<1>7. CASE NotifyTake
  <2>1. /\ UNCHANGED <<vq0_call, vq0_held, vq1_call, vq1_held>>
        /\ base[Rpmsg] \in {"take", "blocked"}
        /\ \/ /\ base' = [base EXCEPT ![Rpmsg] = "poll"]
              /\ stack' = [stack EXCEPT ![Rpmsg] = <<Vq1Frame>>]
           \/ /\ base' = [base EXCEPT ![Rpmsg] = "blocked"]
              /\ stack' = stack
    BY <1>7 DEF NotifyTake, vq0, vq1
  <2>2. stack[Rpmsg] = <<>> /\ LeakOf(Rpmsg) /\ LeakOf(T1)
    BY <1>1, <2>1 DEF LeakInv, AtHome
  <2>3. /\ base'[T1] = base[T1] /\ stack'[T1] = stack[T1]
        /\ base'[Rpmsg] = "blocked" => stack'[Rpmsg] = <<>>
        /\ base'[Rpmsg] # "take"
    BY <1>1, <1>2, <2>1, <2>2 DEF Stacks
  <2>4. AtHome'
    BY <2>3 DEF LeakInv, AtHome
  <2>5. LeakOf(Rpmsg)' /\ LeakOf(T1)'
    BY <1>1, <2>1, <2>2, <2>3, LeakEnter, LeakOther
  <2> QED
    BY <1>1, <2>4, <2>5 DEF LeakInv
<1>8. CASE T1Wake \/ T1Check
  <2>1. /\ UNCHANGED <<vq0_call, vq0_held, vq1_call, vq1_held>>
        /\ base[T1] \in {"delay", "check"}
        /\ \/ /\ base' = [base EXCEPT ![T1] = "send"]
              /\ stack' = [stack EXCEPT ![T1] = <<SendFrame(FromT1(active + 1))>>]
           \/ /\ \/ base' = [base EXCEPT ![T1] = "delay"]
                 \/ base' = [base EXCEPT ![T1] = "check"]
              /\ stack' = stack
    BY <1>8 DEF T1Wake, T1Check, vq0, vq1
  <2>2. stack[T1] = <<>> /\ LeakOf(Rpmsg) /\ LeakOf(T1)
    BY <1>1, <2>1 DEF LeakInv, AtHome
  <2>3. /\ base'[Rpmsg] = base[Rpmsg] /\ stack'[Rpmsg] = stack[Rpmsg]
        /\ base'[T1] \in {"delay", "check"} => stack'[T1] = <<>>
    BY <1>1, <1>2, <2>1, <2>2 DEF Stacks
  <2>4. AtHome'
    BY <2>3 DEF LeakInv, AtHome
  <2>5. LeakOf(Rpmsg)' /\ LeakOf(T1)'
    BY <1>1, <2>1, <2>2, <2>3, LeakEnter, LeakOther
  <2> QED
    BY <1>1, <2>4, <2>5 DEF LeakInv
<1>9. CASE UNCHANGED vars
  <2>1. UNCHANGED <<vq0_call, vq0_held, vq1_call, vq1_held, stack, base>>
    BY <1>9 DEF vars, vq0, vq1, wake
  <2> QED
    BY <1>4, <2>1 DEF LeakInv, AtHome
<1> QED
  BY <1>3, <1>5, <1>6, <1>7, <1>8, <1>9 DEF Next, Core1

LEMMA LeakInit == Init => LeakInv
<1>1. SendDescs(<<>>) = {} /\ RecvDescs(<<>>) = {}
  BY DEF SendDescs, RecvDescs
<1>2. ASSUME Init PROVE AtHome
  BY <1>2 DEF Init, AtHome, Tasks, T1, Rpmsg
<1>3. ASSUME Init, NEW t \in Tasks PROVE LeakOf(t)
  <2>1. vq0_call[t].pc = "out" /\ vq1_call[t].pc = "out" /\ vq0_held[t] = {} /\ vq1_held[t] = {}
    BY <1>3 DEF Init, VQ1!Init
  <2> QED
    BY <2>1 DEF LeakOf, GivingPCs
<1> QED
  BY <1>2, <1>3 DEF LeakInv

(* Every path out of rpmsg_send and rpmsg_handle_vq1 has given its buffer  *)
(* back, the path of a failed kick too (rpmsg_core.c:249, 310), for any    *)
(* depth of nesting and with vRpmsgTask preempting vTask1 anywhere.        *)
THEOREM NoLeak == Spec => []NoBufferLeak
<1>1. Init => LinkTypes /\ LeakInv
  BY LinkTypesInit, LeakInit
<1>2. LinkTypes /\ LeakInv /\ [Next]_vars => (LinkTypes /\ LeakInv)'
  BY LinkTypesNext, LeakNext
<1>3. LinkTypes /\ LeakInv => NoBufferLeak
  <2>1. SendDescs(<<>>) = {} /\ RecvDescs(<<>>) = {}
    BY DEF SendDescs, RecvDescs
  <2>2. ASSUME LinkTypes, LeakInv, \A t \in Tasks : stack[t] = <<>>
        PROVE  VQ0!HeldDesc = {} /\ VQ1!HeldDesc = {}
    <3>1. \A t \in Tasks : vq0_held[t] = {} /\ vq1_held[t] = {}
      BY <2>1, <2>2 DEF LeakInv, LeakOf
    <3> QED
      BY <3>1 DEF VQ0!HeldDesc, VQ1!HeldDesc
  <2> QED
    BY <2>2 DEF NoBufferLeak
<1> QED
  BY <1>1, <1>2, <1>3, PTL DEF Spec
-----------------------------------------------------------------------------
(* The stack, when vTask1 sends nothing and vRpmsgTask is alone in vq1.    *)
Calls1 == [t \in {Rpmsg} |-> vq1_call[t]]
Held1  == [t \in {Rpmsg} |-> vq1_held[t]]

S1 == INSTANCE Vring_proofs WITH Callers <- {Rpmsg},
    avail_idx <- vq1_avail_idx, avail_ring <- vq1_avail_ring,
    used_idx <- vq1_used_idx, used_ring <- vq1_used_ring,
    last_avail <- vq1_last_avail, call <- Calls1, held <- Held1,
    free <- vq1_free, last_used <- vq1_last_used, broken <- vq1_broken

LEMMA AloneNext ==
    ASSUME VQ1!TypeOK, S1!RingInv,
           \/ VQ1!LinuxReclaim
           \/ \E d \in Desc : VQ1!LinuxOffer(d)
           \/ GetAvail1(Rpmsg)
           \/ \E d \in vq1_held[Rpmsg] : VQ1!PutUsedRead(Rpmsg, d, 1)
           \/ VQ1!PutUsedId(Rpmsg) \/ VQ1!PutUsedLen(Rpmsg) \/ VQ1!PutUsedPublish(Rpmsg)
           \/ UNCHANGED vq1
    PROVE  S1!RingInv'
<1> USE DEF VQ1!Desc, S1!Desc, VQ1!Idx, S1!Idx, VQ1!Slots, S1!Slots, VQ1!Elem, S1!Elem,
            VQ1!PCs, S1!PCs, VQ1!Slot, S1!Slot, VQ1!Next16, S1!Next16, Desc, VQ0!Desc,
            VQ1!linuxVars, S1!linuxVars, VQ1!core1Vars, S1!core1Vars, VQ1!vars, S1!vars
<1>1. Rpmsg \in Tasks /\ S1!TypeOK
  BY DEF Tasks, S1!RingInv
<1>2. /\ vq1_call \in [Tasks -> [pc : VQ1!PCs, desc : VQ1!Desc, idx : VQ1!Idx, len : Lens]]
      /\ vq1_held \in [Tasks -> SUBSET VQ1!Desc]
  BY DEF VQ1!TypeOK
<1>3. Calls1[Rpmsg] = vq1_call[Rpmsg] /\ Held1[Rpmsg] = vq1_held[Rpmsg]
  BY DEF Calls1, Held1
\* What a step writes in the whole functions, it writes in the restricted ones.
<1>4. ASSUME NEW c, vq1_call' = [vq1_call EXCEPT ![Rpmsg] = c]
      PROVE  Calls1' = [Calls1 EXCEPT ![Rpmsg] = c]
  BY <1>1, <1>2, <1>4 DEF Calls1
<1>5. ASSUME NEW h, vq1_held' = [vq1_held EXCEPT ![Rpmsg] = h]
      PROVE  Held1' = [Held1 EXCEPT ![Rpmsg] = h]
  BY <1>1, <1>2, <1>5 DEF Held1
<1>6. (vq1_held' = vq1_held => Held1' = Held1) /\ (vq1_call' = vq1_call => Calls1' = Calls1)
  BY DEF Calls1, Held1
<1>7. CASE VQ1!LinuxReclaim \/ \E d \in Desc : VQ1!LinuxOffer(d)
  <2>1. S1!Linux
    BY <1>6, <1>7 DEF S1!Linux, VQ1!LinuxReclaim, S1!LinuxReclaim, VQ1!LinuxOffer, S1!LinuxOffer
  <2> QED
    BY <1>1, <2>1, S1!TypeKept, S1!RingNext, RingAssumption DEF S1!Next
<1>8. CASE GetAvail1(Rpmsg)
  <2>1. S1!GetAvail(Rpmsg)
    <3>1. CASE VQ1!GetAvailCheck(Rpmsg)
      BY <1>3, <1>4, <1>6, <3>1 DEF VQ1!GetAvailCheck, S1!GetAvailCheck, S1!GetAvail
    <3>2. CASE VQ1!GetAvailRing(Rpmsg)
      BY <1>3, <1>4, <1>6, <3>2 DEF VQ1!GetAvailRing, S1!GetAvailRing, S1!GetAvail
    <3>3. CASE VQ1!GetAvailLoad(Rpmsg)
      BY <1>3, <1>4, <1>6, <3>3 DEF VQ1!GetAvailLoad, S1!GetAvailLoad, S1!GetAvail
    <3>4. CASE VQ1!GetAvailStore(Rpmsg)
      BY <1>3, <1>4, <1>5, <3>4 DEF VQ1!GetAvailStore, S1!GetAvailStore, S1!GetAvail
    <3>5. CASE VQ1!GetAvailEmpty(Rpmsg)
      BY <1>3, <1>6, <3>5 DEF VQ1!GetAvailEmpty, S1!GetAvailEmpty, S1!GetAvail
    <3> QED
      BY <1>8, <3>1, <3>2, <3>3, <3>4, <3>5 DEF GetAvail1
  <2> QED
    BY <1>1, <2>1, S1!TypeKept, S1!RingNext, RingAssumption DEF S1!Next, S1!Core1
<1>9. CASE \/ \E d \in vq1_held[Rpmsg] : VQ1!PutUsedRead(Rpmsg, d, 1)
           \/ VQ1!PutUsedId(Rpmsg) \/ VQ1!PutUsedLen(Rpmsg) \/ VQ1!PutUsedPublish(Rpmsg)
  <2>1. S1!PutUsed(Rpmsg)
    <3>1. CASE \E d \in vq1_held[Rpmsg] : VQ1!PutUsedRead(Rpmsg, d, 1)
      BY <1>3, <1>4, <1>6, <3>1 DEF VQ1!PutUsedRead, S1!PutUsedRead, S1!PutUsed, Lens
    <3>2. CASE VQ1!PutUsedId(Rpmsg)
      BY <1>3, <1>4, <1>6, <3>2 DEF VQ1!PutUsedId, S1!PutUsedId, S1!PutUsed
    <3>3. CASE VQ1!PutUsedLen(Rpmsg)
      BY <1>3, <1>4, <1>6, <3>3 DEF VQ1!PutUsedLen, S1!PutUsedLen, S1!PutUsed
    <3>4. CASE VQ1!PutUsedPublish(Rpmsg)
      BY <1>3, <1>4, <1>5, <3>4 DEF VQ1!PutUsedPublish, S1!PutUsedPublish, S1!PutUsed
    <3> QED
      BY <1>9, <3>1, <3>2, <3>3, <3>4
  <2>2. /\ \E t \in {Rpmsg} :
              \/ S1!PutUsedId(t) \/ S1!PutUsedLen(t) \/ S1!PutUsedPublish(t)
              \/ \E d \in S1!Desc, len \in Lens : S1!PutUsedRead(t, d, len)
        /\ S1!Next
    <3>1. Held1[Rpmsg] \subseteq S1!Desc
      BY <1>1, <1>2, <1>3
    <3> QED
      BY <2>1, <3>1 DEF S1!PutUsed, S1!Next, S1!Core1
  <2> QED
    BY <1>1, <2>2, S1!TypeKept, S1!RingNext, RingAssumption
<1>10. CASE UNCHANGED vq1
  <2>1. UNCHANGED S1!vars
    BY <1>6, <1>10 DEF vq1
  <2> QED
    BY <1>1, <2>1, S1!TypeKept, S1!RingNext, RingAssumption
<1> QED
  BY <1>7, <1>8, <1>9, <1>10

\* The frames of rpmsg_handle_vq1 that hold a buffer of vq1.
Receives(s) == {i \in 1 .. Len(s) : s[i].fn = "vq1" /\ s[i].pc \in {"recv", "put"}}

\* Calls alternate, those below the top wait where they called the next, and
\* no two hold the same buffer.
Nested(s) ==
    /\ \A i \in 1 .. Len(s) : s[i].fn = IF i % 2 = 1 THEN "vq1" ELSE "send"
    /\ \A i \in 1 .. Len(s) - 1 : s[i].pc = IF s[i].fn = "vq1" THEN "put" ELSE "take"
    /\ \A i, j \in Receives(s) : s[i].desc = s[j].desc => i = j

AloneInv ==
    /\ base[T1] = "delay"
    /\ S1!RingInv
    /\ RecvDescs(stack[Rpmsg]) = vq1_held[Rpmsg]
    /\ Nested(stack[Rpmsg])

LEMMA ReceivesIs ==
    ASSUME NEW s
    PROVE  /\ RecvDescs(s) = {s[i].desc : i \in Receives(s)}
           /\ \A d : d \in RecvDescs(s) <=> \E i \in Receives(s) : s[i].desc = d
           /\ \A i : i \in Receives(s) <=> i \in 1 .. Len(s) /\ Holding1(s[i])
  BY DEF RecvDescs, Receives, Holding1

\* Each level of the recursion holds a buffer, and there are NUM of them.
LEMMA NestedBound ==
    ASSUME NEW s \in Seq(Frame), Nested(s)
    PROVE  Len(s) <= 2 * NUM + 1
<1>1. PICK n \in Nat : Len(s) = 2 * n \/ Len(s) = 2 * n + 1
  <2>1. Len(s) \in Nat
    OBVIOUS
  <2>2. /\ Len(s) \div 2 \in Nat
        /\ Len(s) = 2 * (Len(s) \div 2) \/ Len(s) = 2 * (Len(s) \div 2) + 1
    BY <2>1, SMTT(20)
  <2> QED
    BY <2>2
<1>2. ASSUME NEW k \in 1 .. n
      PROVE  2 * k - 1 \in Receives(s) /\ s[2 * k - 1].desc \in Desc
  <2>1. 2 * k - 1 \in 1 .. Len(s) /\ 2 * k - 1 \in 1 .. Len(s) - 1 /\ (2 * k - 1) % 2 = 1
    BY <1>1, <1>2, SMTT(20)
  <2>2. s[2 * k - 1] \in Frame
    BY <2>1
  <2>3. s[2 * k - 1].desc \in Desc
    BY <2>2, FrameFacts
  <2> QED
    BY <2>1, <2>3 DEF Nested, Receives
<1> DEFINE g == [k \in 1 .. n |-> s[2 * k - 1].desc]
<1>3. g \in [1 .. n -> Desc]
  BY <1>2
<1>4. ASSUME NEW k \in 1 .. n, NEW l \in 1 .. n, g[k] = g[l] PROVE k = l
  <2>1. 2 * k - 1 \in Receives(s) /\ 2 * l - 1 \in Receives(s) /\ s[2 * k - 1].desc = s[2 * l - 1].desc
    BY <1>2, <1>4
  <2>2. 2 * k - 1 = 2 * l - 1
    BY <2>1 DEF Nested
  <2> QED
    BY <2>2
<1>5. n <= NUM
  <2> SUFFICES ASSUME n > NUM PROVE FALSE
    BY RingAssumption
  <2>1. IsFiniteSet(1 .. n) /\ Cardinality(1 .. n) = n
    BY FS_Interval
  <2>2. IsFiniteSet(Desc) /\ Cardinality(Desc) = NUM
    BY FS_Interval, RingAssumption, DescIs
  <2>3. Cardinality(Desc) < Cardinality(1 .. n)
    BY <2>1, <2>2
  <2> HIDE DEF g
  <2>4. \E k, l \in 1 .. n : k # l /\ g[k] = g[l]
    BY <1>3, <2>1, <2>2, <2>3, FS_PigeonHole
  <2> QED
    BY <1>4, <2>4
<1> QED
  BY <1>1, <1>5, RingAssumption

\* The top frame changes: it takes a new buffer, keeps its own, or drops it.
LEMMA NestedTop ==
    ASSUME NEW s, NEW r, Len(s) \in Nat \ {0}, Len(r) = Len(s), Nested(s),
           \A i \in 1 .. Len(s) - 1 : r[i] = s[i],
           r[Len(s)].fn = s[Len(s)].fn,
           Holding1(r[Len(s)]) =>
              \/ Holding1(s[Len(s)]) /\ r[Len(s)].desc = s[Len(s)].desc
              \/ ~Holding1(s[Len(s)]) /\ r[Len(s)].desc \notin RecvDescs(s)
    PROVE  /\ Nested(r)
           /\ Holding1(r[Len(s)]) => RecvDescs(r) = RecvDescs(s) \union {r[Len(s)].desc}
           /\ Holding1(s[Len(s)]) /\ ~Holding1(r[Len(s)]) =>
                 RecvDescs(r) = RecvDescs(s) \ {s[Len(s)].desc}
           /\ ~Holding1(s[Len(s)]) /\ ~Holding1(r[Len(s)]) => RecvDescs(r) = RecvDescs(s)
<1>1. \A i \in 1 .. Len(s) : i = Len(s) \/ i \in 1 .. Len(s) - 1
  OBVIOUS
<1>2. \A i \in 1 .. Len(s) - 1 : i \in 1 .. Len(s) /\ i # Len(s) /\ r[i] = s[i]
  OBVIOUS
<1>3. Len(s) \in 1 .. Len(s)
  OBVIOUS
<1> DEFINE B == {i \in 1 .. Len(s) - 1 : Holding1(s[i])}
           L == Len(s)
<1>4. \A i : i \in Receives(s) <=> i \in B \/ (i = L /\ Holding1(s[L]))
  BY <1>1, <1>2, <1>3, ReceivesIs
<1>5. \A i : i \in Receives(r) <=> i \in B \/ (i = L /\ Holding1(r[L]))
  BY <1>1, <1>2, <1>3, ReceivesIs
<1>6. \A i \in B : i # L /\ r[i] = s[i]
  BY <1>2
<1>7. \A i, j \in Receives(s) : s[i].desc = s[j].desc => i = j
  BY DEF Nested
<1>8. /\ \A d : d \in RecvDescs(s) <=> \E i \in Receives(s) : s[i].desc = d
      /\ \A d : d \in RecvDescs(r) <=> \E i \in Receives(r) : r[i].desc = d
  BY ReceivesIs
<1>9. Holding1(r[L]) => \/ Holding1(s[L]) /\ r[L].desc = s[L].desc
                        \/ ~Holding1(s[L]) /\ r[L].desc \notin RecvDescs(s)
  OBVIOUS
<1> HIDE DEF B, L
<1>10. ASSUME NEW i \in B, Holding1(r[L]) PROVE r[i].desc # r[L].desc
  <2>1. i \in Receives(s) /\ r[i].desc = s[i].desc /\ i # L /\ s[i].desc \in RecvDescs(s)
    BY <1>4, <1>6, <1>8, <1>10
  <2>2. CASE Holding1(s[L]) /\ r[L].desc = s[L].desc
    BY <1>4, <1>7, <2>1, <2>2
  <2>3. CASE r[L].desc \notin RecvDescs(s)
    BY <2>1, <2>3
  <2> QED
    BY <1>9, <1>10, <2>2, <2>3
<1>11. ASSUME NEW i \in Receives(r), NEW j \in Receives(r), r[i].desc = r[j].desc PROVE i = j
  <2>1. CASE i \in B /\ j \in B
    <3>1. i \in Receives(s) /\ j \in Receives(s) /\ s[i].desc = s[j].desc
      BY <1>4, <1>6, <1>11, <2>1
    <3> QED
      BY <1>7, <3>1
  <2>2. CASE ~(i \in B /\ j \in B)
    BY <1>5, <1>11, <1>10, <2>2
  <2> QED
    BY <2>1, <2>2
<1>12. Nested(r)
  <2>1. \A i \in 1 .. Len(r) : r[i].fn = IF i % 2 = 1 THEN "vq1" ELSE "send"
    BY <1>1, <1>2, <1>3 DEF Nested
  <2>2. \A i \in 1 .. Len(r) - 1 : r[i].pc = IF r[i].fn = "vq1" THEN "put" ELSE "take"
    BY <1>2, SMTT(25) DEF Nested
  <2> QED
    BY <1>11, <2>1, <2>2 DEF Nested
<1>13. Holding1(r[L]) => RecvDescs(r) = RecvDescs(s) \union {r[L].desc}
  <2> SUFFICES ASSUME Holding1(r[L]), NEW d
               PROVE  d \in RecvDescs(r) <=> d \in RecvDescs(s) \/ d = r[L].desc
    OBVIOUS
  <2>1. ASSUME d \in RecvDescs(r) PROVE d \in RecvDescs(s) \/ d = r[L].desc
    BY <1>4, <1>5, <1>6, <1>8, <2>1
  <2>2. ASSUME d \in RecvDescs(s) PROVE d \in RecvDescs(r)
    <3>1. PICK i \in Receives(s) : s[i].desc = d
      BY <1>8, <2>2
    <3>2. CASE i \in B
      <4>1. i \in Receives(r) /\ r[i].desc = d
        BY <1>5, <1>6, <3>1, <3>2
      <4> QED
        BY <1>8, <4>1
    <3>3. CASE i = L /\ Holding1(s[L])
      <4>1. d \in RecvDescs(s) /\ L \in Receives(r) /\ r[L].desc = s[L].desc
        BY <1>5, <1>9, <2>2, <3>1, <3>3, <1>4, <1>8
      <4> QED
        BY <1>8, <3>1, <3>3, <4>1
    <3> QED
      BY <1>4, <3>2, <3>3
  <2>3. r[L].desc \in RecvDescs(r)
    BY <1>5, <1>8
  <2> QED
    BY <2>1, <2>2, <2>3
<1>14. ~Holding1(r[L]) /\ Holding1(s[L]) => RecvDescs(r) = RecvDescs(s) \ {s[L].desc}
  <2> SUFFICES ASSUME ~Holding1(r[L]), Holding1(s[L]), NEW d
               PROVE  d \in RecvDescs(r) <=> d \in RecvDescs(s) /\ d # s[L].desc
    OBVIOUS
  <2>1. ASSUME d \in RecvDescs(r) PROVE d \in RecvDescs(s) /\ d # s[L].desc
    <3>1. PICK i \in B : r[i].desc = d
      BY <1>5, <1>8, <2>1
    <3>2. i \in Receives(s) /\ L \in Receives(s) /\ s[i].desc = d /\ i # L
      BY <1>4, <1>6, <3>1
    <3> QED
      BY <1>7, <1>8, <3>2
  <2>2. ASSUME d \in RecvDescs(s), d # s[L].desc PROVE d \in RecvDescs(r)
    <3>1. PICK i \in Receives(s) : s[i].desc = d
      BY <1>8, <2>2
    <3>2. i \in Receives(r) /\ r[i].desc = d
      BY <1>4, <1>5, <1>6, <2>2, <3>1
    <3> QED
      BY <1>8, <3>2
  <2> QED
    BY <2>1, <2>2
<1>15. ~Holding1(r[L]) /\ ~Holding1(s[L]) => RecvDescs(r) = RecvDescs(s)
  <2> SUFFICES ASSUME ~Holding1(r[L]), ~Holding1(s[L]), NEW d
               PROVE  d \in RecvDescs(r) <=> d \in RecvDescs(s)
    OBVIOUS
  <2>1. \A i : i \in Receives(r) <=> i \in Receives(s)
    BY <1>4, <1>5
  <2>2. \A i \in Receives(s) : r[i].desc = s[i].desc
    BY <1>4, <1>6
  <2> QED
    BY <1>8, <2>1, <2>2
<1> QED
  BY <1>12, <1>13, <1>14, <1>15 DEF L

\* A call: the top frame waits, with its buffer if it has one.
LEMMA NestedPush ==
    ASSUME NEW s, NEW r, Len(s) \in Nat \ {0}, Len(r) = Len(s) + 1, Nested(s),
           \A i \in 1 .. Len(s) - 1 : r[i] = s[i],
           r[Len(s)].fn = s[Len(s)].fn, r[Len(s)].desc = s[Len(s)].desc,
           r[Len(s)].pc = IF s[Len(s)].fn = "vq1" THEN "put" ELSE "take",
           s[Len(s)].fn = "vq1" => Holding1(s[Len(s)]),
           r[Len(s) + 1].pc = "take",
           r[Len(s) + 1].fn = IF s[Len(s)].fn = "vq1" THEN "send" ELSE "vq1"
    PROVE  Nested(r) /\ RecvDescs(r) = RecvDescs(s)
<1> DEFINE n == Len(s)
<1>1. \A i \in 1 .. n + 1 : i = n + 1 \/ i = n \/ i \in 1 .. n - 1
  OBVIOUS
<1>2. \A i \in 1 .. n - 1 : i \in 1 .. n /\ i \in 1 .. n + 1 /\ r[i] = s[i]
  OBVIOUS
<1>3. n \in 1 .. n /\ n \in 1 .. n + 1 /\ n + 1 \in 1 .. n + 1 /\ Len(r) = n + 1
  OBVIOUS
<1>4. Holding1(r[n]) <=> Holding1(s[n])
  BY DEF Holding1
<1>5. ~Holding1(r[n + 1])
  BY DEF Holding1
<1>6. \A i : i \in Receives(r) <=> i \in Receives(s)
  <2>1. \A i : i \in Receives(r) <=> i \in 1 .. n + 1 /\ Holding1(r[i])
    BY <1>3, ReceivesIs
  <2>2. \A i : i \in Receives(s) <=> i \in 1 .. n /\ Holding1(s[i])
    BY ReceivesIs
  <2>3. \A i \in 1 .. n + 1 : i = n + 1 \/ (i \in 1 .. n /\ (Holding1(r[i]) <=> Holding1(s[i])))
    BY <1>1, <1>2, <1>3, <1>4
  <2>4. \A i \in 1 .. n : i \in 1 .. n + 1 /\ i # n + 1
    OBVIOUS
  <2> HIDE DEF n
  <2> QED
    BY <1>5, <2>1, <2>2, <2>3, <2>4
<1>7. \A i \in Receives(s) : r[i].desc = s[i].desc
  BY <1>1, <1>2, ReceivesIs
<1>8. RecvDescs(r) = RecvDescs(s)
  <2>1. /\ \A d : d \in RecvDescs(s) <=> \E i \in Receives(s) : s[i].desc = d
        /\ \A d : d \in RecvDescs(r) <=> \E i \in Receives(r) : r[i].desc = d
    BY ReceivesIs
  <2>2. \A d : d \in RecvDescs(r) <=> d \in RecvDescs(s)
    BY <1>6, <1>7, <2>1
  <2> QED
    BY <2>2
<1>9. \A i \in 1 .. Len(r) : r[i].fn = IF i % 2 = 1 THEN "vq1" ELSE "send"
  <2>1. s[n].fn = IF n % 2 = 1 THEN "vq1" ELSE "send"
    BY <1>3 DEF Nested
  <2>2. (n + 1) % 2 = 1 <=> ~(n % 2 = 1)
    <3>1. n \in Nat
      OBVIOUS
    <3> HIDE DEF n
    <3>2. n % 2 = 1 => (n + 1) % 2 = 0
      BY <3>1, SMTT(20)
    <3>3. n % 2 # 1 => (n + 1) % 2 = 1
      BY <3>1, SMTT(20)
    <3> QED
      BY <3>2, <3>3
  <2>3. r[n + 1].fn = IF (n + 1) % 2 = 1 THEN "vq1" ELSE "send"
    BY <2>1, <2>2
  <2> QED
    BY <1>1, <1>2, <1>3, <2>1, <2>3, SMTT(25) DEF Nested
<1>10. \A i \in 1 .. Len(r) - 1 : r[i].pc = IF r[i].fn = "vq1" THEN "put" ELSE "take"
  <2>1. \A i \in 1 .. Len(r) - 1 : i = n \/ i \in 1 .. n - 1
    OBVIOUS
  <2> QED
    BY <1>2, <2>1, SMTT(25) DEF Nested
<1>11. \A i, j \in Receives(r) : r[i].desc = r[j].desc => i = j
  BY <1>6, <1>7 DEF Nested
<1> QED
  BY <1>8, <1>9, <1>10, <1>11 DEF Nested

\* A return: the top frame, which holds nothing, is gone.
LEMMA NestedPop ==
    ASSUME NEW s, NEW r, Len(s) \in Nat \ {0}, Len(r) = Len(s) - 1, Nested(s),
           \A i \in 1 .. Len(s) - 1 : r[i] = s[i], ~Holding1(s[Len(s)])
    PROVE  Nested(r) /\ RecvDescs(r) = RecvDescs(s)
<1>1. \A i \in 1 .. Len(s) : i = Len(s) \/ i \in 1 .. Len(s) - 1
  OBVIOUS
<1>2. \A i \in 1 .. Len(s) - 1 : i \in 1 .. Len(s) /\ r[i] = s[i]
  OBVIOUS
<1>3. \A i \in 1 .. Len(r) - 1 : i \in 1 .. Len(s) - 1
  OBVIOUS
<1>4. \A i : i \in Receives(r) <=> i \in Receives(s)
  BY <1>1, <1>2, ReceivesIs
<1>5. \A i \in Receives(s) : r[i].desc = s[i].desc
  BY <1>1, <1>2, ReceivesIs
<1>6. RecvDescs(r) = RecvDescs(s)
  <2>1. /\ \A d : d \in RecvDescs(s) <=> \E i \in Receives(s) : s[i].desc = d
        /\ \A d : d \in RecvDescs(r) <=> \E i \in Receives(r) : r[i].desc = d
    BY ReceivesIs
  <2>2. \A d : d \in RecvDescs(r) <=> d \in RecvDescs(s)
    BY <1>4, <1>5, <2>1
  <2> QED
    BY <2>2
<1>7. \A i, j \in Receives(r) : r[i].desc = r[j].desc => i = j
  BY <1>4, <1>5 DEF Nested
<1>8. \A i \in 1 .. Len(r) : r[i].fn = IF i % 2 = 1 THEN "vq1" ELSE "send"
  BY <1>2 DEF Nested
<1>9. \A i \in 1 .. Len(r) - 1 : r[i].pc = IF r[i].fn = "vq1" THEN "put" ELSE "take"
  BY <1>2, <1>3 DEF Nested
<1> QED
  BY <1>6, <1>7, <1>8, <1>9 DEF Nested

\* The same, of the stack of a task.
LEMMA TaskTop ==
    ASSUME NEW t \in Tasks, Depth(t) \in Nat \ {0}, Nested(stack[t]), Len(stack'[t]) = Depth(t),
           \A i \in 1 .. Depth(t) - 1 : stack'[t][i] = stack[t][i],
           stack'[t][Depth(t)].fn = Top(t).fn,
           Holding1(stack'[t][Depth(t)]) =>
              \/ Holding1(Top(t)) /\ stack'[t][Depth(t)].desc = Top(t).desc
              \/ ~Holding1(Top(t)) /\ stack'[t][Depth(t)].desc \notin RecvDescs(stack[t])
    PROVE  /\ Nested(stack'[t])
           /\ Holding1(stack'[t][Depth(t)]) =>
                 RecvDescs(stack'[t]) = RecvDescs(stack[t]) \union {stack'[t][Depth(t)].desc}
           /\ Holding1(Top(t)) /\ ~Holding1(stack'[t][Depth(t)]) =>
                 RecvDescs(stack'[t]) = RecvDescs(stack[t]) \ {Top(t).desc}
           /\ ~Holding1(Top(t)) /\ ~Holding1(stack'[t][Depth(t)]) =>
                 RecvDescs(stack'[t]) = RecvDescs(stack[t])
<1> DEFINE s == stack[t]
           r == stack'[t]
<1>1. Len(s) = Depth(t) /\ s[Len(s)] = Top(t) /\ Depth(t) = Len(s)
  BY DEF Depth, Top
<1>2. /\ Len(s) \in Nat \ {0} /\ Len(r) = Len(s) /\ Nested(s)
      /\ \A i \in 1 .. Len(s) - 1 : r[i] = s[i]
      /\ r[Len(s)].fn = s[Len(s)].fn
      /\ Holding1(r[Len(s)]) =>
           \/ Holding1(s[Len(s)]) /\ r[Len(s)].desc = s[Len(s)].desc
           \/ ~Holding1(s[Len(s)]) /\ r[Len(s)].desc \notin RecvDescs(s)
  BY <1>1
<1> HIDE DEF s, r
<1>3. /\ Nested(r)
      /\ Holding1(r[Len(s)]) => RecvDescs(r) = RecvDescs(s) \union {r[Len(s)].desc}
      /\ Holding1(s[Len(s)]) /\ ~Holding1(r[Len(s)]) =>
            RecvDescs(r) = RecvDescs(s) \ {s[Len(s)].desc}
      /\ ~Holding1(s[Len(s)]) /\ ~Holding1(r[Len(s)]) => RecvDescs(r) = RecvDescs(s)
  BY <1>2, NestedTop
<1> QED
  BY <1>1, <1>3 DEF s, r

LEMMA TaskCalls ==
    ASSUME NEW t \in Tasks, Depth(t) \in Nat \ {0}, Nested(stack[t]),
           Len(stack'[t]) = Depth(t) + 1,
           \A i \in 1 .. Depth(t) - 1 : stack'[t][i] = stack[t][i],
           stack'[t][Depth(t)].fn = Top(t).fn, stack'[t][Depth(t)].desc = Top(t).desc,
           stack'[t][Depth(t)].pc = IF Top(t).fn = "vq1" THEN "put" ELSE "take",
           Top(t).fn = "vq1" => Holding1(Top(t)),
           stack'[t][Depth(t) + 1].pc = "take",
           stack'[t][Depth(t) + 1].fn = IF Top(t).fn = "vq1" THEN "send" ELSE "vq1"
    PROVE  Nested(stack'[t]) /\ RecvDescs(stack'[t]) = RecvDescs(stack[t])
<1> DEFINE s == stack[t]
           r == stack'[t]
<1>1. Len(s) = Depth(t) /\ s[Len(s)] = Top(t) /\ Depth(t) = Len(s)
  BY DEF Depth, Top
<1>2. /\ Len(s) \in Nat \ {0} /\ Len(r) = Len(s) + 1 /\ Nested(s)
      /\ \A i \in 1 .. Len(s) - 1 : r[i] = s[i]
      /\ r[Len(s)].fn = s[Len(s)].fn /\ r[Len(s)].desc = s[Len(s)].desc
      /\ r[Len(s)].pc = IF s[Len(s)].fn = "vq1" THEN "put" ELSE "take"
      /\ s[Len(s)].fn = "vq1" => Holding1(s[Len(s)])
      /\ r[Len(s) + 1].pc = "take"
      /\ r[Len(s) + 1].fn = IF s[Len(s)].fn = "vq1" THEN "send" ELSE "vq1"
  BY <1>1
<1> HIDE DEF s, r
<1>3. Nested(r) /\ RecvDescs(r) = RecvDescs(s)
  BY <1>2, NestedPush
<1> QED
  BY <1>3 DEF s, r

LEMMA TaskReturns ==
    ASSUME NEW t \in Tasks, stack \in Stacks, stack[t] # <<>>, Nested(stack[t]), Pop(t),
           ~Holding1(Top(t))
    PROVE  Nested(stack'[t]) /\ RecvDescs(stack'[t]) = RecvDescs(stack[t])
<1> DEFINE s == stack[t]
           r == stack'[t]
<1>1. Len(s) = Depth(t) /\ s[Len(s)] = Top(t)
  BY DEF Depth, Top
<1>2. /\ Len(s) \in Nat \ {0} /\ Len(r) = Len(s) - 1 /\ Nested(s)
      /\ \A i \in 1 .. Len(s) - 1 : r[i] = s[i]
      /\ ~Holding1(s[Len(s)])
  BY <1>1, Popped
<1> HIDE DEF s, r
<1>3. Nested(r) /\ RecvDescs(r) = RecvDescs(s)
  BY <1>2, NestedPop
<1> QED
  BY <1>3 DEF s, r

LEMMA AloneStep ==
    ASSUME LinkTypes, LeakInv, AloneInv, Step(Rpmsg)
    PROVE  /\ S1!RingInv'
           /\ RecvDescs(stack'[Rpmsg]) = vq1_held'[Rpmsg]
           /\ Nested(stack'[Rpmsg])
<1> DEFINE t == Rpmsg
<1>1. /\ VQ1!TypeOK /\ stack \in Stacks /\ LeakOf(t) /\ t \in Tasks
      /\ S1!RingInv /\ Nested(stack[t]) /\ RecvDescs(stack[t]) = vq1_held[t]
  BY DEF LinkTypes, TypeOK, Stacks, LeakInv, AloneInv, Tasks
<1>2. stack[t] # <<>> /\ stack' \in Stacks
  BY <1>1, StepTypes
<1>3. /\ Top(t) \in Frame /\ Depth(t) \in Nat \ {0} /\ Depth(t) = Len(stack[t]) /\ Top(t).desc \in Desc
      /\ Top(t) = stack[t][Depth(t)]
  BY <1>1, <1>2, TopIs, FrameFacts DEF Depth
<1>4. vq0_call[t].desc \in Desc /\ vq1_call[t].desc \in Desc /\ 0 \in Desc
  BY <1>1, DescIs, RingAssumption DEF LinkTypes, TypeOK, VQ0!TypeOK, VQ1!TypeOK
<1> HIDE DEF t
\* rpmsg_send: vq1 is not touched.
<1>5. ASSUME UNCHANGED vq1,
             Nested(stack'[t]) /\ RecvDescs(stack'[t]) = RecvDescs(stack[t])
      PROVE  S1!RingInv' /\ RecvDescs(stack'[t]) = vq1_held'[t] /\ Nested(stack'[t])
  <2>1. vq1_held' = vq1_held
    BY <1>5 DEF vq1
  <2> QED
    BY <1>1, <1>5, <2>1, AloneNext
<1>6. ASSUME Stay PROVE Nested(stack'[t]) /\ RecvDescs(stack'[t]) = RecvDescs(stack[t])
  BY <1>1, <1>6 DEF Stay
<1>7. ASSUME NEW pc, NEW d, Goto(t, pc, d), [Top(t) EXCEPT !.pc = pc, !.desc = d] \in Frame,
             ~Holding1(Top(t)), Top(t).fn = "send" \/ pc = "take"
      PROVE  Nested(stack'[t]) /\ RecvDescs(stack'[t]) = RecvDescs(stack[t])
  <2>1. /\ Len(stack'[t]) = Depth(t) /\ \A i \in 1 .. Depth(t) - 1 : stack'[t][i] = stack[t][i]
        /\ TopBecomes(t, pc, d)
    BY <1>1, <1>2, <1>7, Gone
  <2>2. ~Holding1(stack'[t][Depth(t)]) /\ stack'[t][Depth(t)].fn = Top(t).fn
    BY <1>7, <2>1 DEF TopBecomes, Holding1
  <2> QED
    BY <1>1, <1>3, <1>7, <2>1, <2>2, TaskTop
<1>8. CASE SendTake(t)
  <2>1. /\ Top(t).fn = "send" /\ Top(t).pc = "take" /\ UNCHANGED vq1
        /\ \/ Stay
           \/ Goto(t, "fill", vq0_call[t].desc)
           \/ Push(t, "take", Vq1Frame)
    BY <1>8 DEF SendTake, At
  <2>2. ~Holding1(Top(t))
    BY <2>1 DEF Holding1
  <2>3. CASE Goto(t, "fill", vq0_call[t].desc)
    <3>1. [Top(t) EXCEPT !.pc = "fill", !.desc = vq0_call[t].desc] \in Frame
      BY <1>3, <1>4, <2>1, FrameFacts
    <3> QED
      BY <1>5, <1>7, <2>1, <2>2, <2>3, <3>1 DEF t
  <2>4. CASE Push(t, "take", Vq1Frame)
    <3>1. [Top(t) EXCEPT !.pc = "take"] \in Frame
      BY <1>3, <2>1, FrameFacts
    <3>2. /\ Len(stack'[t]) = Depth(t) + 1 /\ \A i \in 1 .. Depth(t) - 1 : stack'[t][i] = stack[t][i]
          /\ stack'[t][Depth(t)] = [Top(t) EXCEPT !.pc = "take"]
          /\ stack'[t][Depth(t) + 1] = Vq1Frame
      BY <1>1, <1>2, <2>4, <3>1, Pushed, NewFrames
    <3>3. /\ stack'[t][Depth(t)].fn = Top(t).fn /\ stack'[t][Depth(t)].desc = Top(t).desc
          /\ stack'[t][Depth(t)].pc = IF Top(t).fn = "vq1" THEN "put" ELSE "take"
      BY <1>3, <2>1, <3>2, TopFields
    <3>4. /\ stack'[t][Depth(t) + 1].pc = "take"
          /\ stack'[t][Depth(t) + 1].fn = IF Top(t).fn = "vq1" THEN "send" ELSE "vq1"
      BY <2>1, <3>2 DEF Vq1Frame
    <3>5. Nested(stack'[t]) /\ RecvDescs(stack'[t]) = RecvDescs(stack[t])
      BY <1>1, <1>3, <2>1, <3>2, <3>3, <3>4, TaskCalls
    <3> QED
      BY <1>5, <2>1, <3>5 DEF t
  <2> QED
    BY <1>5, <1>6, <2>1, <2>3, <2>4 DEF t
<1>9. CASE SendFill(t)
  <2>1. Top(t).fn = "send" /\ UNCHANGED vq1
    BY <1>9 DEF SendFill, At
  <2>2. /\ Len(stack'[t]) = Depth(t) /\ \A i \in 1 .. Depth(t) - 1 : stack'[t][i] = stack[t][i]
        /\ stack'[t][Depth(t)] = [Top(t) EXCEPT !.pc = "put", !.msg = Payload(t)]
    BY <1>1, <1>9, Filled
  <2>3. stack'[t][Depth(t)].fn = Top(t).fn /\ ~Holding1(stack'[t][Depth(t)]) /\ ~Holding1(Top(t))
    BY <1>3, <2>1, <2>2, TopFields DEF Holding1
  <2>4. Nested(stack'[t]) /\ RecvDescs(stack'[t]) = RecvDescs(stack[t])
    BY <1>1, <1>3, <2>2, <2>3, TaskTop
  <2> QED
    BY <1>5, <2>1, <2>4 DEF t
<1>10. CASE SendPut(t)
  <2>1. /\ Top(t).fn = "send" /\ UNCHANGED vq1
        /\ Stay \/ Goto(t, "kick", Top(t).desc)
    BY <1>10 DEF SendPut, At
  <2>2. ~Holding1(Top(t)) /\ [Top(t) EXCEPT !.pc = "kick", !.desc = Top(t).desc] \in Frame
    BY <1>3, <2>1, FrameFacts DEF Holding1
  <2> QED
    BY <1>5, <1>6, <1>7, <2>1, <2>2 DEF t
<1>11. CASE SendKick(t)
  <2>1. /\ Top(t).fn = "send" /\ UNCHANGED vq1
        /\ Stay \/ Pop(t)
    BY <1>11 DEF SendKick, At
  <2>2. ~Holding1(Top(t))
    BY <2>1 DEF Holding1
  <2>3. Pop(t) => Nested(stack'[t]) /\ RecvDescs(stack'[t]) = RecvDescs(stack[t])
    BY <1>1, <1>2, <2>2, TaskReturns
  <2> QED
    BY <1>5, <1>6, <2>1, <2>3 DEF t
<1>12. CASE Vq1Take(t)
  <2>1. Top(t).fn = "vq1" /\ Top(t).pc = "take" /\ GetAvail1(t)
    BY <1>12 DEF Vq1Take, At, GetAvail1
  <2>2. S1!RingInv' /\ ~Holding1(Top(t))
    BY <1>1, <2>1, AloneNext DEF Holding1, t
  <2>3. CASE VQ1!GetAvailStore(t)
    <3>1. Goto(t, "recv", vq1_call[t].desc) /\ vq1_held'[t] = vq1_held[t] \union {vq1_call[t].desc}
      BY <1>1, <1>12, <2>1, <2>3, Taking1
         DEF Vq1Take, VQ1!GetAvailStore, VQ1!GetAvailCheck, VQ1!GetAvailRing,
             VQ1!GetAvailLoad, VQ1!GetAvailEmpty
    <3>2. [Top(t) EXCEPT !.pc = "recv", !.desc = vq1_call[t].desc] \in Frame
      BY <1>3, <1>4, <2>1, FrameFacts
    <3>3. /\ Len(stack'[t]) = Depth(t) /\ \A i \in 1 .. Depth(t) - 1 : stack'[t][i] = stack[t][i]
          /\ TopBecomes(t, "recv", vq1_call[t].desc)
      BY <1>1, <1>2, <3>1, <3>2, Gone
    <3>4. /\ Holding1(stack'[t][Depth(t)]) /\ stack'[t][Depth(t)].desc = vq1_call[t].desc
          /\ stack'[t][Depth(t)].fn = Top(t).fn
      BY <2>1, <3>3 DEF TopBecomes, Holding1
    <3>5. vq1_call[t].desc \notin vq1_held[t]
      <4>1. Calls1[t] = vq1_call[t] /\ Held1[t] = vq1_held[t] /\ t \in {Rpmsg}
        BY DEF Calls1, Held1, t
      <4>2. Calls1[t].pc = "store"
        BY <2>3, <4>1 DEF VQ1!GetAvailStore
      <4>3. Calls1[t].desc \in S1!Desc \ Held1[t]
        BY <1>1, <4>1, <4>2, S1!TakenIsNew, RingAssumption
      <4> QED
        BY <4>1, <4>3
    <3>6. /\ Nested(stack'[t])
          /\ RecvDescs(stack'[t]) = RecvDescs(stack[t]) \union {vq1_call[t].desc}
      BY <1>1, <1>3, <2>2, <3>3, <3>4, <3>5, TaskTop
    <3> QED
      BY <1>1, <2>2, <3>1, <3>6 DEF t
  <2>4. CASE ~VQ1!GetAvailStore(t)
    <3>1. (Stay \/ Pop(t)) /\ vq1_held'[t] = vq1_held[t]
      BY <1>1, <1>12, <2>1, <2>4, Taking1 DEF Vq1Take
    <3>2. Nested(stack'[t]) /\ RecvDescs(stack'[t]) = RecvDescs(stack[t])
      BY <1>1, <1>2, <1>6, <2>2, <3>1, TaskReturns
    <3> QED
      BY <1>1, <2>2, <3>1, <3>2 DEF t
  <2> QED
    BY <2>3, <2>4
<1>13. CASE Vq1Recv(t)
  <2>1. /\ Top(t).fn = "vq1" /\ Top(t).pc = "recv" /\ UNCHANGED vq1
        /\ Goto(t, "put", Top(t).desc) \/ Push(t, "put", SendFrame(Blank))
    BY <1>13 DEF Vq1Recv, At
  <2>2. /\ [Top(t) EXCEPT !.pc = "put", !.desc = Top(t).desc] \in Frame
        /\ [Top(t) EXCEPT !.pc = "put"] \in Frame
        /\ SendFrame(Blank) \in Frame /\ Holding1(Top(t))
    BY <1>3, <2>1, FrameFacts, NewFrames DEF Message, Holding1
  <2>3. CASE Goto(t, "put", Top(t).desc)
    <3>1. /\ Len(stack'[t]) = Depth(t) /\ \A i \in 1 .. Depth(t) - 1 : stack'[t][i] = stack[t][i]
          /\ TopBecomes(t, "put", Top(t).desc)
      BY <1>1, <1>2, <2>2, <2>3, Gone
    <3>2. /\ Holding1(stack'[t][Depth(t)]) /\ stack'[t][Depth(t)].desc = Top(t).desc
          /\ stack'[t][Depth(t)].fn = Top(t).fn
      BY <2>1, <3>1 DEF TopBecomes, Holding1
    <3>3. /\ Nested(stack'[t])
          /\ RecvDescs(stack'[t]) = RecvDescs(stack[t]) \union {Top(t).desc}
      BY <1>1, <1>3, <2>2, <3>1, <3>2, TaskTop
    <3>4. Top(t).desc \in RecvDescs(stack[t])
      <4>1. Depth(t) \in 1 .. Len(stack[t])
        BY <1>3
      <4>2. Depth(t) \in Receives(stack[t])
        BY <1>3, <2>2, <4>1, ReceivesIs
      <4> QED
        BY <1>3, <4>2, ReceivesIs
    <3>5. RecvDescs(stack'[t]) = RecvDescs(stack[t])
      BY <3>3, <3>4
    <3> QED
      BY <1>5, <2>1, <3>3, <3>5 DEF t
  <2>4. CASE Push(t, "put", SendFrame(Blank))
    <3>1. /\ Len(stack'[t]) = Depth(t) + 1 /\ \A i \in 1 .. Depth(t) - 1 : stack'[t][i] = stack[t][i]
          /\ stack'[t][Depth(t)] = [Top(t) EXCEPT !.pc = "put"]
          /\ stack'[t][Depth(t) + 1] = SendFrame(Blank)
      BY <1>1, <1>2, <2>2, <2>4, Pushed
    <3>2. /\ stack'[t][Depth(t)].fn = Top(t).fn /\ stack'[t][Depth(t)].desc = Top(t).desc
          /\ stack'[t][Depth(t)].pc = IF Top(t).fn = "vq1" THEN "put" ELSE "take"
      BY <1>3, <2>1, <3>1, TopFields
    <3>3. /\ stack'[t][Depth(t) + 1].pc = "take"
          /\ stack'[t][Depth(t) + 1].fn = IF Top(t).fn = "vq1" THEN "send" ELSE "vq1"
      BY <2>1, <3>1 DEF SendFrame
    <3>4. Nested(stack'[t]) /\ RecvDescs(stack'[t]) = RecvDescs(stack[t])
      BY <1>1, <1>3, <2>2, <3>1, <3>2, <3>3, TaskCalls
    <3> QED
      BY <1>5, <2>1, <3>4 DEF t
  <2> QED
    BY <2>1, <2>3, <2>4
<1>14. CASE Vq1Put(t)
  <2>1. Top(t).fn = "vq1" /\ Top(t).pc = "put" /\ Holding1(Top(t))
        /\ \/ VQ1!PutUsedRead(t, Top(t).desc, 1) \/ VQ1!PutUsedId(t) \/ VQ1!PutUsedLen(t)
           \/ VQ1!PutUsedPublish(t)
    BY <1>14 DEF Vq1Put, At, Holding1
  <2>2. Top(t).desc \in vq1_held[t]
    <3>1. Depth(t) \in 1 .. Len(stack[t])
      BY <1>3
    <3>2. Depth(t) \in Receives(stack[t])
      BY <1>3, <2>1, <3>1, ReceivesIs
    <3> QED
      BY <1>1, <1>3, <3>2, ReceivesIs
  <2>3. S1!RingInv'
    BY <1>1, <2>1, <2>2, AloneNext DEF t
  <2>4. CASE VQ1!PutUsedPublish(t)
    <3>1. /\ Goto(t, "kick", Top(t).desc)
          /\ vq1_call[t].pc \in GivingPCs
          /\ vq1_held'[t] = vq1_held[t] \ {vq1_call[t].desc}
      BY <1>1, <1>3, <1>14, <2>1, <2>4, Giving1
         DEF Vq1Put, GivingPCs, VQ1!PutUsedPublish, VQ1!PutUsedRead, VQ1!PutUsedId,
             VQ1!PutUsedLen
    <3>2. vq1_call[t].desc = Top(t).desc
      BY <1>1, <3>1 DEF LeakOf
    <3>3. [Top(t) EXCEPT !.pc = "kick", !.desc = Top(t).desc] \in Frame
      BY <1>3, <2>1, FrameFacts
    <3>4. /\ Len(stack'[t]) = Depth(t) /\ \A i \in 1 .. Depth(t) - 1 : stack'[t][i] = stack[t][i]
          /\ TopBecomes(t, "kick", Top(t).desc)
      BY <1>1, <1>2, <3>1, <3>3, Gone
    <3>5. ~Holding1(stack'[t][Depth(t)]) /\ stack'[t][Depth(t)].fn = Top(t).fn
      BY <3>4 DEF TopBecomes, Holding1
    <3>6. Nested(stack'[t]) /\ RecvDescs(stack'[t]) = RecvDescs(stack[t]) \ {Top(t).desc}
      BY <1>1, <1>3, <2>1, <3>4, <3>5, TaskTop
    <3> QED
      BY <1>1, <2>3, <3>1, <3>2, <3>6 DEF t
  <2>5. CASE ~VQ1!PutUsedPublish(t)
    <3>1. Stay /\ vq1_held'[t] = vq1_held[t]
      <4>1. Stay
        BY <1>14, <2>5 DEF Vq1Put
      <4> QED
        BY <1>1, <1>3, <2>1, <2>5, <4>1, Giving1
    <3> QED
      BY <1>1, <1>6, <2>3, <3>1 DEF t
  <2> QED
    BY <2>4, <2>5
<1>15. CASE Vq1Kick(t)
  <2>1. /\ Top(t).fn = "vq1" /\ Top(t).pc = "kick" /\ UNCHANGED vq1
        /\ Stay \/ Pop(t) \/ Goto(t, "take", 0)
    BY <1>15 DEF Vq1Kick, At
  <2>2. ~Holding1(Top(t)) /\ [Top(t) EXCEPT !.pc = "take", !.desc = 0] \in Frame
    BY <1>3, <1>4, <2>1, FrameFacts DEF Holding1
  <2>3. Pop(t) => Nested(stack'[t]) /\ RecvDescs(stack'[t]) = RecvDescs(stack[t])
    BY <1>1, <1>2, <2>2, TaskReturns
  <2> QED
    BY <1>5, <1>6, <1>7, <2>1, <2>2, <2>3 DEF t
<1> QED
  BY <1>8, <1>9, <1>10, <1>11, <1>12, <1>13, <1>14, <1>15 DEF Step, t

\* With nothing to send vTask1 never leaves its delay.
LEMMA AloneKept ==
    ASSUME NActive = 0, LinkTypes, LeakInv, AloneInv, [Next]_vars
    PROVE  AloneInv'
<1>1. T1 \in Tasks /\ Rpmsg \in Tasks /\ T1 # Rpmsg /\ Tasks = {T1, Rpmsg}
  BY DEF Tasks, T1, Rpmsg
<1>2. /\ stack \in Stacks /\ base \in [Tasks -> BasePCs] /\ VQ1!TypeOK /\ active \in 0 .. NActive
      /\ base[T1] = "delay" /\ S1!RingInv
      /\ RecvDescs(stack[Rpmsg]) = vq1_held[Rpmsg] /\ Nested(stack[Rpmsg])
  BY DEF LinkTypes, TypeOK, Stacks, AloneInv
<1>3. ASSUME VQ1!LinuxReclaim \/ (\E d \in Desc : VQ1!LinuxOffer(d)) \/ UNCHANGED vq1,
             UNCHANGED stack, base'[T1] = "delay"
      PROVE  AloneInv'
  <2>1. S1!RingInv'
    BY <1>2, <1>3, AloneNext
  <2>2. vq1_held' = vq1_held
    BY <1>3 DEF VQ1!LinuxReclaim, VQ1!LinuxOffer, VQ1!core1Vars, vq1
  <2> QED
    BY <1>2, <1>3, <2>1, <2>2 DEF AloneInv
<1>4. CASE Linux
  <2>1. UNCHANGED stack /\ UNCHANGED base
    BY <1>4 DEF Linux, LinuxIrq, LinuxSend, LinuxRing, LinuxTxPoll, LinuxReclaimVq1,
                LinuxReceive, LinuxRefill, LinuxIrqRead, LinuxIrqDone, LinuxIrqClear, wake
  <2>2. VQ1!LinuxReclaim \/ (\E d \in Desc : VQ1!LinuxOffer(d)) \/ UNCHANGED vq1
    <3>1. CASE LinuxSend
      BY <1>2, <3>1, DescIs DEF LinuxSend, VQ1!TypeOK
    <3>2. CASE ~LinuxSend
      BY <1>4, <3>2
         DEF Linux, LinuxIrq, LinuxRing, LinuxTxPoll, LinuxReclaimVq1, LinuxReceive, LinuxRefill,
             LinuxIrqRead, LinuxIrqDone, LinuxIrqClear
    <3> QED
      BY <3>1, <3>2
  <2> QED
    BY <1>2, <1>3, <2>1, <2>2
<1>5. CASE IsrClear \/ IsrNotify \/ UNCHANGED vars
  <2>1. UNCHANGED stack /\ UNCHANGED base /\ UNCHANGED vq1
    BY <1>5 DEF IsrClear, IsrNotify, vars, wake
  <2> QED
    BY <1>2, <1>3, <2>1
<1>6. CASE NotifyTake
  <2>1. /\ UNCHANGED vq1 /\ base[Rpmsg] \in {"take", "blocked"}
        /\ \/ /\ base' = [base EXCEPT ![Rpmsg] = "poll"]
              /\ stack' = [stack EXCEPT ![Rpmsg] = <<Vq1Frame>>]
           \/ /\ base' = [base EXCEPT ![Rpmsg] = "blocked"]
              /\ stack' = stack
    BY <1>6 DEF NotifyTake
  <2>2. base'[T1] = "delay" /\ stack[Rpmsg] = <<>>
    BY <1>1, <1>2, <2>1 DEF LeakInv, AtHome
  <2>3. CASE stack' = stack
    BY <1>3, <2>1, <2>2, <2>3
  <2>4. CASE stack' = [stack EXCEPT ![Rpmsg] = <<Vq1Frame>>]
    <3>1. stack'[Rpmsg] = <<Vq1Frame>>
      BY <1>1, <1>2, <2>4 DEF Stacks
    <3>2. RecvDescs(<<>>) = {} /\ RecvDescs(<<Vq1Frame>>) = {} /\ Nested(<<Vq1Frame>>)
      BY DEF RecvDescs, Nested, Receives, Vq1Frame
    <3>3. S1!RingInv'
      BY <1>2, <2>1, AloneNext
    <3>4. vq1_held' = vq1_held
      BY <2>1 DEF vq1
    <3> QED
      BY <1>2, <2>2, <3>1, <3>2, <3>3, <3>4 DEF AloneInv
  <2> QED
    BY <2>1, <2>3, <2>4
<1>7. ~T1Wake /\ ~T1Check /\ ~Step(T1)
  <2>1. ~(active < NActive)
    BY <1>2
  <2>2. ~Running(T1)
    BY <1>2 DEF Running, Sleeping
  <2> QED
    BY <2>1, <2>2
       DEF T1Wake, T1Check, Step, SendTake, SendFill, SendPut, SendKick, Vq1Take, Vq1Recv,
           Vq1Put, Vq1Kick, At
<1>8. CASE Step(Rpmsg)
  <2>1. base'[T1] = "delay"
    BY <1>1, <1>2, <1>8, StepTypes
  <2> QED
    BY <1>8, <2>1, AloneStep DEF AloneInv
<1> QED
  BY <1>1, <1>4, <1>5, <1>6, <1>7, <1>8 DEF Next, Core1

LEMMA AloneInit == ASSUME Init, LinkTypes PROVE AloneInv
<1>1. base[T1] = "delay" /\ stack[Rpmsg] = <<>> /\ vq1_held[Rpmsg] = {} /\ VQ1!Init
  BY DEF Init, VQ1!Init, Tasks, T1, Rpmsg
<1>2. RecvDescs(<<>>) = {} /\ Nested(<<>>)
  BY DEF RecvDescs, Nested, Receives
<1>3. VQ1!TypeOK /\ Rpmsg \in Tasks
  BY DEF LinkTypes, TypeOK, Tasks
<1>4. S1!Init /\ S1!TypeOK
  <2>1. Calls1 \in [{Rpmsg} -> [pc : VQ1!PCs, desc : VQ1!Desc, idx : VQ1!Idx, len : Lens]]
        /\ Held1 \in [{Rpmsg} -> SUBSET VQ1!Desc]
    BY <1>3 DEF VQ1!TypeOK, Calls1, Held1
  <2>2. S1!TypeOK
    BY <1>3, <2>1 DEF VQ1!TypeOK, S1!TypeOK, VQ1!Desc, S1!Desc, VQ1!Idx, S1!Idx, VQ1!Slots,
                      S1!Slots, VQ1!Elem, S1!Elem, VQ1!PCs, S1!PCs
  <2>3. /\ Held1 = [t \in {Rpmsg} |-> {}]
        /\ Calls1 = [t \in {Rpmsg} |-> [pc |-> "out", desc |-> 0, idx |-> 0, len |-> 1]]
    BY <1>1, <1>3 DEF Init, VQ1!Init, Held1, Calls1, Lens
  <2> QED
    BY <1>1, <2>2, <2>3 DEF VQ1!Init, S1!Init, VQ1!Slots, S1!Slots, VQ1!Desc, S1!Desc, Lens
<1>5. S1!RingInv
  BY <1>4, S1!RingInit, RingAssumption
<1> QED
  BY <1>1, <1>2, <1>5 DEF AloneInv

(* While core1 only echoes, the mutual recursion of rpmsg_send and         *)
(* rpmsg_handle_vq1 (rpmsg_core.c:234, 285) is never deeper than two       *)
(* frames for each buffer of vq1 and one more: each level holds a buffer,  *)
(* and no two levels the same one.                                         *)
THEOREM StackBounded == ASSUME NActive = 0 PROVE Spec => []RecursionBounded
<1>1. Init => LinkTypes /\ LeakInv /\ AloneInv
  BY LinkTypesInit, LeakInit, AloneInit
<1>2. LinkTypes /\ LeakInv /\ AloneInv /\ [Next]_vars => (LinkTypes /\ LeakInv /\ AloneInv)'
  BY LinkTypesNext, LeakNext, AloneKept
<1>3. LinkTypes /\ LeakInv /\ AloneInv => RecursionBounded
  <2> SUFFICES ASSUME LinkTypes, LeakInv, AloneInv, NEW t \in Tasks
               PROVE  Depth(t) <= 2 * NUM + 1
    BY DEF RecursionBounded
  <2>1. CASE t = Rpmsg
    <3>1. stack[t] \in Seq(Frame) /\ Nested(stack[t])
      BY <2>1 DEF LinkTypes, TypeOK, AloneInv
    <3> QED
      BY <3>1, NestedBound DEF Depth
  <2>2. CASE t = T1
    <3>1. stack[t] = <<>>
      BY <2>2 DEF LeakInv, AtHome, AloneInv
    <3> QED
      BY <3>1, RingAssumption DEF Depth
  <2> QED
    BY <2>1, <2>2 DEF Tasks
<1> QED
  BY <1>1, <1>2, <1>3, PTL DEF Spec
-----------------------------------------------------------------------------
(* Nobody sleeps on a message                                              *)

\* A wake-up is on its way, or vRpmsgTask is awake, or a kick has failed.
Coming ==
    \/ notified
    \/ isr = "notify"
    \/ a2b_status
    \/ tx_queue > 0
    \/ ringing
    \/ kick_failed
    \/ stack[Rpmsg] # <<>>

StrandInv == vq1_last_avail # vq1_avail_idx => Coming

\* The last frame of vRpmsgTask, where it takes a step.
LEMMA TopOfStep ==
    ASSUME LinkTypes, AloneInv, Step(Rpmsg)
    PROVE  /\ stack \in Stacks /\ Rpmsg \in Tasks
           /\ Nested(stack[Rpmsg]) /\ stack[Rpmsg] # <<>>
           /\ Top(Rpmsg) \in Frame /\ Top(Rpmsg) = stack[Rpmsg][Depth(Rpmsg)]
           /\ Depth(Rpmsg) \in Nat \ {0} /\ Depth(Rpmsg) = Len(stack[Rpmsg])
           /\ vq0_call[Rpmsg].desc \in Desc /\ vq1_call[Rpmsg].desc \in Desc
           /\ 0 \in Desc /\ Top(Rpmsg).desc \in Desc
           /\ Depth(Rpmsg) = 1 => Top(Rpmsg).fn = "vq1"
<1> DEFINE t == Rpmsg
<1>1. stack \in Stacks /\ t \in Tasks /\ Nested(stack[t]) /\ stack[t] # <<>>
  BY StepTypes DEF LinkTypes, TypeOK, Stacks, AloneInv, Tasks
<1>2. /\ Top(t) \in Frame /\ Depth(t) \in Nat \ {0} /\ Depth(t) = Len(stack[t])
      /\ Top(t) = stack[t][Depth(t)]
  BY <1>1, TopIs DEF Depth
<1>3. vq0_call[t].desc \in Desc /\ vq1_call[t].desc \in Desc /\ 0 \in Desc /\ Top(t).desc \in Desc
  <2>1. vq0_call[t].desc \in Desc /\ vq1_call[t].desc \in Desc /\ 0 \in Desc
    BY <1>1, DescIs, RingAssumption DEF LinkTypes, TypeOK, VQ0!TypeOK, VQ1!TypeOK
  <2> QED
    BY <1>2, <2>1, FrameFacts
<1>4. Depth(t) = 1 => Top(t).fn = "vq1"
  <2>1. 1 % 2 = 1 /\ 1 \in 1 .. Depth(t)
    BY <1>2
  <2>2. stack[t][1].fn = IF 1 % 2 = 1 THEN "vq1" ELSE "send"
    BY <1>1, <1>2, <2>1 DEF Nested
  <2> QED
    BY <1>2, <2>1, <2>2
<1> QED
  BY <1>1, <1>2, <1>3, <1>4

\* What a step of vRpmsgTask may do to its last frame: it returns from
\* rpmsg_poll with vq1 empty, or with a kick of its own that failed.
LEMMA LastReturn ==
    ASSUME LinkTypes, AloneInv, Step(Rpmsg), stack'[Rpmsg] = <<>>
    PROVE  \/ kick_failed' /\ stack[Rpmsg][1].pc = "kick"
           \/ vq1_last_avail' = vq1_avail_idx'
<1> DEFINE t == Rpmsg
<1>1. stack \in Stacks /\ t \in Tasks /\ Nested(stack[t]) /\ stack[t] # <<>>
  BY TopOfStep
<1>2. /\ Top(t) \in Frame /\ Depth(t) \in Nat \ {0} /\ Depth(t) = Len(stack[t])
      /\ Top(t) = stack[t][Depth(t)] /\ Len(stack'[t]) = 0
  BY TopOfStep
<1>3. vq0_call[t].desc \in Desc /\ vq1_call[t].desc \in Desc /\ 0 \in Desc /\ Top(t).desc \in Desc
  BY TopOfStep
<1>4. Depth(t) = 1 => Top(t).fn = "vq1"
  BY TopOfStep
<1> HIDE DEF t
<1>5. ~Stay
  BY <1>1 DEF Stay, t
\* A frame that stays on the stack stays there.
<1>6. ASSUME NEW pc, NEW d, [Top(t) EXCEPT !.pc = pc, !.desc = d] \in Frame, Goto(t, pc, d)
      PROVE  FALSE
  BY <1>1, <1>2, <1>6, Gone
<1>7. ASSUME NEW ret, NEW f \in Frame, [Top(t) EXCEPT !.pc = ret] \in Frame, Push(t, ret, f)
      PROVE  FALSE
  BY <1>1, <1>2, <1>7, Pushed
<1>8. ASSUME Pop(t) PROVE Top(t).fn = "vq1" /\ Top(t) = stack[t][1]
  <2>1. Len(stack'[t]) = Depth(t) - 1
    BY <1>1, <1>8, Popped
  <2>2. Depth(t) - 1 = 0 /\ Depth(t) \in Nat
    BY <1>2, <2>1, Zenon
  <2>3. Depth(t) = 1
    BY <2>2
  <2> QED
    BY <1>2, <1>4, <2>3
<1>9. CASE SendTake(t)
  <2>1. Top(t).fn = "send"
    BY <1>9 DEF SendTake, At
  <2>2. /\ [Top(t) EXCEPT !.pc = "fill", !.desc = vq0_call[t].desc] \in Frame
        /\ [Top(t) EXCEPT !.pc = "take"] \in Frame
    BY <1>2, <1>3, <2>1, FrameFacts
  <2>3. Goto(t, "fill", vq0_call[t].desc) \/ Push(t, "take", Vq1Frame)
    BY <1>5, <1>9 DEF SendTake
  <2> QED
    BY <1>6, <1>7, <2>2, <2>3, NewFrames
<1>10. CASE SendFill(t)
  BY <1>1, <1>2, <1>10, Filled
<1>11. CASE SendPut(t)
  <2>1. Top(t).fn = "send" /\ Goto(t, "kick", Top(t).desc)
    BY <1>5, <1>11 DEF SendPut, At
  <2>2. [Top(t) EXCEPT !.pc = "kick", !.desc = Top(t).desc] \in Frame
    BY <1>2, <1>3, <2>1, FrameFacts
  <2> QED
    BY <1>6, <2>1, <2>2
<1>12. CASE SendKick(t)
  <2>1. Top(t).fn = "send" /\ Pop(t)
    BY <1>5, <1>12 DEF SendKick, At
  <2> QED
    BY <1>8, <2>1
<1>13. CASE Vq1Take(t)
  <2>1. Top(t).fn = "vq1"
    BY <1>13 DEF Vq1Take, At
  <2>2. [Top(t) EXCEPT !.pc = "recv", !.desc = vq1_call[t].desc] \in Frame
    BY <1>2, <1>3, <2>1, FrameFacts
  <2>3. VQ1!GetAvailEmpty(t)
    BY <1>5, <1>6, <1>13, <2>2 DEF Vq1Take
  <2> QED
    BY <2>3 DEF VQ1!GetAvailEmpty, VQ1!vars, VQ1!core1Vars, VQ1!linuxVars
<1>14. CASE Vq1Recv(t)
  <2>1. /\ Top(t).fn = "vq1"
        /\ Goto(t, "put", Top(t).desc) \/ Push(t, "put", SendFrame(Blank))
    BY <1>14 DEF Vq1Recv, At
  <2>2. /\ [Top(t) EXCEPT !.pc = "put", !.desc = Top(t).desc] \in Frame
        /\ [Top(t) EXCEPT !.pc = "put"] \in Frame
        /\ SendFrame(Blank) \in Frame
    BY <1>2, <1>3, <2>1, FrameFacts, NewFrames DEF Message
  <2> QED
    BY <1>6, <1>7, <2>1, <2>2
<1>15. CASE Vq1Put(t)
  <2>1. Top(t).fn = "vq1" /\ Goto(t, "kick", Top(t).desc)
    BY <1>5, <1>15 DEF Vq1Put, At
  <2>2. [Top(t) EXCEPT !.pc = "kick", !.desc = Top(t).desc] \in Frame
    BY <1>2, <1>3, <2>1, FrameFacts
  <2> QED
    BY <1>6, <2>1, <2>2
<1>16. CASE Vq1Kick(t)
  <2>1. Top(t).fn = "vq1" /\ Top(t).pc = "kick"
    BY <1>16 DEF Vq1Kick, At
  <2>2. [Top(t) EXCEPT !.pc = "take", !.desc = 0] \in Frame
    BY <1>2, <1>3, <2>1, FrameFacts
  <2>3. ~Goto(t, "take", 0)
    BY <1>6, <2>2
  <2>4. Pop(t) /\ kick_failed'
    BY <1>5, <1>16, <2>3 DEF Vq1Kick
  <2> QED
    BY <1>8, <2>1, <2>4 DEF t
<1> QED
  BY <1>9, <1>10, <1>11, <1>12, <1>13, <1>14, <1>15, <1>16 DEF Step, t

\* vTask1 has nothing to send and takes no step.
LEMMA T1Silent ==
    ASSUME NActive = 0, LinkTypes, base[T1] = "delay"
    PROVE  ~T1Wake /\ ~T1Check /\ ~Step(T1)
<1>1. ~(active < NActive)
  BY DEF LinkTypes, TypeOK
<1>2. ~Running(T1)
  BY DEF Running, Sleeping
<1> QED
  BY <1>1, <1>2
     DEF T1Wake, T1Check, Step, SendTake, SendFill, SendPut, SendKick, Vq1Take, Vq1Recv,
         Vq1Put, Vq1Kick, At

\* A doorbell that is rung is pending or queued, also when the queue is full.
LEMMA RungIsComing ==
    ASSUME MB!TypeOK, MB!LinuxSendMessage
    PROVE  tx_queue' > 0 \/ a2b_status'
<1>1. tx_queue \in Nat /\ TxQueueLen \in Nat \ {0}
  BY LinkAssumption DEF MB!TypeOK
<1>2. CASE tx_queue = TxQueueLen
  <2>1. tx_queue' = tx_queue
    BY <1>2 DEF MB!LinuxSendMessage, MB!a2bVars
  <2> QED
    BY <1>1, <1>2, <2>1
<1>3. CASE tx_queue # TxQueueLen
  <2>1. MB!Submit(tx_queue + 1)
    BY <1>3 DEF MB!LinuxSendMessage
  <2>2. tx_queue' = tx_queue + 1 \/ a2b_status' = TRUE
    BY <2>1, Zenon DEF MB!Submit
  <2>3. CASE tx_queue' = tx_queue + 1
    BY <1>1, <2>3
  <2>4. CASE a2b_status' = TRUE
    BY <2>4
  <2> QED
    BY <2>2, <2>3, <2>4
<1> QED
  BY <1>2, <1>3

\* A wake-up is spent only by somebody who then looks, and who leaves only
\* when vq1 is empty or a kick has failed.
LEMMA StrandNext ==
    ASSUME NActive = 0, LinkTypes, LeakInv, AloneInv, StrandInv, [Next]_vars
    PROVE  StrandInv'
<1>1. T1 \in Tasks /\ Rpmsg \in Tasks /\ T1 # Rpmsg /\ Tasks = {T1, Rpmsg}
  BY DEF Tasks, T1, Rpmsg
<1>2. MB!TypeOK /\ stack \in Stacks /\ base[T1] = "delay"
  BY DEF LinkTypes, TypeOK, Stacks, AloneInv
\* A step that leaves the indices of vq1 and takes no wake-up away.
<1>3. ASSUME vq1_last_avail' = vq1_last_avail, vq1_avail_idx' = vq1_avail_idx, Coming => Coming'
      PROVE  StrandInv'
  BY <1>3 DEF StrandInv
<1>4. CASE LinuxSend
  BY <1>4 DEF LinuxSend, StrandInv, Coming
<1>5. CASE LinuxRing
  <2>1. tx_queue' > 0 \/ a2b_status'
    BY <1>2, <1>5, RungIsComing DEF LinuxRing
  <2> QED
    BY <2>1 DEF StrandInv, Coming
<1>6. CASE LinuxTxPoll
  <2>1. /\ UNCHANGED <<vq1, lin, wake, stack, rest>>
        /\ MB!LinuxTxPoll
    BY <1>6 DEF LinuxTxPoll
  <2>2. ~a2b_status /\ tx_queue \in Nat
    BY <1>2, <2>1 DEF MB!LinuxTxPoll, MB!TypeOK
  <2>3. tx_queue = 0 \/ a2b_status'
    BY <2>1, Zenon DEF MB!LinuxTxPoll
  <2>4. CASE a2b_status'
    BY <2>4 DEF StrandInv, Coming
  <2>5. CASE tx_queue = 0
    <3>1. Coming => Coming'
      BY <2>1, <2>2, <2>5 DEF Coming, lin, wake, rest
    <3> QED
      BY <1>3, <2>1, <3>1 DEF vq1
  <2> QED
    BY <2>3, <2>4, <2>5
<1>7. CASE LinuxReclaimVq1
  <2>1. /\ UNCHANGED <<mbox, lin, wake, stack, rest>>
        /\ UNCHANGED <<vq1_last_avail, vq1_avail_idx>>
    BY <1>7 DEF LinuxReclaimVq1, VQ1!LinuxReclaim, VQ1!core1Vars
  <2>2. Coming => Coming'
    BY <2>1 DEF Coming, mbox, lin, wake, rest
  <2> QED
    BY <1>3, <2>1, <2>2
<1>8. CASE LinuxIrq
  <2>1. /\ UNCHANGED <<vq1, ringing, wake, stack, rest>>
        /\ UNCHANGED <<a2b_status, tx_queue>>
    BY <1>8 DEF LinuxIrq, LinuxIrqRead, LinuxReceive, LinuxRefill, LinuxIrqDone, LinuxIrqClear,
                lin, mbox, MB!IrqRead, MB!IrqReceived, MB!IrqClear, MB!a2bVars
  <2>2. Coming => Coming'
    BY <2>1 DEF Coming, wake, rest
  <2> QED
    BY <1>3, <2>1, <2>2 DEF vq1
<1>9. CASE IsrClear \/ IsrNotify
  <2>1. isr' = "notify" \/ notified'
    BY <1>9 DEF IsrClear, IsrNotify
  <2> QED
    BY <2>1 DEF StrandInv, Coming
<1>10. CASE NotifyTake
  <2>1. UNCHANGED <<vq1, mbox, lin, isr, rest>>
    BY <1>10 DEF NotifyTake
  <2>2. CASE notified
    <3>1. stack' = [stack EXCEPT ![Rpmsg] = <<Vq1Frame>>]
      BY <1>10, <2>2 DEF NotifyTake
    <3>2. stack'[Rpmsg] = <<Vq1Frame>> /\ <<Vq1Frame>> # <<>>
      BY <1>1, <1>2, <3>1 DEF Stacks
    <3> QED
      BY <3>2 DEF StrandInv, Coming
  <2>3. CASE ~notified
    <3>1. UNCHANGED <<notified, stack>>
      BY <1>10, <2>3 DEF NotifyTake
    <3>2. Coming => Coming'
      BY <2>1, <3>1 DEF Coming, mbox, lin, rest
    <3> QED
      BY <1>3, <2>1, <3>2 DEF vq1
  <2> QED
    BY <2>2, <2>3
<1>11. CASE Step(Rpmsg)
  <2>1. CASE stack'[Rpmsg] = <<>>
    BY <1>11, <2>1, LastReturn DEF StrandInv, Coming
  <2>2. CASE stack'[Rpmsg] # <<>>
    BY <2>2 DEF StrandInv, Coming
  <2> QED
    BY <2>1, <2>2
<1>12. CASE UNCHANGED vars
  <2>1. Coming => Coming'
    BY <1>12 DEF Coming, vars, mbox, lin, wake, rest
  <2> QED
    BY <1>3, <1>12, <2>1 DEF vars, vq1
<1>13. ~T1Wake /\ ~T1Check /\ ~Step(T1)
  BY <1>2, T1Silent
<1> QED
  BY <1>1, <1>4, <1>5, <1>6, <1>7, <1>8, <1>9, <1>10, <1>11, <1>12, <1>13 DEF Next, Core1, Linux

(* vRpmsgTask does not sleep on a message of vq1: while it waits for a      *)
(* notification one is on its way, unless the last kick timed out.  Whatever*)
(* the length of the mailbox queue, and although rpmsg_send polls vq1 from  *)
(* inside rpmsg_handle_vq1 (rpmsg_core.c:234), its last return from         *)
(* rpmsg_poll finds the ring empty.                                         *)
THEOREM NobodyStranded == ASSUME NActive = 0 PROVE Spec => []NoMessageStranded
<1>1. Init => LinkTypes /\ LeakInv /\ AloneInv /\ StrandInv
  <2>1. ASSUME Init PROVE vq1_last_avail = 0 /\ vq1_avail_idx = 0
    BY <2>1 DEF Init, VQ1!Init
  <2> QED
    BY <2>1, LinkTypesInit, LeakInit, AloneInit DEF StrandInv
<1>2. LinkTypes /\ LeakInv /\ AloneInv /\ StrandInv /\ [Next]_vars
        => (LinkTypes /\ LeakInv /\ AloneInv /\ StrandInv)'
  BY LinkTypesNext, LeakNext, AloneKept, StrandNext
<1>3. LinkTypes /\ LeakInv /\ StrandInv => NoMessageStranded
  <2> SUFFICES ASSUME LinkTypes, LeakInv, StrandInv, VQ1!Offered # <<>>,
                      base[Rpmsg] \in {"take", "blocked"}
               PROVE  Coming /\ stack[Rpmsg] = <<>>
    BY DEF NoMessageStranded, Coming
  <2>1. stack[Rpmsg] = <<>>
    BY DEF LeakInv, AtHome
  <2>2. vq1_last_avail # vq1_avail_idx
    <3> SUFFICES ASSUME vq1_last_avail = vq1_avail_idx PROVE FALSE
      OBVIOUS
    <3>1. vq1_avail_idx \in Nat /\ IDXMOD \in Nat \ {0}
      BY RingAssumption DEF LinkTypes, TypeOK, VQ1!TypeOK, VQ1!Idx
    <3>2. (vq1_avail_idx - vq1_last_avail) = 0
      BY <3>1
    <3>3. VQ1!Ahead(vq1_last_avail, vq1_avail_idx) = 0
      BY <3>1, <3>2 DEF VQ1!Ahead
    <3> QED
      BY <3>3 DEF VQ1!Offered
  <2> QED
    BY <2>1, <2>2 DEF StrandInv
<1> QED
  BY <1>1, <1>2, <1>3, PTL DEF Spec
-----------------------------------------------------------------------------
(* The link is never dead                                                  *)

\* A doorbell, or the notification it leads to, is on its way.
Awaited ==
    \/ notified
    \/ isr = "notify"
    \/ a2b_status
    \/ tx_queue > 0
    \/ ringing

\* What the rings of vq1 say of a descriptor.
LEMMA Hand1 ==
    ASSUME S1!RingInv, NEW d \in Desc
    PROVE  /\ d \in vq1_free \/ S1!InAvail(d) \/ d \in vq1_held[Rpmsg] \/ S1!InUsed(d)
           /\ d \in vq1_free => ~S1!InAvail(d) /\ d \notin vq1_held[Rpmsg] /\ ~S1!InUsed(d)
           /\ S1!InAvail(d) => d \notin vq1_held[Rpmsg] /\ ~S1!InUsed(d)
           /\ d \in vq1_held[Rpmsg] => ~S1!InUsed(d)
<1>1. S1!Held(d) <=> d \in vq1_held[Rpmsg]
  BY DEF S1!Held, Held1
<1> QED
  BY <1>1, DescIs DEF S1!RingInv, S1!Hands, S1!OneHand, S1!Desc

\* The same after a step.
LEMMA Hand1Next ==
    ASSUME S1!RingInv', NEW d \in Desc
    PROVE  /\ d \in vq1_free' \/ S1!InAvail(d)' \/ d \in vq1_held'[Rpmsg] \/ S1!InUsed(d)'
           /\ d \in vq1_free' => ~S1!InAvail(d)' /\ d \notin vq1_held'[Rpmsg] /\ ~S1!InUsed(d)'
           /\ S1!InAvail(d)' => d \notin vq1_held'[Rpmsg] /\ ~S1!InUsed(d)'
           /\ d \in vq1_held'[Rpmsg] => ~S1!InUsed(d)'
<1>1. S1!Held(d)' <=> d \in vq1_held'[Rpmsg]
  BY DEF S1!Held, Held1
<1> QED
  BY <1>1, DescIs DEF S1!RingInv, S1!Hands, S1!OneHand, S1!Desc

\* What is in a ring depends on that ring and its two indices only.
LEMMA SameAvail1 ==
    ASSUME UNCHANGED <<vq1_avail_idx, vq1_avail_ring, vq1_last_avail>>, NEW d
    PROVE  S1!InAvail(d)' <=> S1!InAvail(d)
  BY DEF S1!InAvail, S1!Entry, S1!At, S1!Waiting

LEMMA SameUsed1 ==
    ASSUME UNCHANGED <<vq1_used_idx, vq1_used_ring, vq1_last_used>>, NEW d
    PROVE  S1!InUsed(d)' <=> S1!InUsed(d)
  BY DEF S1!InUsed, S1!Entry, S1!At, S1!Done

\* Linux offers a buffer of vq1 that was in nobody's hands.
LEMMA Offers1 ==
    ASSUME S1!RingInv, S1!RingInv', NEW d \in Desc, VQ1!LinuxOffer(d)
    PROVE  /\ ~S1!InAvail(d) /\ d \notin vq1_held[Rpmsg]
           /\ \A x \in Desc : S1!InAvail(x)' => x = d \/ S1!InAvail(x)
           /\ vq1_held' = vq1_held
<1>1. /\ d \in vq1_free /\ vq1_free' = vq1_free \ {d} /\ vq1_held' = vq1_held
      /\ UNCHANGED <<vq1_used_idx, vq1_used_ring, vq1_last_used>>
  BY DEF VQ1!LinuxOffer, VQ1!core1Vars
<1>2. \A x \in Desc : S1!InUsed(x)' <=> S1!InUsed(x)
  BY <1>1, SameUsed1
<1>3. ASSUME NEW x \in Desc, S1!InAvail(x)', x # d PROVE S1!InAvail(x)
  <2>1. x \notin vq1_free' /\ x \notin vq1_held'[Rpmsg] /\ ~S1!InUsed(x)'
    BY <1>3, Hand1Next
  <2> QED
    BY <1>1, <1>2, <1>3, <2>1, Hand1
<1> QED
  BY <1>1, <1>3, Hand1

\* core1 takes a buffer of vq1 that was in the avail ring.
LEMMA Takes1 ==
    ASSUME VQ1!TypeOK, S1!RingInv, S1!RingInv', VQ1!GetAvailStore(Rpmsg),
           NEW d, d = vq1_call[Rpmsg].desc
    PROVE  /\ d \in Desc /\ S1!InAvail(d)
           /\ \A x \in Desc : S1!InAvail(x)' => S1!InAvail(x)
<1>1. /\ vq1_call \in [Tasks -> [pc : VQ1!PCs, desc : VQ1!Desc, idx : VQ1!Idx, len : Lens]]
      /\ vq1_held \in [Tasks -> SUBSET VQ1!Desc] /\ Rpmsg \in Tasks
  BY DEF VQ1!TypeOK, Tasks
<1>2. d \in Desc
  BY <1>1, DescIs
<1>3. /\ vq1_held'[Rpmsg] = vq1_held[Rpmsg] \union {d}
      /\ UNCHANGED <<vq1_free, vq1_used_idx, vq1_used_ring, vq1_last_used>>
      /\ vq1_call[Rpmsg].pc = "store"
  BY <1>1 DEF VQ1!GetAvailStore, VQ1!linuxVars
<1>4. \A x \in Desc : S1!InUsed(x)' <=> S1!InUsed(x)
  BY <1>3, SameUsed1
<1>5. d \notin vq1_held[Rpmsg]
  <2>1. Calls1[Rpmsg] = vq1_call[Rpmsg] /\ Held1[Rpmsg] = vq1_held[Rpmsg] /\ Rpmsg \in {Rpmsg}
    BY DEF Calls1, Held1
  <2>2. Calls1[Rpmsg].pc = "store"
    BY <1>3, <2>1
  <2>3. Calls1[Rpmsg].desc \in S1!Desc \ Held1[Rpmsg]
    BY <2>1, <2>2, S1!TakenIsNew, RingAssumption
  <2> QED
    BY <2>1, <2>3
<1>6. S1!InAvail(d)
  <2>1. d \in vq1_held'[Rpmsg]
    BY <1>3
  <2>2. d \notin vq1_free' /\ ~S1!InUsed(d)'
    BY <1>2, <2>1, Hand1Next
  <2> QED
    BY <1>2, <1>3, <1>4, <1>5, <2>2, Hand1
<1>7. ASSUME NEW x \in Desc, S1!InAvail(x)' PROVE S1!InAvail(x)
  <2>1. x \notin vq1_free' /\ x \notin vq1_held'[Rpmsg] /\ ~S1!InUsed(x)'
    BY <1>7, Hand1Next
  <2> QED
    BY <1>3, <1>4, <2>1, Hand1
<1> QED
  BY <1>2, <1>6, <1>7

\* Not every buffer of vq1 waits for core1 or is in its hands.
AtCore1(d) == S1!InAvail(d) \/ d \in vq1_held[Rpmsg]
Room == \E d \in Desc : ~AtCore1(d)

\* So it is when rpmsg_poll has returned, and already when it is at its own
\* kick, whose failure would make it return.
RoomInv ==
    stack[Rpmsg] = <<>> \/ stack[Rpmsg][1].pc = "kick" => Room \/ Awaited

\* The first frame, that of the poll in vRpmsgTask's loop, comes to its kick
\* by giving back the buffer it has handled.
LEMMA FirstKick ==
    ASSUME LinkTypes, AloneInv, Step(Rpmsg), stack'[Rpmsg] # <<>>,
           stack'[Rpmsg][1].pc = "kick"
    PROVE  stack[Rpmsg][1].pc = "kick" \/ VQ1!PutUsedPublish(Rpmsg)
<1> DEFINE t == Rpmsg
<1>1. /\ stack \in Stacks /\ t \in Tasks /\ Nested(stack[t]) /\ stack[t] # <<>>
      /\ Top(t) \in Frame /\ Top(t) = stack[t][Depth(t)]
      /\ Depth(t) \in Nat \ {0} /\ Depth(t) = Len(stack[t])
      /\ vq0_call[t].desc \in Desc /\ vq1_call[t].desc \in Desc
      /\ 0 \in Desc /\ Top(t).desc \in Desc
      /\ Depth(t) = 1 => Top(t).fn = "vq1"
  BY TopOfStep
<1> SUFFICES ASSUME stack[t][1].pc # "kick" PROVE VQ1!PutUsedPublish(t)
  OBVIOUS
<1> HIDE DEF t
<1>2. stack'[t] # <<>> /\ stack'[t][1].pc = "kick" /\ Step(t)
  BY DEF t
<1>3. ~Stay
  BY <1>2 DEF Stay
\* A step above the first frame leaves it where it is.
<1>4. ASSUME \A i \in 1 .. Depth(t) - 1 : stack'[t][i] = stack[t][i], Depth(t) # 1
      PROVE  FALSE
  <2>1. Depth(t) \in Nat \ {0} /\ Depth(t) # 1
    BY <1>1, <1>4
  <2>2. \A n \in Nat \ {0} : n # 1 => 1 \in 1 .. n - 1
    OBVIOUS
  <2>3. 1 \in 1 .. Depth(t) - 1
    BY <2>1, <2>2
  <2> QED
    BY <1>2, <1>4, <2>3
<1>5. ASSUME NEW pc, NEW d, [Top(t) EXCEPT !.pc = pc, !.desc = d] \in Frame, Goto(t, pc, d),
             pc # "kick" \/ Depth(t) # 1
      PROVE  FALSE
  <2>1. \A i \in 1 .. Depth(t) - 1 : stack'[t][i] = stack[t][i]
    <3>1. stack \in Stacks /\ t \in Tasks /\ stack[t] # <<>>
      BY <1>1
    <3> QED
      BY <1>5, <3>1, Gone
  <2>2. TopBecomes(t, pc, d)
    <3>1. stack \in Stacks /\ t \in Tasks /\ stack[t] # <<>>
      BY <1>1
    <3> QED
      BY <1>5, <3>1, Gone
  <2>3. stack'[t][Depth(t)].pc = pc
    BY <2>2 DEF TopBecomes
  <2> QED
    BY <1>2, <1>4, <1>5, <2>1, <2>3
<1>6. ASSUME NEW ret, NEW f \in Frame, [Top(t) EXCEPT !.pc = ret] \in Frame, Push(t, ret, f),
             ret # "kick"
      PROVE  FALSE
  <2>1. \A i \in 1 .. Depth(t) - 1 : stack'[t][i] = stack[t][i]
    BY <1>1, <1>6, Pushed
  <2>2. stack'[t][Depth(t)].pc = ret
    <3> DEFINE g == [Top(t) EXCEPT !.pc = ret]
    <3>1. g.pc = ret
      BY <1>1, TopFields
    <3> HIDE DEF g
    <3>2. stack'[t][Depth(t)] = g
      BY <1>1, <1>6, Pushed DEF g
    <3> QED
      BY <3>1, <3>2
  <2> QED
    BY <1>2, <1>4, <1>6, <2>1, <2>2
<1>7. ~Pop(t)
  <2> SUFFICES ASSUME Pop(t) PROVE FALSE
    OBVIOUS
  <2>1. /\ \A i \in 1 .. Depth(t) - 1 : stack'[t][i] = stack[t][i]
        /\ Depth(t) = 1 => stack'[t] = <<>>
    BY <1>1, Popped
  <2> QED
    BY <1>2, <1>4, <2>1
<1>8. ~SendTake(t)
  <2> SUFFICES ASSUME SendTake(t) PROVE FALSE
    OBVIOUS
  <2>1. Top(t).fn = "send"
    BY DEF SendTake, At
  <2>2. /\ [Top(t) EXCEPT !.pc = "fill", !.desc = vq0_call[t].desc] \in Frame
        /\ [Top(t) EXCEPT !.pc = "take"] \in Frame
    BY <1>1, <2>1, FrameFacts
  <2>3. Goto(t, "fill", vq0_call[t].desc) \/ Push(t, "take", Vq1Frame)
    BY <1>3 DEF SendTake
  <2> QED
    BY <1>5, <1>6, <2>2, <2>3, NewFrames
<1>9. ~SendFill(t)
  <2> SUFFICES ASSUME SendFill(t) PROVE FALSE
    OBVIOUS
  <2>1. Top(t).fn = "send" /\ \A i \in 1 .. Depth(t) - 1 : stack'[t][i] = stack[t][i]
    BY <1>1, Filled DEF SendFill, At
  <2>2. Depth(t) # 1
    BY <1>1, <2>1
  <2> QED
    BY <1>4, <2>1, <2>2
<1>10. ~SendPut(t)
  <2> SUFFICES ASSUME SendPut(t) PROVE FALSE
    OBVIOUS
  <2>1. Top(t).fn = "send" /\ Goto(t, "kick", Top(t).desc)
    BY <1>3 DEF SendPut, At
  <2>2. [Top(t) EXCEPT !.pc = "kick", !.desc = Top(t).desc] \in Frame /\ Depth(t) # 1
    BY <1>1, <2>1, FrameFacts
  <2> QED
    BY <1>5, <2>1, <2>2
<1>11. ~SendKick(t)
  BY <1>3, <1>7 DEF SendKick
<1>12. ~Vq1Take(t)
  <2> SUFFICES ASSUME Vq1Take(t) PROVE FALSE
    OBVIOUS
  <2>1. Top(t).fn = "vq1" /\ Goto(t, "recv", vq1_call[t].desc)
    BY <1>3, <1>7 DEF Vq1Take, At
  <2>2. [Top(t) EXCEPT !.pc = "recv", !.desc = vq1_call[t].desc] \in Frame
    BY <1>1, <2>1, FrameFacts
  <2> QED
    BY <1>5, <2>1, <2>2
<1>13. ~Vq1Recv(t)
  <2> SUFFICES ASSUME Vq1Recv(t) PROVE FALSE
    OBVIOUS
  <2>1. /\ Top(t).fn = "vq1"
        /\ Goto(t, "put", Top(t).desc) \/ Push(t, "put", SendFrame(Blank))
    BY DEF Vq1Recv, At
  <2>2. /\ [Top(t) EXCEPT !.pc = "put", !.desc = Top(t).desc] \in Frame
        /\ [Top(t) EXCEPT !.pc = "put"] \in Frame
        /\ SendFrame(Blank) \in Frame
    BY <1>1, <2>1, FrameFacts, NewFrames DEF Message
  <2> QED
    BY <1>5, <1>6, <2>1, <2>2
<1>14. ~Vq1Kick(t)
  <2> SUFFICES ASSUME Vq1Kick(t) PROVE FALSE
    OBVIOUS
  <2>1. Top(t).fn = "vq1" /\ Goto(t, "take", 0)
    BY <1>3, <1>7 DEF Vq1Kick, At
  <2>2. [Top(t) EXCEPT !.pc = "take", !.desc = 0] \in Frame
    BY <1>1, <2>1, FrameFacts
  <2> QED
    BY <1>5, <2>1, <2>2
<1>15. Vq1Put(t)
  BY <1>2, <1>8, <1>9, <1>10, <1>11, <1>12, <1>13, <1>14 DEF Step
<1> QED
  BY <1>3, <1>15 DEF Vq1Put

\* A wake-up that is on its way is spent only by waking vRpmsgTask.
LEMMA AwaitedKept ==
    ASSUME NActive = 0, LinkTypes, AloneInv, Awaited, [Next]_vars
    PROVE  Awaited' \/ stack'[Rpmsg] = <<Vq1Frame>>
<1>1. T1 \in Tasks /\ Rpmsg \in Tasks /\ Tasks = {T1, Rpmsg}
  BY DEF Tasks
<1>2. MB!TypeOK /\ stack \in Stacks /\ base[T1] = "delay"
  BY DEF LinkTypes, TypeOK, Stacks, AloneInv
<1>3. CASE LinuxSend
  BY <1>3 DEF LinuxSend, Awaited
<1>4. CASE LinuxRing
  <2>1. tx_queue' > 0 \/ a2b_status'
    BY <1>2, <1>4, RungIsComing DEF LinuxRing
  <2> QED
    BY <2>1 DEF Awaited
<1>5. CASE LinuxTxPoll
  <2>1. UNCHANGED <<lin, wake>> /\ MB!LinuxTxPoll
    BY <1>5 DEF LinuxTxPoll
  <2>2. ~a2b_status /\ tx_queue \in Nat
    BY <1>2, <2>1 DEF MB!LinuxTxPoll, MB!TypeOK
  <2>3. tx_queue = 0 \/ a2b_status'
    BY <2>1, Zenon DEF MB!LinuxTxPoll
  <2>4. CASE a2b_status'
    BY <2>4 DEF Awaited
  <2>5. CASE tx_queue = 0
    BY <2>1, <2>2, <2>5 DEF Awaited, lin, wake
  <2> QED
    BY <2>3, <2>4, <2>5
<1>6. CASE IsrClear \/ IsrNotify
  <2>1. isr' = "notify" \/ notified'
    BY <1>6 DEF IsrClear, IsrNotify
  <2> QED
    BY <2>1 DEF Awaited
<1>7. CASE NotifyTake
  <2>1. UNCHANGED <<mbox, lin, isr>>
    BY <1>7 DEF NotifyTake
  <2>2. CASE notified
    BY <1>1, <1>2, <1>7, <2>2 DEF NotifyTake, Stacks
  <2>3. CASE ~notified
    <3>1. UNCHANGED notified
      BY <1>7, <2>3 DEF NotifyTake
    <3> QED
      BY <2>1, <3>1 DEF Awaited, mbox, lin
  <2> QED
    BY <2>2, <2>3
<1>8. CASE LinuxReclaimVq1 \/ LinuxIrq \/ Step(Rpmsg) \/ UNCHANGED vars
  <2>1. UNCHANGED <<a2b_status, tx_queue, ringing, notified, isr>>
    <3>1. CASE LinuxReclaimVq1 \/ UNCHANGED vars
      BY <3>1 DEF LinuxReclaimVq1, vars, mbox, lin, wake
    <3>2. CASE LinuxIrq
      BY <3>2 DEF LinuxIrq, LinuxIrqRead, LinuxReceive, LinuxRefill, LinuxIrqDone, LinuxIrqClear,
                  lin, mbox, wake, MB!IrqRead, MB!IrqReceived, MB!IrqClear, MB!a2bVars
    <3>3. CASE Step(Rpmsg)
      <4>1. UNCHANGED <<lin, isr, notified>>
        BY <3>3 DEF Step, SendTake, SendFill, SendPut, SendKick, Vq1Take, Vq1Recv, Vq1Put, Vq1Kick
      <4>2. UNCHANGED <<a2b_status, tx_queue>>
        <5>1. CASE SendKick(Rpmsg) \/ Vq1Kick(Rpmsg)
          BY <5>1 DEF SendKick, Vq1Kick, MB!KickReady, MB!KickWrite, MB!KickTimeout, MB!a2bVars,
                      MB!vars
        <5>2. CASE ~(SendKick(Rpmsg) \/ Vq1Kick(Rpmsg))
          <6>1. UNCHANGED mbox
            BY <3>3, <5>2 DEF Step, SendTake, SendFill, SendPut, Vq1Take, Vq1Recv, Vq1Put
          <6> QED
            BY <6>1 DEF mbox
        <5> QED
          BY <5>1, <5>2
      <4> QED
        BY <4>1, <4>2 DEF lin
    <3> QED
      BY <1>8, <3>1, <3>2, <3>3
  <2> QED
    BY <2>1 DEF Awaited
<1>9. ~T1Wake /\ ~T1Check /\ ~Step(T1)
  BY <1>2, T1Silent
<1> QED
  BY <1>1, <1>3, <1>4, <1>5, <1>6, <1>7, <1>8, <1>9 DEF Next, Core1, Linux

\* core1 gets a buffer of vq1 from Linux only, and with it comes a doorbell.
LEMMA RoomKept ==
    ASSUME NActive = 0, LinkTypes, LeakInv, AloneInv, Room, [Next]_vars
    PROVE  Room' \/ Awaited'
<1>1. /\ VQ1!TypeOK /\ S1!RingInv /\ S1!RingInv' /\ base[T1] = "delay"
      /\ Rpmsg \in Tasks /\ Tasks = {T1, Rpmsg}
  BY AloneKept DEF LinkTypes, TypeOK, AloneInv, Tasks
\* It is enough that no further buffer comes to core1.
<1>2. ASSUME \A x \in Desc : AtCore1(x)' => AtCore1(x) PROVE Room'
  BY <1>2 DEF Room
<1>3. ASSUME UNCHANGED <<vq1_avail_idx, vq1_avail_ring, vq1_last_avail>>,
             vq1_held'[Rpmsg] \subseteq vq1_held[Rpmsg]
      PROVE  Room'
  BY <1>2, <1>3, SameAvail1 DEF AtCore1
<1>4. CASE LinuxSend
  BY <1>4 DEF LinuxSend, Awaited
<1>5. CASE LinuxReclaimVq1
  <2>1. UNCHANGED <<vq1_avail_idx, vq1_avail_ring, vq1_last_avail, vq1_held>>
    BY <1>5 DEF LinuxReclaimVq1, VQ1!LinuxReclaim, VQ1!core1Vars
  <2> QED
    BY <1>3, <2>1
<1>6. CASE Vq1Take(Rpmsg)
  <2>1. GetAvail1(Rpmsg)
    BY <1>6 DEF Vq1Take, GetAvail1
  <2>2. CASE VQ1!GetAvailStore(Rpmsg)
    <3> DEFINE d == vq1_call[Rpmsg].desc
    <3>1. d \in Desc /\ S1!InAvail(d) /\ \A x \in Desc : S1!InAvail(x)' => S1!InAvail(x)
      BY <1>1, <2>2, Takes1
    <3>2. vq1_held'[Rpmsg] = vq1_held[Rpmsg] \union {d}
      BY <1>1, <2>1, <2>2, Taking1
    <3> QED
      BY <1>2, <3>1, <3>2 DEF AtCore1
  <2>3. CASE ~VQ1!GetAvailStore(Rpmsg)
    <3>1. vq1_held'[Rpmsg] = vq1_held[Rpmsg]
      BY <1>1, <2>1, <2>3, Taking1
    <3>2. UNCHANGED <<vq1_avail_idx, vq1_avail_ring, vq1_last_avail>>
      BY <2>1, <2>3 DEF GetAvail1, VQ1!GetAvailCheck, VQ1!GetAvailRing, VQ1!GetAvailLoad,
                        VQ1!GetAvailEmpty, VQ1!linuxVars, VQ1!vars, VQ1!core1Vars
    <3> QED
      BY <1>3, <3>1, <3>2
  <2> QED
    BY <2>2, <2>3
<1>7. CASE Vq1Put(Rpmsg)
  <2>1. Top(Rpmsg).desc \in Desc
    BY <1>7, TopOfStep DEF Step
  <2>2. \/ VQ1!PutUsedRead(Rpmsg, Top(Rpmsg).desc, 1) \/ VQ1!PutUsedId(Rpmsg)
        \/ VQ1!PutUsedLen(Rpmsg) \/ VQ1!PutUsedPublish(Rpmsg)
    BY <1>7 DEF Vq1Put
  <2>3. vq1_held'[Rpmsg] \subseteq vq1_held[Rpmsg]
    BY <1>1, <2>1, <2>2, Giving1
  <2>4. UNCHANGED <<vq1_avail_idx, vq1_avail_ring, vq1_last_avail>>
    BY <2>2 DEF VQ1!PutUsedRead, VQ1!PutUsedId, VQ1!PutUsedLen, VQ1!PutUsedPublish, VQ1!linuxVars
  <2> QED
    BY <1>3, <2>3, <2>4
<1>8. CASE UNCHANGED vq1
  BY <1>3, <1>8 DEF vq1
<1>9. ~T1Wake /\ ~T1Check /\ ~Step(T1)
  BY <1>1, T1Silent
<1>10. LinuxRing \/ LinuxTxPoll \/ LinuxIrq \/ IsrClear \/ IsrNotify \/ NotifyTake
          \/ SendTake(Rpmsg) \/ SendFill(Rpmsg) \/ SendPut(Rpmsg) \/ SendKick(Rpmsg)
          \/ Vq1Recv(Rpmsg) \/ Vq1Kick(Rpmsg) \/ UNCHANGED vars
       => UNCHANGED vq1
  BY DEF LinuxRing, LinuxTxPoll, LinuxIrq, LinuxIrqRead, LinuxReceive, LinuxRefill, LinuxIrqDone,
         LinuxIrqClear, IsrClear, IsrNotify, NotifyTake, SendTake, SendFill, SendPut, SendKick,
         Vq1Recv, Vq1Kick, vars
<1> QED
  BY <1>1, <1>4, <1>5, <1>6, <1>7, <1>8, <1>9, <1>10 DEF Next, Core1, Linux, Step

\* A buffer that was given back is nowhere at core1.
LEMMA PublishMakesRoom ==
    ASSUME LinkTypes, LeakInv, AloneInv, VQ1!PutUsedPublish(Rpmsg),
           NEW d, d = vq1_call[Rpmsg].desc
    PROVE  Room'
<1>1. /\ VQ1!TypeOK /\ S1!RingInv /\ Rpmsg \in Tasks
      /\ vq1_call \in [Tasks -> [pc : VQ1!PCs, desc : VQ1!Desc, idx : VQ1!Idx, len : Lens]]
  BY DEF LinkTypes, TypeOK, VQ1!TypeOK, AloneInv, Tasks
<1>2. vq1_call[Rpmsg].pc = "publish" /\ d \in Desc
  BY <1>1, DescIs DEF VQ1!PutUsedPublish
<1>3. vq1_held'[Rpmsg] = vq1_held[Rpmsg] \ {d}
  BY <1>1, <1>2, Giving1
<1>4. d \in vq1_held[Rpmsg]
  <2>1. Calls1[Rpmsg] = vq1_call[Rpmsg] /\ Held1[Rpmsg] = vq1_held[Rpmsg] /\ Rpmsg \in {Rpmsg}
    BY DEF Calls1, Held1
  <2>2. S1!CallInv
    BY <1>1 DEF S1!RingInv
  <2>3. Calls1[Rpmsg].pc \in {"id", "len", "publish"} => Calls1[Rpmsg].desc \in Held1[Rpmsg]
    BY <2>2, Zenon DEF S1!CallInv
  <2>4. Calls1[Rpmsg].pc = "publish" /\ Calls1[Rpmsg].desc = d
    BY <1>2, <2>1
  <2> QED
    BY <2>1, <2>3, <2>4
<1>5. ~S1!InAvail(d)
  BY <1>1, <1>2, <1>4, Hand1
<1>6. UNCHANGED <<vq1_avail_idx, vq1_avail_ring, vq1_last_avail>>
  BY DEF VQ1!PutUsedPublish, VQ1!linuxVars
<1>7. ~AtCore1(d)'
  BY <1>3, <1>5, <1>6, SameAvail1 DEF AtCore1
<1> QED
  BY <1>2, <1>7 DEF Room

\* vRpmsgTask has nothing in its hands when rpmsg_poll returns with vq1 empty.
LEMMA EmptyMakesRoom ==
    ASSUME LinkTypes, AloneInv, stack[Rpmsg] = <<>>, vq1_last_avail = vq1_avail_idx
    PROVE  Room
<1>1. vq1_held[Rpmsg] = {}
  BY DEF AloneInv, RecvDescs
<1>2. vq1_avail_idx \in Nat /\ IDXMOD \in Nat \ {0}
  BY RingAssumption DEF LinkTypes, TypeOK, VQ1!TypeOK, VQ1!Idx
<1>3. vq1_avail_idx - vq1_last_avail = 0
  BY <1>2
<1>4. S1!Waiting = 0
  BY <1>2, <1>3 DEF S1!Waiting, S1!Ahead
<1>5. ~S1!InAvail(0)
  BY <1>4 DEF S1!InAvail
<1>6. 0 \in Desc
  BY RingAssumption, DescIs
<1> QED
  BY <1>1, <1>5, <1>6 DEF Room, AtCore1

\* The same after a step.
LEMMA EmptyMakesRoomNext ==
    ASSUME LinkTypes', AloneInv', stack'[Rpmsg] = <<>>, vq1_last_avail' = vq1_avail_idx'
    PROVE  Room'
<1>1. vq1_held'[Rpmsg] = {}
  BY DEF AloneInv, RecvDescs
<1>2. vq1_avail_idx' \in Nat /\ IDXMOD \in Nat \ {0}
  BY RingAssumption DEF LinkTypes, TypeOK, VQ1!TypeOK, VQ1!Idx
<1>3. \A x \in Nat, m \in Nat \ {0} : (x - x) % m = 0
  OBVIOUS
<1>4. S1!Waiting' = 0
  <2>1. S1!Waiting' = (vq1_avail_idx' - vq1_avail_idx') % IDXMOD
    BY DEF S1!Waiting, S1!Ahead
  <2> QED
    BY <1>2, <1>3, <2>1
<1>5. ~S1!InAvail(0)'
  BY <1>4 DEF S1!InAvail
<1>6. 0 \in Desc
  BY RingAssumption, DescIs
<1> QED
  BY <1>1, <1>5, <1>6 DEF Room, AtCore1

LEMMA RoomNext ==
    ASSUME NActive = 0, LinkTypes, LeakInv, AloneInv, RoomInv, [Next]_vars
    PROVE  RoomInv'
<1>1. LinkTypes' /\ AloneInv'
  BY LinkTypesNext, AloneKept
<1>2. T1 \in Tasks /\ Rpmsg \in Tasks /\ Tasks = {T1, Rpmsg} /\ base[T1] = "delay"
      /\ stack \in Stacks
  BY DEF Tasks, AloneInv, LinkTypes, TypeOK, Stacks
\* Where the invariant held before, it goes on to hold.
<1>3. ASSUME stack[Rpmsg] = <<>> \/ stack[Rpmsg][1].pc = "kick" PROVE RoomInv'
  <2>1. CASE stack'[Rpmsg] = <<Vq1Frame>>
    BY <2>1 DEF RoomInv, Vq1Frame
  <2>2. CASE stack'[Rpmsg] # <<Vq1Frame>>
    BY <1>3, <2>2, AwaitedKept, RoomKept DEF RoomInv
  <2> QED
    BY <2>1, <2>2
<1>4. CASE Step(Rpmsg)
  <2>1. CASE stack'[Rpmsg] = <<>>
    <3>1. CASE vq1_last_avail' = vq1_avail_idx'
      BY <1>1, <2>1, <3>1, EmptyMakesRoomNext DEF RoomInv
    <3> QED
      BY <1>3, <1>4, <2>1, <3>1, LastReturn
  <2>2. CASE stack'[Rpmsg] # <<>> /\ stack'[Rpmsg][1].pc = "kick"
    <3>1. CASE VQ1!PutUsedPublish(Rpmsg)
      BY <3>1, PublishMakesRoom DEF RoomInv
    <3> QED
      BY <1>3, <1>4, <2>2, <3>1, FirstKick
  <2>3. CASE stack'[Rpmsg] # <<>> /\ stack'[Rpmsg][1].pc # "kick"
    BY <2>3 DEF RoomInv
  <2> QED
    BY <2>1, <2>2, <2>3
<1>5. CASE NotifyTake
  <2>1. stack'[Rpmsg] = <<Vq1Frame>> \/ stack' = stack
    BY <1>2, <1>5 DEF NotifyTake, Stacks
  <2>2. CASE stack'[Rpmsg] = <<Vq1Frame>>
    BY <2>2 DEF RoomInv, Vq1Frame
  <2>3. CASE stack' = stack
    BY <1>3, <2>3 DEF RoomInv
  <2> QED
    BY <2>1, <2>2, <2>3
<1>6. CASE stack' = stack
  BY <1>3, <1>6 DEF RoomInv
<1>7. ~T1Wake /\ ~T1Check /\ ~Step(T1)
  BY <1>2, T1Silent
<1>8. Linux \/ IsrClear \/ IsrNotify \/ UNCHANGED vars => stack' = stack
  BY DEF Linux, LinuxSend, LinuxRing, LinuxTxPoll, LinuxReclaimVq1, LinuxIrq, LinuxIrqRead,
         LinuxReceive, LinuxRefill, LinuxIrqDone, LinuxIrqClear, IsrClear, IsrNotify, vars
<1> QED
  BY <1>2, <1>4, <1>5, <1>6, <1>7, <1>8 DEF Next, Core1

(* Failed kicks never leave the link dead: each return from rpmsg_poll, the *)
(* ones of a failed kick included (rpmsg_core.c:310), comes after a buffer  *)
(* of vq1 was given back or with vq1 empty, so that Linux has one to send   *)
(* with, unless it has used it and its doorbell is on its way.              *)
THEOREM NeverDead == ASSUME NActive = 0 PROVE Spec => []NeverWedged
<1>1. Init => LinkTypes /\ LeakInv /\ AloneInv /\ RoomInv
  <2>1. ASSUME Init, LinkTypes, AloneInv PROVE RoomInv
    <3>1. stack[Rpmsg] = <<>> /\ vq1_last_avail = vq1_avail_idx
      BY <2>1 DEF Init, VQ1!Init, Tasks
    <3> QED
      BY <2>1, <3>1, EmptyMakesRoom DEF RoomInv
  <2> QED
    BY <2>1, LinkTypesInit, LeakInit, AloneInit
<1>2. LinkTypes /\ LeakInv /\ AloneInv /\ RoomInv /\ [Next]_vars
        => (LinkTypes /\ LeakInv /\ AloneInv /\ RoomInv)'
  BY LinkTypesNext, LeakNext, AloneKept, RoomNext
<1>3. LinkTypes /\ LeakInv /\ AloneInv /\ RoomInv => NeverWedged
  <2> SUFFICES ASSUME LinkTypes, LeakInv, AloneInv, RoomInv,
                      base[Rpmsg] \in {"take", "blocked"}, ~Awaited, vq1_free = {}
               PROVE  VQ1!Returned # <<>>
    BY DEF NeverWedged, Awaited
  <2>1. Room
    BY DEF LeakInv, AtHome, RoomInv
  <2>2. PICK d \in Desc : ~S1!InAvail(d) /\ d \notin vq1_held[Rpmsg]
    BY <2>1 DEF Room, AtCore1
  <2>3. S1!InUsed(d)
    BY <2>2, Hand1 DEF AloneInv
  <2>4. vq1_last_used \in Nat /\ vq1_used_idx \in Nat /\ IDXMOD \in Nat \ {0}
    BY RingAssumption DEF LinkTypes, TypeOK, VQ1!TypeOK, VQ1!Idx
  <2>5. VQ1!Ahead(vq1_last_used, vq1_used_idx) \in Nat \ {0}
    <3>1. VQ1!Ahead(vq1_last_used, vq1_used_idx) \in Nat
      BY <2>4 DEF VQ1!Ahead
    <3>2. S1!Done = VQ1!Ahead(vq1_last_used, vq1_used_idx)
      BY DEF S1!Done, S1!Ahead, VQ1!Ahead
    <3>3. S1!Done # 0
      BY <2>3 DEF S1!InUsed
    <3> QED
      BY <3>1, <3>2, <3>3
  <2>6. 1 \in DOMAIN VQ1!Returned
    BY <2>5 DEF VQ1!Returned
  <2> QED
    BY <2>6
<1> QED
  BY <1>1, <1>2, <1>3, PTL DEF Spec
============================================================================
