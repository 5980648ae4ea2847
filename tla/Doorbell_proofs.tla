--------------------------- MODULE Doorbell_proofs ---------------------------
(* Theorems about Doorbell, for every number of buffers in vq1 and every   *)
(* length of the mailbox's queue.                                          *)
EXTENDS Doorbell, TLAPS

\* The registers, counters and program points keep their types: in
\* particular vq1 never holds more than NBUF messages, and the mailbox
\* framework's queue never overflows (rockchip-mailbox.c:48-72).
THEOREM TypeCorrect == Spec => []TypeOK
<1>1. ASSUME Init PROVE TypeOK
  <2>1. unread \in 0 .. NBUF /\ tx_queue \in 0 .. TxQueueLen
    BY <1>1, NbufAssumption, QueueAssumption DEF Init, MB!Init
  <2> QED
    BY <1>1, <2>1 DEF Init, TypeOK, TaskPCs, MB!Init, MB!TypeOK, MB!IrqPCs, MB!KickPCs
<1>2. TypeOK /\ [Next]_vars => TypeOK'
  <2> SUFFICES ASSUME TypeOK, [Next]_vars
               PROVE  TypeOK'
    OBVIOUS
  <2> USE NbufAssumption, QueueAssumption
      DEF TypeOK, TaskPCs, MB!TypeOK, MB!IrqPCs, MB!KickPCs
  <2>1. CASE LinuxPost
    BY <2>1 DEF hist, LinuxPost, mbox
  <2>2. CASE LinuxRing
    <3> USE <2>2 DEF hist, LinuxRing, MB!LinuxSendMessage, MB!Submit, MB!a2bVars, MB!b2aVars
    <3>1. tx_queue' \in 0 .. TxQueueLen
      <4>1. \/ tx_queue' = tx_queue
            \/ tx_queue # TxQueueLen /\ tx_queue' = tx_queue + 1
            \/ tx_queue' = (tx_queue + 1) - 1
        BY Zenon
      <4> HIDE <2>2 DEF hist, LinuxRing, MB!LinuxSendMessage, MB!Submit
      <4> QED
        BY <4>1
    <3>2. a2b_status' \in BOOLEAN /\ tx_active' \in BOOLEAN
      OBVIOUS
    <3> QED
      BY <3>1, <3>2
  <2>3. CASE LinuxTxPoll
    <3> USE <2>3 DEF hist, LinuxTxPoll, MB!LinuxTxPoll, MB!b2aVars
    <3>1. tx_queue' \in 0 .. TxQueueLen
      <4>1. \/ tx_queue' = tx_queue
            \/ tx_queue # 0 /\ tx_queue' = tx_queue - 1
        BY Zenon
      <4> HIDE <2>3 DEF hist, LinuxTxPoll, MB!LinuxTxPoll
      <4> QED
        BY <4>1
    <3>2. a2b_status' \in BOOLEAN /\ tx_active' \in BOOLEAN
      OBVIOUS
    <3> QED
      BY <3>1, <3>2
  <2>4. CASE LinuxIrq
    <3>1. UNCHANGED <<linux, unread, isr, notified, task, kick_failed, missed>>
      BY <2>4 DEF hist, LinuxIrq
    <3>2. UNCHANGED <<a2b_status, tx_queue, tx_active, kick>> /\ unseen' \in BOOLEAN
      BY <2>4 DEF LinuxIrq, MB!IrqRead, MB!IrqReceived, MB!IrqClear, MB!a2bVars
    <3>3. b2a_status' \in BOOLEAN /\ irq' \in {"idle", "callback", "clear"}
      BY <2>4 DEF LinuxIrq, MB!IrqRead, MB!IrqReceived, MB!IrqClear
    <3> QED
      BY <3>1, <3>2, <3>3
  <2>5. CASE IsrClear
    BY <2>5 DEF hist, IsrClear, MB!Core1ClearDoorbell, MB!b2aVars
  <2>6. CASE IsrNotify
    BY <2>6 DEF hist, IsrNotify, mbox
  <2>7. CASE NotifyTake
    BY <2>7 DEF hist, NotifyTake, mbox
  <2>8. CASE PollOne
    BY <2>8 DEF hist, PollOne, mbox
  <2>9. CASE PutUsed
    BY <2>9 DEF hist, PutUsed, mbox
  <2>10. CASE Kick
    BY <2>10 DEF hist, Kick, Kicked, GaveUp, MB!KickReady, MB!KickWrite, MB!KickTimeout, MB!vars, MB!a2bVars,
                 MB!b2aVars, Rpmsg
  <2>11. CASE UNCHANGED vars
    BY <2>11 DEF vars, hist, mbox
  <2> QED
    BY <2>1, <2>2, <2>3, <2>4, <2>5, <2>6, <2>7, <2>8, <2>9, <2>10, <2>11 DEF Next, Task
<1> QED
  BY <1>1, <1>2, PTL DEF Spec

\* vRpmsgTask never sleeps on a message without a wake-up on its way
\* (main.c:121-128, 179-206): NoLostDoorbell is inductive as it stands.
THEOREM DoorbellNeverLost == Spec => []NoLostDoorbell
<1>1. Init => NoLostDoorbell
  BY DEF Init, NoLostDoorbell
<1>2. TypeOK /\ NoLostDoorbell /\ [Next]_vars => NoLostDoorbell'
  <2> SUFFICES ASSUME TypeOK, NoLostDoorbell, [Next]_vars
               PROVE  NoLostDoorbell'
    OBVIOUS
  <2> USE DEF NoLostDoorbell
  <2>1. CASE LinuxPost
    BY <2>1 DEF hist, LinuxPost
  <2>2. CASE LinuxRing
    BY <2>2, QueueAssumption
       DEF hist, LinuxRing, MB!LinuxSendMessage, MB!Submit, MB!a2bVars, TypeOK, MB!TypeOK
  <2>3. CASE LinuxTxPoll
    BY <2>3 DEF hist, LinuxTxPoll, MB!LinuxTxPoll
  <2>4. CASE LinuxIrq
    BY <2>4 DEF hist, LinuxIrq, MB!IrqRead, MB!IrqReceived, MB!IrqClear, MB!a2bVars
  <2>5. CASE IsrClear
    BY <2>5 DEF hist, IsrClear
  <2>6. CASE IsrNotify
    BY <2>6 DEF hist, IsrNotify
  <2>7. CASE NotifyTake
    BY <2>7 DEF hist, NotifyTake, mbox
  <2>8. CASE PollOne
    BY <2>8 DEF hist, PollOne
  <2>9. CASE PutUsed
    BY <2>9 DEF hist, PutUsed
  <2>10. CASE Kick
    BY <2>10 DEF hist, Kick, Kicked, GaveUp
  <2>11. CASE UNCHANGED vars
    BY <2>11 DEF vars, hist, mbox
  <2> QED
    BY <2>1, <2>2, <2>3, <2>4, <2>5, <2>6, <2>7, <2>8, <2>9, <2>10, <2>11 DEF Next, Task
<1> QED
  BY <1>1, <1>2, TypeCorrect, PTL DEF Spec

\* core1's wait for B2A_STATUS (rpmsg_mbox.c:29) and Linux's late clear
\* (rockchip-mailbox.c:160-164) exclude each other.
THEOREM ChannelExclusive == Spec => []KickOwnsChannel
<1>1. Init => KickOwnsChannel
  BY DEF Init, KickOwnsChannel, MB!Init, Rpmsg
<1>2. TypeOK /\ KickOwnsChannel /\ [Next]_vars => KickOwnsChannel'
  <2> SUFFICES ASSUME TypeOK, KickOwnsChannel, [Next]_vars
               PROVE  KickOwnsChannel'
    OBVIOUS
  <2> USE DEF KickOwnsChannel
  <2>1. CASE LinuxPost \/ IsrNotify
    BY <2>1 DEF LinuxPost, IsrNotify, mbox
  <2>2. CASE LinuxRing
    BY <2>2 DEF LinuxRing, MB!LinuxSendMessage, MB!b2aVars
  <2>3. CASE LinuxTxPoll
    BY <2>3 DEF LinuxTxPoll, MB!LinuxTxPoll, MB!b2aVars
  <2>4. CASE LinuxIrq
    BY <2>4 DEF LinuxIrq, MB!IrqRead, MB!IrqReceived, MB!IrqClear
  <2>5. CASE IsrClear
    BY <2>5 DEF IsrClear, MB!Core1ClearDoorbell, MB!b2aVars
  <2>6. CASE NotifyTake \/ PollOne \/ PutUsed
    BY <2>6 DEF NotifyTake, PollOne, PutUsed, mbox
  <2>7. CASE Kick
    BY <2>7 DEF Kick, Kicked, GaveUp, MB!KickReady, MB!KickWrite, MB!KickTimeout, MB!vars, MB!b2aVars,
                TypeOK, MB!TypeOK, Rpmsg
  <2>8. CASE UNCHANGED vars
    BY <2>8 DEF vars, hist, mbox
  <2> QED
    BY <2>1, <2>2, <2>3, <2>4, <2>5, <2>6, <2>7, <2>8 DEF Next, Task
<1> QED
  BY <1>1, <1>2, TypeCorrect, PTL DEF Spec

\* No kick is wiped out by Linux's late clear of B2A_STATUS: NoLostKick,
\* which KickOwnsChannel makes inductive.
THEOREM KickNeverLost == Spec => []NoLostKick
<1>1. Init => NoLostKick
  BY DEF Init, NoLostKick
<1>2. KickOwnsChannel /\ NoLostKick /\ [Next]_vars => NoLostKick'
  <2> SUFFICES ASSUME KickOwnsChannel, NoLostKick, [Next]_vars
               PROVE  NoLostKick'
    OBVIOUS
  <2> USE DEF NoLostKick
  <2>1. CASE LinuxPost \/ IsrNotify
    BY <2>1 DEF hist, LinuxPost, IsrNotify, mbox
  <2>2. CASE LinuxRing
    BY <2>2 DEF hist, LinuxRing, MB!LinuxSendMessage, MB!b2aVars
  <2>3. CASE LinuxTxPoll
    BY <2>3 DEF hist, LinuxTxPoll, MB!LinuxTxPoll, MB!b2aVars
  <2>4. CASE LinuxIrq
    BY <2>4 DEF hist, LinuxIrq, MB!IrqRead, MB!IrqReceived, MB!IrqClear
  <2>5. CASE IsrClear
    BY <2>5 DEF hist, IsrClear, MB!Core1ClearDoorbell, MB!b2aVars
  <2>6. CASE NotifyTake \/ PollOne \/ PutUsed
    BY <2>6 DEF hist, NotifyTake, PollOne, PutUsed, mbox
  <2>7. CASE Kick
    BY <2>7 DEF hist, Kick, Kicked, GaveUp, MB!KickReady, MB!KickWrite, MB!KickTimeout, MB!vars, MB!b2aVars,
                KickOwnsChannel
  <2>8. CASE UNCHANGED vars
    BY <2>8 DEF vars, hist, mbox
  <2> QED
    BY <2>1, <2>2, <2>3, <2>4, <2>5, <2>6, <2>7, <2>8 DEF Next, Task
<1> QED
  BY <1>1, <1>2, ChannelExclusive, PTL DEF Spec
==============================================================================
