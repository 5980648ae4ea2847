-------------------------- MODULE Handshake_proofs --------------------------
(* Theorems about Handshake, for every queue length and number of          *)
(* messages, and whichever processor starts first.                         *)
EXTENDS Handshake, TLAPS

\* What core1 has reached once it has seen the first doorbell.
Waited == {"rewire", "views", "take", "put", "kick", "ready"} \union LoopPCs

\* A doorbell is pending only once Linux is up and A2B_INTEN is set, and
\* core1 leaves its poll only after one: this orders the two boots.
Ordered ==
    /\ a2b_status \/ tx_queue # 0 \/ tx_active => linux \in {"up", "ring"} /\ inten
    /\ core1 \in Waited => linux \in {"up", "ring"} /\ inten
    /\ linux \in {"filled", "up", "ring"} => vq0 # "none"
    /\ core1 \in Waited \ {"rewire"} => gic222
    /\ inten => core1 \notin {"boot", "mbox"}

\* Whose the announcement's buffer is, and what the channel and ready say.
Announced ==
    /\ channel \/ vq0 = "used" => core1 \in Waited
    /\ linux = "ring" => channel
    /\ core1 \in InitPCs \ {"put", "kick", "ready"} => vq0 \in {"none", "offered"}
    /\ core1 = "put" => vq0 = "held"
    /\ ready <=> core1 \in LoopPCs

\* NoEarlyMessageStranded, wherever core1 is but in the middle of reading.
Awaited ==
    unread # 0 /\ core1 # "read" =>
        notified \/ isr = "notify" \/ a2b_status \/ tx_queue # 0 \/ linux = "ring"

HandshakeInv ==
    /\ TypeOK
    /\ unread <= posted
    /\ Ordered
    /\ Announced
    /\ Awaited

-----------------------------------------------------------------------------
(* What the mailbox's steps do to the doorbell.                            *)

\* A doorbell rung is pending or queued (rockchip-mailbox.c:48-72).
LEMMA SendRings ==
    ASSUME MB!TypeOK, MB!LinuxSendMessage
    PROVE  MB!TypeOK' /\ (a2b_status' \/ tx_queue' # 0)
<1> USE HandshakeAssumption DEF MB!TypeOK, MB!LinuxSendMessage, MB!Submit, MB!a2bVars, MB!b2aVars
<1>1. \/ tx_queue' = tx_queue /\ tx_queue = TxQueueLen
      \/ tx_queue # TxQueueLen /\ tx_queue' = tx_queue + 1
      \/ tx_queue' = (tx_queue + 1) - 1 /\ a2b_status' = TRUE
  BY Zenon
<1>2. tx_queue \in 0 .. TxQueueLen /\ TxQueueLen \in Nat \ {0}
  OBVIOUS
<1>3. tx_queue' \in 0 .. TxQueueLen
  <2> HIDE HandshakeAssumption DEF MB!TypeOK, MB!LinuxSendMessage
  <2> QED BY <1>1, <1>2
<1>4. tx_queue' # 0 \/ a2b_status' = TRUE
  <2> HIDE HandshakeAssumption DEF MB!TypeOK, MB!LinuxSendMessage
  <2> QED BY <1>1, <1>2
<1>5. a2b_status' \in BOOLEAN /\ tx_active' \in BOOLEAN
  OBVIOUS
<1> QED
  BY <1>3, <1>4, <1>5

\* The framework's poll sends what is queued, or finds the queue empty.
LEMMA TxPollKeeps ==
    ASSUME MB!TypeOK, MB!LinuxTxPoll
    PROVE  /\ MB!TypeOK'
           /\ tx_queue # 0 => a2b_status'
           /\ a2b_status' \/ tx_queue' # 0 \/ tx_active' => tx_active
<1> USE DEF MB!TypeOK, MB!LinuxTxPoll, MB!b2aVars
<1>1. \/ tx_queue' = tx_queue
      \/ tx_queue # 0 /\ tx_queue' = tx_queue - 1
  BY Zenon
<1>2. tx_queue \in 0 .. TxQueueLen
  OBVIOUS
<1>3. tx_queue' \in 0 .. TxQueueLen
  <2> HIDE DEF MB!TypeOK, MB!LinuxTxPoll
  <2> QED BY <1>1, <1>2, HandshakeAssumption
<1>4. a2b_status' \in BOOLEAN /\ tx_active' \in BOOLEAN
  OBVIOUS
<1> QED
  BY <1>3, <1>4

\* core1's side and Linux's interrupt leave the doorbell alone.
LEMMA KickLeavesDoorbell ==
    ASSUME MB!TypeOK,
           \/ MB!IrqRead \/ MB!IrqReceived \/ MB!IrqClear
           \/ MB!KickReady(Rpmsg) \/ MB!KickWrite(Rpmsg)
    PROVE  MB!TypeOK' /\ UNCHANGED <<a2b_status, tx_queue, tx_active>>
BY DEF MB!TypeOK, MB!IrqPCs, MB!KickPCs, MB!IrqRead, MB!IrqReceived, MB!IrqClear,
       MB!KickReady, MB!KickWrite, MB!a2bVars, Rpmsg

\* The handler's W1C clears the bit and nothing else.
LEMMA ClearKeeps ==
    ASSUME MB!TypeOK, MB!Core1ClearDoorbell
    PROVE  /\ MB!TypeOK'
           /\ a2b_status' = FALSE /\ a2b_status
           /\ UNCHANGED <<tx_queue, tx_active>>
BY DEF MB!TypeOK, MB!Core1ClearDoorbell, MB!b2aVars

\* A step that leaves the mailbox alone leaves its type and its doorbell alone.
LEMMA MailboxUnchanged ==
    ASSUME MB!TypeOK, UNCHANGED mbox
    PROVE  MB!TypeOK' /\ UNCHANGED <<a2b_status, tx_queue, tx_active>>
BY DEF mbox, MB!TypeOK
-----------------------------------------------------------------------------
\* At power-on nothing is pending and nobody is ready.
LEMMA InvInit == Init => HandshakeInv
<1> SUFFICES ASSUME Init PROVE HandshakeInv
  OBVIOUS
<1>1. posted \in 0 .. MaxMsgs /\ unread \in 0 .. MaxMsgs /\ unread <= posted
  BY HandshakeAssumption DEF Init
<1>2. MB!TypeOK
  <2>1. tx_queue \in 0 .. TxQueueLen
    BY HandshakeAssumption DEF Init, MB!Init
  <2> QED
    BY <2>1 DEF Init, MB!Init, MB!TypeOK, MB!IrqPCs, MB!KickPCs
<1> QED
  BY <1>1, <1>2 DEF Init, MB!Init, HandshakeInv, TypeOK, Ordered, Announced, Awaited,
                    LinuxPCs, InitPCs, LoopPCs, Waited

\* Each step of the two processors keeps the invariant.
LEMMA InvStep == HandshakeInv /\ [Next]_vars => HandshakeInv'
<1> SUFFICES ASSUME HandshakeInv, [Next]_vars
             PROVE  HandshakeInv'
  OBVIOUS
<1> USE DEF HandshakeInv, TypeOK, Ordered, Announced, Awaited, LinuxPCs, InitPCs, LoopPCs,
            Waited, lin, task, hw
<1>1. CASE LinuxGicInit
  <2> USE <1>1 DEF LinuxGicInit
  <2>1. core1 \notin Waited
    OBVIOUS
  <2>2. MB!TypeOK' /\ UNCHANGED <<a2b_status, tx_queue, tx_active>>
    BY MailboxUnchanged
  <2> QED
    BY <2>1, <2>2
<1>2. CASE LinuxFill
  BY <1>2, MailboxUnchanged DEF LinuxFill
<1>3. CASE LinuxFirstNotify
  BY <1>3, MailboxUnchanged, SendRings DEF LinuxFirstNotify
<1>4. CASE LinuxPost
  <2> USE <1>4 DEF LinuxPost
  <2>1. unread' \in 0 .. MaxMsgs /\ posted' \in 0 .. MaxMsgs /\ unread' <= posted'
    BY HandshakeAssumption
  <2>2. MB!TypeOK' /\ UNCHANGED <<a2b_status, tx_queue, tx_active>>
    BY MailboxUnchanged
  <2> QED
    BY <2>1, <2>2
<1>5. CASE LinuxRing
  <2> USE <1>5 DEF LinuxRing
  <2>1. MB!TypeOK' /\ (a2b_status' \/ tx_queue' # 0)
    BY SendRings
  <2> QED
    BY <2>1
<1>6. CASE LinuxTxPoll
  <2> USE <1>6 DEF LinuxTxPoll
  <2>1. /\ MB!TypeOK'
        /\ tx_queue # 0 => a2b_status'
        /\ a2b_status' \/ tx_queue' # 0 \/ tx_active' => tx_active
    BY TxPollKeeps
  <2>2. ~a2b_status
    BY DEF MB!LinuxTxPoll
  <2> QED
    BY <2>1, <2>2
<1>7. CASE LinuxIrq
  <2> USE <1>7 DEF LinuxIrq
  <2>1. MB!TypeOK' /\ UNCHANGED <<a2b_status, tx_queue, tx_active>>
    BY KickLeavesDoorbell
  <2>2. \/ vq0' = vq0 /\ channel' = channel
        \/ vq0 = "used" /\ vq0' = "offered" /\ channel' = TRUE
    OBVIOUS
  <2>3. channel' \in BOOLEAN /\ UNCHANGED <<linux, posted, unread, hw, task, isr>>
    OBVIOUS
  <2> HIDE <1>7 DEF LinuxIrq
  <2>4. CASE vq0' = vq0 /\ channel' = channel
    BY <2>1, <2>3, <2>4
  <2>5. CASE vq0 = "used" /\ vq0' = "offered" /\ channel' = TRUE
    BY <2>1, <2>3, <2>5
  <2> QED
    BY <2>2, <2>4, <2>5
<1>8. CASE IsrClear
  BY <1>8, ClearKeeps DEF IsrClear
<1>9. CASE IsrNotify
  BY <1>9, MailboxUnchanged DEF IsrNotify
<1>10. CASE GicInit
  BY <1>10, MailboxUnchanged DEF GicInit, At
<1>11. CASE MboxInit
  BY <1>11, MailboxUnchanged DEF MboxInit, At
<1>12. CASE PollDoorbell
  BY <1>12, MailboxUnchanged DEF PollDoorbell, At
<1>13. CASE DelayEnd
  BY <1>13, MailboxUnchanged DEF DelayEnd, At
<1>14. CASE Rewire
  BY <1>14, MailboxUnchanged DEF Rewire, At
<1>15. CASE ResetViews
  BY <1>15, MailboxUnchanged DEF ResetViews, At
<1>16. CASE AnnounceTake
  BY <1>16, MailboxUnchanged DEF AnnounceTake, At
<1>17. CASE AnnouncePut
  BY <1>17, MailboxUnchanged DEF AnnouncePut, At
<1>18. CASE AnnounceKick
  BY <1>18, KickLeavesDoorbell DEF AnnounceKick, At
<1>19. CASE SetReady
  BY <1>19, MailboxUnchanged DEF SetReady, At
<1>20. CASE NotifyTake
  BY <1>20, MailboxUnchanged DEF NotifyTake
<1>21. CASE RpmsgPoll
  <2> USE <1>21 DEF RpmsgPoll, At
  <2>1. unread' \in 0 .. MaxMsgs /\ unread' <= posted
    BY HandshakeAssumption
  <2>2. MB!TypeOK' /\ UNCHANGED <<a2b_status, tx_queue, tx_active>>
    BY MailboxUnchanged
  <2>3. core1' # "read" => unread' = 0
    BY HandshakeAssumption
  <2> QED
    BY <2>1, <2>2, <2>3
<1>22. CASE UNCHANGED vars
  BY <1>22, MailboxUnchanged DEF vars
<1> QED
  BY <1>1, <1>2, <1>3, <1>4, <1>5, <1>6, <1>7, <1>8, <1>9, <1>10, <1>11, <1>12, <1>13, <1>14, <1>15, <1>16, <1>17, <1>18, <1>19, <1>20, <1>21, <1>22
     DEF Next, Linux, Task, RpmsgInit
-----------------------------------------------------------------------------
\* The order of the two boots, the announcement and the wake-ups, together.
THEOREM Invariant == Spec => []HandshakeInv
BY InvInit, InvStep, PTL DEF Spec

\* The registers and the states of both boots keep their types.
THEOREM TypeCorrect == Spec => []TypeOK
BY Invariant, PTL DEF HandshakeInv

\* core1 does not touch a vring before Linux has zeroed and filled it
\* (rpmsg_core.c:104-143): without a wait for the doorbell it would.
THEOREM ViewsFollowFill == Spec => []ViewsAfterFill
<1>1. HandshakeInv => ViewsAfterFill
  BY DEF HandshakeInv, Ordered, ViewsAfterFill, Waited, LoopPCs
<1> QED
  BY <1>1, Invariant, PTL

\* Once core1 is ready, Linux's reset of the GIC is behind it and both
\* enables of interrupt 222 are set for good (rpmsg_core.c:101, 120-137).
THEOREM ReadyListens == Spec => []ReadyMeansListening
<1>1. HandshakeInv => ReadyMeansListening
  BY DEF HandshakeInv, Ordered, Announced, ReadyMeansListening, Waited, LoopPCs
<1> QED
  BY <1>1, Invariant, PTL

\* A message sent while core1 is between its announcement and its loop
\* (rpmsg_core.c:197-217, main.c:121) has a wake-up on its way.
THEOREM EarlyMessagesAwaited == Spec => []NoEarlyMessageStranded
<1>1. HandshakeInv => NoEarlyMessageStranded
  <2> SUFFICES ASSUME HandshakeInv, unread > 0, core1 \in {"notify", "blocked"}
               PROVE  \/ notified \/ isr = "notify" \/ (a2b_status /\ gic222 /\ inten)
                      \/ tx_queue > 0 \/ linux = "ring"
    BY DEF NoEarlyMessageStranded
  <2>1. gic222 /\ inten
    BY DEF HandshakeInv, Ordered, Waited, LoopPCs
  <2>2. unread # 0 /\ (tx_queue # 0 => tx_queue > 0)
    BY DEF HandshakeInv, TypeOK, MB!TypeOK
  <2>3. notified \/ isr = "notify" \/ a2b_status \/ tx_queue # 0 \/ linux = "ring"
    BY <2>2 DEF HandshakeInv, Awaited
  <2> QED
    BY <2>1, <2>2, <2>3
<1> QED
  BY <1>1, Invariant, PTL
=============================================================================
