----------------------------- MODULE RpmsgLink -----------------------------
(***************************************************************************)
(* The running rpmsg link: rpmsg_core.c on core1, called by vRpmsgTask and *)
(* by vTask1 (main.c), over the two virtqueues and the mailbox, with       *)
(* interrupt 222 on one side and the Linux drivers on the other.           *)
(*                                                                         *)
(* vq0 carries messages to Linux, vq1 messages from Linux.  Each message   *)
(* of Linux is echoed (rpmsg_on_recv), and vTask1 sends messages of its    *)
(* own.  vRpmsgTask has the higher priority: it preempts vTask1 between    *)
(* any two memory accesses, and nothing in rpmsg_core.c takes a lock.      *)
(*                                                                         *)
(* rpmsg_send and rpmsg_handle_vq1 call each other (rpmsg_core.c:234, 285, *)
(* 322), so each task has a stack of frames.                               *)
(***************************************************************************)
EXTENDS Integers, Sequences, FiniteSets

CONSTANTS
    NUM, IDXMOD,     \* see Vring
    TxQueueLen,      \* see Mailbox
    NMsgs,           \* how many messages Linux sends, numbered from 1
    Foreign,         \* those of them for an endpoint that is not core1's
    Empty,           \* those without a payload
    NActive,         \* how many messages vTask1 sends
    KickMayTimeOut   \* whether Linux may leave B2A_STATUS set so long that
                     \* mbox_kick gives up

ASSUME RingAssumption == /\ NUM \in Nat \ {0}
                         /\ IDXMOD \in Nat
                         /\ IDXMOD > NUM
                         /\ IDXMOD % NUM = 0
ASSUME LinkAssumption == /\ TxQueueLen \in Nat \ {0}
                         /\ NMsgs \in Nat
                         /\ Foreign \subseteq 1 .. NMsgs
                         /\ Empty \subseteq 1 .. NMsgs
                         /\ NActive \in Nat
                         /\ KickMayTimeOut \in BOOLEAN

T1    == "t1"
Rpmsg == "rpmsg"
Tasks == {T1, Rpmsg}
Lens  == {1}          \* lengths are not told apart here; Vring checks them

VARIABLES
    vq0_avail_idx, vq0_avail_ring, vq0_used_idx, vq0_used_ring,
    vq0_last_avail, vq0_call, vq0_held, vq0_free, vq0_last_used, vq0_broken,
    vq1_avail_idx, vq1_avail_ring, vq1_used_idx, vq1_used_ring,
    vq1_last_avail, vq1_call, vq1_held, vq1_free, vq1_last_used, vq1_broken,
    a2b_status, b2a_status, tx_queue, tx_active, irq, kick,
    buf0, buf1,      \* contents of the buffers of the two queues
    sent,            \* Linux: messages put in vq1 so far
    ringing,         \* Linux: a message is in vq1 and its doorbell is due
    received,        \* Linux: messages taken from vq0, in order
    isr,             \* interrupt 222: "idle", or "notify" after the W1C
    notified,        \* vRpmsgTask's notification value is not zero
    have_linux_ept,  \* core1 has learned where Linux's endpoint is
    base,            \* per task: where its own loop is
    stack,           \* per task: frames of rpmsg_send and rpmsg_handle_vq1
    active,          \* vTask1: messages sent so far
    claimed,         \* history: messages for which rpmsg_send returned > 0
    kick_failed      \* history: the last mbox_kick returned -1

vq0  == <<vq0_avail_idx, vq0_avail_ring, vq0_used_idx, vq0_used_ring, vq0_last_avail,
          vq0_call, vq0_held, vq0_free, vq0_last_used, vq0_broken>>
vq1  == <<vq1_avail_idx, vq1_avail_ring, vq1_used_idx, vq1_used_ring, vq1_last_avail,
          vq1_call, vq1_held, vq1_free, vq1_last_used, vq1_broken>>
mbox == <<a2b_status, b2a_status, tx_queue, tx_active, irq, kick>>
lin  == <<sent, ringing, received>>
wake == <<isr, notified, base>>
rest == <<have_linux_ept, active, claimed, kick_failed>>
vars == <<vq0, vq1, mbox, buf0, buf1, lin, wake, stack, rest>>

VQ0 == INSTANCE Vring WITH Callers <- Tasks,
    avail_idx <- vq0_avail_idx, avail_ring <- vq0_avail_ring,
    used_idx <- vq0_used_idx, used_ring <- vq0_used_ring,
    last_avail <- vq0_last_avail, call <- vq0_call, held <- vq0_held,
    free <- vq0_free, last_used <- vq0_last_used, broken <- vq0_broken

VQ1 == INSTANCE Vring WITH Callers <- Tasks,
    avail_idx <- vq1_avail_idx, avail_ring <- vq1_avail_ring,
    used_idx <- vq1_used_idx, used_ring <- vq1_used_ring,
    last_avail <- vq1_last_avail, call <- vq1_call, held <- vq1_held,
    free <- vq1_free, last_used <- vq1_last_used, broken <- vq1_broken

MB == INSTANCE Mailbox WITH Callers <- Tasks

Desc == VQ0!Desc

\* Messages: the n-th of Linux, the n-th of vTask1, and what an unused
\* buffer holds.
Blank   == <<"blank", 0>>
FromLinux(n) == <<"linux", n>>
FromT1(n)    == <<"t1", n>>
Message == {Blank} \union {FromLinux(n) : n \in 1 .. NMsgs}
                   \union {FromT1(n) : n \in 1 .. NActive}

\* A frame: the function, its program point, the descriptor in desc_idx, and
\* for rpmsg_send the message (of an echo, once it has been copied).
Frame == [fn : {"send"}, pc : {"take", "fill", "put", "kick"}, desc : Desc, msg : Message]
         \union
         [fn : {"vq1"}, pc : {"take", "recv", "put", "kick"}, desc : Desc, msg : {Blank}]

SendFrame(m) == [fn |-> "send", pc |-> "take", desc |-> 0, msg |-> m]
Vq1Frame     == [fn |-> "vq1", pc |-> "take", desc |-> 0, msg |-> Blank]

TypeOK ==
    /\ VQ0!TypeOK /\ VQ1!TypeOK /\ MB!TypeOK
    /\ buf0 \in [Desc -> Message] /\ buf1 \in [Desc -> Message]
    /\ sent \in 0 .. NMsgs /\ active \in 0 .. NActive
    /\ ringing \in BOOLEAN /\ notified \in BOOLEAN
    /\ have_linux_ept \in BOOLEAN /\ kick_failed \in BOOLEAN
    /\ received \in Seq(Message) /\ claimed \subseteq Message
    /\ isr \in {"idle", "notify"}
    /\ base[Rpmsg] \in {"take", "blocked", "poll"}
    /\ base[T1] \in {"delay", "check", "send"}
    /\ stack \in [Tasks -> Seq(Frame)]

\* The handshake and the NS announcement are over.  Linux has filled vq0
\* with buffers, core1 has used the first for the announcement, and Linux
\* has taken it and offered it again.  vq1 is untouched.
Init ==
    /\ vq0_avail_ring = [s \in VQ0!Slots |-> s]
    /\ vq0_avail_idx = (NUM + 1) % IDXMOD
    /\ vq0_used_ring = [s \in VQ0!Slots |-> [id |-> 0, len |-> 1]]
    /\ vq0_used_idx = 1
    /\ vq0_last_avail = 1
    /\ vq0_call = [t \in Tasks |-> [pc |-> "out", desc |-> 0, idx |-> 0, len |-> 1]]
    /\ vq0_held = [t \in Tasks |-> {}]
    /\ vq0_free = {}
    /\ vq0_last_used = 1
    /\ vq0_broken = FALSE
    /\ VQ1!Init
    /\ MB!Init
    /\ buf0 = [d \in Desc |-> Blank]
    /\ buf1 = [d \in Desc |-> Blank]
    /\ sent = 0
    /\ ringing = FALSE
    /\ received = <<>>
    /\ isr = "idle"
    /\ notified = FALSE
    /\ have_linux_ept = FALSE
    /\ base = [t \in Tasks |-> IF t = Rpmsg THEN "take" ELSE "delay"]
    /\ stack = [t \in Tasks |-> <<>>]
    /\ active = 0
    /\ claimed = {}
    /\ kick_failed = FALSE
----------------------------------------------------------------------------
(* Linux (external, but for the steps of rockchip-mailbox.c in Mailbox)    *)

\* rpmsg_send of virtio_rpmsg_bus: a free buffer of vq1 is filled and
\* offered, and the virtqueue is notified.
LinuxSend ==
    /\ sent < NMsgs
    /\ ~ringing
    /\ \E d \in vq1_free :
          /\ VQ1!LinuxOffer(d)
          /\ buf1' = [buf1 EXCEPT ![d] = FromLinux(sent + 1)]
    /\ sent' = sent + 1
    /\ ringing' = TRUE
    /\ UNCHANGED <<vq0, mbox, buf0, received, wake, stack, rest>>

LinuxRing ==
    /\ ringing
    /\ MB!LinuxSendMessage
    /\ ringing' = FALSE
    /\ UNCHANGED <<vq0, vq1, buf0, buf1, sent, received, wake, stack, rest>>

LinuxTxPoll ==
    /\ MB!LinuxTxPoll
    /\ UNCHANGED <<vq0, vq1, buf0, buf1, lin, wake, stack, rest>>

\* Buffers of vq1 are reclaimed when Linux wants one to send.
LinuxReclaimVq1 ==
    /\ VQ1!LinuxReclaim
    /\ UNCHANGED <<vq0, mbox, buf0, buf1, lin, wake, stack, rest>>

\* The mailbox interrupt.  Its callback takes the used entries of vq0 one by
\* one, hands the message up and offers the buffer again, until it finds no
\* more (or the ring is broken); it does not kick.
LinuxIrqRead ==
    /\ MB!IrqRead
    /\ UNCHANGED <<vq0, vq1, buf0, buf1, lin, wake, stack, rest>>

LinuxReceive ==
    /\ irq = "callback"
    /\ vq0_free = {}
    /\ VQ0!LinuxReclaim
    /\ received' = IF vq0_broken' THEN received
                   ELSE Append(received, buf0[vq0_used_ring[VQ0!Slot(vq0_last_used)].id])
    /\ UNCHANGED <<vq1, mbox, buf0, buf1, sent, ringing, wake, stack, rest>>

LinuxRefill ==
    /\ irq = "callback"
    /\ \E d \in vq0_free : VQ0!LinuxOffer(d)
    /\ UNCHANGED <<vq1, mbox, buf0, buf1, lin, wake, stack, rest>>

LinuxIrqDone ==
    /\ vq0_broken \/ (vq0_free = {} /\ vq0_last_used = vq0_used_idx)
    /\ MB!IrqReceived
    /\ UNCHANGED <<vq0, vq1, buf0, buf1, lin, wake, stack, rest>>

LinuxIrqClear ==
    /\ MB!IrqClear
    /\ UNCHANGED <<vq0, vq1, buf0, buf1, lin, wake, stack, rest>>

LinuxIrq == LinuxIrqRead \/ LinuxReceive \/ LinuxRefill \/ LinuxIrqDone \/ LinuxIrqClear
----------------------------------------------------------------------------
(* core1: interrupt 222 and the scheduler                                  *)

IsrClear ==
    /\ isr = "idle"
    /\ MB!Core1ClearDoorbell
    /\ isr' = "notify"
    /\ UNCHANGED <<vq0, vq1, buf0, buf1, lin, notified, base, stack, rest>>

IsrNotify ==
    /\ isr = "notify"
    /\ notified' = TRUE
    /\ isr' = "idle"
    /\ UNCHANGED <<vq0, vq1, mbox, buf0, buf1, lin, base, stack, rest>>

\* The handler preempts every task; vRpmsgTask (priority 3) preempts vTask1
\* (priority 2) whenever it is not waiting for a notification.
Sleeping(t) ==
    \/ t = Rpmsg /\ base[Rpmsg] = "blocked" /\ ~notified
    \/ t = T1 /\ base[T1] = "delay"

Running(t) ==
    /\ isr = "idle"
    /\ ~Sleeping(t)
    /\ t = T1 => Sleeping(Rpmsg)

\* ulTaskNotifyTake(pdTRUE, portMAX_DELAY), then rpmsg_poll.
NotifyTake ==
    /\ Running(Rpmsg)
    /\ base[Rpmsg] \in {"take", "blocked"}
    /\ IF notified
         THEN /\ base' = [base EXCEPT ![Rpmsg] = "poll"]
              /\ stack' = [stack EXCEPT ![Rpmsg] = <<Vq1Frame>>]
              /\ notified' = FALSE
         ELSE /\ base' = [base EXCEPT ![Rpmsg] = "blocked"]
              /\ UNCHANGED <<notified, stack>>
    /\ UNCHANGED <<vq0, vq1, mbox, buf0, buf1, lin, isr, rest>>

\* vTask1's period ends: the tick interrupt makes it ready.
T1Wake ==
    /\ base[T1] = "delay"
    /\ active < NActive
    /\ base' = [base EXCEPT ![T1] = "check"]
    /\ UNCHANGED <<vq0, vq1, mbox, buf0, buf1, lin, isr, notified, stack, rest>>

\* vTask1 sends if it knows Linux's endpoint; if not it waits for another
\* period.
T1Check ==
    /\ Running(T1)
    /\ base[T1] = "check"
    /\ IF have_linux_ept
         THEN /\ base' = [base EXCEPT ![T1] = "send"]
              /\ active' = active + 1
              /\ stack' = [stack EXCEPT ![T1] = <<SendFrame(FromT1(active + 1))>>]
         ELSE /\ base' = [base EXCEPT ![T1] = "delay"]
              /\ UNCHANGED <<active, stack>>
    /\ UNCHANGED <<vq0, vq1, mbox, buf0, buf1, lin, isr, notified,
                   have_linux_ept, claimed, kick_failed>>
----------------------------------------------------------------------------
(* core1: the frames.  Push, Pop and Goto change the stack of a task; when *)
(* its last frame is popped the task is back in its own loop.              *)

Depth(t) == Len(stack[t])
Top(t)   == stack[t][Depth(t)]

At(t, fn, pc) ==
    /\ Running(t)
    /\ stack[t] # <<>>
    /\ Top(t).fn = fn
    /\ Top(t).pc = pc

Goto(t, pc, d) ==
    /\ stack' = [stack EXCEPT ![t][Depth(t)] = [@ EXCEPT !.pc = pc, !.desc = d]]
    /\ UNCHANGED base

Stay == UNCHANGED <<stack, base>>

\* A call from program point "ret" of the caller on: it resumes there.
Push(t, ret, frame) ==
    /\ stack' = [stack EXCEPT ![t] =
                    Append([@ EXCEPT ![Depth(t)].pc = ret], frame)]
    /\ UNCHANGED base

Pop(t) ==
    /\ stack' = [stack EXCEPT ![t] = SubSeq(@, 1, Depth(t) - 1)]
    /\ base' = IF Depth(t) > 1 THEN base
               ELSE [base EXCEPT ![t] = IF t = Rpmsg THEN "take" ELSE "delay"]
----------------------------------------------------------------------------
(* rpmsg_send *)

\* vq_take_buffer(&vq0); while there is none, rpmsg_poll.
SendTake(t) ==
    /\ At(t, "send", "take")
    /\ \/ VQ0!GetAvailCheck(t) /\ Stay
       \/ VQ0!GetAvailRing(t) /\ Stay
       \/ VQ0!GetAvailLoad(t) /\ Stay
       \/ VQ0!GetAvailStore(t) /\ Goto(t, "fill", vq0_call[t].desc)
       \/ VQ0!GetAvailEmpty(t) /\ Push(t, "take", Vq1Frame)
    /\ UNCHANGED <<vq1, mbox, buf0, buf1, lin, isr, notified, rest>>

\* Header and payload go into the buffer.  An echo copies the payload from
\* the vq1 buffer that its caller, rpmsg_handle_vq1, holds.
SendFill(t) ==
    /\ At(t, "send", "fill")
    /\ LET payload == IF Depth(t) = 1 THEN Top(t).msg
                      ELSE buf1[stack[t][Depth(t) - 1].desc]
       IN  /\ buf0' = [buf0 EXCEPT ![Top(t).desc] = payload]
           /\ stack' = [stack EXCEPT ![t][Depth(t)] = [@ EXCEPT !.pc = "put", !.msg = payload]]
    /\ UNCHANGED <<base, vq0, vq1, mbox, buf1, lin, isr, notified, rest>>

SendPut(t) ==
    /\ At(t, "send", "put")
    /\ \/ VQ0!PutUsedRead(t, Top(t).desc, 1) /\ Stay
       \/ VQ0!PutUsedId(t) /\ Stay
       \/ VQ0!PutUsedLen(t) /\ Stay
       \/ VQ0!PutUsedPublish(t) /\ Goto(t, "kick", Top(t).desc)
    /\ UNCHANGED <<vq1, mbox, buf0, buf1, lin, isr, notified, rest>>

\* A mistake: if the kick fails the caller returns as well, with its buffer.
SendKickAbandons(t) ==
    /\ At(t, "send", "kick")
    /\ \/ MB!KickReady(t) /\ Stay /\ UNCHANGED <<claimed, kick_failed>>
       \/ /\ MB!KickWrite(t)
          /\ Pop(t)
          /\ claimed' = claimed \union {Top(t).msg}
          /\ kick_failed' = FALSE
       \/ /\ KickMayTimeOut
          /\ MB!KickTimeout(t)
          /\ stack' = [stack EXCEPT ![t] = SubSeq(@, 1, Depth(t) - 2)]
          /\ base' = IF Depth(t) > 2 THEN base
                     ELSE [base EXCEPT ![t] = IF t = Rpmsg THEN "take" ELSE "delay"]
          /\ kick_failed' = TRUE
          /\ UNCHANGED claimed
    /\ UNCHANGED <<vq0, vq1, buf0, buf1, lin, isr, notified, have_linux_ept, active>>

\* Returns len if the kick got through, -1 if it timed out.
SendKick(t) ==
    /\ At(t, "send", "kick")
    /\ \/ MB!KickReady(t) /\ Stay /\ UNCHANGED <<claimed, kick_failed>>
       \/ /\ MB!KickWrite(t)
          /\ Pop(t)
          /\ claimed' = claimed \union {Top(t).msg}
          /\ kick_failed' = FALSE
       \/ /\ KickMayTimeOut
          /\ MB!KickTimeout(t)
          /\ Pop(t)
          /\ kick_failed' = TRUE
          /\ UNCHANGED claimed
    /\ UNCHANGED <<vq0, vq1, buf0, buf1, lin, isr, notified, have_linux_ept, active>>
----------------------------------------------------------------------------
(* rpmsg_handle_vq1 and rpmsg_on_recv *)

Vq1Take(t) ==
    /\ At(t, "vq1", "take")
    /\ \/ VQ1!GetAvailCheck(t) /\ Stay
       \/ VQ1!GetAvailRing(t) /\ Stay
       \/ VQ1!GetAvailLoad(t) /\ Stay
       \/ VQ1!GetAvailStore(t) /\ Goto(t, "recv", vq1_call[t].desc)
       \/ VQ1!GetAvailEmpty(t) /\ Pop(t)
    /\ UNCHANGED <<vq0, mbox, buf0, buf1, lin, isr, notified, rest>>

\* A mistake: a message met in a nested poll is dropped, buffer and all.
Vq1RecvDropNested(t) ==
    /\ At(t, "vq1", "recv")
    /\ have_linux_ept' = TRUE
    /\ IF Depth(t) = 1 THEN Push(t, "put", SendFrame(Blank)) ELSE Goto(t, "take", 0)
    /\ UNCHANGED <<vq0, vq1, mbox, buf0, buf1, lin, isr, notified,
                   active, claimed, kick_failed>>

\* A message for another endpoint is ignored.  The first of the others
\* teaches the endpoint, and each with a payload is sent back.
Vq1Recv(t) ==
    /\ At(t, "vq1", "recv")
    /\ LET n == buf1[Top(t).desc][2]
       IN  /\ have_linux_ept' = (have_linux_ept \/ n \notin Foreign)
           /\ IF n \in Foreign \union Empty
                THEN Goto(t, "put", Top(t).desc)
                ELSE Push(t, "put", SendFrame(Blank))
    /\ UNCHANGED <<vq0, vq1, mbox, buf0, buf1, lin, isr, notified,
                   active, claimed, kick_failed>>

Vq1Put(t) ==
    /\ At(t, "vq1", "put")
    /\ \/ VQ1!PutUsedRead(t, Top(t).desc, 1) /\ Stay
       \/ VQ1!PutUsedId(t) /\ Stay
       \/ VQ1!PutUsedLen(t) /\ Stay
       \/ VQ1!PutUsedPublish(t) /\ Goto(t, "kick", Top(t).desc)
    /\ UNCHANGED <<vq0, mbox, buf0, buf1, lin, isr, notified, rest>>

\* A mistake: one message handled for each call of rpmsg_poll.
Vq1KickOnce(t) ==
    /\ At(t, "vq1", "kick")
    /\ \/ MB!KickReady(t) /\ Stay /\ UNCHANGED kick_failed
       \/ MB!KickWrite(t) /\ Pop(t) /\ kick_failed' = FALSE
       \/ KickMayTimeOut /\ MB!KickTimeout(t) /\ Pop(t) /\ kick_failed' = TRUE
    /\ UNCHANGED <<vq0, vq1, buf0, buf1, lin, isr, notified,
                   have_linux_ept, active, claimed>>

\* A failed kick ends the loop.
Vq1Kick(t) ==
    /\ At(t, "vq1", "kick")
    /\ \/ MB!KickReady(t) /\ Stay /\ UNCHANGED kick_failed
       \/ MB!KickWrite(t) /\ Goto(t, "take", 0) /\ kick_failed' = FALSE
       \/ KickMayTimeOut /\ MB!KickTimeout(t) /\ Pop(t) /\ kick_failed' = TRUE
    /\ UNCHANGED <<vq0, vq1, buf0, buf1, lin, isr, notified,
                   have_linux_ept, active, claimed>>

Step(t) ==
    \/ SendTake(t) \/ SendFill(t) \/ SendPut(t) \/ SendKick(t)
    \/ Vq1Take(t) \/ Vq1Recv(t) \/ Vq1Put(t) \/ Vq1Kick(t)

Linux == LinuxSend \/ LinuxRing \/ LinuxTxPoll \/ LinuxReclaimVq1 \/ LinuxIrq

Core1 == IsrClear \/ IsrNotify \/ NotifyTake \/ T1Wake \/ T1Check \/ \E t \in Tasks : Step(t)

Next == Linux \/ Core1

Spec == Init /\ [][Next]_vars

\* Linux's sender finishes what it began, its timer and its interrupt run,
\* pending interrupts of core1 are taken, and the task that should run does.
Fairness ==
    /\ WF_vars(LinuxRing) /\ WF_vars(LinuxTxPoll) /\ WF_vars(LinuxIrq)
    /\ WF_vars(IsrClear) /\ WF_vars(IsrNotify)
    /\ WF_vars(NotifyTake) /\ WF_vars(T1Check)
    /\ \A t \in Tasks : WF_vars(Step(t))

FairSpec == Spec /\ Fairness
----------------------------------------------------------------------------
Received == {received[i] : i \in DOMAIN received}

(* Linux gets no message twice, and no buffer core1 did not fill.          *)
EachMessageOnce ==
    /\ Blank \notin Received
    /\ Cardinality(Received) = Len(received)

(* Every path out of rpmsg_send and rpmsg_handle_vq1, those of a failed    *)
(* kick included (rpmsg_core.c:249, 310), has given its buffer back.       *)
NoBufferLeak ==
    (\A t \in Tasks : stack[t] = <<>>) => VQ0!HeldDesc = {} /\ VQ1!HeldDesc = {}

(* rpmsg_send and rpmsg_handle_vq1 recurse while vq0 is empty; each level  *)
(* holds a buffer of vq1, and that alone bounds the stack of the task.     *)
RecursionBounded ==
    \A t \in Tasks : Depth(t) <= 2 * NUM + 1

(* vRpmsgTask does not sleep on a message of vq1 unless a wake-up is on    *)
(* its way or a kick has timed out: NoLostDoorbell of Doorbell, with the   *)
(* rings and the nested polls in full.                                     *)
NoMessageStranded ==
    VQ1!Offered # <<>> /\ base[Rpmsg] \in {"take", "blocked"} =>
        \/ notified
        \/ isr = "notify"
        \/ a2b_status
        \/ tx_queue > 0
        \/ ringing
        \/ kick_failed

(* A kick that times out ends the loop of rpmsg_handle_vq1 with messages   *)
(* left (rpmsg_core.c:310), and only Linux's next doorbell makes up for    *)
(* it.  So failed kicks may delay messages and must never leave the link   *)
(* dead: while the task sleeps and no wake-up is on its way, Linux has a   *)
(* buffer of vq1 for the next message, whatever kicks have failed.         *)
NeverWedged ==
    base[Rpmsg] \in {"take", "blocked"} =>
        \/ vq1_free # {}
        \/ VQ1!Returned # <<>>
        \/ notified
        \/ isr = "notify"
        \/ a2b_status
        \/ tx_queue > 0
        \/ ringing

(* A message for which rpmsg_send returned its length (rpmsg_core.h:54,    *)
(* "the number of bytes actually sent") is with Linux or on its way.       *)
ReportedMeansSent ==
    \A m \in claimed :
        \/ m \in Received
        \/ \E k \in DOMAIN VQ0!Returned : buf0[VQ0!Returned[k].id] = m

(* While no kick times out the echoes keep the order of the messages: the  *)
(* kick after each vq1 buffer (rpmsg_core.c:310) waits for Linux to have   *)
(* served the one before, so vq0 is full again before the next echo, and   *)
(* rpmsg_send has no reason to poll, and to overtake, from inside.         *)
EchoInOrder ==
    \A i, j \in DOMAIN received : i < j => received[i][2] < received[j][2]

(* rpmsg_send's wait ends, because "Linux takes the used buffers back and  *)
(* offers them again" (rpmsg_core.c:230): rpmsg_poll always returns.       *)
PollReturns ==
    (base[Rpmsg] = "poll") ~> (base[Rpmsg] # "poll")

(* Every message vTask1 hands to rpmsg_send reaches Linux.                 *)
EveryActiveSent ==
    \A n \in 1 .. NActive : (active >= n) ~> (FromT1(n) \in Received)

(* Every message Linux sends to core1, with a payload, comes back to it.   *)
EveryMessageEchoed ==
    \A n \in (1 .. NMsgs) \ (Foreign \union Empty) : (sent >= n) ~> (FromLinux(n) \in Received)
============================================================================
