------------------------------ MODULE Doorbell ------------------------------
(***************************************************************************)
(* How the two processors wake each other: the mailbox, interrupt 222 and  *)
(* the task notification it gives (main.c:179-206), the loop of vRpmsgTask *)
(* (main.c:121-128) over rpmsg_handle_vq1 (rpmsg_core.c:290-313), and the  *)
(* two handlers in Linux.                                                  *)
(*                                                                         *)
(* The rings are reduced to what a doorbell is about: how many messages    *)
(* wait for core1 in vq1, and whether Linux has used entries it has not    *)
(* looked at.  RpmsgLink has the rings in full, and the echoes.            *)
(***************************************************************************)
EXTENDS Naturals

CONSTANTS
    NBUF,            \* buffers in vq1: Linux never has more messages waiting
    TxQueueLen       \* see Mailbox

ASSUME NbufAssumption  == NBUF \in Nat \ {0}
ASSUME QueueAssumption == TxQueueLen \in Nat \ {0}

VARIABLES
    a2b_status, b2a_status, tx_queue, tx_active, irq, kick,  \* see Mailbox
    linux,      \* a sender in Linux: "idle", or "ring" once a message is in vq1
    unread,     \* messages Linux has put in vq1 and core1 has not taken
    unseen,     \* core1 has put used entries Linux has not looked at
    isr,        \* interrupt 222 on core1: "idle", or "notify" after the W1C
    notified,   \* the task's notification value is not zero
    task,       \* where vRpmsgTask is
    kick_failed, \* history: the last mbox_kick returned -1
    missed       \* history: it did so when Linux's callback was past the ring

mbox     == <<a2b_status, b2a_status, tx_queue, tx_active, irq, kick>>
hist     == <<kick_failed, missed>>
vars     == <<mbox, linux, unread, unseen, isr, notified, task, hist>>

Rpmsg == "rpmsg"

MB == INSTANCE Mailbox WITH Callers <- {Rpmsg}

TaskPCs == {"take", "blocked", "poll", "put", "kick"}

TypeOK ==
    /\ MB!TypeOK
    /\ linux \in {"idle", "ring"}
    /\ unread \in 0 .. NBUF
    /\ unseen \in BOOLEAN
    /\ isr \in {"idle", "notify"}
    /\ notified \in BOOLEAN
    /\ task \in TaskPCs
    /\ kick_failed \in BOOLEAN
    /\ missed \in BOOLEAN

\* The handshake is over: core1 is ready and waits for its first doorbell.
Init ==
    /\ MB!Init
    /\ linux = "idle"
    /\ unread = 0
    /\ unseen = FALSE
    /\ isr = "idle"
    /\ notified = FALSE
    /\ task = "take"
    /\ kick_failed = FALSE
    /\ missed = FALSE
----------------------------------------------------------------------------
(* Linux *)

\* A message goes into vq1 (external: virtio's rpmsg_send) ...
LinuxPost ==
    /\ linux = "idle"
    /\ unread < NBUF
    /\ unread' = unread + 1
    /\ linux' = "ring"
    /\ UNCHANGED <<mbox, unseen, isr, notified, task, hist>>

\* ... and then the virtqueue's notify rings the doorbell.
LinuxRing ==
    /\ linux = "ring"
    /\ MB!LinuxSendMessage
    /\ linux' = "idle"
    /\ UNCHANGED <<unread, unseen, isr, notified, task, hist>>

LinuxTxPoll ==
    /\ MB!LinuxTxPoll
    /\ UNCHANGED <<linux, unread, unseen, isr, notified, task, hist>>

\* The callback empties the used rings.
LinuxIrq ==
    /\ \/ MB!IrqRead /\ UNCHANGED unseen
       \/ MB!IrqReceived /\ unseen' = FALSE
       \/ MB!IrqClear /\ UNCHANGED unseen
    /\ UNCHANGED <<linux, unread, isr, notified, task, hist>>
----------------------------------------------------------------------------
(* core1: interrupt 222.  The task does not run while it does. *)

IsrClear ==
    /\ isr = "idle"
    /\ MB!Core1ClearDoorbell
    /\ isr' = "notify"
    /\ UNCHANGED <<linux, unread, unseen, notified, task, hist>>

\* A mistake: the handler clears the bit and forgets to wake the task.
IsrNoNotify ==
    /\ isr = "notify"
    /\ isr' = "idle"
    /\ UNCHANGED <<mbox, linux, unread, unseen, notified, task, hist>>

\* vTaskNotifyGiveFromISR
IsrNotify ==
    /\ isr = "notify"
    /\ notified' = TRUE
    /\ isr' = "idle"
    /\ UNCHANGED <<mbox, linux, unread, unseen, task, hist>>
----------------------------------------------------------------------------
(* core1: vRpmsgTask *)

\* ulTaskNotifyTake(pdTRUE, portMAX_DELAY) blocks while the value is zero,
\* and zeroes it on the way out.
NotifyTake ==
    /\ isr = "idle"
    /\ task \in {"take", "blocked"}
    /\ IF notified
         THEN task' = "poll" /\ notified' = FALSE
         ELSE task' = "blocked" /\ UNCHANGED notified
    /\ UNCHANGED <<mbox, linux, unread, unseen, isr, hist>>

\* The loop of rpmsg_handle_vq1 takes a message, or ends.
PollOne ==
    /\ isr = "idle"
    /\ task = "poll"
    /\ IF unread = 0
         THEN task' = "take" /\ UNCHANGED unread
         ELSE task' = "put" /\ unread' = unread - 1
    /\ UNCHANGED <<mbox, linux, unseen, isr, notified, hist>>

PutUsed ==
    /\ isr = "idle"
    /\ task = "put"
    /\ unseen' = TRUE
    /\ task' = "kick"
    /\ UNCHANGED <<mbox, linux, unread, isr, notified, hist>>

Kicked(pc) == task' = pc /\ kick_failed' = FALSE /\ missed' = FALSE
GaveUp     == task' = "take" /\ kick_failed' = TRUE /\ missed' = (irq = "clear")

\* A mistake: one message handled for each doorbell.
KickOnce ==
    /\ isr = "idle"
    /\ task = "kick"
    /\ \/ MB!KickReady(Rpmsg) /\ UNCHANGED <<task, hist>>
       \/ MB!KickWrite(Rpmsg) /\ Kicked("take")
       \/ MB!KickTimeout(Rpmsg) /\ GaveUp
    /\ UNCHANGED <<linux, unread, unseen, isr, notified>>

\* mbox_kick; if it fails the loop ends at once.
Kick ==
    /\ isr = "idle"
    /\ task = "kick"
    /\ \/ MB!KickReady(Rpmsg) /\ UNCHANGED <<task, hist>>
       \/ MB!KickWrite(Rpmsg) /\ Kicked("poll")
       \/ MB!KickTimeout(Rpmsg) /\ GaveUp
    /\ UNCHANGED <<linux, unread, unseen, isr, notified>>

Task == NotifyTake \/ PollOne \/ PutUsed \/ Kick

Next ==
    \/ LinuxPost \/ LinuxRing \/ LinuxTxPoll \/ LinuxIrq
    \/ IsrClear \/ IsrNotify
    \/ Task

Spec == Init /\ [][Next]_vars

\* Linux's threads and timers run, a pending interrupt is taken, and the
\* task has the highest priority on its core.  Nothing makes Linux post.
Fairness ==
    /\ WF_vars(LinuxRing) /\ WF_vars(LinuxTxPoll) /\ WF_vars(LinuxIrq)
    /\ WF_vars(IsrClear) /\ WF_vars(IsrNotify)
    /\ WF_vars(Task)

FairSpec == Spec /\ Fairness
----------------------------------------------------------------------------
(* The task never goes back to sleep on a message: while one is in vq1 and *)
(* the task is at, or in, ulTaskNotifyTake, a wake-up is on its way, unless *)
(* the last poll was cut short by a kick that timed out.  The race is      *)
(* between the handler's W1C (main.c:194), Linux's next doorbell and the   *)
(* task's last look at vq1 (rpmsg_core.c:295).                             *)
NoLostDoorbell ==
    unread > 0 /\ task \in {"take", "blocked"} =>
        \/ notified
        \/ isr = "notify"
        \/ a2b_status
        \/ tx_queue > 0
        \/ linux = "ring"
        \/ kick_failed

(* Linux clears B2A_STATUS only after its callback (rockchip-mailbox.c:    *)
(* 160-164), so a kick written in between would be wiped out: core1's wait *)
(* (rpmsg_mbox.c:29) is what saves it.  A used entry Linux has not seen    *)
(* has a kick ahead of it, or one the handler has still to act on.  That   *)
(* holds also when mbox_kick gives up and its caller reports a failure     *)
(* (rpmsg_core.c:249, 310): the kick that kept the channel busy announces  *)
(* the new entry too, unless its callback is already past the ring.        *)
NoLostKick ==
    unseen => task = "kick" \/ (b2a_status /\ irq # "clear") \/ missed

(* From the end of core1's wait to its write of CMD the channel is core1's *)
(* own: the handler is not running and will not start; and the bit stays   *)
(* set for as long as the handler runs, so that core1 can tell.            *)
KickOwnsChannel ==
    /\ irq # "idle" => b2a_status
    /\ kick[Rpmsg] = "write" => task = "kick" /\ irq = "idle" /\ ~b2a_status

(* Once Linux stops sending, core1 has soon read everything and Linux has  *)
(* soon seen every buffer that came back, if the last kick got through.    *)
AllReadOnceQuiet ==
    <>[](linux = "idle" /\ ~kick_failed) => <>[](unread = 0 /\ ~unseen)
============================================================================
