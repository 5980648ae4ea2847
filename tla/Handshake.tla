----------------------------- MODULE Handshake -----------------------------
(***************************************************************************)
(* How the link comes up: main and gic_init on core1, rpmsg_init in        *)
(* vRpmsgTask (rpmsg_core.c:95-219), and, external, Linux's boot, the      *)
(* probe of its rpmsg driver and its first messages.                       *)
(*                                                                         *)
(* Interrupt 222 needs two enables: A2B_INTEN in the mailbox, without      *)
(* which STATUS does not latch a doorbell, and the GIC, which the two      *)
(* processors share and which Linux resets when it boots.  core1 therefore *)
(* polls STATUS for Linux's first doorbell, and configures 222 again.      *)
(*                                                                         *)
(* Of vq0 only the buffer of the announcement is modelled, and core1 only  *)
(* reads Linux's messages: Doorbell and RpmsgLink have the rest.           *)
(***************************************************************************)
EXTENDS Naturals

CONSTANTS
    TxQueueLen,  \* see Mailbox
    MaxMsgs,     \* bound: messages Linux sends while the link comes up
    Core1First   \* u-boot starts core1, and it polls before Linux resets the GIC

ASSUME HandshakeAssumption == /\ TxQueueLen \in Nat \ {0}
                              /\ MaxMsgs \in Nat
                              /\ Core1First \in BOOLEAN

VARIABLES
    a2b_status, b2a_status, tx_queue, tx_active, irq, kick,  \* see Mailbox
    linux,     \* Linux: how far it is
    channel,   \* Linux: it has received the announcement and made a channel
    posted,    \* Linux: messages sent
    vq0,       \* the announcement's buffer: "none", or whose it is
    unread,    \* messages in vq1 that core1 has not taken
    gic222,    \* the GIC forwards 222 to core1: route, group, priority, enable
    inten,     \* A2B_INTEN bit 3
    core1,     \* where vRpmsgTask is; before that, where main is
    ready,     \* rpmsg_ready
    isr,       \* interrupt 222: "idle", or "notify" after the W1C
    notified   \* the task's notification value is not zero

mbox == <<a2b_status, b2a_status, tx_queue, tx_active, irq, kick>>
lin  == <<linux, channel, posted>>
task == <<core1, ready, notified>>
hw   == <<gic222, inten>>
vars == <<mbox, lin, vq0, unread, hw, task, isr>>

Rpmsg == "rpmsg"

MB == INSTANCE Mailbox WITH Callers <- {Rpmsg}

\* Linux: booting, GIC reset, vq0 filled, running, a message's doorbell due.
LinuxPCs == {"boot", "gic", "filled", "up", "ring"}

\* In rpmsg_init, then in the loop of vRpmsgTask.
InitPCs == {"boot", "mbox", "poll", "delay", "rewire", "views", "take", "put", "kick", "ready"}
LoopPCs == {"notify", "blocked", "read"}

TypeOK ==
    /\ MB!TypeOK
    /\ linux \in LinuxPCs
    /\ channel \in BOOLEAN
    /\ posted \in 0 .. MaxMsgs
    /\ vq0 \in {"none", "offered", "held", "used"}
    /\ unread \in 0 .. MaxMsgs
    /\ gic222 \in BOOLEAN /\ inten \in BOOLEAN
    /\ core1 \in InitPCs \union LoopPCs
    /\ ready \in BOOLEAN
    /\ isr \in {"idle", "notify"}
    /\ notified \in BOOLEAN

Init ==
    /\ MB!Init
    /\ linux = "boot" /\ channel = FALSE /\ posted = 0
    /\ vq0 = "none" /\ unread = 0
    /\ gic222 = FALSE /\ inten = FALSE
    /\ core1 = "boot" /\ ready = FALSE
    /\ isr = "idle" /\ notified = FALSE
----------------------------------------------------------------------------
(* Linux (external, but for the steps of rockchip-mailbox.c in Mailbox)    *)

\* The GIC driver disables every shared interrupt and routes it to core 0.
LinuxGicInit ==
    /\ linux = "boot"
    /\ Core1First => core1 \in {"poll", "delay"}
    /\ gic222' = FALSE
    /\ linux' = "gic"
    /\ UNCHANGED <<mbox, channel, posted, vq0, unread, inten, task, isr>>

\* rpmsg probe: the vrings are zeroed and vq0 is filled with buffers ...
LinuxFill ==
    /\ linux = "gic"
    /\ vq0' = "offered"
    /\ linux' = "filled"
    /\ UNCHANGED <<mbox, channel, posted, unread, hw, task, isr>>

\* ... and vq0's only notify rings the first doorbell.  STATUS latches it
\* only if A2B_INTEN is set; if not, the bit reads as served.
LinuxFirstNotify ==
    /\ linux = "filled"
    /\ IF inten THEN MB!LinuxSendMessage ELSE UNCHANGED mbox
    /\ linux' = "up"
    /\ UNCHANGED <<channel, posted, vq0, unread, hw, task, isr>>

\* Over the channel, the driver bound to it sends messages.
LinuxPost ==
    /\ linux = "up"
    /\ channel
    /\ posted < MaxMsgs
    /\ posted' = posted + 1
    /\ unread' = unread + 1
    /\ linux' = "ring"
    /\ UNCHANGED <<mbox, channel, vq0, hw, task, isr>>

LinuxRing ==
    /\ linux = "ring"
    /\ MB!LinuxSendMessage
    /\ linux' = "up"
    /\ UNCHANGED <<channel, posted, vq0, unread, hw, task, isr>>

LinuxTxPoll ==
    /\ MB!LinuxTxPoll
    /\ UNCHANGED <<lin, vq0, unread, hw, task, isr>>

\* The callback takes the announcement and makes the channel.
LinuxIrq ==
    /\ \/ (MB!IrqRead \/ MB!IrqClear) /\ UNCHANGED <<channel, vq0>>
       \/ /\ MB!IrqReceived
          /\ IF vq0 = "used" THEN channel' = TRUE /\ vq0' = "offered"
                             ELSE UNCHANGED <<channel, vq0>>
    /\ UNCHANGED <<linux, posted, unread, hw, task, isr>>
----------------------------------------------------------------------------
(* core1: interrupt 222.  It preempts the task. *)

IsrClear ==
    /\ isr = "idle"
    /\ gic222 /\ inten
    /\ MB!Core1ClearDoorbell
    /\ isr' = "notify"
    /\ UNCHANGED <<lin, vq0, unread, hw, task>>

IsrNotify ==
    /\ isr = "notify"
    /\ notified' = TRUE
    /\ isr' = "idle"
    /\ UNCHANGED <<mbox, lin, vq0, unread, hw, core1, ready>>
----------------------------------------------------------------------------
(* core1: main, rpmsg_wait_handshake, rpmsg_ns_announce, rpmsg_init        *)

At(pc) == isr = "idle" /\ core1 = pc

\* main: gic_init enables 222 along with the tick; then the scheduler starts.
GicInit ==
    /\ At("boot")
    /\ gic222' = TRUE
    /\ core1' = "mbox"
    /\ UNCHANGED <<mbox, lin, vq0, unread, inten, ready, notified, isr>>

\* Mistakes: A2B_INTEN is left off; the doorbell is not waited for; 222 is
\* not configured again; the wake-up is consumed before the loop.
MboxInitNoInten ==
    /\ At("mbox")
    /\ core1' = "poll"
    /\ UNCHANGED <<mbox, lin, vq0, unread, hw, ready, notified, isr>>

PollDoorbellNoWait ==
    /\ At("poll")
    /\ core1' = "rewire"
    /\ UNCHANGED <<mbox, lin, vq0, unread, hw, ready, notified, isr>>

RewireNothing ==
    /\ At("rewire")
    /\ core1' = "views"
    /\ UNCHANGED <<mbox, lin, vq0, unread, hw, ready, notified, isr>>

SetReadyForgets ==
    /\ At("ready")
    /\ ready' = TRUE
    /\ notified' = FALSE
    /\ core1' = "notify"
    /\ UNCHANGED <<mbox, lin, vq0, unread, hw, isr>>

MboxInit ==
    /\ At("mbox")
    /\ inten' = TRUE
    /\ core1' = "poll"
    /\ UNCHANGED <<mbox, lin, vq0, unread, gic222, ready, notified, isr>>

\* Reads STATUS itself, and sleeps 50 ms between two looks.
PollDoorbell ==
    /\ At("poll")
    /\ core1' = IF a2b_status THEN "rewire" ELSE "delay"
    /\ UNCHANGED <<mbox, lin, vq0, unread, hw, ready, notified, isr>>

DelayEnd ==
    /\ At("delay")
    /\ core1' = "poll"
    /\ UNCHANGED <<mbox, lin, vq0, unread, hw, ready, notified, isr>>

\* Route, group, trigger, priority and enable: the interrupt, still pending,
\* is taken at once.
Rewire ==
    /\ At("rewire")
    /\ gic222' = TRUE
    /\ core1' = "views"
    /\ UNCHANGED <<mbox, lin, vq0, unread, inten, ready, notified, isr>>

\* vring_init twice, both cursors to zero.
ResetViews ==
    /\ At("views")
    /\ core1' = "take"
    /\ UNCHANGED <<mbox, lin, vq0, unread, hw, ready, notified, isr>>

\* Without a buffer rpmsg_init fails: the task goes on to its loop, but
\* rpmsg_ready stays 0.  A buffer is taken to be in Linux's pool; the code
\* loses one that is not (rpmsg_core.c:177).
AnnounceTake ==
    /\ At("take")
    /\ IF vq0 = "offered"
         THEN vq0' = "held" /\ core1' = "put"
         ELSE core1' = "notify" /\ UNCHANGED vq0
    /\ UNCHANGED <<mbox, lin, unread, hw, ready, notified, isr>>

AnnouncePut ==
    /\ At("put")
    /\ vq0' = "used"
    /\ core1' = "kick"
    /\ UNCHANGED <<mbox, lin, unread, hw, ready, notified, isr>>

\* It fails too if the kick times out, which takes an earlier kick, and
\* there is none.
AnnounceKick ==
    /\ At("kick")
    /\ \/ MB!KickReady(Rpmsg) /\ UNCHANGED core1
       \/ MB!KickWrite(Rpmsg) /\ core1' = "ready"
    /\ UNCHANGED <<lin, vq0, unread, hw, ready, notified, isr>>

SetReady ==
    /\ At("ready")
    /\ ready' = TRUE
    /\ core1' = "notify"
    /\ UNCHANGED <<mbox, lin, vq0, unread, hw, notified, isr>>

RpmsgInit ==
    \/ MboxInit \/ PollDoorbell \/ DelayEnd \/ Rewire \/ ResetViews
    \/ AnnounceTake \/ AnnouncePut \/ AnnounceKick \/ SetReady
----------------------------------------------------------------------------
(* core1: the loop of vRpmsgTask *)

NotifyTake ==
    /\ isr = "idle"
    /\ core1 \in {"notify", "blocked"}
    /\ core1' = IF notified THEN "read" ELSE "blocked"
    /\ notified' = FALSE
    /\ UNCHANGED <<mbox, lin, vq0, unread, hw, ready, isr>>

\* rpmsg_poll returns at once if the link is not ready.
RpmsgPoll ==
    /\ At("read")
    /\ IF ready /\ unread > 0
         THEN unread' = unread - 1 /\ UNCHANGED core1
         ELSE core1' = "notify" /\ UNCHANGED unread
    /\ UNCHANGED <<mbox, lin, vq0, hw, ready, notified, isr>>

Linux ==
    \/ LinuxGicInit \/ LinuxFill \/ LinuxFirstNotify
    \/ LinuxPost \/ LinuxRing \/ LinuxTxPoll \/ LinuxIrq

Task == GicInit \/ RpmsgInit \/ NotifyTake \/ RpmsgPoll

Next == Linux \/ IsrClear \/ IsrNotify \/ Task

Spec == Init /\ [][Next]_vars

\* Linux boots and its timer and interrupt run; core1 is never stopped.
\* Nothing makes Linux post a message.
Fairness ==
    /\ WF_vars(LinuxGicInit) /\ WF_vars(LinuxFill) /\ WF_vars(LinuxFirstNotify)
    /\ WF_vars(LinuxRing) /\ WF_vars(LinuxTxPoll) /\ WF_vars(LinuxIrq)
    /\ WF_vars(IsrClear) /\ WF_vars(IsrNotify)
    /\ WF_vars(Task)

FairSpec == Spec /\ Fairness
----------------------------------------------------------------------------
(* core1 touches the vrings only once Linux has zeroed and filled them: a  *)
(* cursor reset before that, or a buffer looked for too early, would make  *)
(* rpmsg_init fail for good (main.c:115, rpmsg_core.c:166).                *)
ViewsAfterFill ==
    core1 \in {"take", "put", "kick", "ready"} \union LoopPCs => vq0 # "none"

(* When core1 reports ready nothing of the boot can silence Linux's later  *)
(* doorbells: Linux's reset of the GIC is behind it, and both enables are  *)
(* set (rpmsg_core.c:101, 137).                                            *)
ReadyMeansListening ==
    ready => linux \in {"up", "ring"} /\ gic222 /\ inten

(* A message Linux sends right after the announcement, while core1 is      *)
(* still between its kick and its loop (rpmsg_core.c:197-217), is not      *)
(* slept on: in the loop's wait a wake-up for it is on its way.            *)
NoEarlyMessageStranded ==
    unread > 0 /\ core1 \in {"notify", "blocked"} =>
        \/ notified \/ isr = "notify" \/ (a2b_status /\ gic222 /\ inten)
        \/ tx_queue > 0 \/ linux = "ring"

(* The link comes up: both sides.                                          *)
LinkComesUp == <>[](ready /\ channel)

(* What Linux sends while the link comes up, or after, is read.            *)
EveryMessageRead == (unread > 0) ~> (unread = 0)

(* "The interrupt clears A2B_STATUS and vTaskNotifyGiveFromISR wakes the   *)
(* handshake" (docs/m3_design.md:81): a doorbell that core1's handler has  *)
(* taken while the handshake waits ends the wait.                          *)
HandlerWakesHandshake ==
    (notified /\ core1 \in {"poll", "delay"}) ~> (core1 \notin {"poll", "delay"})
============================================================================
