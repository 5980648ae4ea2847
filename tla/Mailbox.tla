------------------------------ MODULE Mailbox ------------------------------
(***************************************************************************)
(* The hardware mailbox between Linux and core1 and the two drivers on it: *)
(* rockchip-mailbox.c in Linux, rpmsg_mbox.c and the W1C of interrupt 222  *)
(* in core1.  Linux rings A2B channel 3, core1 kicks B2A channel 0.  Every *)
(* message is the same (link id, "RMSG"), so a channel carries one bit:    *)
(* its STATUS, set by a write of CMD/DAT and cleared by writing 1 to it.   *)
(*                                                                         *)
(* The module has the registers and the drivers' steps; what a doorbell    *)
(* announces belongs to the modules that instantiate it.                   *)
(***************************************************************************)
EXTENDS Naturals

CONSTANTS
    Callers,     \* tasks of core1 that call mbox_kick
    TxQueueLen   \* messages Linux's mailbox framework can keep waiting: at
                 \* least one, as the modules that instantiate this one assume

VARIABLES
    a2b_status,  \* A2B_STATUS bit 3: a doorbell from Linux is pending
    b2a_status,  \* B2A_STATUS bit 0: a kick from core1 is pending
    tx_queue,    \* Linux: messages waiting in the channel's queue
    tx_active,   \* Linux: a message is written and not seen done
    irq,         \* Linux: where rockchip_mbox_irq is
    kick         \* per task of core1: where it is in mbox_kick

a2bVars  == <<a2b_status, tx_queue, tx_active>>
b2aVars  == <<b2a_status, irq, kick>>
vars     == <<a2bVars, b2aVars>>

IrqPCs  == {"idle", "callback", "clear"}
KickPCs == {"out", "write"}

TypeOK ==
    /\ a2b_status \in BOOLEAN
    /\ b2a_status \in BOOLEAN
    /\ tx_queue \in 0 .. TxQueueLen
    /\ tx_active \in BOOLEAN
    /\ irq \in IrqPCs
    /\ kick \in [Callers -> KickPCs]

Init ==
    /\ a2b_status = FALSE
    /\ b2a_status = FALSE
    /\ tx_queue = 0
    /\ tx_active = FALSE
    /\ irq = "idle"
    /\ kick = [t \in Callers |-> "out"]
----------------------------------------------------------------------------
(* Linux to core1 *)

\* rockchip_mbox_send_data: refused with -EBUSY while the last doorbell is
\* still pending, and the message then stays queued; msg_submit in the
\* framework (external) calls it for the oldest of the queued messages, when
\* none is active.
Submit(queued) ==
    IF queued = 0 \/ tx_active \/ a2b_status
      THEN /\ tx_queue' = queued
           /\ UNCHANGED <<a2b_status, tx_active>>
      ELSE /\ tx_queue' = queued - 1
           /\ a2b_status' = TRUE
           /\ tx_active' = TRUE

\* mbox_send_message (external): queues the message, then submits.  A full
\* queue refuses it with -ENOBUFS.
LinuxSendMessage ==
    /\ IF tx_queue = TxQueueLen
         THEN UNCHANGED a2bVars
         ELSE Submit(tx_queue + 1)
    /\ UNCHANGED b2aVars

\* The framework's 1 ms poll (external) of rockchip_mbox_last_tx_done: once
\* core1 has cleared the bit, the next message goes out.
LinuxTxPoll ==
    /\ tx_active
    /\ ~a2b_status
    /\ IF tx_queue = 0
         THEN tx_active' = FALSE /\ UNCHANGED <<tx_queue, a2b_status>>
         ELSE /\ tx_queue' = tx_queue - 1
              /\ a2b_status' = TRUE
              /\ UNCHANGED tx_active
    /\ UNCHANGED b2aVars

\* Interrupt 222 on core1: the handler first writes 1 to A2B_STATUS bit 3.
Core1ClearDoorbell ==
    /\ a2b_status
    /\ a2b_status' = FALSE
    /\ UNCHANGED <<tx_queue, tx_active, b2aVars>>
----------------------------------------------------------------------------
(* core1 to Linux *)

\* A mistake: the kick does not wait for the last one to be taken.
KickNoWait(t) ==
    /\ kick[t] = "out"
    /\ kick' = [kick EXCEPT ![t] = "write"]
    /\ UNCHANGED <<b2a_status, irq, a2bVars>>

\* mbox_kick finds B2A_STATUS bit 0 clear and leaves its loop ...
KickReady(t) ==
    /\ kick[t] = "out"
    /\ ~b2a_status
    /\ kick' = [kick EXCEPT ![t] = "write"]
    /\ UNCHANGED <<b2a_status, irq, a2bVars>>

\* ... or has read it set 100000 times and returns -1.
KickTimeout(t) ==
    /\ kick[t] = "out"
    /\ b2a_status
    /\ UNCHANGED vars

\* The writes of CMD and DAT raise the interrupt in Linux.
KickWrite(t) ==
    /\ kick[t] = "write"
    /\ b2a_status' = TRUE
    /\ kick' = [kick EXCEPT ![t] = "out"]
    /\ UNCHANGED <<irq, a2bVars>>

\* rockchip_mbox_irq reads the status and the message ...
IrqRead ==
    /\ irq = "idle"
    /\ b2a_status
    /\ irq' = "callback"
    /\ UNCHANGED <<b2a_status, kick, a2bVars>>

\* ... hands it to the client, mbox_chan_received_data ...
IrqReceived ==
    /\ irq = "callback"
    /\ irq' = "clear"
    /\ UNCHANGED <<b2a_status, kick, a2bVars>>

\* ... and clears the bit last.
IrqClear ==
    /\ irq = "clear"
    /\ b2a_status' = FALSE
    /\ irq' = "idle"
    /\ UNCHANGED <<kick, a2bVars>>
============================================================================
