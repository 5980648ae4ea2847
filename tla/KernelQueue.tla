---------------------------- MODULE KernelQueue ----------------------------
(***************************************************************************)
(* A queue of queue.c on the scheduler of module Kernel: blocking sends    *)
(* and receives of tasks with their timeouts, sends and receives of        *)
(* interrupt handlers, and the lock that keeps handlers off the event      *)
(* lists while a task puts itself on one.                                  *)
(*                                                                         *)
(* As in Kernel an action is one critical section or a stretch of code     *)
(* that interrupts leave alone; a handler may come between any two.        *)
(***************************************************************************)
EXTENDS Kernel, SequencesExt

CONSTANTS
    Item,       \* what is put into the queue
    Length,     \* uxLength
    Positions,  \* the xCopyPosition of the senders
    Receivers,  \* tasks that call xQueueReceive
    Senders     \* tasks that call xQueueGenericSend

ASSUME QueueAssumption ==
    /\ Length \in Nat \ {0}
    /\ Positions \subseteq {"back", "front", "overwrite"}
    /\ "overwrite" \in Positions => Length = 1
    /\ Receivers \cup Senders \subseteq Task \ {Idle}
    /\ IsFiniteSet(Task)   \* uxCurrentNumberOfTasks is a number

VARIABLES
    slots,     \* the storage area
    writeTo,   \* pcWriteTo, as the number of a slot
    readFrom,  \* pcReadFrom, likewise
    count,     \* uxMessagesWaiting
    rxLock,    \* cRxLock
    txLock,    \* cTxLock
    toReceive, \* xTasksWaitingToReceive
    toSend,    \* xTasksWaitingToSend
    op         \* the locals of each task's call

storage == <<slots, writeTo, readFrom, count>>
locks == <<rxLock, txLock>>
events == <<toReceive, toSend>>
qvars == <<storage, locks, events, op>>
allVars == <<vars, qvars>>

Unlocked == -1   \* queueUNLOCKED

NoOp == [call |-> "none", item |-> "none", position |-> "none", wait |-> 0,
         enter |-> 0, over |-> 0, set |-> FALSE, then |-> "none"]

-----------------------------------------------------------------------------
(* The storage area.                                                       *)

Full == count = Length
Empty == count = 0

Fits(position) == ~Full \/ position = "overwrite"

(* A mutation: pcReadFrom moves back before the item is written.           *)
CopyDataPointerFirst(item, position) ==
    /\ IF position = "back"
          THEN /\ slots' = [slots EXCEPT ![writeTo] = item]
               /\ writeTo' = (writeTo + 1) % Length
               /\ UNCHANGED readFrom
          ELSE /\ readFrom' = IF readFrom = 0 THEN Length - 1 ELSE readFrom - 1
               /\ slots' = [slots EXCEPT ![readFrom'] = item]
               /\ UNCHANGED writeTo
    /\ count' = IF position = "overwrite" /\ count > 0 THEN count ELSE count + 1

(* prvCopyDataToQueue. *)
CopyDataToQueue(item, position) ==
    /\ IF position = "back"
          THEN /\ slots' = [slots EXCEPT ![writeTo] = item]
               /\ writeTo' = (writeTo + 1) % Length
               /\ UNCHANGED readFrom
          ELSE /\ slots' = [slots EXCEPT ![readFrom] = item]
               /\ readFrom' = IF readFrom = 0 THEN Length - 1 ELSE readFrom - 1
               /\ UNCHANGED writeTo
    /\ count' = IF position = "overwrite" /\ count > 0 THEN count ELSE count + 1

(* prvCopyDataFromQueue, and the caller's count. *)
CopyDataFromQueue ==
    /\ readFrom' = (readFrom + 1) % Length
    /\ count' = count - 1
    /\ UNCHANGED <<slots, writeTo>>

-----------------------------------------------------------------------------
(* The event lists.                                                        *)

(* vListInsert by (configMAX_PRIORITIES - priority): behind everybody who  *)
(* is as urgent, up to the first who is less.                              *)
InsertByPriority(list, t) ==
    LET less == {i \in 1..Len(list) : prio[list[i]] < prio[t]}
        at   == CHOOSE i \in less : \A j \in less : i <= j
    IN  IF less = {} THEN Append(list, t) ELSE InsertAt(list, at, t)

(* uxListRemove, for the members of S. *)
Without(list, S) ==
    LET kept[i \in 0..Len(list)] ==
            IF i = 0 THEN <<>>
            ELSE IF list[i] \in S THEN kept[i - 1]
            ELSE Append(kept[i - 1], list[i])
    IN  kept[Len(list)]

(* xTaskRemoveFromEventList for the first of a list, if there is one; then *)
(* the caller, a task or a handler, yields if that one is more urgent.     *)
MoreUrgent(S) == \E t \in S : prio[t] > prio[current]

WakeFirst(list) ==
    IF list = <<>>
        THEN UNCHANGED <<lists, yieldPending, current>>
        ELSE /\ Unblock(Head(list))
             /\ IF MoreUrgent({Head(list)})
                   THEN SwitchContext
                   ELSE UNCHANGED <<yieldPending, current>>

RestOf(list) == IF list = <<>> THEN <<>> ELSE Tail(list)

(* A mutation: the first item is not counted.                              *)
OwedOneLess(list, lock) ==
    {list[i] : i \in 1..(IF lock - 1 < Len(list) THEN lock - 1 ELSE Len(list))}

(* Those that prvUnlockQueue wakes: one for each item that came or went    *)
(* while the queue was locked, as long as there is somebody.               *)
Owed(list, lock) ==
    {list[i] : i \in 1..(IF lock < Len(list) THEN lock ELSE Len(list))}

(* A mutation: they count on. *)
CountedOn(lock) == lock + 1

(* The locks count up to the number of tasks. *)
Counted(lock) == IF lock < Cardinality(Task) THEN lock + 1 ELSE lock

-----------------------------------------------------------------------------
(* Interrupt handlers.                                                     *)

(* A mutation: it stays on its event list.                                 *)
QTickIsrOnly ==
    /\ TickIsr
    /\ UNCHANGED qvars

(* A task whose time has come leaves its event list too. *)
QTickIsr ==
    /\ TickIsr
    /\ toReceive' = Without(toReceive, Expired)
    /\ toSend' = Without(toSend, Expired)
    /\ UNCHANGED <<storage, locks, op>>

xQueueGenericSendFromISR(item, position) ==
    /\ ~Masked
    /\ Fits(position)
    /\ CopyDataToQueue(item, position)
    /\ IF txLock = Unlocked
          THEN /\ WakeFirst(toReceive)
               /\ toReceive' = RestOf(toReceive)
               /\ UNCHANGED txLock
          ELSE /\ txLock' = Counted(txLock)
               /\ UNCHANGED <<toReceive, lists, yieldPending, current>>
    /\ UNCHANGED <<prio, clock, suspended, notify, locals, rxLock, toSend, op>>

xQueueReceiveFromISR ==
    /\ ~Masked
    /\ ~Empty
    /\ CopyDataFromQueue
    /\ IF rxLock = Unlocked
          THEN /\ WakeFirst(toSend)
               /\ toSend' = RestOf(toSend)
               /\ UNCHANGED rxLock
          ELSE /\ rxLock' = Counted(rxLock)
               /\ UNCHANGED <<toSend, lists, yieldPending, current>>
    /\ UNCHANGED <<prio, clock, suspended, notify, locals, txLock, toReceive, op>>

-----------------------------------------------------------------------------
(* The calls of a task.                                                    *)

Op == op[current]
SetOp(o) == op' = [op EXCEPT ![current] = o]

CallReceive(n) ==
    /\ pc[current] = "run" /\ current \in Receivers
    /\ SetOp([NoOp EXCEPT !.call = "receive", !.wait = n])
    /\ Goto("try")
    /\ UNCHANGED <<prio, lists, clock, sched, notify, arg, last, storage, locks, events>>

CallSend(item, position, n) ==
    /\ pc[current] = "run" /\ current \in Senders
    /\ SetOp([NoOp EXCEPT !.call = "send", !.wait = n,
                          !.item = item, !.position = position])
    /\ Goto("try")
    /\ UNCHANGED <<prio, lists, clock, sched, notify, arg, last, storage, locks, events>>

(* The top of both loops, when the queue lets the call succeed. *)
ReceiveItem ==
    /\ pc[current] = "try" /\ Op.call = "receive"
    /\ ~Empty
    /\ CopyDataFromQueue
    /\ WakeFirst(toSend)
    /\ toSend' = RestOf(toSend)
    /\ SetOp(NoOp)
    /\ Goto("run")
    /\ UNCHANGED <<prio, clock, suspended, notify, arg, last, locks, toReceive>>

SendItem ==
    /\ pc[current] = "try" /\ Op.call = "send"
    /\ Fits(Op.position)
    /\ CopyDataToQueue(Op.item, Op.position)
    /\ WakeFirst(toReceive)
    /\ toReceive' = RestOf(toReceive)
    /\ SetOp(NoOp)
    /\ Goto("run")
    /\ UNCHANGED <<prio, clock, suspended, notify, arg, last, locks, toSend>>

(* When it does not: the call ends, or gets ready to wait, from the time   *)
(* of its first look on.                                                   *)
Stuck == IF Op.call = "receive" THEN Empty ELSE ~Fits(Op.position)

GiveUp ==
    /\ pc[current] = "try" /\ Stuck
    /\ Op.wait = 0
    /\ SetOp(NoOp)
    /\ Goto("run")
    /\ UNCHANGED <<prio, lists, clock, sched, notify, arg, last, storage, locks, events>>

GetReadyToWait ==
    /\ pc[current] = "try" /\ Stuck
    /\ Op.wait > 0
    /\ SetOp(IF Op.set THEN Op
             ELSE [Op EXCEPT !.set = TRUE, !.enter = tick, !.over = overflows])
    /\ Goto("suspend")
    /\ UNCHANGED <<prio, lists, clock, sched, notify, arg, last, storage, locks, events>>

(* prvLockQueue, with the scheduler suspended. *)
LockQueue ==
    /\ pc[current] = "lock"
    /\ rxLock' = IF rxLock = Unlocked THEN 0 ELSE rxLock
    /\ txLock' = IF txLock = Unlocked THEN 0 ELSE txLock
    /\ Goto("check")
    /\ UNCHANGED <<prio, lists, clock, sched, notify, arg, last, storage, events, op>>

(* xTaskCheckForTimeOut. *)
Elapsed(o) == (tick - o.enter) % TickModulus

(* A mutation: the wraps are not looked at. *)
TimedOutInOneTurn(o) == Elapsed(o) >= o.wait

TimedOut(o) ==
    \/ overflows # o.over /\ tick >= o.enter
    \/ Elapsed(o) >= o.wait

CheckForTimeOut ==
    /\ pc[current] = "check"
    /\ IF TimedOut(Op)
          THEN /\ SetOp([Op EXCEPT !.wait = 0, !.then = "expired"])
               /\ Goto("unlockTx")
          ELSE /\ SetOp([Op EXCEPT !.wait = @ - Elapsed(Op), !.enter = tick,
                                   !.over = overflows])
               /\ Goto("test")
    /\ UNCHANGED <<prio, lists, clock, sched, notify, arg, last, storage, locks, events>>

(* prvIsQueueEmpty or prvIsQueueFull, in a critical section of their own. *)
TestQueue ==
    /\ pc[current] = "test"
    /\ IF (IF Op.call = "receive" THEN Empty ELSE Full)
          THEN Goto("place") /\ UNCHANGED op
          ELSE SetOp([Op EXCEPT !.then = "again"]) /\ Goto("unlockTx")
    /\ UNCHANGED <<prio, lists, clock, sched, notify, arg, last, storage, locks, events>>

(* vTaskPlaceOnEventList. *)
PlaceOnEventList ==
    /\ pc[current] = "place"
    /\ IF Op.call = "receive"
          THEN toReceive' = InsertByPriority(toReceive, current) /\ UNCHANGED toSend
          ELSE toSend' = InsertByPriority(toSend, current) /\ UNCHANGED toReceive
    /\ AddCurrentToDelayed(Op.wait)
    /\ SetOp([Op EXCEPT !.then = "blocked"])
    /\ Goto("unlockTx")
    /\ UNCHANGED <<prio, pending, tick, pended, overflows, sched, notify, arg, last,
                   storage, locks>>

(* prvUnlockQueue: two critical sections.  The scheduler is suspended, so  *)
(* those it wakes become pending.                                          *)
UnlockTx ==
    LET woken == Owed(toReceive, txLock)
    IN  /\ pc[current] = "unlockTx"
        /\ pending' = pending \cup woken
        /\ toReceive' = Without(toReceive, woken)
        /\ yieldPending' = (yieldPending \/ MoreUrgent(woken))
        /\ txLock' = Unlocked
        /\ Goto("unlockRx")
        /\ UNCHANGED <<prio, ready, top, delayed, overflow, wake, clock, suspended, current,
                       notify, arg, last, storage, rxLock, toSend, op>>

(* A mutation: cRxLock is not reset. *)
UnlockRxNotReset ==
    LET woken == Owed(toSend, rxLock)
    IN  /\ pc[current] = "unlockRx"
        /\ pending' = pending \cup woken
        /\ toSend' = Without(toSend, woken)
        /\ yieldPending' = (yieldPending \/ MoreUrgent(woken))
        /\ Goto("resume")
        /\ UNCHANGED <<prio, ready, top, delayed, overflow, wake, clock, suspended, current,
                       notify, arg, last, storage, locks, toReceive, op>>

UnlockRx ==
    LET woken == Owed(toSend, rxLock)
    IN  /\ pc[current] = "unlockRx"
        /\ pending' = pending \cup woken
        /\ toSend' = Without(toSend, woken)
        /\ yieldPending' = (yieldPending \/ MoreUrgent(woken))
        /\ rxLock' = Unlocked
        /\ Goto("resume")
        /\ UNCHANGED <<prio, ready, top, delayed, overflow, wake, clock, suspended, current,
                       notify, arg, last, storage, txLock, toReceive, op>>

(* The pended ticks that xTaskResumeAll counts take tasks off the lists.   *)
QResumeTick ==
    /\ ResumeTick
    /\ toReceive' = Without(toReceive, Expired)
    /\ toSend' = Without(toSend, Expired)
    /\ UNCHANGED <<storage, locks, op>>

(* Where the call goes on once the scheduler runs again: a blocked task    *)
(* yields unless xTaskResumeAll did, a send that is over fails, a receive  *)
(* looks once more.                                                        *)
QResumeEnd ==
    /\ \/ Op.then = "blocked" /\ ResumeEnd("try", "yield")
       \/ Op.then = "again"   /\ ResumeEnd("try", "try")
       \/ Op.then = "expired" /\ Op.call = "receive" /\ ResumeEnd("expired", "expired")
       \/ Op.then = "expired" /\ Op.call = "send"    /\ ResumeEnd("run", "run")
    /\ SetOp(IF Op.then = "expired" /\ Op.call = "send"
                THEN NoOp ELSE [Op EXCEPT !.then = "none"])
    /\ UNCHANGED <<storage, locks, events>>

ReceiveExpired ==
    /\ pc[current] = "expired"
    /\ IF Empty THEN SetOp(NoOp) /\ Goto("run") ELSE Goto("try") /\ UNCHANGED op
    /\ UNCHANGED <<prio, lists, clock, sched, notify, arg, last, storage, locks, events>>

-----------------------------------------------------------------------------
(* xQueueGenericReset of a new queue. *)
QInit ==
    /\ Init
    /\ slots \in [0..(Length - 1) -> {"none"}]
    /\ writeTo = 0 /\ readFrom = Length - 1 /\ count = 0
    /\ rxLock = Unlocked /\ txLock = Unlocked
    /\ toReceive = <<>> /\ toSend = <<>>
    /\ op = [t \in Task |-> NoOp]

Handler ==
    \/ QTickIsr
    \/ TickIsrSuspended /\ UNCHANGED qvars
    \/ xQueueReceiveFromISR
    \/ \E item \in Item, position \in Positions : xQueueGenericSendFromISR(item, position)

QCall ==
    \/ \E n \in Waits : CallReceive(n)
    \/ \E n \in Waits, item \in Item, position \in Positions : CallSend(item, position, n)

QInside ==
    \/ ReceiveItem \/ SendItem \/ GiveUp \/ GetReadyToWait
    \/ (SuspendLoad \/ SuspendStore("lock")) /\ UNCHANGED qvars
    \/ LockQueue \/ CheckForTimeOut \/ TestQueue \/ PlaceOnEventList
    \/ UnlockTx \/ UnlockRx
    \/ ResumePending /\ UNCHANGED qvars
    \/ QResumeTick \/ QResumeEnd
    \/ Yield("try") /\ UNCHANGED qvars
    \/ ReceiveExpired

QNext == Handler \/ QInside \/ QCall \/ (IdleYield /\ UNCHANGED qvars)

QSpec == QInit /\ [][QNext]_allVars

-----------------------------------------------------------------------------
(* Properties.                                                             *)

QLabel == {"run", "try", "suspend", "suspendStore", "lock", "check", "test", "place",
           "unlockTx", "unlockRx", "resume", "ticks", "yield", "expired"}

(* The types of the queue's variables. *)
QTypeOK ==
    /\ slots \in [0..(Length - 1) -> Item \cup {"none"}]
    /\ writeTo \in 0..(Length - 1) /\ readFrom \in 0..(Length - 1)
    /\ count \in 0..Length
    /\ rxLock \in Unlocked..Cardinality(Task) /\ txLock \in Unlocked..Cardinality(Task)
    /\ toReceive \in Seq(Task) /\ toSend \in Seq(Task)
    /\ pc \in [Task -> QLabel]
    /\ op \in [Task -> [call : {"none", "receive", "send"}, item : Item \cup {"none"},
                        position : Positions \cup {"none"}, wait : Time, enter : Time,
                        over : 0..(OverflowModulus - 1), set : BOOLEAN,
                        then : {"none", "blocked", "again", "expired"}]]

(* xEventListItem is in one list at most and its owner sleeps for it: a    *)
(* task on an event list is in a delay list, on one event list and once,   *)
(* and not on xPendingReadyList; and a task that sleeps for the queue is   *)
(* on its list or is pending.                                              *)
OnList(t, list) == \E i \in 1..Len(list) : list[i] = t

EventListsExact ==
    /\ IsInjective(toReceive) /\ IsInjective(toSend)
    /\ \A t \in Task :
          /\ OnList(t, toReceive) => op[t].call = "receive"
          /\ OnList(t, toSend) => op[t].call = "send"
          /\ OnList(t, toReceive) \/ OnList(t, toSend) => t \in Sleeping /\ t \notin pending
          /\ t \in Sleeping =>
                 OnList(t, toReceive) \/ OnList(t, toSend) \/ t \in pending

(* The queue is locked by the running task only, and only while the        *)
(* scheduler is suspended.                                                 *)
LockedAlone ==
    /\ rxLock # Unlocked \/ txLock # Unlocked =>
           suspended > 0 /\ pc[current] \in {"check", "test", "place", "unlockTx", "unlockRx"}
    /\ suspended = 0 => \A t \in Task : pc[t] \notin {"lock", "check", "test", "place"}

(* Nobody is forgotten: while the queue is unlocked, a task sleeps for an  *)
(* item only if the queue is empty, or somebody who was woken for one has  *)
(* yet to come back for it; and the same for space.                        *)
Returning(t, call) ==
    /\ op[t].call = call
    /\ t \in pending \/ (t \notin Sleeping /\ pc[t] # "run")

NobodyForgotten ==
    /\ (txLock = Unlocked /\ toReceive # <<>> /\ ~Empty) =>
           Cardinality({t \in Task : Returning(t, "receive")}) > 0
    /\ (rxLock = Unlocked /\ toSend # <<>> /\ ~Full) =>
           Cardinality({t \in Task : Returning(t, "send")}) > 0

(* The storage area implements a first-in first-out queue. *)
Contents == [i \in 1..count |-> slots[(readFrom + i) % Length]]

Promise == INSTANCE Fifo WITH items <- Contents

ImplementsFifo == Promise!Spec

(* What task.h says of xTaskCheckForTimeOut: a wait is over exactly when   *)
(* its ticks have been counted, and otherwise goes on for those that are   *)
(* left, however often the task was woken for nothing and on whichever     *)
(* side of a wrap of the counter.  Of a task that was kept from looking    *)
(* until the counter has wrapped twice the code may take two turns for     *)
(* one, so this speaks of the others.                                      *)
Now == overflows * TickModulus + tick
Since(o) == Now - (o.over * TickModulus + o.enter)

TimeoutExact ==
    [][\A t \in Task : (pc[t] = "check" /\ pc'[t] # "check"
                            /\ overflows <= op[t].over + 1) =>
           IF Since(op[t]) >= op[t].wait
               THEN pc'[t] = "unlockTx" /\ op'[t].wait = 0
               ELSE pc'[t] = "test" /\ op'[t].wait = op[t].wait - Since(op[t])]_allVars
=============================================================================
