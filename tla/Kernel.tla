------------------------------- MODULE Kernel -------------------------------
(***************************************************************************)
(* The scheduler of core1: FreeRTOS V10.6.2 tasks.c as FreeRTOSConfig.h    *)
(* builds it (preemption and time slicing, priorities in a bitmap,         *)
(* INCLUDE_vTaskSuspend 0), on the Cortex-A53 port and with the two        *)
(* interrupts of main.c.                                                   *)
(*                                                                         *)
(* An action is what runs without being interrupted: one critical section, *)
(* one interrupt (both have priority 0xE0, so they do not nest) with the   *)
(* context switch of its exit, or one stretch of code that interrupts do   *)
(* not touch.  Between two actions of the running task any interrupt may   *)
(* come.  The ready and delay lists are sets: no property depends on their *)
(* order, and which of several ready tasks of the same priority is chosen  *)
(* next is left open.                                                      *)
(***************************************************************************)
EXTENDS Integers, FiniteSets

CONSTANTS
    Task,              \* the application's tasks and the idle task
    Idle,              \* the task of prvIdleTask
    BasePriority,      \* the priority each task is created with
    MaxPriority,       \* configMAX_PRIORITIES - 1
    TickModulus,       \* 2 to the width of TickType_t
    OverflowModulus,   \* the values of xNumOfOverflows that are told apart
    PendedLimit,       \* bound: ticks that come during one suspension
    ValueLimit,        \* bound: notifications given and not yet taken
    Sleepers,          \* tasks that call vTaskDelay
    Periodic,          \* tasks that call xTaskDelayUntil
    Takers,            \* tasks that call ulTaskNotifyTake
    Setters,           \* tasks that call vTaskPrioritySet
    Settable,          \* the tasks whose priority they change
    NewPriority,       \* the priorities they give them
    Waits              \* the numbers of ticks they ask for

Priority == 0..MaxPriority
Time == 0..(TickModulus - 1)
MaxDelay == TickModulus - 1

ASSUME TaskAssumption == Idle \in Task
ASSUME PriorityAssumption ==
    /\ MaxPriority \in Nat
    /\ BasePriority \in [Task -> Priority]
    /\ BasePriority[Idle] = 0
ASSUME TimeAssumption ==
    /\ TickModulus \in Nat /\ TickModulus > 1
    /\ OverflowModulus \in Nat \ {0}
    /\ PendedLimit \in Nat /\ ValueLimit \in Nat
    /\ Waits \subseteq Time
ASSUME CallAssumption ==
    /\ Sleepers \cup Periodic \cup Takers \cup Setters \cup Settable \subseteq Task \ {Idle}
    /\ NewPriority \subseteq Priority

VARIABLES
    prio,          \* uxPriority of each TCB
    ready,         \* pxReadyTasksLists
    top,           \* uxTopReadyPriority, the bits that are set
    delayed,       \* pxDelayedTaskList
    overflow,      \* pxOverflowDelayedTaskList
    wake,          \* the xItemValue of each xStateListItem
    pending,       \* xPendingReadyList
    next,          \* xNextTaskUnblockTime
    tick,          \* xTickCount
    pended,        \* xPendedTicks
    overflows,     \* xNumOfOverflows
    suspended,     \* uxSchedulerSuspended
    yieldPending,  \* xYieldPending
    current,       \* pxCurrentTCB
    notify,        \* ucNotifyState and ulNotifiedValue of each TCB
    pc,            \* where each task is
    arg,           \* the ticks each task asks for in its call
    last           \* *pxPreviousWakeTime of each periodic task

lists == <<ready, top, delayed, overflow, wake, pending>>
clock == <<next, tick, pended, overflows>>
sched == <<suspended, yieldPending, current>>
locals == <<pc, arg, last>>
vars == <<prio, lists, clock, sched, notify, locals>>

-----------------------------------------------------------------------------
(* Helpers.                                                                *)

Sleeping == delayed \cup overflow
EarliestOf(S) == CHOOSE w \in {wake[t] : t \in S} : \A t \in S : w <= wake[t]

(* portGET_HIGHEST_PRIORITY of a bitmap. *)
Highest(bits) == CHOOSE p \in bits : \A q \in bits : q <= p

(* The value prvResetNextTaskUnblockTime finds in the list S. *)
UnblockTime(S) == IF S = {} THEN MaxDelay ELSE EarliestOf(S)

(* A mutation: uxTopReadyPriority is not told of the tasks.                *)
MakeReadyForgetsBit(S) ==
    /\ wake' = [t \in Task |-> IF t \in S THEN 0 ELSE wake[t]]
    /\ ready' = [p \in Priority |-> (ready[p] \ S) \cup {t \in S : prio[t] = p}]
    /\ UNCHANGED top

(* prvAddTaskToReadyList, for each task of S, wherever its state list item *)
(* was before.  An item value is only kept while it is in a delay list.    *)
MakeReady(S) ==
    /\ wake' = [t \in Task |-> IF t \in S THEN 0 ELSE wake[t]]
    /\ ready' = [p \in Priority |-> (ready[p] \ S) \cup {t \in S : prio[t] = p}]
    /\ top' = top \cup {prio[t] : t \in S}

(* A mutation: nothing is noted while the scheduler is suspended.          *)
UnblockDropped(t) ==
    IF suspended = 0
        THEN /\ MakeReady({t})
             /\ delayed' = delayed \ {t}
             /\ overflow' = overflow \ {t}
             /\ UNCHANGED pending
        ELSE UNCHANGED lists

(* What wakes a task for an event: while the scheduler is suspended its    *)
(* lists are left alone, and t is only noted on xPendingReadyList.         *)
Unblock(t) ==
    IF suspended = 0
        THEN /\ MakeReady({t})
             /\ delayed' = delayed \ {t}
             /\ overflow' = overflow \ {t}
             /\ UNCHANGED pending
        ELSE /\ pending' = pending \cup {t}
             /\ UNCHANGED <<ready, top, delayed, overflow, wake>>

(* vTaskSwitchContext, on the ready lists as this step leaves them.        *)
SwitchNow ==
    /\ yieldPending' = FALSE
    /\ current' \in ready'[Highest(top')]

(* A mutation: the suspended scheduler is not respected.                   *)
SwitchContextAnyway == SwitchNow

SwitchContext ==
    IF suspended > 0
        THEN yieldPending' = TRUE /\ UNCHANGED current
        ELSE SwitchNow

(* Interrupts are masked inside xTaskResumeAll's critical section, the     *)
(* only one that takes several steps here.                                 *)
Masked == pc[current] = "ticks"

(* A call's locals, and a task without any. *)
NoArg == [call |-> "none", wait |-> 0, read |-> 0]

Goto(l) == pc' = [pc EXCEPT ![current] = l]

(* Two mutations: xNextTaskUnblockTime is not moved forward, and a wait    *)
(* across the wrap goes to the list of this turn.                          *)
AddCurrentLate(n) ==
    LET p == prio[current]
        w == (tick + n) % TickModulus
    IN  /\ ready' = [ready EXCEPT ![p] = @ \ {current}]
        /\ top' = IF ready[p] = {current} THEN top \ {p} ELSE top
        /\ wake' = [wake EXCEPT ![current] = w]
        /\ IF w < tick
              THEN overflow' = overflow \cup {current} /\ UNCHANGED <<delayed, next>>
              ELSE delayed' = delayed \cup {current} /\ UNCHANGED <<overflow, next>>

AddCurrentInOneList(n) ==
    LET p == prio[current]
        w == (tick + n) % TickModulus
    IN  /\ ready' = [ready EXCEPT ![p] = @ \ {current}]
        /\ top' = IF ready[p] = {current} THEN top \ {p} ELSE top
        /\ wake' = [wake EXCEPT ![current] = w]
        /\ delayed' = delayed \cup {current}
        /\ next' = IF w < next THEN w ELSE next
        /\ UNCHANGED overflow

(* prvAddCurrentTaskToDelayedList: the wait may end before the counter     *)
(* wraps or after.                                                         *)
AddCurrentToDelayed(n) ==
    LET p == prio[current]
        w == (tick + n) % TickModulus
    IN  /\ ready' = [ready EXCEPT ![p] = @ \ {current}]
        /\ top' = IF ready[p] = {current} THEN top \ {p} ELSE top
        /\ wake' = [wake EXCEPT ![current] = w]
        /\ IF w < tick
              THEN /\ overflow' = overflow \cup {current}
                   /\ UNCHANGED <<delayed, next>>
              ELSE /\ delayed' = delayed \cup {current}
                   /\ next' = IF w < next THEN w ELSE next
                   /\ UNCHANGED overflow

-----------------------------------------------------------------------------
(* The tick.                                                               *)

(* A mutation: nobody sees the wrap.                                       *)
WrapsUnseen == FALSE

(* xTaskIncrementTick while the scheduler runs.  When the counter wraps    *)
(* the two delay lists change places.                                      *)
TickCount == (tick + 1) % TickModulus
Wraps == TickCount = 0
Due == IF Wraps THEN overflow ELSE delayed
DueTime == IF Wraps THEN UnblockTime(overflow) ELSE next
Expired == IF TickCount >= DueTime THEN {t \in Due : wake[t] <= TickCount} ELSE {}

CountTick ==
    /\ tick' = TickCount
    /\ overflows' = IF Wraps THEN (overflows + 1) % OverflowModulus ELSE overflows
    /\ MakeReady(Expired)
    /\ delayed' = Due \ Expired
    /\ overflow' = IF Wraps THEN delayed ELSE overflow
    /\ pending' = pending \ Expired
    /\ next' = IF TickCount >= DueTime THEN UnblockTime(Due \ Expired) ELSE DueTime

(* Its result: somebody more urgent was woken, the running task shares its *)
(* priority, or a switch was asked for before.                             *)
SwitchRequired ==
    \/ \E t \in Expired : prio[t] > prio[current]
    \/ \E t, u \in ready'[prio[current]] : t # u
    \/ yieldPending

(* The interrupt of the timer, with the switch at its exit. *)
TickIsr ==
    /\ ~Masked
    /\ suspended = 0
    /\ CountTick
    /\ IF SwitchRequired THEN SwitchNow ELSE UNCHANGED <<yieldPending, current>>
    /\ UNCHANGED <<prio, pended, suspended, notify, locals>>

(* While the scheduler is suspended xTaskIncrementTick only counts.        *)
TickIsrSuspended ==
    /\ ~Masked
    /\ suspended > 0
    /\ pended < PendedLimit
    /\ pended' = pended + 1
    /\ UNCHANGED <<prio, lists, next, tick, overflows, sched, notify, locals>>

-----------------------------------------------------------------------------
(* Interrupt 222: vTaskNotifyGiveFromISR, and the switch at the exit if it *)
(* woke somebody more urgent.                                              *)

Waiting(t) == notify[t].state = "waiting"

(* A mutation: the handler does not ask for a switch.                      *)
NotifyGiveNoSwitch(t) ==
    /\ ~Masked
    /\ notify[t].value < ValueLimit
    /\ notify' = [notify EXCEPT ![t] = [state |-> "received", value |-> @.value + 1]]
    /\ IF Waiting(t) THEN Unblock(t) ELSE UNCHANGED lists
    /\ UNCHANGED <<prio, clock, sched, locals>>

NotifyGive(t) ==
    LET woken == Waiting(t) /\ prio[t] > prio[current]
    IN  /\ ~Masked
        /\ notify[t].value < ValueLimit
        /\ notify' = [notify EXCEPT ![t] = [state |-> "received", value |-> @.value + 1]]
        /\ IF Waiting(t) THEN Unblock(t) ELSE UNCHANGED lists
        /\ IF woken THEN SwitchContext ELSE UNCHANGED <<yieldPending, current>>
        /\ UNCHANGED <<prio, clock, suspended, locals>>

-----------------------------------------------------------------------------
(* vTaskSuspendAll reads and writes the counter without a critical         *)
(* section: an interrupt, and with it other tasks, may come between.       *)

SuspendLoad ==
    /\ pc[current] = "suspend"
    /\ arg' = [arg EXCEPT ![current].read = suspended]
    /\ Goto("suspendStore")
    /\ UNCHANGED <<prio, lists, clock, sched, notify, last>>

SuspendStore(label) ==
    /\ pc[current] = "suspendStore"
    /\ suspended' = arg[current].read + 1
    /\ Goto(label)
    /\ UNCHANGED <<prio, lists, clock, yieldPending, current, notify, arg, last>>

(* xTaskResumeAll, inside one critical section: the pending tasks, then    *)
(* the pended ticks one by one, then the yield it may owe.                 *)
ResumePending ==
    /\ pc[current] = "resume"
    /\ suspended' = suspended - 1
    /\ MakeReady(pending)
    /\ delayed' = delayed \ pending
    /\ overflow' = overflow \ pending
    /\ pending' = {}
    /\ yieldPending' = (yieldPending \/ \E t \in pending : prio[t] > prio[current])
    /\ next' = IF pending = {} THEN next ELSE UnblockTime(delayed \ pending)
    /\ Goto("ticks")
    /\ UNCHANGED <<prio, tick, pended, overflows, current, notify, arg, last>>

ResumeTick ==
    /\ pc[current] = "ticks"
    /\ pended > 0
    /\ CountTick
    /\ pended' = pended - 1
    /\ yieldPending' = SwitchRequired
    /\ UNCHANGED <<prio, suspended, current, notify, locals>>

(* The end: xAlreadyYielded is TRUE on the first way out, and the caller   *)
(* goes on at yielded; on the second it goes on at other.                  *)
ResumeEnd(yielded, other) ==
    /\ pc[current] = "ticks"
    /\ pended = 0
    /\ UNCHANGED <<prio, lists, clock, suspended, notify, arg, last>>
    /\ IF yieldPending
          THEN Goto(yielded) /\ SwitchNow
          ELSE Goto(other) /\ UNCHANGED <<yieldPending, current>>

(* portYIELD_WITHIN_API outside a critical section. *)
Yield(label) ==
    /\ pc[current] = "yield"
    /\ UNCHANGED <<prio, lists, clock, suspended, notify, arg, last>>
    /\ SwitchContext
    /\ Goto(label)

-----------------------------------------------------------------------------
(* vTaskDelay and xTaskDelayUntil.                                         *)

vTaskDelay(n) ==
    /\ pc[current] = "run" /\ current \in Sleepers
    /\ IF n > 0
          THEN /\ arg' = [arg EXCEPT ![current].wait = n, ![current].call = "delay"]
               /\ Goto("suspend")
          ELSE Goto("yield") /\ UNCHANGED arg
    /\ UNCHANGED <<prio, lists, clock, sched, notify, last>>

xTaskDelayUntil(n) ==
    /\ pc[current] = "run" /\ current \in Periodic
    /\ n > 0
    /\ arg' = [arg EXCEPT ![current].wait = n, ![current].call = "until"]
    /\ Goto("suspend")
    /\ UNCHANGED <<prio, lists, clock, sched, notify, last>>

DelayAdd ==
    /\ pc[current] = "add" /\ arg[current].call = "delay"
    /\ AddCurrentToDelayed(arg[current].wait)
    /\ arg' = [arg EXCEPT ![current] = NoArg]
    /\ Goto("resume")
    /\ UNCHANGED <<prio, pending, tick, pended, overflows, sched, notify, last>>

(* A mutation: the counter and the time to wake are compared as they are.  *)
ShouldDelayNoWrap(now, before, n) == (before + n) % TickModulus > now

(* Whether xTaskDelayUntil, called at now with the previous wake time      *)
(* before and the increment n, has anything to wait for.                   *)
ShouldDelay(now, before, n) ==
    LET w == (before + n) % TickModulus
    IN  IF now < before
            THEN w < before /\ w > now
            ELSE w < before \/ w > now

DelayUntilAdd ==
    LET w == (last[current] + arg[current].wait) % TickModulus
    IN  /\ pc[current] = "add" /\ arg[current].call = "until"
        /\ last' = [last EXCEPT ![current] = w]
        /\ IF ShouldDelay(tick, last[current], arg[current].wait)
              THEN AddCurrentToDelayed((w - tick) % TickModulus)
              ELSE UNCHANGED <<ready, top, wake, delayed, overflow, next>>
        /\ arg' = [arg EXCEPT ![current] = NoArg]
        /\ Goto("resume")
        /\ UNCHANGED <<prio, pending, tick, pended, overflows, sched, notify>>

-----------------------------------------------------------------------------
(* ulTaskGenericNotifyTake: two critical sections, with a yield inside the *)
(* first.                                                                  *)

TakeBlock(n) ==
    /\ pc[current] = "run" /\ current \in Takers
    /\ Goto("take")
    /\ IF notify[current].value = 0
          THEN /\ notify' = [notify EXCEPT ![current].state = "waiting"]
               /\ IF n > 0
                     THEN AddCurrentToDelayed(n) /\ SwitchNow
                     ELSE UNCHANGED <<ready, top, wake, delayed, overflow, next,
                                      yieldPending, current>>
          ELSE UNCHANGED <<ready, top, wake, delayed, overflow, next,
                           yieldPending, current, notify>>
    /\ UNCHANGED <<prio, pending, tick, pended, overflows, suspended, arg, last>>

TakeValue(clear) ==
    /\ pc[current] = "take"
    /\ notify' = [notify EXCEPT ![current] =
           [state |-> "none",
            value |-> IF clear \/ @.value = 0 THEN 0 ELSE @.value - 1]]
    /\ Goto("run")
    /\ UNCHANGED <<prio, lists, clock, sched, arg, last>>

-----------------------------------------------------------------------------
(* A mutation: no yield for a task that was raised. *)
SetYieldsIfLowered(t, p) == p < prio[t] /\ t = current

(* vTaskPrioritySet: a ready task moves to the list of its new priority.   *)
(* The yield comes inside the critical section.                            *)
SetYields(t, p) ==
    \/ p > prio[t] /\ t # current /\ p > prio[current]
    \/ p < prio[t] /\ t = current

MoveReady(t, p) ==
    LET old == prio[t]
        rest == ready[old] \ {t}
    IN  IF t \in ready[old]
            THEN /\ ready' = [ready EXCEPT ![old] = rest, ![p] = @ \cup {t}]
                 /\ top' = (IF rest = {} THEN top \ {old} ELSE top) \cup {p}
            ELSE UNCHANGED <<ready, top>>

vTaskPrioritySet(t, p) ==
    /\ pc[current] = "run" /\ current \in Setters
    /\ p # prio[t]
    /\ prio' = [prio EXCEPT ![t] = p]
    /\ MoveReady(t, p)
    /\ IF SetYields(t, p) THEN SwitchNow ELSE UNCHANGED <<yieldPending, current>>
    /\ UNCHANGED <<delayed, overflow, wake, pending, clock, suspended, notify, locals>>

(* prvIdleTask gives way to another task of priority 0. *)
IdleYield ==
    /\ current = Idle /\ pc[Idle] = "run"
    /\ \E t, u \in ready[0] : t # u
    /\ UNCHANGED <<prio, lists, clock, suspended, notify, locals>>
    /\ SwitchNow

-----------------------------------------------------------------------------
(* vTaskStartScheduler, after main has created the tasks: each is in the   *)
(* list of its priority, and the most urgent of them runs first.           *)
InitialReady == [p \in Priority |-> {t \in Task : BasePriority[t] = p}]

Init ==
    /\ prio = BasePriority
    /\ ready = InitialReady
    /\ top = {BasePriority[t] : t \in Task}
    /\ delayed = {} /\ overflow = {} /\ pending = {}
    /\ wake = [t \in Task |-> 0]
    /\ next = MaxDelay /\ tick = 0 /\ pended = 0 /\ overflows = 0
    /\ suspended = 0 /\ yieldPending = FALSE
    /\ current \in InitialReady[Highest({BasePriority[t] : t \in Task})]
    /\ notify = [t \in Task |-> [state |-> "none", value |-> 0]]
    /\ pc = [t \in Task |-> "run"]
    /\ arg = [t \in Task |-> NoArg]
    /\ last = [t \in Task |-> 0]

Interrupt == TickIsr \/ TickIsrSuspended \/ \E t \in Takers : NotifyGive(t)

(* The steps of a task inside a call. *)
Inside ==
    \/ SuspendLoad \/ SuspendStore("add")
    \/ DelayAdd \/ DelayUntilAdd
    \/ ResumePending \/ ResumeTick \/ ResumeEnd("run", "yield")
    \/ Yield("run")
    \/ \E clear \in BOOLEAN : TakeValue(clear)

(* What the application's code may call next. *)
Call ==
    \/ \E n \in Waits : vTaskDelay(n) \/ xTaskDelayUntil(n) \/ TakeBlock(n)
    \/ \E t \in Settable, p \in NewPriority : vTaskPrioritySet(t, p)

Next == Interrupt \/ Inside \/ Call \/ IdleYield

Spec == Init /\ [][Next]_vars

(* The running task goes on, and the timer's interrupt, which stays        *)
(* pending while it is masked, is taken whenever the mask opens often      *)
(* enough.  Nobody promises that the application calls anything.           *)
FairSpec ==
    /\ Spec
    /\ WF_vars(Inside)
    /\ SF_vars(TickIsr)

-----------------------------------------------------------------------------
(* Properties.                                                             *)

Label == {"run", "suspend", "suspendStore", "add", "resume", "ticks", "yield", "take"}

(* The types of the variables. *)
TypeOK ==
    /\ prio \in [Task -> Priority]
    /\ ready \in [Priority -> SUBSET Task]
    /\ top \in SUBSET Priority
    /\ delayed \in SUBSET Task /\ overflow \in SUBSET Task /\ pending \in SUBSET Task
    /\ wake \in [Task -> Time]
    /\ next \in Time /\ tick \in Time
    /\ pended \in 0..PendedLimit
    /\ overflows \in 0..(OverflowModulus - 1)
    /\ suspended \in Nat /\ yieldPending \in BOOLEAN /\ current \in Task
    /\ notify \in [Task -> [state : {"none", "waiting", "received"}, value : 0..ValueLimit]]
    /\ pc \in [Task -> Label]
    /\ arg \in [Task -> [call : {"none", "delay", "until"}, wait : Time, read : Nat]]
    /\ last \in [Task -> Time]

(* Each task is in exactly one of the ready lists and delay lists, a ready *)
(* task in the list of its priority, and the bitmap says exactly which     *)
(* ready lists have somebody in them: taskRESET_READY_PRIORITY, the lists' *)
(* swap, xPendingReadyList and vTaskPrioritySet keep it so.                *)
Placed(t) == t \in ready[prio[t]]

ListsExact ==
    /\ \A t \in Task, p \in Priority : t \in ready[p] => p = prio[t]
    /\ \A t \in Task :
           /\ ~(t \in delayed /\ t \in overflow)
           /\ Placed(t) <=> t \notin Sleeping
    /\ \A p \in Priority : p \in top <=> ready[p] # {}

(* Nobody sleeps past the time: whoever is in pxDelayedTaskList is due     *)
(* later than the tick that was counted, xNextTaskUnblockTime is not later *)
(* than any of them, and whoever is in the overflow list is due after the  *)
(* wrap and less than a full turn from now.                                *)
NoOversleep ==
    /\ \A t \in delayed : tick < wake[t] /\ next <= wake[t]
    /\ \A t \in overflow : wake[t] < tick

(* One task at a time is inside a region with the scheduler suspended, it  *)
(* is the running one, and the counter says so although vTaskSuspendAll    *)
(* does not protect it.                                                    *)
Region == {"add", "resume"}

SuspendedAlone ==
    /\ suspended = IF pc[current] \in Region THEN 1 ELSE 0
    /\ \A t \in Task \ {current} : pc[t] \notin Region

(* Whenever interrupts are open, the scheduler is not suspended and the    *)
(* running task is not about to yield, it is ready and nobody who is ready *)
(* is more urgent, and no yield is owed.                                   *)
HighestRuns ==
    (suspended = 0 /\ ~Masked /\ pc[current] # "yield") =>
        /\ current \in ready[prio[current]]
        /\ prio[current] = Highest(top)
        /\ ~yieldPending

(* A notification is not lost: a task that sleeps in ulTaskNotifyTake has  *)
(* none, or is on xPendingReadyList and the scheduler is suspended.        *)
NoLostNotification ==
    \A t \in Task : (t \in Sleeping /\ pc[t] = "take" /\ notify[t].value > 0) =>
        t \in pending /\ suspended > 0

(* A periodic task sleeps until the time it counts on, however late it     *)
(* came to sleep: the next period starts where the last one ended.         *)
PeriodicOnTime ==
    \A t \in Periodic \ (Sleepers \cup Takers) :
        t \in Sleeping => wake[t] = last[t]

(* The ticks until the tick that wakes t. *)
TicksLeft(t) ==
    IF t \in delayed THEN wake[t] - tick
    ELSE IF t \in overflow THEN wake[t] + TickModulus - tick
    ELSE 0

(* xTaskDelayUntil waits for the rest of the period and no more: of its    *)
(* increment n, the ticks passed since the previous wake time are taken    *)
(* off, wherever the counter wraps in between, and a deadline that has     *)
(* gone by is not waited for.                                              *)
PeriodicExact ==
    [][\A t \in Periodic :
           (arg[t].call = "until" /\ pc[t] = "add" /\ pc'[t] = "resume") =>
               LET n == arg[t].wait
                   passed == (tick - last[t]) % TickModulus
               IN  /\ last'[t] = (last[t] + n) % TickModulus
                   /\ TicksLeft(t)' = IF n > passed THEN n - passed ELSE 0]_vars

(* Every wait ends after exactly its ticks, or by a notification: the      *)
(* kernel implements Alarms.                                               *)
Alarm == INSTANCE Alarms WITH
    MaxWait <- MaxDelay,
    left <- [t \in Task |-> TicksLeft(t)],
    owed <- pended

ImplementsAlarms == Alarm!Spec

(* Nobody sleeps for ever: there is no wait without a limit, because       *)
(* INCLUDE_vTaskSuspend is 0 and portMAX_DELAY is a time like any other.   *)
SleepEnds == \A t \in Task \ {Idle} : t \in Sleeping ~> t \notin Sleeping

(* A notification reaches its task, as long as nobody is more urgent:      *)
(* vRpmsgTask is the most urgent task of main.c.                           *)
NotifiedTaskTakes ==
    \A t \in Takers :
        (\A u \in Task \ {t} : BasePriority[u] < BasePriority[t])
            => (pc[t] = "take" /\ notify[t].value > 0) ~> (pc[t] = "run")
=============================================================================
