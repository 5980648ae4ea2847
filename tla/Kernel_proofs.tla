--------------------------- MODULE Kernel_proofs ---------------------------
(* Theorems about Kernel, for every set of tasks and priorities, every     *)
(* width of the tick counter and every choice of the calling tasks.        *)
EXTENDS Kernel, TLAPS, FiniteSetTheorems

-----------------------------------------------------------------------------
(* The inductive invariant.                                                *)

(* The running task is ready, except from its entry in a delay list to the *)
(* yield that follows.                                                     *)
CurrentReady ==
    pc[current] \in {"resume", "ticks", "yield"} \/ current \in ready[prio[current]]

(* Nobody ready is more urgent than the running task unless a yield is     *)
(* owed, and a yield is owed only where one will come.                     *)
Urgent ==
    /\ ~yieldPending => \A p \in top : p <= prio[current]
    /\ yieldPending => suspended > 0 \/ Masked

(* xPendingReadyList is used only while the scheduler is suspended.        *)
PendingOnlySuspended == pending # {} => suspended > 0

(* A task asleep in ulTaskNotifyTake can be notified, and has not been     *)
(* unless it is pending.                                                   *)
Notifiable ==
    \A t \in Task : (t \in Sleeping /\ pc[t] = "take" /\ t \notin pending) =>
        notify[t].state = "waiting" /\ notify[t].value = 0

(* The idle task never waits. *)
IdleReady == Idle \notin Sleeping /\ pc[Idle] = "run"

(* What a call has noted: only the calls of its task, a wait that is not   *)
(* zero, and a counter that was read as zero.                              *)
CallsSane ==
    \A t \in Task :
        /\ arg[t].call # "none" => arg[t].wait > 0
        /\ arg[t].call = "delay" => t \in Sleepers
        /\ arg[t].call = "until" => t \in Periodic
        /\ pc[t] = "suspendStore" => arg[t].read = 0

(* Of the types and the invariant, what does not depend on which calls the *)
(* tasks make.                                                             *)
CoreTypes ==
    /\ prio \in [Task -> Priority]
    /\ ready \in [Priority -> SUBSET Task]
    /\ top \in SUBSET Priority
    /\ delayed \in SUBSET Task /\ overflow \in SUBSET Task /\ pending \in SUBSET Task
    /\ wake \in [Task -> Time]
    /\ next \in Time /\ tick \in Time
    /\ pended \in 0..PendedLimit
    /\ overflows \in 0..(OverflowModulus - 1)
    /\ suspended \in Nat /\ yieldPending \in BOOLEAN /\ current \in Task
    /\ notify \in [Task -> [state : {"none", "waiting", "received"}, value : 0..ValueLimit]]
    /\ arg \in [Task -> [call : {"none", "delay", "until"}, wait : Time, read : Nat]]
    /\ last \in [Task -> Time]

KCore == CoreTypes /\ ListsExact /\ NoOversleep /\ PendingOnlySuspended

KInv ==
    /\ TypeOK /\ ListsExact /\ NoOversleep /\ SuspendedAlone /\ PeriodicOnTime
    /\ CurrentReady /\ Urgent /\ PendingOnlySuspended /\ Notifiable
    /\ IdleReady /\ CallsSane

\* The types without those of the program points.
LEMMA CoreOfTypes == TypeOK => CoreTypes
BY DEF TypeOK, CoreTypes

\* The part of the invariant that other modules' steps keep, too.
LEMMA CoreOfKInv == KInv => KCore
BY CoreOfTypes DEF KInv, KCore

-----------------------------------------------------------------------------
(* Numbers.                                                                *)

\* The time counter's arithmetic: a sum of two times wraps once at most.
LEMMA TimeSum ==
    ASSUME NEW a \in Time, NEW b \in Time
    PROVE  /\ (a + b) % TickModulus \in Time
           /\ a + b < TickModulus => (a + b) % TickModulus = a + b
           /\ a + b >= TickModulus => (a + b) % TickModulus = a + b - TickModulus
BY TimeAssumption, SMT DEF Time

\* And a difference borrows once at most.
LEMMA TimeDifference ==
    ASSUME NEW a \in Time, NEW b \in Time
    PROVE  /\ (a - b) % TickModulus \in Time
           /\ a >= b => (a - b) % TickModulus = a - b
           /\ a < b  => (a - b) % TickModulus = a - b + TickModulus
BY TimeAssumption, SMT DEF Time

\* A set of numbers has a smallest one: strict inclusion of finite sets is
\* well-founded, and n is smaller than m when 0..n is strictly in 0..m.
LEMMA SmallestExists ==
    ASSUME NEW S, S \subseteq Nat, S # {}
    PROVE  \E m \in S : \A n \in S : m <= n
<1> DEFINE T == {0..n : n \in S}
<1>1. \A n \in S : 0..n \in FiniteSubsetsOf(Nat)
  BY FS_Interval DEF FiniteSubsetsOf
<1>2. PICK x \in T : \A y \in T : ~ (<<y, x>> \in StrictSubsetOrdering(Nat))
  <2>1. T \subseteq FiniteSubsetsOf(Nat) /\ T # {}
    BY <1>1
  <2> HIDE DEF T
  <2> QED
    BY <2>1, FS_StrictSubsetOrderingWellFounded, WFMin, Zenon
<1>3. PICK m \in S : x = 0..m
  BY <1>2
<1>4. ASSUME NEW n \in S PROVE m <= n
  <2>1. SUFFICES ASSUME n < m PROVE FALSE
    OBVIOUS
  <2>2. 0..n \subseteq 0..m /\ m \in 0..m /\ m \notin 0..n
    BY <2>1
  <2>3. <<0..n, 0..m>> \in StrictSubsetOrdering(Nat)
    BY <2>2 DEF StrictSubsetOrdering
  <2> QED
    BY <2>3, <1>2, <1>3
<1> QED
  BY <1>4

\* portGET_HIGHEST_PRIORITY finds the highest bit, if there is one.
LEMMA HighestIsMaximum ==
    ASSUME NEW bits \in SUBSET Priority, bits # {}
    PROVE  Highest(bits) \in bits /\ \A q \in bits : q <= Highest(bits)
<1> DEFINE S == {MaxPriority - p : p \in bits}
<1>1. \A p \in bits : MaxPriority - p \in Nat
  BY PriorityAssumption DEF Priority
<1>2. PICK m \in S : \A n \in S : m <= n
  <2>1. S \subseteq Nat /\ S # {}
    BY <1>1
  <2> QED
    BY <2>1, SmallestExists
<1>3. PICK p \in bits : m = MaxPriority - p
  BY <1>2
<1>4. \A q \in bits : q <= p
  BY <1>2, <1>3, PriorityAssumption DEF Priority
<1> QED
  BY <1>4 DEF Highest

\* The time prvResetNextTaskUnblockTime finds is not later than any in the
\* list.
LEMMA UnblockTimeIsFirst ==
    ASSUME wake \in [Task -> Time], NEW S \in SUBSET Task
    PROVE  UnblockTime(S) \in Time /\ \A t \in S : UnblockTime(S) <= wake[t]
<1>1. CASE S = {}
  BY <1>1, TimeAssumption DEF UnblockTime, MaxDelay, Time
<1>2. CASE S # {}
  <2> DEFINE W == {wake[t] : t \in S}
  <2>1. W \subseteq Nat /\ W # {} /\ W \subseteq Time
    BY <1>2 DEF Time
  <2>2. PICK m \in W : \A n \in W : m <= n
    BY <2>1, SmallestExists
  <2>3. EarliestOf(S) \in W /\ \A t \in S : EarliestOf(S) <= wake[t]
    BY <2>2 DEF EarliestOf
  <2> QED
    BY <1>2, <2>1, <2>3 DEF UnblockTime
<1> QED
  BY <1>1, <1>2

-----------------------------------------------------------------------------
(* The lists.                                                              *)

\* The types of the lists alone.
ListTypes ==
    /\ prio \in [Task -> Priority]
    /\ ready \in [Priority -> SUBSET Task]
    /\ top \in SUBSET Priority
    /\ delayed \in SUBSET Task /\ overflow \in SUBSET Task
    /\ wake \in [Task -> Time]

\* prvAddTaskToReadyList keeps the lists and the bitmap exact, provided that
\* the tasks leave their delay lists in the same step.
LEMMA MakeReadyKeepsLists ==
    ASSUME CoreTypes, ListsExact, NEW S \in SUBSET Task, MakeReady(S), prio' = prio,
           delayed' \cup overflow' = Sleeping \ S, delayed' \cap overflow' = {}
    PROVE  /\ ListTypes' /\ ListsExact'
           /\ top' = top \cup {prio[t] : t \in S}
           /\ \A t \in Task : Placed(t) => Placed(t)'
           /\ \A t \in Task \ S : wake'[t] = wake[t]
<1>1. ListTypes'
  <2>1. delayed' \in SUBSET Task /\ overflow' \in SUBSET Task
    BY DEF CoreTypes, Sleeping
  <2>2. wake' \in [Task -> Time]
    BY TimeAssumption DEF CoreTypes, MakeReady, Time
  <2>3. ready' \in [Priority -> SUBSET Task] /\ top' \in SUBSET Priority
    BY DEF CoreTypes, MakeReady
  <2> QED
    BY <2>1, <2>2, <2>3 DEF CoreTypes, ListTypes
<1>2. \A t \in Task, p \in Priority :
          t \in ready'[p] <=> (t \in ready[p] \/ (t \in S /\ p = prio[t]))
  BY DEF MakeReady, CoreTypes, ListsExact
<1>3. \A t \in Task : Placed(t)' <=> (Placed(t) \/ t \in S)
  BY <1>2 DEF Placed, CoreTypes
<1>4. \A t \in Task : Placed(t)' <=> t \notin Sleeping'
  BY <1>3 DEF ListsExact, Sleeping
<1>5. \A t \in Task, p \in Priority : t \in ready'[p] => p = prio'[t]
  BY <1>2 DEF ListsExact
<1>6. \A p \in Priority : p \in top' <=> ready'[p] # {}
  BY <1>2 DEF MakeReady, ListsExact, CoreTypes
<1> QED
  BY <1>1, <1>3, <1>4, <1>5, <1>6 DEF ListsExact, MakeReady

\* prvAddCurrentTaskToDelayedList keeps the lists exact and nobody is late,
\* when the running task is ready and waits for something.
LEMMA AddCurrentKeepsLists ==
    ASSUME CoreTypes, ListsExact, NoOversleep, NEW n \in Time, n > 0, Placed(current),
           AddCurrentToDelayed(n), prio' = prio, tick' = tick
    PROVE  /\ ListTypes' /\ ListsExact' /\ NoOversleep'
           /\ next' \in Time
           /\ top' \subseteq top
           /\ Sleeping' = Sleeping \cup {current}
           /\ wake' = [wake EXCEPT ![current] = (tick + n) % TickModulus]
<1> DEFINE w == (tick + n) % TickModulus
<1>1. w \in Time /\ w # tick
  <2>1. tick \in Time
    BY DEF CoreTypes
  <2>2. w \in Time /\ (w = tick + n \/ w = tick + n - TickModulus)
    BY <2>1, TimeSum, TimeAssumption DEF Time
  <2> QED
    BY <2>1, <2>2, TimeAssumption DEF Time
<1>2. wake' = [wake EXCEPT ![current] = w]
  BY DEF AddCurrentToDelayed
<1>3. current \notin Sleeping /\ current \in Task
  BY DEF ListsExact, CoreTypes
<1>4. \A t \in Task, p \in Priority : t \in ready'[p] <=> (t \in ready[p] /\ t # current)
  BY DEF AddCurrentToDelayed, CoreTypes, ListsExact
<1>5. /\ delayed' \in SUBSET Task /\ overflow' \in SUBSET Task
      /\ next' \in Time /\ NoOversleep'
      /\ Sleeping' = Sleeping \cup {current}
      /\ \A t \in Task : ~(t \in delayed' /\ t \in overflow')
  <2> USE <1>1, <1>2, <1>3 DEF CoreTypes, ListsExact, Sleeping
  <2> HIDE DEF w
  <2>1. CASE w < tick
    <3>1. delayed' = delayed /\ overflow' = overflow \cup {current} /\ next' = next
      BY <2>1 DEF AddCurrentToDelayed, w
    <3>2. NoOversleep'
      BY <3>1, <2>1 DEF NoOversleep, Time
    <3> QED
      BY <3>1, <3>2
  <2>2. CASE ~(w < tick)
    <3>1. /\ overflow' = overflow /\ delayed' = delayed \cup {current}
          /\ next' = IF w < next THEN w ELSE next
      BY <2>2 DEF AddCurrentToDelayed, w
    <3>2. NoOversleep'
      BY <3>1, <2>2 DEF NoOversleep, Time
    <3> QED
      BY <3>1, <3>2
  <2> QED
    BY <2>1, <2>2
<1>6. ListTypes'
  BY <1>1, <1>2, <1>5 DEF ListTypes, CoreTypes, AddCurrentToDelayed
<1>7. \A p \in Priority : p \in top' <=> ready'[p] # {}
  BY DEF AddCurrentToDelayed, CoreTypes, ListsExact
<1>8. ListsExact'
  BY <1>4, <1>5, <1>7 DEF ListsExact, Placed, CoreTypes
<1> QED
  BY <1>2, <1>5, <1>6, <1>8 DEF AddCurrentToDelayed

\* vTaskSwitchContext gives the processor to a ready task of the highest
\* priority: there is always one, because the idle task never waits.
LEMMA SwitchNowPicksHighest ==
    ASSUME ListTypes', ListsExact', Idle \notin Sleeping', SwitchNow
    PROVE  /\ current' \in Task /\ Placed(current)'
           /\ \A p \in top' : p <= prio'[current']
           /\ yieldPending' = FALSE
<1>1. Idle \in ready'[prio'[Idle]] /\ prio'[Idle] \in Priority
  BY TaskAssumption DEF ListsExact, Placed, ListTypes
<1>2. top' \in SUBSET Priority /\ top' # {}
  BY <1>1 DEF ListsExact, ListTypes
<1>3. Highest(top') \in top' /\ \A q \in top' : q <= Highest(top')
  BY <1>2, HighestIsMaximum
<1>4. current' \in Task /\ prio'[current'] = Highest(top')
  BY <1>2, <1>3 DEF SwitchNow, ListsExact, ListTypes
<1> QED
  BY <1>3, <1>4 DEF SwitchNow, Placed

\* A tick keeps the lists exact, across the wrap too, and leaves nobody in a
\* delay list whose time has come: whoever was in pxDelayedTaskList when the
\* counter wraps would have been due before, so the list is empty then.
LEMMA CountTickKeepsLists ==
    ASSUME CoreTypes, ListsExact, NoOversleep, CountTick, prio' = prio
    PROVE  /\ ListTypes' /\ ListsExact' /\ NoOversleep'
           /\ tick' \in Time /\ next' \in Time
           /\ overflows' \in 0..(OverflowModulus - 1)
           /\ Expired \subseteq Sleeping
           /\ Sleeping' = Sleeping \ Expired
           /\ pending' = pending \ Expired
           /\ top' = top \cup {prio[t] : t \in Expired}
           /\ \A t \in Task : Placed(t) => Placed(t)'
           /\ \A t \in Task \ Expired : wake'[t] = wake[t]
<1>1. Due \in SUBSET Task /\ Expired \subseteq Due /\ Due \subseteq Sleeping
  BY DEF Due, Expired, Sleeping, CoreTypes
<1>2. /\ Sleeping' = Sleeping \ Expired
      /\ delayed' \cap overflow' = {}
  BY <1>1 DEF CountTick, Sleeping, Due, Expired, ListsExact, CoreTypes
<1>3. MakeReady(Expired) /\ Expired \in SUBSET Task
  BY <1>1 DEF CountTick
<1>4. /\ ListTypes' /\ ListsExact'
      /\ top' = top \cup {prio[t] : t \in Expired}
      /\ \A t \in Task : Placed(t) => Placed(t)'
      /\ \A t \in Task \ Expired : wake'[t] = wake[t]
  <2>1. delayed' \cup overflow' = Sleeping \ Expired
    BY <1>2 DEF Sleeping
  <2> QED
    BY <2>1, <1>2, <1>3, MakeReadyKeepsLists
<1>5. tick' \in Time /\ tick' = TickCount /\ (Wraps <=> tick = TickModulus - 1)
      /\ (~Wraps => TickCount = tick + 1)
  <2>1. tick \in Time /\ 1 \in Time
    BY TimeAssumption DEF CoreTypes, Time
  <2>2. /\ TickCount \in Time
        /\ tick + 1 < TickModulus => TickCount = tick + 1
        /\ tick + 1 >= TickModulus => TickCount = tick + 1 - TickModulus
    BY <2>1, TimeSum DEF TickCount
  <2> QED
    BY <2>1, <2>2, TimeAssumption DEF CountTick, Wraps, Time
<1>6. overflows' \in 0..(OverflowModulus - 1)
  BY TimeAssumption DEF CountTick, CoreTypes
<1>7. DueTime \in Time /\ \A t \in Due : DueTime <= wake[t]
  BY UnblockTimeIsFirst DEF DueTime, Due, NoOversleep, CoreTypes
<1>8. /\ next' \in Time
      /\ \A t \in Due \ Expired : next' <= wake[t] /\ tick' < wake[t]
  <2>1. CASE TickCount >= DueTime
    <3>1. next' = UnblockTime(Due \ Expired)
      BY <2>1 DEF CountTick
    <3>2. next' \in Time /\ \A t \in Due \ Expired : next' <= wake[t]
      BY <3>1, <1>1, UnblockTimeIsFirst DEF CoreTypes
    <3>3. \A t \in Due \ Expired : ~(wake[t] <= TickCount)
      BY <2>1 DEF Expired
    <3> QED
      BY <3>2, <3>3, <1>1, <1>5 DEF CoreTypes, Time
  <2>2. CASE ~(TickCount >= DueTime)
    <3>1. next' = DueTime
      BY <2>2 DEF CountTick
    <3> QED
      BY <3>1, <2>2, <1>1, <1>5, <1>7 DEF CoreTypes, Time
  <2> QED
    BY <2>1, <2>2
<1>9. \A t \in overflow' : wake[t] < tick' /\ t \notin Expired /\ t \in Task
  <2>1. CASE Wraps
    <3>1. delayed = {}
      BY <2>1, <1>5, TimeAssumption DEF NoOversleep, CoreTypes, Time
    <3> QED
      BY <3>1, <2>1 DEF CountTick
  <2>2. CASE ~Wraps
    <3>1. overflow' = overflow /\ Due = delayed
      BY <2>2 DEF CountTick, Due
    <3> QED
      BY <3>1, <2>2, <1>1, <1>5 DEF NoOversleep, ListsExact, CoreTypes, Time
  <2> QED
    BY <2>1, <2>2
<1>10. NoOversleep'
  <2>1. delayed' = Due \ Expired
    BY DEF CountTick
  <2> QED
    BY <2>1, <1>1, <1>4, <1>8, <1>9 DEF NoOversleep
<1> QED
  BY <1>1, <1>2, <1>4, <1>5, <1>6, <1>8, <1>10 DEF CountTick

-----------------------------------------------------------------------------
(* The invariant holds at the start, and every action keeps it.            *)

\* vTaskStartScheduler establishes the invariant.
LEMMA InitEstablishes == Init => KInv
<1> SUFFICES ASSUME Init PROVE KInv
  OBVIOUS
<1> DEFINE bits == {BasePriority[t] : t \in Task}
<1>1. bits \in SUBSET Priority /\ bits # {}
  BY TaskAssumption, PriorityAssumption
<1>2. Highest(bits) \in bits /\ \A q \in bits : q <= Highest(bits)
  BY <1>1, HighestIsMaximum
<1>3. /\ current \in Task /\ BasePriority[current] = Highest(bits)
      /\ current \in ready[prio[current]]
  BY <1>1, <1>2, PriorityAssumption DEF Init, InitialReady
<1>4. TypeOK
  <2>1. 0 \in Time /\ MaxDelay \in Time /\ 0 \in 0..PendedLimit /\ 0 \in 0..ValueLimit
        /\ 0 \in 0..(OverflowModulus - 1)
    BY TimeAssumption DEF Time, MaxDelay
  <2>2. /\ prio \in [Task -> Priority] /\ ready \in [Priority -> SUBSET Task]
        /\ top \in SUBSET Priority
        /\ delayed \in SUBSET Task /\ overflow \in SUBSET Task /\ pending \in SUBSET Task
        /\ wake \in [Task -> Time]
    BY <1>1, <2>1, PriorityAssumption DEF Init, InitialReady
  <2>3. /\ next \in Time /\ tick \in Time /\ pended \in 0..PendedLimit
        /\ overflows \in 0..(OverflowModulus - 1)
        /\ suspended \in Nat /\ yieldPending \in BOOLEAN /\ current \in Task
    BY <1>3, <2>1 DEF Init
  <2>4. /\ notify \in [Task -> [state : {"none", "waiting", "received"},
                                value : 0..ValueLimit]]
        /\ pc \in [Task -> Label]
        /\ arg \in [Task -> [call : {"none", "delay", "until"}, wait : Time, read : Nat]]
        /\ last \in [Task -> Time]
    BY <2>1 DEF Init, NoArg, Label
  <2> QED
    BY <2>2, <2>3, <2>4 DEF TypeOK
<1>5. ListsExact
  BY <1>1, PriorityAssumption DEF Init, InitialReady, ListsExact, Placed, Sleeping
<1>6. NoOversleep /\ PeriodicOnTime /\ PendingOnlySuspended /\ Notifiable
  BY DEF Init, NoOversleep, PeriodicOnTime, PendingOnlySuspended, Notifiable, Sleeping
<1>7. SuspendedAlone /\ CurrentReady /\ IdleReady /\ CallsSane
  BY <1>3, TaskAssumption
     DEF Init, SuspendedAlone, Region, CurrentReady, IdleReady, CallsSane, Sleeping, NoArg
<1>8. Urgent
  BY <1>2, <1>3 DEF Init, Urgent
<1> QED
  BY <1>4, <1>5, <1>6, <1>7, <1>8 DEF KInv

\* A step that leaves the lists, the clock and the scheduler alone keeps the
\* parts of the invariant that speak of them.
LEMMA LocalStepKeepsLists ==
    ASSUME KInv, UNCHANGED <<prio, lists, clock, sched>>,
           pc' \in [Task -> Label], \A t \in Task \ {current} : pc'[t] = pc[t],
           pc[current] \notin Region, pc'[current] \notin Region \cup {"ticks"},
           pc[current] \notin {"ticks", "yield"}, current # Idle
    PROVE  /\ ListsExact' /\ NoOversleep' /\ SuspendedAlone' /\ CurrentReady'
           /\ Urgent' /\ PendingOnlySuspended' /\ IdleReady'
           /\ current \notin Sleeping
<1> USE DEF KInv
<1>1. ListsExact' /\ NoOversleep' /\ PendingOnlySuspended'
  BY DEF lists, clock, sched, ListsExact, Placed, Sleeping, NoOversleep, PendingOnlySuspended
<1>2. current \in ready[prio[current]] /\ current \notin Sleeping
  BY DEF CurrentReady, Region, ListsExact, Placed, TypeOK
<1>3. SuspendedAlone' /\ CurrentReady' /\ IdleReady'
  <2>1. SuspendedAlone'
    BY DEF sched, SuspendedAlone, TypeOK
  <2>2. CurrentReady'
    BY <1>2 DEF lists, sched, CurrentReady
  <2>3. IdleReady'
    BY TaskAssumption DEF lists, sched, IdleReady, Sleeping, TypeOK
  <2> QED
    BY <2>1, <2>2, <2>3
<1>4. Urgent'
  BY DEF lists, sched, Urgent, Masked, SuspendedAlone, TypeOK
<1> QED
  BY <1>1, <1>2, <1>3, <1>4

\* The calls of vTaskDelay and xTaskDelayUntil, the load in vTaskSuspendAll
\* and the second half of ulTaskNotifyTake.
LEMMA LocalStepsKeep ==
    ASSUME KInv,
           \/ SuspendLoad
           \/ \E n \in Waits : vTaskDelay(n) \/ xTaskDelayUntil(n)
           \/ \E clear \in BOOLEAN : TakeValue(clear)
    PROVE  KInv'
<1> USE DEF KInv
<1>1. current \in Task /\ pc \in [Task -> Label]
  BY DEF TypeOK
<1>2. /\ UNCHANGED <<prio, lists, clock, sched, last>>
      /\ pc[current] \in {"run", "suspend", "take"}
      /\ \E l \in {"suspend", "suspendStore", "yield", "run"} : Goto(l)
      /\ current # Idle
  BY <1>1, CallAssumption
     DEF SuspendLoad, vTaskDelay, xTaskDelayUntil, TakeValue, IdleReady
<1>3. pc' \in [Task -> Label] /\ \A t \in Task \ {current} : pc'[t] = pc[t]
  BY <1>1, <1>2 DEF Goto, Label
<1>4. pc'[current] \in {"suspend", "suspendStore", "yield", "run"}
  BY <1>1, <1>2 DEF Goto
<1>5. /\ ListsExact' /\ NoOversleep' /\ SuspendedAlone' /\ CurrentReady'
      /\ Urgent' /\ PendingOnlySuspended' /\ IdleReady'
      /\ current \notin Sleeping
  BY <1>2, <1>3, <1>4, LocalStepKeepsLists DEF Region
<1>6. arg' \in [Task -> [call : {"none", "delay", "until"}, wait : Time, read : Nat]]
      /\ CallsSane'
  <2>1. CASE SuspendLoad
    <3>1. suspended = 0
      BY <2>1 DEF SuspendLoad, SuspendedAlone, Region
    <3> QED
      BY <2>1, <3>1, <1>1 DEF SuspendLoad, CallsSane, TypeOK, Goto
  <2>2. ASSUME NEW n \in Waits, vTaskDelay(n) \/ xTaskDelayUntil(n)
        PROVE  arg' \in [Task -> [call : {"none", "delay", "until"}, wait : Time, read : Nat]]
               /\ CallsSane'
    <3>1. n \in Time
      BY TimeAssumption
    <3>2. CASE arg' = arg
      BY <3>2, <2>2, <1>1, <1>4 DEF vTaskDelay, xTaskDelayUntil, CallsSane, TypeOK, Goto
    <3>3. ASSUME NEW c \in {"delay", "until"},
                 n > 0, c = "delay" => current \in Sleepers, c = "until" => current \in Periodic,
                 arg' = [arg EXCEPT ![current].wait = n, ![current].call = c],
                 Goto("suspend")
          PROVE  arg' \in [Task -> [call : {"none", "delay", "until"}, wait : Time, read : Nat]]
                 /\ CallsSane'
      <4>1. arg' \in [Task -> [call : {"none", "delay", "until"}, wait : Time, read : Nat]]
        <5>1. [arg[current] EXCEPT !.wait = n, !.call = c]
                \in [call : {"none", "delay", "until"}, wait : Time, read : Nat]
          BY <3>3, <3>1, <1>1 DEF TypeOK
        <5>2. arg' = [arg EXCEPT ![current] = [arg[current] EXCEPT !.wait = n, !.call = c]]
          BY <3>3, <1>1 DEF TypeOK
        <5> QED
          BY <5>1, <5>2 DEF TypeOK
      <4>2. /\ \A t \in Task \ {current} : arg'[t] = arg[t] /\ pc'[t] = pc[t]
            /\ arg'[current].wait = n /\ arg'[current].call = c
            /\ pc'[current] = "suspend"
        BY <3>3, <1>1 DEF TypeOK, Goto
      <4> QED
        BY <4>1, <4>2, <3>3 DEF CallsSane
    <3> QED
      BY <2>2, <3>2, <3>3 DEF vTaskDelay, xTaskDelayUntil
  <2>3. ASSUME NEW clear \in BOOLEAN, TakeValue(clear)
        PROVE  arg' \in [Task -> [call : {"none", "delay", "until"}, wait : Time, read : Nat]]
               /\ CallsSane'
    BY <2>3, <1>1 DEF TakeValue, CallsSane, TypeOK, Goto
  <2> QED
    BY <2>1, <2>2, <2>3
<1>7. notify' \in [Task -> [state : {"none", "waiting", "received"}, value : 0..ValueLimit]]
      /\ \A t \in Task \ {current} : notify'[t] = notify[t]
  <2>1. ASSUME NEW clear \in BOOLEAN, TakeValue(clear)
        PROVE  notify' \in [Task -> [state : {"none", "waiting", "received"},
                                     value : 0..ValueLimit]]
               /\ \A t \in Task \ {current} : notify'[t] = notify[t]
    <3>1. PICK v : notify' = [notify EXCEPT ![current] = [state |-> "none", value |-> v]]
                   /\ v = IF clear \/ notify[current].value = 0 THEN 0
                          ELSE notify[current].value - 1
      BY <2>1, <1>1 DEF TakeValue, TypeOK
    <3>2. notify[current].value \in 0..ValueLimit
      BY <1>1 DEF TypeOK
    <3>3. v \in 0..ValueLimit
      BY <3>1, <3>2, TimeAssumption
    <3> QED
      BY <3>1, <3>3, <1>1 DEF TypeOK
  <2> QED
    BY <2>1 DEF SuspendLoad, vTaskDelay, xTaskDelayUntil, TypeOK
<1>8. TypeOK'
  BY <1>2, <1>3, <1>6, <1>7 DEF TypeOK, lists, clock, sched
<1>9. PeriodicOnTime' /\ Notifiable'
  BY <1>2, <1>3, <1>5, <1>7
     DEF PeriodicOnTime, Notifiable, Sleeping, lists, sched, TypeOK
<1> QED
  BY <1>5, <1>6, <1>8, <1>9

\* vTaskSuspendAll's store: nobody has changed the counter since the load,
\* because every other task leaves it as it found it before this one runs
\* again.
LEMMA SuspendStoreKeeps == KInv /\ SuspendStore("add") => KInv'
<1> SUFFICES ASSUME KInv, SuspendStore("add") PROVE KInv'
  OBVIOUS
<1> USE DEF KInv
<1>1. current \in Task /\ pc \in [Task -> Label]
  BY DEF TypeOK
<1>2. suspended = 0 /\ arg[current].read = 0 /\ suspended' = 1
  BY <1>1 DEF SuspendStore, SuspendedAlone, CallsSane, Region
<1>3. TypeOK'
  BY <1>1, <1>2 DEF SuspendStore, Goto, TypeOK, Label, lists, clock
<1>4. ListsExact' /\ NoOversleep' /\ PeriodicOnTime'
  BY DEF SuspendStore, lists, clock, ListsExact, Placed, NoOversleep, PeriodicOnTime, Sleeping
<1>5. SuspendedAlone'
  BY <1>1, <1>2 DEF SuspendStore, Goto, SuspendedAlone, Region
<1>6. CurrentReady' /\ Urgent' /\ PendingOnlySuspended'
  BY <1>1, <1>2
     DEF SuspendStore, Goto, lists, CurrentReady, Urgent, Masked, PendingOnlySuspended
<1>7. Notifiable' /\ CallsSane'
  BY <1>1 DEF SuspendStore, Goto, lists, Notifiable, CallsSane, Sleeping
<1>8. IdleReady'
  BY <1>1, TaskAssumption DEF SuspendStore, Goto, lists, IdleReady, Sleeping
<1> QED
  BY <1>3, <1>4, <1>5, <1>6, <1>7, <1>8

\* A tick that is only counted for later.
LEMMA TickIsrSuspendedKeeps == KInv /\ TickIsrSuspended => KInv'
<1> SUFFICES ASSUME KInv, TickIsrSuspended PROVE KInv'
  OBVIOUS
<1> USE DEF KInv, TickIsrSuspended, lists, sched, locals
<1>1. TypeOK'
  BY TimeAssumption DEF TypeOK
<1>2. ListsExact' /\ NoOversleep' /\ SuspendedAlone' /\ PeriodicOnTime'
  BY DEF ListsExact, Placed, NoOversleep, SuspendedAlone, PeriodicOnTime, Sleeping
<1>3. CurrentReady' /\ Urgent' /\ PendingOnlySuspended' /\ Notifiable'
  BY DEF CurrentReady, Urgent, Masked, PendingOnlySuspended, Notifiable, Sleeping
<1>4. IdleReady' /\ CallsSane'
  BY DEF IdleReady, CallsSane, Sleeping
<1> QED
  BY <1>1, <1>2, <1>3, <1>4

\* A context switch outside every region with the scheduler suspended.
LEMMA SwitchNowKeeps ==
    ASSUME ListTypes', ListsExact', IdleReady', SwitchNow,
           suspended' = 0, \A t \in Task : pc'[t] \notin Region
    PROVE  /\ current' \in Task /\ yieldPending' \in BOOLEAN
           /\ CurrentReady' /\ Urgent' /\ SuspendedAlone'
<1>1. /\ current' \in Task /\ Placed(current)'
      /\ \A p \in top' : p <= prio'[current']
      /\ yieldPending' = FALSE
  BY SwitchNowPicksHighest DEF IdleReady
<1> QED
  BY <1>1 DEF CurrentReady, Placed, Urgent, SuspendedAlone

\* A step in which only the lists, the clock and the choice of the running
\* task change, and tasks only leave their delay lists.
LEMMA WakingStepKeeps ==
    ASSUME KInv, UNCHANGED <<notify, pc, arg, last>>,
           Sleeping' \subseteq Sleeping, \A t \in Sleeping' : wake'[t] = wake[t]
    PROVE  PeriodicOnTime' /\ IdleReady' /\ CallsSane'
<1> USE DEF KInv
<1>1. PeriodicOnTime'
  BY DEF PeriodicOnTime
<1>2. IdleReady' /\ CallsSane'
  BY DEF IdleReady, CallsSane
<1> QED
  BY <1>1, <1>2

\* The timer's interrupt, with the switch at its exit.
LEMMA TickIsrKeeps == KInv /\ TickIsr => KInv'
<1> SUFFICES ASSUME KInv, TickIsr PROVE KInv'
  OBVIOUS
<1> USE DEF KInv
<1>1. /\ UNCHANGED <<prio, pended, suspended, notify, pc, arg, last>>
      /\ CountTick /\ ~Masked /\ suspended = 0
  BY DEF TickIsr, locals
<1>2. /\ ListTypes' /\ ListsExact' /\ NoOversleep'
      /\ tick' \in Time /\ next' \in Time /\ overflows' \in 0..(OverflowModulus - 1)
      /\ Expired \subseteq Sleeping /\ Sleeping' = Sleeping \ Expired
      /\ pending' = pending \ Expired
      /\ top' = top \cup {prio[t] : t \in Expired}
      /\ \A t \in Task : Placed(t) => Placed(t)'
      /\ \A t \in Task \ Expired : wake'[t] = wake[t]
  BY <1>1, CountTickKeepsLists, CoreOfTypes
<1>3. Sleeping \in SUBSET Task /\ current \in Task /\ prio \in [Task -> Priority]
  BY DEF TypeOK, Sleeping
<1>4. PeriodicOnTime' /\ IdleReady' /\ CallsSane'
  BY <1>1, <1>2, <1>3, WakingStepKeeps
<1>5. pending = {} /\ pending' = {}
  BY <1>1, <1>2 DEF PendingOnlySuspended
<1>6. PendingOnlySuspended' /\ Notifiable'
  BY <1>1, <1>2, <1>5 DEF PendingOnlySuspended, Notifiable
<1>7. \A t \in Task : pc[t] \notin Region
  BY <1>1 DEF SuspendedAlone
<1>8. /\ current' \in Task /\ yieldPending' \in BOOLEAN
      /\ CurrentReady' /\ Urgent' /\ SuspendedAlone'
  <2>1. CASE SwitchRequired
    <3>1. SwitchNow
      BY <2>1 DEF TickIsr
    <3> QED
      BY <3>1, <1>1, <1>2, <1>4, <1>7, SwitchNowKeeps
  <2>2. CASE ~SwitchRequired
    <3>1. yieldPending' = yieldPending /\ current' = current
      BY <2>2 DEF TickIsr
    <3>2. ~yieldPending /\ \A t \in Expired : ~(prio[t] > prio[current])
      BY <2>2 DEF SwitchRequired
    <3>3. Urgent'
      BY <3>1, <3>2, <1>1, <1>2, <1>3, PriorityAssumption DEF Urgent, Priority
    <3>4. CurrentReady'
      BY <3>1, <1>1, <1>2, <1>3 DEF CurrentReady, Placed
    <3>5. SuspendedAlone'
      BY <3>1, <1>1 DEF SuspendedAlone
    <3>6. yieldPending' \in BOOLEAN
      BY <3>1 DEF TypeOK
    <3> QED
      BY <3>1, <3>3, <3>4, <3>5, <3>6, <1>3
  <2> QED
    BY <2>1, <2>2
<1>9. TypeOK'
  BY <1>1, <1>2, <1>5, <1>8 DEF TypeOK, ListTypes
<1> QED
  BY <1>2, <1>4, <1>6, <1>8, <1>9

\* Waking a task for an event, or nobody.
LEMMA UnblockKeepsLists ==
    ASSUME KCore, NEW t \in Task, Unblock(t) \/ UNCHANGED lists, UNCHANGED <<prio, clock>>
    PROVE  /\ ListTypes' /\ ListsExact' /\ NoOversleep'
           /\ Sleeping' \subseteq Sleeping
           /\ \A u \in Sleeping' : wake'[u] = wake[u]
           /\ \A u \in Task : Placed(u) => Placed(u)'
           /\ top' \subseteq top \cup {prio[t]}
           /\ suspended > 0 => top' = top
           /\ pending \subseteq pending' /\ pending' \in SUBSET Task
           /\ suspended = 0 => pending' = {}
           /\ Unblock(t) => t \notin Sleeping' \/ t \in pending'
<1> USE DEF KCore
<1>1. CoreTypes /\ ListsExact /\ (suspended = 0 => pending = {})
  BY DEF PendingOnlySuspended
<1>2. CASE UNCHANGED <<ready, top, delayed, overflow, wake>>
  <2>1. /\ Sleeping' = Sleeping /\ wake' = wake /\ top' = top
        /\ ListTypes' /\ ListsExact' /\ NoOversleep'
        /\ \A u \in Task : Placed(u) => Placed(u)'
    BY <1>2, <1>1 DEF Sleeping, clock, CoreTypes, ListTypes, ListsExact, Placed, NoOversleep
  <2>2. CASE UNCHANGED pending /\ ~Unblock(t)
    BY <2>1, <2>2, <1>1 DEF CoreTypes
  <2>3. CASE Unblock(t) /\ suspended > 0
    BY <2>1, <2>3, <1>1 DEF Unblock, CoreTypes
  <2>4. CASE Unblock(t) /\ ~(suspended > 0)
    <3>1. suspended = 0
      BY <2>4, <1>1 DEF CoreTypes
    <3> QED
      BY <2>1, <2>4, <3>1, <1>1 DEF Unblock, CoreTypes, Sleeping
  <2> QED
    BY <2>2, <2>3, <2>4 DEF lists
<1>3. CASE Unblock(t) /\ suspended = 0
  <2>1. /\ MakeReady({t}) /\ pending' = pending
        /\ delayed' = delayed \ {t} /\ overflow' = overflow \ {t}
    BY <1>3 DEF Unblock
  <2>2. delayed' \cup overflow' = Sleeping \ {t} /\ delayed' \cap overflow' = {}
    BY <2>1 DEF Sleeping, ListsExact, CoreTypes
  <2>3. /\ ListTypes' /\ ListsExact'
        /\ top' = top \cup {prio[u] : u \in {t}}
        /\ \A u \in Task : Placed(u) => Placed(u)'
        /\ \A u \in Task \ {t} : wake'[u] = wake[u]
    BY <2>1, <2>2, MakeReadyKeepsLists
  <2>4. Sleeping' = Sleeping \ {t} /\ Sleeping \in SUBSET Task
    BY <2>2 DEF Sleeping, CoreTypes
  <2>5. NoOversleep'
    BY <2>1, <2>3 DEF NoOversleep, clock, CoreTypes
  <2> QED
    BY <2>1, <2>3, <2>4, <2>5, <1>1, <1>3 DEF CoreTypes
<1> QED
  BY <1>2, <1>3 DEF Unblock, lists

\* vTaskNotifyGiveFromISR: the sleeper it finds is woken, or noted while the
\* scheduler is suspended, and a more urgent one runs or is owed a yield.
LEMMA NotifyGiveKeeps ==
    ASSUME KInv, NEW t \in Takers, NotifyGive(t)
    PROVE  KInv'
<1> USE DEF KInv
<1>1. t \in Task /\ current \in Task /\ prio \in [Task -> Priority] /\ suspended \in Nat
  BY CallAssumption DEF TypeOK
<1>2. /\ ~Masked /\ UNCHANGED <<prio, clock, suspended, pc, arg, last>>
      /\ Unblock(t) \/ UNCHANGED lists
      /\ Waiting(t) => Unblock(t)
      /\ ~Waiting(t) => UNCHANGED lists
  BY DEF NotifyGive, locals
<1>3. /\ ListTypes' /\ ListsExact' /\ NoOversleep'
      /\ Sleeping' \subseteq Sleeping
      /\ \A u \in Sleeping' : wake'[u] = wake[u]
      /\ \A u \in Task : Placed(u) => Placed(u)'
      /\ top' \subseteq top \cup {prio[t]}
      /\ suspended > 0 => top' = top
      /\ pending \subseteq pending' /\ pending' \in SUBSET Task
      /\ suspended = 0 => pending' = {}
      /\ Unblock(t) => t \notin Sleeping' \/ t \in pending'
  BY <1>1, <1>2, UnblockKeepsLists, CoreOfKInv
<1>4. notify' \in [Task -> [state : {"none", "waiting", "received"}, value : 0..ValueLimit]]
      /\ \A u \in Task \ {t} : notify'[u] = notify[u]
  <2>1. notify[t].value \in 0..ValueLimit /\ notify[t].value < ValueLimit
    BY <1>1 DEF TypeOK, NotifyGive
  <2>2. notify[t].value + 1 \in 0..ValueLimit
    BY <2>1, TimeAssumption
  <2> QED
    BY <2>2, <1>1 DEF NotifyGive, TypeOK
<1>5. PendingOnlySuspended'
  BY <1>1, <1>2, <1>3 DEF PendingOnlySuspended
<1>6. Notifiable'
  <2>1. \A u \in Task \ {t} :
            (u \in Sleeping' /\ pc'[u] = "take" /\ u \notin pending')
                => notify'[u].state = "waiting" /\ notify'[u].value = 0
    BY <1>2, <1>3, <1>4 DEF Notifiable
  <2>2. ~(t \in Sleeping' /\ pc'[t] = "take" /\ t \notin pending')
    BY <1>1, <1>2, <1>3 DEF Notifiable, Waiting
  <2> QED
    BY <2>1, <2>2 DEF Notifiable
<1>7. PeriodicOnTime' /\ IdleReady' /\ CallsSane'
  <2>1. PeriodicOnTime'
    BY <1>2, <1>3 DEF PeriodicOnTime
  <2>2. IdleReady' /\ CallsSane'
    BY <1>2, <1>3 DEF IdleReady, CallsSane
  <2> QED
    BY <2>1, <2>2
<1>8. /\ current' \in Task /\ yieldPending' \in BOOLEAN
      /\ CurrentReady' /\ Urgent' /\ SuspendedAlone'
  <2> DEFINE woken == Waiting(t) /\ prio[t] > prio[current]
  <2>1. CASE woken /\ suspended = 0
    <3>1. SwitchNow
      BY <2>1, <1>1 DEF NotifyGive, SwitchContext
    <3>2. \A u \in Task : pc'[u] \notin Region
      BY <2>1, <1>2 DEF SuspendedAlone
    <3> QED
      BY <3>1, <3>2, <2>1, <1>2, <1>3, <1>7, SwitchNowKeeps
  <2>2. CASE woken /\ suspended > 0
    <3>1. yieldPending' = TRUE /\ current' = current
      BY <2>2 DEF NotifyGive, SwitchContext
    <3>2. CurrentReady' /\ Urgent' /\ SuspendedAlone'
      BY <3>1, <2>2, <1>1, <1>2, <1>3 DEF CurrentReady, Placed, Urgent, SuspendedAlone
    <3> QED
      BY <3>1, <3>2, <1>1
  <2>3. CASE ~woken
    <3>1. yieldPending' = yieldPending /\ current' = current
      BY <2>3 DEF NotifyGive
    <3>2. CurrentReady' /\ SuspendedAlone'
      BY <3>1, <1>1, <1>2, <1>3 DEF CurrentReady, Placed, SuspendedAlone
    <3>3. top' = top \/ ~(prio[t] > prio[current])
      BY <2>3, <1>2 DEF lists
    <3>4. Urgent'
      BY <3>1, <3>3, <1>1, <1>2, <1>3, PriorityAssumption DEF Urgent, Masked, Priority
    <3>5. yieldPending' \in BOOLEAN
      BY <3>1 DEF TypeOK
    <3> QED
      BY <3>1, <3>2, <3>4, <3>5, <1>1
  <2> QED
    BY <2>1, <2>2, <2>3, <1>1
<1>9. TypeOK'
  BY <1>2, <1>3, <1>4, <1>8 DEF TypeOK, ListTypes, clock
<1> QED
  BY <1>3, <1>5, <1>6, <1>7, <1>8, <1>9

\* A task goes to a delay list: what vTaskDelay, xTaskDelayUntil and
\* ulTaskNotifyTake have in common.
LEMMA SleepKeepsLists ==
    ASSUME KInv, NEW n \in Time, n > 0, AddCurrentToDelayed(n),
           UNCHANGED <<prio, pending, tick, overflows>>,
           pc[current] \notin {"resume", "ticks", "yield"}
    PROVE  /\ ListTypes' /\ ListsExact' /\ NoOversleep'
           /\ next' \in Time
           /\ top' \subseteq top
           /\ Sleeping' = Sleeping \cup {current}
           /\ \A t \in Task \ {current} : wake'[t] = wake[t]
           /\ wake'[current] = (tick + n) % TickModulus
<1>1. TypeOK /\ ListsExact /\ NoOversleep /\ Placed(current)
  BY DEF KInv, CurrentReady, Placed
<1>2. /\ ListTypes' /\ ListsExact' /\ NoOversleep'
      /\ next' \in Time
      /\ top' \subseteq top
      /\ Sleeping' = Sleeping \cup {current}
      /\ wake' = [wake EXCEPT ![current] = (tick + n) % TickModulus]
  BY <1>1, AddCurrentKeepsLists, CoreOfTypes
<1> QED
  BY <1>1, <1>2 DEF TypeOK

\* vTaskDelay puts its task to sleep.
LEMMA DelayAddKeeps == KInv /\ DelayAdd => KInv'
<1> SUFFICES ASSUME KInv, DelayAdd PROVE KInv'
  OBVIOUS
<1> USE DEF KInv
<1>1. /\ current \in Task /\ pc[current] = "add" /\ arg[current].call = "delay"
      /\ AddCurrentToDelayed(arg[current].wait)
      /\ arg' = [arg EXCEPT ![current] = NoArg]
      /\ pc' = [pc EXCEPT ![current] = "resume"]
      /\ UNCHANGED <<prio, pending, tick, pended, overflows, suspended, yieldPending,
                     current, notify, last>>
  BY DEF DelayAdd, Goto, TypeOK, sched
<1>2. arg[current].wait \in Time /\ arg[current].wait > 0 /\ current \in Sleepers
  BY <1>1 DEF CallsSane, TypeOK
<1>3. /\ ListTypes' /\ ListsExact' /\ NoOversleep' /\ next' \in Time
      /\ top' \subseteq top /\ Sleeping' = Sleeping \cup {current}
      /\ \A t \in Task \ {current} : wake'[t] = wake[t]
  BY <1>1, <1>2, SleepKeepsLists
<1>4. pc' \in [Task -> Label] /\ pc'[current] = "resume"
      /\ \A t \in Task \ {current} : pc'[t] = pc[t]
  BY <1>1 DEF TypeOK, Label
<1>5. arg' \in [Task -> [call : {"none", "delay", "until"}, wait : Time, read : Nat]]
  BY <1>1, TimeAssumption DEF TypeOK, NoArg, Time
<1>6. TypeOK'
  BY <1>1, <1>3, <1>4, <1>5 DEF TypeOK, ListTypes
<1>7. SuspendedAlone' /\ CurrentReady' /\ PendingOnlySuspended'
  BY <1>1, <1>4 DEF SuspendedAlone, Region, CurrentReady, PendingOnlySuspended
<1>8. Urgent'
  BY <1>1, <1>3, <1>4 DEF Urgent, Masked
<1>9. PeriodicOnTime' /\ Notifiable'
  <2>1. PeriodicOnTime'
    BY <1>1, <1>2, <1>3, CallAssumption DEF PeriodicOnTime
  <2>2. Notifiable'
    BY <1>1, <1>3, <1>4 DEF Notifiable
  <2> QED
    BY <2>1, <2>2
<1>10. IdleReady' /\ CallsSane'
  BY <1>1, <1>3, <1>4 DEF IdleReady, CallsSane, TypeOK, NoArg
<1> QED
  BY <1>3, <1>6, <1>7, <1>8, <1>9, <1>10

\* The comparisons of xTaskDelayUntil, which look at each wrap by itself, say
\* whether the increment is longer than the time that has passed since the
\* previous wake; what is then asked of the delay list is the difference.
THEOREM DelayUntilExact ==
    ASSUME NEW now \in Time, NEW before \in Time, NEW n \in Time, n > 0
    PROVE  LET passed == (now - before) % TickModulus
               then == (before + n) % TickModulus
           IN  /\ ShouldDelay(now, before, n) <=> n > passed
               /\ ShouldDelay(now, before, n) => (then - now) % TickModulus = n - passed
<1> DEFINE passed == (now - before) % TickModulus
           then == (before + n) % TickModulus
<1>1. /\ now >= before => passed = now - before
      /\ now < before => passed = now - before + TickModulus
  BY TimeDifference
<1>2. /\ before + n < TickModulus => then = before + n
      /\ before + n >= TickModulus => then = before + n - TickModulus
      /\ then \in Time
  BY TimeSum
<1>3. /\ then >= now => (then - now) % TickModulus = then - now
      /\ then < now => (then - now) % TickModulus = then - now + TickModulus
  BY <1>2, TimeDifference
<1>4. ShouldDelay(now, before, n) <=>
          IF now < before THEN then < before /\ then > now
                          ELSE then < before \/ then > now
  BY DEF ShouldDelay
<1> HIDE DEF passed, then
<1>5. ShouldDelay(now, before, n) <=> n > passed
  BY <1>1, <1>2, <1>4, TimeAssumption DEF Time
<1>6. ShouldDelay(now, before, n) => (then - now) % TickModulus = n - passed
  BY <1>1, <1>2, <1>3, <1>4, TimeAssumption DEF Time
<1> QED
  BY <1>5, <1>6 DEF passed, then

\* What it asks for leads to the time it counts on.
LEMMA DelayUntilTarget ==
    ASSUME NEW now \in Time, NEW then \in Time, now # then
    PROVE  LET n == (then - now) % TickModulus
           IN  n \in Time /\ n > 0 /\ (now + n) % TickModulus = then
<1> DEFINE n == (then - now) % TickModulus
<1>1. /\ n \in Time
      /\ then >= now => n = then - now
      /\ then < now => n = then - now + TickModulus
  BY TimeDifference
<1>2. /\ now + n < TickModulus => (now + n) % TickModulus = now + n
      /\ now + n >= TickModulus => (now + n) % TickModulus = now + n - TickModulus
  BY <1>1, TimeSum
<1> HIDE DEF n
<1>3. n > 0 /\ (now + n) % TickModulus = then
  BY <1>1, <1>2, TimeAssumption DEF Time
<1> QED
  BY <1>1, <1>3 DEF n

\* xTaskDelayUntil puts its task to sleep, if the time has not come yet.
LEMMA DelayUntilAddKeeps == KInv /\ DelayUntilAdd => KInv'
<1> SUFFICES ASSUME KInv, DelayUntilAdd PROVE KInv'
  OBVIOUS
<1> USE DEF KInv
<1> DEFINE w == (last[current] + arg[current].wait) % TickModulus
<1>1. /\ current \in Task /\ pc[current] = "add" /\ arg[current].call = "until"
      /\ arg' = [arg EXCEPT ![current] = NoArg]
      /\ last' = [last EXCEPT ![current] = w]
      /\ pc' = [pc EXCEPT ![current] = "resume"]
      /\ UNCHANGED <<prio, pending, tick, pended, overflows, suspended, yieldPending,
                     current, notify>>
  BY DEF DelayUntilAdd, Goto, TypeOK, sched
<1>2. /\ arg[current].wait \in Time /\ arg[current].wait > 0
      /\ tick \in Time /\ last[current] \in Time /\ w \in Time
      /\ Placed(current) /\ current \notin Sleeping
  BY <1>1, TimeSum DEF CallsSane, TypeOK, CurrentReady, Placed, ListsExact
<1>3. /\ ListTypes' /\ ListsExact' /\ NoOversleep' /\ next' \in Time
      /\ top' \subseteq top
      /\ Sleeping' \subseteq Sleeping \cup {current}
      /\ \A t \in Task \ {current} : wake'[t] = wake[t]
      /\ current \in Sleeping' => wake'[current] = w
  <2>1. CASE ShouldDelay(tick, last[current], arg[current].wait)
    <3> DEFINE n == (w - tick) % TickModulus
    <3>1. w # tick
      BY <2>1, <1>2, TimeAssumption DEF ShouldDelay, Time
    <3>2. n \in Time /\ n > 0 /\ (tick + n) % TickModulus = w
      BY <1>2, <3>1, DelayUntilTarget
    <3>3. AddCurrentToDelayed(n)
      BY <2>1 DEF DelayUntilAdd
    <3> HIDE DEF n, w
    <3> QED
      BY <3>2, <3>3, <1>1, SleepKeepsLists
  <2>2. CASE ~ShouldDelay(tick, last[current], arg[current].wait)
    <3>1. UNCHANGED <<ready, top, wake, delayed, overflow, next>>
      BY <2>2 DEF DelayUntilAdd
    <3> QED
      BY <3>1, <1>1, <1>2
         DEF TypeOK, ListTypes, ListsExact, Placed, NoOversleep, Sleeping
  <2> QED
    BY <2>1, <2>2
<1> HIDE DEF w
<1>4. pc' \in [Task -> Label] /\ pc'[current] = "resume"
      /\ \A t \in Task \ {current} : pc'[t] = pc[t]
  BY <1>1 DEF TypeOK, Label
<1>5. /\ arg' \in [Task -> [call : {"none", "delay", "until"}, wait : Time, read : Nat]]
      /\ last' \in [Task -> Time] /\ last'[current] = w
      /\ \A t \in Task \ {current} : last'[t] = last[t]
  BY <1>1, <1>2, TimeAssumption DEF TypeOK, NoArg, Time
<1>6. TypeOK'
  BY <1>1, <1>3, <1>4, <1>5 DEF TypeOK, ListTypes
<1>7. SuspendedAlone' /\ CurrentReady' /\ PendingOnlySuspended'
  BY <1>1, <1>4 DEF SuspendedAlone, Region, CurrentReady, PendingOnlySuspended
<1>8. Urgent'
  BY <1>1, <1>3, <1>4 DEF Urgent, Masked
<1>9. PeriodicOnTime' /\ Notifiable'
  <2>1. PeriodicOnTime'
    BY <1>3, <1>5, CallAssumption DEF PeriodicOnTime
  <2>2. Notifiable'
    BY <1>1, <1>3, <1>4 DEF Notifiable
  <2> QED
    BY <2>1, <2>2
<1>10. IdleReady' /\ CallsSane'
  BY <1>1, <1>3, <1>4 DEF IdleReady, CallsSane, TypeOK, NoArg
<1> QED
  BY <1>3, <1>6, <1>7, <1>8, <1>9, <1>10

\* xTaskResumeAll makes the pending tasks ready, and owes a yield if one of
\* them is more urgent than its caller.
LEMMA ResumePendingKeeps == KInv /\ ResumePending => KInv'
<1> SUFFICES ASSUME KInv, ResumePending PROVE KInv'
  OBVIOUS
<1> USE DEF KInv
<1>1. /\ current \in Task /\ pc[current] = "resume" /\ suspended = 1 /\ suspended' = 0
      /\ MakeReady(pending) /\ pending \in SUBSET Task /\ pending' = {}
      /\ delayed' = delayed \ pending /\ overflow' = overflow \ pending
      /\ pc' = [pc EXCEPT ![current] = "ticks"]
      /\ UNCHANGED <<prio, tick, pended, overflows, current, notify, arg, last>>
  BY DEF ResumePending, SuspendedAlone, Region, Goto, TypeOK
<1>2. delayed' \cup overflow' = Sleeping \ pending /\ delayed' \cap overflow' = {}
  BY <1>1 DEF Sleeping, ListsExact, TypeOK
<1>3. /\ ListTypes' /\ ListsExact'
      /\ top' = top \cup {prio[t] : t \in pending}
      /\ \A t \in Task \ pending : wake'[t] = wake[t]
  BY <1>1, <1>2, MakeReadyKeepsLists, CoreOfTypes
<1>4. Sleeping' = Sleeping \ pending /\ Sleeping \in SUBSET Task
  BY <1>2 DEF Sleeping, TypeOK
<1>5. next' \in Time /\ NoOversleep'
  <2>1. delayed' \in SUBSET Task /\ wake \in [Task -> Time]
    BY <1>1 DEF TypeOK
  <2>2. CASE pending = {}
    <3>1. next' = next
      BY <2>2 DEF ResumePending
    <3> QED
      BY <3>1, <2>2, <1>1, <1>3 DEF NoOversleep, TypeOK
  <2>3. CASE pending # {}
    <3>1. next' = UnblockTime(delayed')
      BY <2>3, <1>1 DEF ResumePending
    <3>2. next' \in Time /\ \A t \in delayed' : next' <= wake[t]
      <4>1. UnblockTime(delayed \ pending) \in Time
            /\ \A t \in delayed \ pending : UnblockTime(delayed \ pending) <= wake[t]
        BY <2>1, <1>1, UnblockTimeIsFirst
      <4> QED
        BY <4>1, <2>3, <1>1 DEF ResumePending
    <3> QED
      BY <3>2, <2>1, <1>1, <1>3 DEF NoOversleep, TypeOK
  <2> QED
    BY <2>2, <2>3
<1>6. pc' \in [Task -> Label] /\ pc'[current] = "ticks"
      /\ \A t \in Task \ {current} : pc'[t] = pc[t]
  BY <1>1 DEF TypeOK, Label
<1>7. yieldPending' \in BOOLEAN
      /\ (~yieldPending' => ~yieldPending /\ \A t \in pending : ~(prio[t] > prio[current]))
  BY DEF ResumePending
<1>8. TypeOK'
  BY <1>1, <1>3, <1>5, <1>6, <1>7 DEF TypeOK, ListTypes
<1>9. Urgent'
  BY <1>1, <1>3, <1>6, <1>7, PriorityAssumption DEF Urgent, Masked, TypeOK, Priority
<1>10. SuspendedAlone' /\ CurrentReady' /\ PendingOnlySuspended'
  BY <1>1, <1>6 DEF SuspendedAlone, Region, CurrentReady, PendingOnlySuspended
<1>11. PeriodicOnTime' /\ Notifiable'
  BY <1>1, <1>3, <1>4, <1>6 DEF PeriodicOnTime, Notifiable
<1>12. IdleReady' /\ CallsSane'
  BY <1>1, <1>4, <1>6 DEF IdleReady, CallsSane
<1> QED
  BY <1>3, <1>5, <1>8, <1>9, <1>10, <1>11, <1>12

\* xTaskResumeAll counts the ticks that came meanwhile, one by one.
LEMMA ResumeTickKeeps == KInv /\ ResumeTick => KInv'
<1> SUFFICES ASSUME KInv, ResumeTick PROVE KInv'
  OBVIOUS
<1> USE DEF KInv
<1>1. /\ UNCHANGED <<prio, suspended, current, notify, pc, arg, last>>
      /\ CountTick /\ pc[current] = "ticks" /\ pended' = pended - 1 /\ pended > 0
      /\ yieldPending' = SwitchRequired
  BY DEF ResumeTick, locals
<1>2. /\ ListTypes' /\ ListsExact' /\ NoOversleep'
      /\ tick' \in Time /\ next' \in Time /\ overflows' \in 0..(OverflowModulus - 1)
      /\ Expired \subseteq Sleeping /\ Sleeping' = Sleeping \ Expired
      /\ pending' = pending \ Expired
      /\ top' = top \cup {prio[t] : t \in Expired}
      /\ \A t \in Task \ Expired : wake'[t] = wake[t]
  BY <1>1, CountTickKeepsLists, CoreOfTypes
<1>3. Sleeping \in SUBSET Task /\ current \in Task /\ prio \in [Task -> Priority]
  BY DEF TypeOK, Sleeping
<1>4. PeriodicOnTime' /\ IdleReady' /\ CallsSane'
  BY <1>1, <1>2, <1>3, WakingStepKeeps
<1>5. PendingOnlySuspended' /\ Notifiable'
  BY <1>1, <1>2, <1>3 DEF PendingOnlySuspended, Notifiable
<1>6. SuspendedAlone' /\ CurrentReady'
  BY <1>1 DEF SuspendedAlone, CurrentReady
<1>7. yieldPending' \in BOOLEAN
  BY <1>1 DEF SwitchRequired
<1>8. ~yieldPending' => ~yieldPending /\ \A t \in Expired : ~(prio[t] > prio[current])
  BY <1>1 DEF SwitchRequired
<1>9. Urgent'
  BY <1>1, <1>2, <1>3, <1>8, PriorityAssumption DEF Urgent, Masked, Priority
<1>10. pended' \in 0..PendedLimit
  BY <1>1, TimeAssumption DEF TypeOK
<1>11. TypeOK'
  BY <1>1, <1>2, <1>7, <1>10 DEF TypeOK, ListTypes
<1> QED
  BY <1>2, <1>4, <1>5, <1>6, <1>9, <1>11

\* A step that leaves the lists alone and gives up the processor.
LEMMA GiveUpKeeps ==
    ASSUME KInv, UNCHANGED <<prio, lists, clock, suspended, notify, arg, last>>, SwitchNow,
           suspended = 0,
           pc' = pc \/ (current # Idle /\ Goto("run"))
    PROVE  KInv'
<1> USE DEF KInv
<1>1. /\ current \in Task /\ pc' \in [Task -> Label]
      /\ \A t \in Task : pc'[t] = pc[t] \/ pc'[t] = "run"
  BY SMTT(30) DEF TypeOK, Goto, Label
<1>2. \A t \in Task : pc'[t] \notin Region
  BY <1>1 DEF SuspendedAlone, Region
<1>3. ListTypes' /\ ListsExact' /\ NoOversleep' /\ PeriodicOnTime'
  BY DEF TypeOK, lists, clock, ListTypes, ListsExact, Placed, NoOversleep, PeriodicOnTime,
         Sleeping
<1>4. IdleReady' /\ CallsSane' /\ Notifiable' /\ PendingOnlySuspended'
  BY <1>1, TaskAssumption
     DEF lists, IdleReady, CallsSane, Notifiable, PendingOnlySuspended, Sleeping
<1>5. /\ current' \in Task /\ yieldPending' \in BOOLEAN
      /\ CurrentReady' /\ Urgent' /\ SuspendedAlone'
  BY <1>2, <1>3, <1>4, SwitchNowKeeps
<1>6. TypeOK'
  BY <1>1, <1>5 DEF TypeOK, lists, clock
<1> QED
  BY <1>3, <1>4, <1>5, <1>6

\* The end of xTaskResumeAll, with the yield if one is owed.
LEMMA ResumeEndKeeps == KInv /\ ResumeEnd("run", "yield") => KInv'
<1> SUFFICES ASSUME KInv, ResumeEnd("run", "yield") PROVE KInv'
  OBVIOUS
<1>1. /\ pc[current] = "ticks" /\ current \in Task /\ suspended = 0 /\ current # Idle
      /\ UNCHANGED <<prio, lists, clock, suspended, notify, arg, last>>
  BY DEF KInv, ResumeEnd, TypeOK, SuspendedAlone, Region, IdleReady
<1>2. CASE yieldPending
  BY <1>1, <1>2, GiveUpKeeps DEF ResumeEnd
<1>3. CASE ~yieldPending
  <2> USE DEF KInv
  <2>1. pc' = [pc EXCEPT ![current] = "yield"] /\ UNCHANGED <<yieldPending, current>>
    BY <1>3 DEF ResumeEnd, Goto
  <2>2. pc' \in [Task -> Label] /\ pc'[current] = "yield"
        /\ \A t \in Task \ {current} : pc'[t] = pc[t]
    BY <2>1, <1>1 DEF TypeOK, Label
  <2>3. TypeOK' /\ ListsExact' /\ NoOversleep' /\ PeriodicOnTime'
    BY <1>1, <2>1, <2>2
       DEF TypeOK, lists, clock, ListsExact, Placed, NoOversleep, PeriodicOnTime, Sleeping
  <2>4. SuspendedAlone' /\ CurrentReady' /\ PendingOnlySuspended'
    BY <1>1, <2>1, <2>2
       DEF lists, SuspendedAlone, Region, CurrentReady, PendingOnlySuspended
  <2>5. Urgent'
    BY <1>1, <1>3, <2>1 DEF lists, Urgent
  <2>6. Notifiable' /\ CallsSane' /\ IdleReady'
    BY <1>1, <2>1, <2>2, TaskAssumption
       DEF lists, Notifiable, CallsSane, IdleReady, Sleeping
  <2> QED
    BY <2>3, <2>4, <2>5, <2>6
<1> QED
  BY <1>2, <1>3

\* The yield that a call owes when xTaskResumeAll has not done it.
LEMMA YieldKeeps == KInv /\ Yield("run") => KInv'
<1> SUFFICES ASSUME KInv, Yield("run") PROVE KInv'
  OBVIOUS
<1>1. /\ pc[current] = "yield" /\ current \in Task /\ suspended = 0 /\ current # Idle
      /\ UNCHANGED <<prio, lists, clock, suspended, notify, arg, last>>
  BY DEF KInv, Yield, TypeOK, SuspendedAlone, Region, IdleReady
<1>2. SwitchNow /\ Goto("run")
  BY <1>1 DEF Yield, SwitchContext
<1> QED
  BY <1>1, <1>2, GiveUpKeeps

\* prvIdleTask's yield.
LEMMA IdleYieldKeeps == KInv /\ IdleYield => KInv'
<1> SUFFICES ASSUME KInv, IdleYield PROVE KInv'
  OBVIOUS
<1>1. /\ UNCHANGED <<prio, lists, clock, suspended, notify, arg, last, pc>>
      /\ suspended = 0 /\ SwitchNow
  BY DEF KInv, IdleYield, SuspendedAlone, Region, locals
<1> QED
  BY <1>1, GiveUpKeeps

\* The first half of ulTaskNotifyTake: without a notification the task says
\* that it waits, in the same critical section in which it goes to sleep.
LEMMA TakeBlockKeeps ==
    ASSUME KInv, NEW n \in Waits, TakeBlock(n)
    PROVE  KInv'
<1> USE DEF KInv
<1>1. /\ n \in Time /\ current \in Task /\ current \in Takers /\ current # Idle
      /\ pc[current] = "run" /\ suspended = 0 /\ ~yieldPending /\ pending = {}
      /\ Placed(current) /\ current \notin Sleeping
      /\ pc' = [pc EXCEPT ![current] = "take"]
      /\ UNCHANGED <<prio, pending, tick, pended, overflows, suspended, arg, last>>
  BY TimeAssumption, CallAssumption
     DEF TakeBlock, Goto, SuspendedAlone, Region, Urgent, Masked, PendingOnlySuspended,
         CurrentReady, Placed, ListsExact, TypeOK
<1>2. /\ pc' \in [Task -> Label] /\ pc'[current] = "take"
      /\ \A t \in Task \ {current} : pc'[t] = pc[t]
      /\ \A t \in Task : pc'[t] \notin Region
  BY <1>1 DEF TypeOK, Label, SuspendedAlone, Region
<1>3. CallsSane' /\ PendingOnlySuspended'
  BY <1>1, <1>2 DEF CallsSane, PendingOnlySuspended
<1>4. CASE notify[current].value = 0 /\ n > 0
  <2>1. AddCurrentToDelayed(n) /\ SwitchNow
        /\ notify' = [notify EXCEPT ![current].state = "waiting"]
    BY <1>4 DEF TakeBlock
  <2>2. /\ ListTypes' /\ ListsExact' /\ NoOversleep' /\ next' \in Time
        /\ Sleeping' = Sleeping \cup {current}
        /\ \A t \in Task \ {current} : wake'[t] = wake[t]
    BY <1>1, <1>4, <2>1, SleepKeepsLists
  <2>3. IdleReady'
    BY <1>1, <1>2, <2>2, TaskAssumption DEF IdleReady
  <2>4. /\ current' \in Task /\ yieldPending' \in BOOLEAN
        /\ CurrentReady' /\ Urgent' /\ SuspendedAlone'
    BY <1>1, <1>2, <2>1, <2>2, <2>3, SwitchNowKeeps
  <2>5. /\ notify' \in [Task -> [state : {"none", "waiting", "received"}, value : 0..ValueLimit]]
        /\ \A t \in Task \ {current} : notify'[t] = notify[t]
        /\ notify'[current].state = "waiting" /\ notify'[current].value = 0
    BY <1>1, <1>4, <2>1 DEF TypeOK
  <2>6. TypeOK'
    BY <1>1, <1>2, <2>2, <2>4, <2>5 DEF TypeOK, ListTypes
  <2>7. Notifiable'
    BY <1>1, <1>2, <2>2, <2>5 DEF Notifiable
  <2>8. PeriodicOnTime'
    BY <1>1, <2>2, CallAssumption DEF PeriodicOnTime
  <2> QED
    BY <1>3, <2>2, <2>3, <2>4, <2>6, <2>7, <2>8
<1>5. CASE ~(notify[current].value = 0 /\ n > 0)
  <2>1. /\ UNCHANGED <<ready, top, wake, delayed, overflow, next, yieldPending, current>>
        /\ notify' = notify \/ notify' = [notify EXCEPT ![current].state = "waiting"]
    BY <1>5 DEF TakeBlock
  <2>2. /\ notify' \in [Task -> [state : {"none", "waiting", "received"}, value : 0..ValueLimit]]
        /\ \A t \in Task \ {current} : notify'[t] = notify[t]
    <3>1. CASE notify' = notify
      BY <3>1 DEF TypeOK
    <3>2. CASE notify' = [notify EXCEPT ![current].state = "waiting"]
      BY <3>2, <1>1 DEF TypeOK
    <3> QED
      BY <2>1, <3>1, <3>2
  <2>3. TypeOK'
    BY <1>1, <1>2, <2>1, <2>2 DEF TypeOK
  <2>4. ListsExact' /\ NoOversleep' /\ PeriodicOnTime'
    BY <1>1, <2>1 DEF ListsExact, Placed, NoOversleep, PeriodicOnTime, Sleeping
  <2>5. SuspendedAlone' /\ CurrentReady' /\ Urgent'
    BY <1>1, <1>2, <2>1 DEF SuspendedAlone, Region, CurrentReady, Placed, Urgent
  <2>6. Notifiable'
    BY <1>1, <1>2, <2>1, <2>2 DEF Notifiable, Sleeping
  <2>7. IdleReady'
    BY <1>1, <1>2, <2>1, TaskAssumption DEF IdleReady, Sleeping
  <2> QED
    BY <1>3, <2>3, <2>4, <2>5, <2>6, <2>7
<1> QED
  BY <1>4, <1>5

\* vTaskPrioritySet moves a ready task between the lists and leaves a
\* sleeping one where it is; it yields if somebody else is now more urgent.
LEMMA PrioritySetKeeps ==
    ASSUME KInv, NEW t \in Settable, NEW p \in NewPriority, vTaskPrioritySet(t, p)
    PROVE  KInv'
<1> USE DEF KInv
<1>1. /\ t \in Task /\ p \in Priority /\ current \in Task
      /\ pc[current] = "run" /\ suspended = 0 /\ ~yieldPending
      /\ Placed(current) /\ p # prio[t]
      /\ prio' = [prio EXCEPT ![t] = p] /\ MoveReady(t, p)
      /\ UNCHANGED <<delayed, overflow, wake, pending, next, tick, pended, overflows,
                     suspended, notify, pc, arg, last>>
  BY CallAssumption
     DEF vTaskPrioritySet, clock, locals, SuspendedAlone, Region, Urgent, Masked, CurrentReady,
         Placed, TypeOK
<1>2. /\ prio' \in [Task -> Priority] /\ prio'[t] = p
      /\ \A u \in Task \ {t} : prio'[u] = prio[u]
  BY <1>1 DEF TypeOK
<1>3. /\ ready' \in [Priority -> SUBSET Task] /\ top' \in SUBSET Priority
      /\ ListsExact'
      /\ \A u \in Task : Placed(u)' <=> Placed(u)
      /\ top' \subseteq top \cup {p}
      /\ t \notin ready[prio[t]] => top' = top
  <2>1. CASE t \in ready[prio[t]]
    <3>1. /\ ready' = [ready EXCEPT ![prio[t]] = ready[prio[t]] \ {t}, ![p] = @ \cup {t}]
          /\ top' = (IF ready[prio[t]] \ {t} = {} THEN top \ {prio[t]} ELSE top) \cup {p}
      BY <2>1, <1>1 DEF MoveReady
    <3>2. /\ ready' \in [Priority -> SUBSET Task] /\ top' \in SUBSET Priority
          /\ prio[t] \in Priority
      BY <3>1, <1>1 DEF TypeOK
    <3>3. /\ ready'[p] = ready[p] \cup {t}
          /\ ready'[prio[t]] = ready[prio[t]] \ {t}
          /\ \A q \in Priority \ {p, prio[t]} : ready'[q] = ready[q]
      BY <3>1, <3>2, <1>1 DEF TypeOK
    <3>4. \A q \in Priority : q \in top' <=> ready'[q] # {}
      BY <3>1, <3>2, <3>3, <1>1 DEF ListsExact
    <3>5. \A u \in Task, q \in Priority : u \in ready'[q] => q = prio'[u]
      BY <3>2, <3>3, <1>2 DEF ListsExact
    <3>6. \A u \in Task : Placed(u)' <=> Placed(u)
      <4>1. Placed(t)' /\ Placed(t)
        BY <3>3, <1>2, <2>1 DEF Placed
      <4>2. ASSUME NEW u \in Task \ {t}, NEW q \in Priority
            PROVE  u \in ready'[q] <=> u \in ready[q]
        BY <3>3, <1>1
      <4>3. ASSUME NEW u \in Task \ {t}
            PROVE  prio'[u] = prio[u] /\ prio[u] \in Priority
        BY <1>2 DEF TypeOK
      <4> QED
        BY <4>1, <4>2, <4>3 DEF Placed
    <3>7. ListsExact'
      BY <3>4, <3>5, <3>6, <1>1 DEF ListsExact, Sleeping
    <3>8. top' \subseteq top \cup {p}
      BY <3>1
    <3> QED
      BY <3>2, <3>6, <3>7, <3>8, <2>1
  <2>2. CASE t \notin ready[prio[t]]
    <3>1. ready' = ready /\ top' = top
      BY <2>2, <1>1 DEF MoveReady
    <3>2. \A u \in Task : Placed(u)' <=> Placed(u)
      BY <3>1, <1>1, <1>2, <2>2 DEF Placed, ListsExact, TypeOK
    <3>3. \A u \in Task, q \in Priority : u \in ready'[q] => q = prio'[u]
      BY <3>1, <1>1, <1>2, <2>2 DEF ListsExact, TypeOK
    <3> QED
      BY <3>1, <3>2, <3>3, <1>1 DEF ListsExact, Sleeping, TypeOK
  <2> QED
    BY <2>1, <2>2
<1>4. ListTypes' /\ NoOversleep' /\ PeriodicOnTime' /\ PendingOnlySuspended' /\ Notifiable'
  BY <1>1, <1>2, <1>3
     DEF ListTypes, TypeOK, NoOversleep, PeriodicOnTime, PendingOnlySuspended, Notifiable,
         Sleeping
<1>5. IdleReady' /\ CallsSane'
  BY <1>1 DEF IdleReady, CallsSane, Sleeping
<1>6. /\ current' \in Task /\ yieldPending' \in BOOLEAN
      /\ CurrentReady' /\ Urgent' /\ SuspendedAlone'
  <2>1. CASE SetYields(t, p)
    <3>1. SwitchNow
      BY <2>1 DEF vTaskPrioritySet
    <3>2. \A u \in Task : pc'[u] \notin Region
      BY <1>1 DEF SuspendedAlone
    <3> QED
      BY <3>1, <3>2, <1>1, <1>3, <1>4, <1>5, SwitchNowKeeps
  <2>2. CASE ~SetYields(t, p)
    <3>1. current' = current /\ yieldPending' = yieldPending
      BY <2>2 DEF vTaskPrioritySet
    <3>2. \A q \in top : q <= prio[current]
      BY <1>1 DEF Urgent
    <3>3. \A q \in Priority : q \in Int
      BY PriorityAssumption DEF Priority
    <3>4. \A q \in top' : q <= prio'[current]
      <4>1. CASE t = current
        <5>1. prio'[current] = p /\ prio[current] \in Priority /\ ~(p < prio[current])
          BY <4>1, <2>2, <1>1, <1>2 DEF SetYields, TypeOK
        <5>2. p > prio[current]
          BY <4>1, <5>1, <3>3, <1>1
        <5> QED
          BY SMTT(30), <5>1, <5>2, <3>2, <3>3, <1>1, <1>3 DEF TypeOK
      <4>2. CASE t # current
        <5>1. prio'[current] = prio[current] /\ prio[current] \in Priority
              /\ prio[t] \in Priority
          BY <4>2, <1>1, <1>2 DEF TypeOK
        <5>2. CASE p > prio[t]
          BY <4>2, <5>1, <5>2, <2>2, <3>2, <3>3, <1>1, <1>3 DEF SetYields
        <5>3. CASE p < prio[t] /\ t \in ready[prio[t]]
          <6>1. prio[t] \in top
            BY <5>1, <5>3 DEF ListsExact
          <6> QED
            BY <6>1, <5>1, <5>3, <3>2, <3>3, <1>1, <1>3
        <5>4. CASE t \notin ready[prio[t]]
          BY <5>1, <5>4, <3>2, <1>3
        <5> QED
          BY <5>1, <5>2, <5>3, <5>4, <3>3, <1>1
      <4> QED
        BY <4>1, <4>2
    <3>5. Urgent' /\ CurrentReady' /\ SuspendedAlone'
      BY <3>1, <3>4, <1>1, <1>3 DEF Urgent, CurrentReady, Placed, SuspendedAlone
    <3>6. yieldPending' \in BOOLEAN
      BY <3>1 DEF TypeOK
    <3> QED
      BY <3>1, <3>5, <3>6, <1>1
  <2> QED
    BY <2>1, <2>2
<1>7. TypeOK'
  BY <1>1, <1>2, <1>3, <1>6 DEF TypeOK
<1> QED
  BY <1>3, <1>4, <1>5, <1>6, <1>7

-----------------------------------------------------------------------------
(* The theorems.                                                           *)

\* Every step keeps the invariant.
LEMMA StepKeeps == KInv /\ [Next]_vars => KInv'
<1> SUFFICES ASSUME KInv, [Next]_vars PROVE KInv'
  OBVIOUS
<1>1. CASE Interrupt
  BY <1>1, TickIsrKeeps, TickIsrSuspendedKeeps, NotifyGiveKeeps DEF Interrupt
<1>2. CASE Inside
  <2>1. CASE SuspendLoad \/ \E clear \in BOOLEAN : TakeValue(clear)
    BY <2>1, LocalStepsKeep
  <2>2. CASE SuspendStore("add") \/ DelayAdd \/ DelayUntilAdd
    BY <2>2, SuspendStoreKeeps, DelayAddKeeps, DelayUntilAddKeeps
  <2>3. CASE ResumePending \/ ResumeTick \/ ResumeEnd("run", "yield") \/ Yield("run")
    BY <2>3, ResumePendingKeeps, ResumeTickKeeps, ResumeEndKeeps, YieldKeeps
  <2> QED
    BY <1>2, <2>1, <2>2, <2>3 DEF Inside
<1>3. CASE Call
  <2>1. CASE \E n \in Waits : vTaskDelay(n) \/ xTaskDelayUntil(n)
    BY <2>1, LocalStepsKeep
  <2>2. CASE \E n \in Waits : TakeBlock(n)
    BY <2>2, TakeBlockKeeps
  <2>3. CASE \E t \in Settable, p \in NewPriority : vTaskPrioritySet(t, p)
    BY <2>3, PrioritySetKeeps
  <2> QED
    BY <1>3, <2>1, <2>2, <2>3 DEF Call
<1>4. CASE IdleYield
  BY <1>4, IdleYieldKeeps
<1>5. CASE UNCHANGED vars
  BY <1>5 DEF vars, lists, clock, sched, locals, KInv, TypeOK, ListsExact, Placed, NoOversleep,
     SuspendedAlone, PeriodicOnTime, CurrentReady, Urgent, Masked, PendingOnlySuspended,
     Notifiable, IdleReady, CallsSane, Sleeping
<1> QED
  BY <1>1, <1>2, <1>3, <1>4, <1>5 DEF Next

\* The invariant holds in every reachable state.
THEOREM Invariant == Spec => []KInv
BY InitEstablishes, StepKeeps, PTL DEF Spec

\* The kernel's variables keep their types.
THEOREM TypeCorrect == Spec => []TypeOK
<1>1. KInv => TypeOK
  BY DEF KInv
<1> QED
  BY <1>1, Invariant, PTL

\* Every task is in exactly one list, the right one, and the priority bitmap
\* tells exactly which ready lists are not empty.
THEOREM ListsAlwaysExact == Spec => []ListsExact
<1>1. KInv => ListsExact
  BY DEF KInv
<1> QED
  BY <1>1, Invariant, PTL

\* No task stays in a delay list past its time, on either side of the wrap of
\* xTickCount.
THEOREM NobodyOversleeps == Spec => []NoOversleep
<1>1. KInv => NoOversleep
  BY DEF KInv
<1> QED
  BY <1>1, Invariant, PTL

\* The unprotected counter of vTaskSuspendAll is right: only the running task
\* can be inside a region with the scheduler suspended.
THEOREM RegionExclusive == Spec => []SuspendedAlone
<1>1. KInv => SuspendedAlone
  BY DEF KInv
<1> QED
  BY <1>1, Invariant, PTL

\* Outside such regions the most urgent ready task runs and no yield is owed.
THEOREM HighestAlwaysRuns == Spec => []HighestRuns
<1>1. KInv => HighestRuns
  <2> SUFFICES ASSUME KInv, suspended = 0, ~Masked, pc[current] # "yield"
               PROVE  /\ current \in ready[prio[current]]
                      /\ prio[current] = Highest(top)
                      /\ ~yieldPending
    BY DEF HighestRuns
  <2> USE DEF KInv
  <2>1. ~yieldPending /\ \A p \in top : p <= prio[current]
    BY DEF Urgent
  <2>2. current \in ready[prio[current]]
    BY DEF CurrentReady, SuspendedAlone, Region, Masked
  <2>3. prio[current] \in top /\ top \in SUBSET Priority /\ prio[current] \in Priority
    BY <2>2 DEF ListsExact, TypeOK
  <2>4. Highest(top) \in top /\ \A q \in top : q <= Highest(top)
    BY <2>3, HighestIsMaximum
  <2>5. prio[current] = Highest(top)
    <3>1. \A p, q \in Priority : p <= q /\ q <= p => p = q
      BY PriorityAssumption DEF Priority
    <3>2. Highest(top) <= prio[current] /\ prio[current] <= Highest(top)
      BY <2>1, <2>3, <2>4
    <3> QED
      BY <2>3, <2>4, <3>1, <3>2
  <2> QED
    BY <2>1, <2>2, <2>5
<1> QED
  BY <1>1, Invariant, PTL

\* A notification given in any state finds its task awake, wakes it, or is
\* kept for the end of the suspension.
THEOREM NotificationNeverLost == Spec => []NoLostNotification
<1>1. KInv => NoLostNotification
  <2> SUFFICES ASSUME KInv, NEW t \in Task,
                      t \in Sleeping, pc[t] = "take", notify[t].value > 0
               PROVE  t \in pending /\ suspended > 0
    BY DEF NoLostNotification
  <2>1. t \in pending
    BY DEF KInv, Notifiable
  <2> QED
    BY <2>1 DEF KInv, PendingOnlySuspended
<1> QED
  BY <1>1, Invariant, PTL

\* A periodic task sleeps until exactly the time it counts on.
THEOREM PeriodicNeverDrifts == Spec => []PeriodicOnTime
<1>1. KInv => PeriodicOnTime
  BY DEF KInv
<1> QED
  BY <1>1, Invariant, PTL

-----------------------------------------------------------------------------
(* The refinement.                                                         *)

\* The ticks that are left to whoever waits.
LEMMA LeftBounds ==
    ASSUME CoreTypes, ListsExact, NoOversleep, NEW t \in Task
    PROVE  /\ t \in delayed => TicksLeft(t) = wake[t] - tick
           /\ t \in overflow => TicksLeft(t) = wake[t] + TickModulus - tick
           /\ t \notin Sleeping => TicksLeft(t) = 0
           /\ t \in Sleeping => TicksLeft(t) > 0
           /\ TicksLeft(t) \in 0..MaxDelay
<1>1. ~(t \in delayed /\ t \in overflow) /\ wake[t] \in Time /\ tick \in Time
  BY DEF ListsExact, CoreTypes
<1> QED
  BY <1>1, TimeAssumption DEF TicksLeft, Sleeping, NoOversleep, Time, MaxDelay

\* A step of the clock of Kernel that is none of Alarms'.
LEMMA NothingLeaves ==
    ASSUME UNCHANGED <<delayed, overflow, wake, tick, pended>>
    PROVE  UNCHANGED Alarm!vars
BY DEF TicksLeft, Alarm!vars

\* Tasks that leave their delay lists before their time.
LEMMA LeavingIsWake ==
    ASSUME CoreTypes, ListsExact, NoOversleep, NEW W \in SUBSET Task,
           delayed' = delayed \ W, overflow' = overflow \ W,
           \A t \in Task \ W : wake'[t] = wake[t],
           UNCHANGED <<tick, pended>>
    PROVE  Alarm!Wake
<1> DEFINE left == [t \in Task |-> TicksLeft(t)]
           V == {t \in Task : t \in W /\ left[t] > 0}
<1>1. \A t \in Task : TicksLeft(t)' = IF t \in V THEN 0 ELSE TicksLeft(t)
  <2> TAKE t \in Task
  <2>1. CASE t \in W
    BY <2>1, LeftBounds DEF TicksLeft, MaxDelay
  <2>2. CASE t \notin W
    BY <2>2 DEF TicksLeft
  <2> QED
    BY <2>1, <2>2
<1>2. left' = [t \in Task |-> IF t \in V THEN 0 ELSE left[t]]
  BY <1>1
<1>3. V \in SUBSET {t \in Task : left[t] > 0}
  OBVIOUS
<1> QED
  BY <1>2, <1>3 DEF Alarm!Wake

\* A task that joins a delay list.
LEMMA JoiningIsSleep ==
    ASSUME KCore, NEW n \in Time, n > 0, AddCurrentToDelayed(n),
           UNCHANGED <<prio, pending, tick, pended, overflows>>,
           Placed(current)
    PROVE  \E t \in Task : Alarm!Sleep(t)
<1>1. CoreTypes /\ ListsExact /\ NoOversleep /\ current \in Task /\ current \notin Sleeping
  BY DEF KCore, ListsExact, CoreTypes
<1>2. PICK c \in Task : c = current
  BY <1>1
<1> DEFINE w == (tick + n) % TickModulus
<1>3. /\ \A t \in Task \ {c} : wake'[t] = wake[t]
      /\ wake'[c] = w
  <2>1. wake' = [wake EXCEPT ![current] = w]
    BY <1>1, AddCurrentKeepsLists
  <2> QED
    BY <2>1, <1>1, <1>2 DEF CoreTypes
<1>4. tick \in Time /\ w \in Time
      /\ (w < tick => w = tick + n - TickModulus)
      /\ (~(w < tick) => w = tick + n)
  <2>1. tick \in Time
    BY <1>1 DEF CoreTypes
  <2>2. /\ w \in Time
        /\ tick + n < TickModulus => w = tick + n
        /\ tick + n >= TickModulus => w = tick + n - TickModulus
    BY <2>1, TimeSum
  <2> QED
    BY <2>1, <2>2, TimeAssumption DEF Time
<1>5. TicksLeft(c)' = n
  <2>1. CASE w < tick
    <3>1. c \notin delayed' /\ c \in overflow'
      BY <2>1, <1>1, <1>2 DEF AddCurrentToDelayed, Sleeping
    <3>2. TicksLeft(c)' = w + TickModulus - tick
      BY <3>1, <1>3 DEF TicksLeft
    <3> QED
      BY <3>2, <2>1, <1>4, TimeAssumption DEF Time
  <2>2. CASE ~(w < tick)
    <3>1. c \in delayed'
      BY <2>2, <1>2 DEF AddCurrentToDelayed
    <3>2. TicksLeft(c)' = w - tick
      BY <3>1, <1>3 DEF TicksLeft
    <3> QED
      BY <3>2, <2>2, <1>4, TimeAssumption DEF Time
  <2> QED
    BY <2>1, <2>2
<1>6. \A t \in Task \ {c} : TicksLeft(t)' = TicksLeft(t)
  BY <1>2, <1>3 DEF AddCurrentToDelayed, TicksLeft
<1>7. TicksLeft(c) = 0
  BY <1>1, <1>2, LeftBounds
<1>8. n \in 1..MaxDelay
  BY TimeAssumption DEF Time, MaxDelay
<1> DEFINE left == [t \in Task |-> TicksLeft(t)]
<1>9. left' = [t \in Task |-> IF t = c THEN n ELSE left[t]]
  BY <1>5, <1>6
<1>10. left' = [left EXCEPT ![c] = n]
  BY <1>9
<1> QED
  BY <1>7, <1>8, <1>10 DEF Alarm!Sleep

\* A counted tick takes one from everybody, and wakes who had one left.
LEMMA CountTickIsElapse ==
    ASSUME KCore, CountTick, prio' = prio
    PROVE  Alarm!Elapse
<1>1. CoreTypes /\ ListsExact /\ NoOversleep
  BY DEF KCore
<1>2. /\ Sleeping' = Sleeping \ Expired /\ ListsExact'
      /\ \A t \in Task \ Expired : wake'[t] = wake[t]
  BY <1>1, CountTickKeepsLists
<1>3. tick \in Time /\ tick' = TickCount
      /\ (Wraps => tick = TickModulus - 1 /\ TickCount = 0)
      /\ (~Wraps => TickCount = tick + 1)
  <2>1. tick \in Time /\ 1 \in Time
    BY <1>1, TimeAssumption DEF CoreTypes, Time
  <2>2. /\ tick + 1 < TickModulus => TickCount = tick + 1
        /\ tick + 1 >= TickModulus => TickCount = tick + 1 - TickModulus
    BY <2>1, TimeSum DEF TickCount
  <2> QED
    BY <2>1, <2>2, TimeAssumption DEF CountTick, Wraps, Time
<1>4. ASSUME NEW t \in Task
      PROVE  TicksLeft(t)' = IF TicksLeft(t) > 0 THEN TicksLeft(t) - 1 ELSE 0
  <2>1. wake[t] \in Time /\ ~(t \in delayed /\ t \in overflow)
    BY <1>1 DEF CoreTypes, ListsExact
  <2>2. CASE t \notin Sleeping
    <3>1. t \notin Sleeping'
      BY <2>2, <1>2
    <3>2. TicksLeft(t)' = 0
      BY <3>1 DEF TicksLeft, Sleeping
    <3> QED
      BY <3>2, <2>2, <1>1, LeftBounds
  <2>3. CASE t \in Sleeping /\ Wraps
    <3>1. delayed = {}
      BY <2>3, <1>1, <1>3, TimeAssumption DEF NoOversleep, CoreTypes, Time
    <3>2. t \in overflow /\ TicksLeft(t) = wake[t] + 1
      BY <3>1, <2>1, <2>3, <1>3, TimeAssumption DEF Sleeping, TicksLeft, Time
    <3>3. DueTime <= wake[t]
      BY <3>2, <2>3, <1>1, UnblockTimeIsFirst DEF DueTime, CoreTypes
    <3>4. t \in Expired <=> wake[t] = 0
      BY <3>2, <3>3, <2>1, <2>3, <1>3 DEF Expired, Due, Time
    <3>5. CASE t \in Expired
      <4>1. t \notin Sleeping'
        BY <3>5, <1>2
      <4> QED
        BY <4>1, <3>2, <3>4, <3>5 DEF TicksLeft, Sleeping
    <3>6. CASE t \notin Expired
      <4>1. t \in delayed' /\ wake'[t] = wake[t]
        BY <3>2, <3>6, <2>3, <1>2 DEF CountTick, Due
      <4> QED
        BY <4>1, <3>2, <2>1, <2>3, <1>3 DEF TicksLeft, Time
    <3> QED
      BY <3>5, <3>6
  <2>4. CASE t \in delayed /\ ~Wraps
    <3>1. TicksLeft(t) = wake[t] - tick /\ tick < wake[t] /\ next <= wake[t]
      BY <2>4, <1>1 DEF TicksLeft, NoOversleep
    <3>2. t \in Expired <=> wake[t] = tick + 1
      <4>1. next \in Time
        BY <1>1 DEF CoreTypes
      <4>2. t \in Expired <=> (TickCount >= next /\ wake[t] <= TickCount)
        BY <2>4 DEF Expired, Due, DueTime
      <4>3. TickCount = tick + 1
        BY <2>4, <1>3
      <4> QED
        BY <3>1, <4>1, <4>2, <4>3, <2>1, <1>3, TimeAssumption DEF Time
    <3>3. CASE t \in Expired
      <4>1. t \notin Sleeping'
        BY <3>3, <1>2
      <4> QED
        BY <4>1, <3>1, <3>2, <3>3, <1>3, TimeAssumption DEF TicksLeft, Sleeping, Time
    <3>4. CASE t \notin Expired
      <4>1. t \in delayed' /\ wake'[t] = wake[t]
        BY <3>4, <2>4, <1>2 DEF CountTick, Due
      <4> QED
        BY <4>1, <3>1, <2>1, <2>4, <1>3, TimeAssumption DEF TicksLeft, Time
    <3> QED
      BY <3>3, <3>4
  <2>5. CASE t \in overflow /\ ~Wraps
    <3>1. t \notin delayed /\ t \notin Expired
      BY <2>1, <2>5 DEF Expired, Due
    <3>2. t \in overflow' /\ wake'[t] = wake[t] /\ t \notin delayed'
      BY <3>1, <2>5, <1>2 DEF CountTick, ListsExact, Due
    <3>3. wake[t] < tick
      BY <2>5, <1>1 DEF NoOversleep
    <3> QED
      BY <3>1, <3>2, <3>3, <2>1, <2>5, <1>3, TimeAssumption DEF TicksLeft, Time
  <2> QED
    BY <2>2, <2>3, <2>4, <2>5 DEF Sleeping
<1> QED
  BY <1>4 DEF Alarm!Elapse

\* Every step of the kernel is a step of Alarms or leaves its variables alone.
LEMMA StepSimulates == KInv /\ [Next]_vars => [Alarm!Next]_(Alarm!vars)
<1> SUFFICES ASSUME KInv, [Next]_vars PROVE [Alarm!Next]_(Alarm!vars)
  OBVIOUS
<1>1. TypeOK /\ ListsExact /\ NoOversleep
  BY DEF KInv
<1>2. CASE TickIsr
  <2>1. CountTick /\ prio' = prio /\ pended' = pended
    BY <1>2 DEF TickIsr
  <2> QED
    BY <2>1, CountTickIsElapse, CoreOfKInv DEF Alarm!Next, Alarm!Tick
<1>3. CASE TickIsrSuspended
  <2>1. UNCHANGED <<delayed, overflow, wake, tick>> /\ pended' = pended + 1
    BY <1>3 DEF TickIsrSuspended, lists
  <2>2. Alarm!Owe
    BY <2>1 DEF TicksLeft, Alarm!Owe
  <2> QED
    BY <2>2 DEF Alarm!Next
<1>4. ASSUME NEW t \in Takers, NotifyGive(t)
      PROVE  [Alarm!Next]_(Alarm!vars)
  <2>1. t \in Task /\ UNCHANGED <<tick, pended>>
    BY <1>4, CallAssumption DEF NotifyGive, clock
  <2>2. CASE Unblock(t) /\ suspended = 0
    <3>1. /\ MakeReady({t})
          /\ delayed' = delayed \ {t} /\ overflow' = overflow \ {t}
      BY <2>2 DEF Unblock
    <3>2. \A u \in Task \ {t} : wake'[u] = wake[u]
      BY <3>1 DEF MakeReady
    <3> QED
      BY <3>1, <3>2, <2>1, <1>1, LeavingIsWake, CoreOfTypes DEF Alarm!Next
  <2>3. CASE ~(Unblock(t) /\ suspended = 0)
    <3>1. UNCHANGED <<delayed, overflow, wake>>
      BY <2>3, <1>4 DEF NotifyGive, Unblock, lists
    <3> QED
      BY <3>1, <2>1, NothingLeaves
  <2> QED
    BY <2>2, <2>3
<1>5. CASE DelayAdd
  <2>1. /\ AddCurrentToDelayed(arg[current].wait)
        /\ arg[current].wait \in Time /\ arg[current].wait > 0
        /\ Placed(current)
        /\ UNCHANGED <<prio, pending, tick, pended, overflows>>
    BY <1>5 DEF DelayAdd, KInv, CallsSane, CurrentReady, Placed, TypeOK
  <2> QED
    BY <2>1, JoiningIsSleep, CoreOfKInv DEF Alarm!Next
<1>6. CASE DelayUntilAdd
  <2> DEFINE w == (last[current] + arg[current].wait) % TickModulus
             n == (w - tick) % TickModulus
  <2>1. /\ UNCHANGED <<prio, pending, tick, pended, overflows>>
        /\ Placed(current)
        /\ tick \in Time /\ w \in Time /\ last[current] \in Time
    BY <1>6, TimeSum DEF DelayUntilAdd, KInv, CurrentReady, Placed, TypeOK
  <2>2. CASE ShouldDelay(tick, last[current], arg[current].wait)
    <3>1. w # tick
      BY <2>1, <2>2, TimeAssumption DEF ShouldDelay, Time
    <3>2. n \in Time /\ n > 0
      BY <2>1, <3>1, DelayUntilTarget
    <3>3. AddCurrentToDelayed(n)
      BY <1>6, <2>2 DEF DelayUntilAdd
    <3> HIDE DEF n, w
    <3> QED
      BY <3>2, <3>3, <2>1, JoiningIsSleep, CoreOfKInv DEF Alarm!Next
  <2>3. CASE ~ShouldDelay(tick, last[current], arg[current].wait)
    <3>1. UNCHANGED <<delayed, overflow, wake>>
      BY <1>6, <2>3 DEF DelayUntilAdd
    <3> QED
      BY <3>1, <2>1, NothingLeaves
  <2> QED
    BY <2>2, <2>3
<1>7. ASSUME NEW n \in Waits, TakeBlock(n)
      PROVE  [Alarm!Next]_(Alarm!vars)
  <2>1. /\ n \in Time /\ Placed(current)
        /\ UNCHANGED <<prio, pending, tick, pended, overflows>>
    BY <1>7, TimeAssumption DEF TakeBlock, KInv, CurrentReady, Placed
  <2>2. CASE AddCurrentToDelayed(n) /\ n > 0
    BY <2>1, <2>2, JoiningIsSleep, CoreOfKInv DEF Alarm!Next
  <2>3. CASE UNCHANGED <<delayed, overflow, wake>>
    BY <2>1, <2>3, NothingLeaves
  <2> QED
    BY <1>7, <2>2, <2>3 DEF TakeBlock
<1>8. CASE ResumePending
  <2>1. /\ MakeReady(pending) /\ pending \in SUBSET Task
        /\ delayed' = delayed \ pending /\ overflow' = overflow \ pending
        /\ UNCHANGED <<tick, pended>>
    BY <1>1, <1>8 DEF ResumePending, TypeOK
  <2>2. \A t \in Task \ pending : wake'[t] = wake[t]
    BY <2>1 DEF MakeReady
  <2> QED
    BY <2>1, <2>2, <1>1, LeavingIsWake, CoreOfTypes DEF Alarm!Next
<1>9. CASE ResumeTick
  <2>1. CountTick /\ prio' = prio /\ pended > 0 /\ pended' = pended - 1
    BY <1>9 DEF ResumeTick
  <2> QED
    BY <2>1, CountTickIsElapse, CoreOfKInv DEF Alarm!Next, Alarm!CatchUp
<1>10. CASE UNCHANGED <<delayed, overflow, wake, tick, pended>>
  BY <1>10, NothingLeaves
<1>11. SuspendLoad \/ SuspendStore("add") \/ ResumeEnd("run", "yield") \/ Yield("run")
          \/ IdleYield \/ (\E clear \in BOOLEAN : TakeValue(clear))
          \/ (\E n \in Waits : vTaskDelay(n) \/ xTaskDelayUntil(n))
          \/ (\E t \in Settable, p \in NewPriority : vTaskPrioritySet(t, p))
          \/ UNCHANGED vars
       => UNCHANGED <<delayed, overflow, wake, tick, pended>>
  BY DEF SuspendLoad, SuspendStore, ResumeEnd, Yield, IdleYield, TakeValue, vTaskDelay,
         xTaskDelayUntil, vTaskPrioritySet, vars, lists, clock
<1> QED
  BY <1>2, <1>3, <1>4, <1>5, <1>6, <1>7, <1>8, <1>9, <1>10, <1>11
     DEF Next, Interrupt, Inside, Call

\* The kernel implements Alarms: whatever the interrupts, the suspensions and
\* the wraps of the counter, a wait ends after exactly its ticks, or before
\* by an event.
THEOREM KernelImplementsAlarms == Spec => ImplementsAlarms
<1>1. Init => Alarm!Init
  BY DEF Init, Alarm!Init, TicksLeft
<1> QED
  BY <1>1, Invariant, StepSimulates, PTL DEF Spec, ImplementsAlarms, Alarm!Spec

-----------------------------------------------------------------------------
(* The period.                                                             *)

\* What xTaskDelayUntil leaves its task to wait for.
LEMMA DelayUntilLeaves ==
    ASSUME KInv, DelayUntilAdd, NEW t \in Task, t = current
    PROVE  LET n == arg[t].wait
               passed == (tick - last[t]) % TickModulus
           IN  /\ last'[t] = (last[t] + n) % TickModulus
               /\ TicksLeft(t)' = IF n > passed THEN n - passed ELSE 0
<1> DEFINE n == arg[t].wait
           w == (last[t] + n) % TickModulus
           passed == (tick - last[t]) % TickModulus
<1>1. /\ t \in Task /\ tick \in Time /\ last[t] \in Time
      /\ n \in Time /\ n > 0 /\ w \in Time
      /\ t \notin Sleeping
  BY TimeSum DEF KInv, TypeOK, CallsSane, DelayUntilAdd, CurrentReady, ListsExact, Placed
<1>2. last'[t] = w /\ tick' = tick
  BY <1>1 DEF DelayUntilAdd, KInv, TypeOK
<1>3. /\ ShouldDelay(tick, last[t], n) <=> n > passed
      /\ ShouldDelay(tick, last[t], n) => (w - tick) % TickModulus = n - passed
  BY <1>1, DelayUntilExact
<1>4. CASE ShouldDelay(tick, last[t], n)
  <2> DEFINE m == (w - tick) % TickModulus
  <2>1. w # tick
    BY <1>1, <1>4, TimeAssumption DEF ShouldDelay, Time
  <2>2. m \in Time /\ m > 0 /\ (tick + m) % TickModulus = w
        /\ (w >= tick => m = w - tick) /\ (w < tick => m = w - tick + TickModulus)
    BY <1>1, <2>1, DelayUntilTarget, TimeDifference
  <2>3. AddCurrentToDelayed(m)
    BY <1>4 DEF DelayUntilAdd
  <2>4. wake \in [Task -> Time] /\ t \notin delayed /\ t \notin overflow
    BY <1>1 DEF KInv, TypeOK, Sleeping
  <2> HIDE DEF m, w, n
  <2>5. /\ wake'[t] = w
        /\ w < tick => t \in overflow' /\ t \notin delayed'
        /\ ~(w < tick) => t \in delayed'
    BY <1>1, <2>2, <2>3, <2>4 DEF AddCurrentToDelayed
  <2>6. TicksLeft(t)' = m
    BY <1>1, <1>2, <2>2, <2>5, TimeAssumption DEF TicksLeft, Time
  <2> QED
    BY <1>2, <1>3, <1>4, <2>6 DEF m, w, n
<1>5. CASE ~ShouldDelay(tick, last[t], n)
  <2>1. UNCHANGED <<delayed, overflow>>
    BY <1>5 DEF DelayUntilAdd
  <2>2. TicksLeft(t)' = 0
    BY <1>1, <2>1 DEF TicksLeft, Sleeping
  <2> QED
    BY <1>2, <1>3, <1>5, <2>2
<1> QED
  BY <1>4, <1>5

\* A task comes from its place in the delay to xTaskResumeAll by DelayAdd or
\* DelayUntilAdd only.
LEMMA ResumeFromAdd ==
    ASSUME KInv, [Next]_vars, NEW t \in Task,
           pc[t] = "add", pc'[t] = "resume", arg[t].call = "until"
    PROVE  DelayUntilAdd /\ t = current
<1>1. pc \in [Task -> Label] /\ current \in Task
  BY DEF KInv, TypeOK
<1>2. ~UNCHANGED pc
  OBVIOUS
<1>3. t = current
  BY <1>1 DEF KInv, SuspendedAlone, Region
<1>4. ~Interrupt /\ ~IdleYield /\ ~UNCHANGED vars
  BY <1>2 DEF Interrupt, TickIsr, TickIsrSuspended, NotifyGive, IdleYield, vars, locals
<1>5. ~Call
  BY <1>1, <1>2, <1>3 DEF Call, vTaskDelay, xTaskDelayUntil, TakeBlock, vTaskPrioritySet, locals
<1>6. Inside
  BY <1>4, <1>5 DEF Next
<1>7. DelayUntilAdd
  BY <1>1, <1>3, <1>6 DEF Inside, SuspendLoad, SuspendStore, DelayAdd, ResumePending,
     ResumeTick, ResumeEnd, Yield, TakeValue
<1> QED
  BY <1>3, <1>7

\* However late the task comes and wherever the counter wraps, it waits for
\* the rest of its period and no more.
THEOREM PeriodKeptExactly == Spec => PeriodicExact
<1> DEFINE Keeps(t) ==
        (arg[t].call = "until" /\ pc[t] = "add" /\ pc'[t] = "resume") =>
            LET n == arg[t].wait
                passed == (tick - last[t]) % TickModulus
            IN  /\ last'[t] = (last[t] + n) % TickModulus
                /\ TicksLeft(t)' = IF n > passed THEN n - passed ELSE 0
<1>1. ASSUME KInv, [Next]_vars, NEW t \in Periodic
      PROVE  Keeps(t)
  <2> SUFFICES ASSUME arg[t].call = "until", pc[t] = "add", pc'[t] = "resume"
               PROVE  LET n == arg[t].wait
                          passed == (tick - last[t]) % TickModulus
                      IN  /\ last'[t] = (last[t] + n) % TickModulus
                          /\ TicksLeft(t)' = IF n > passed THEN n - passed ELSE 0
    OBVIOUS
  <2>1. t \in Task
    BY CallAssumption
  <2>2. DelayUntilAdd /\ t = current
    BY <1>1, <2>1, ResumeFromAdd
  <2> QED
    BY <1>1, <2>1, <2>2, DelayUntilLeaves
<1>2. KInv /\ [Next]_vars => [\A t \in Periodic : Keeps(t)]_vars
  BY <1>1
<1> QED
  BY <1>2, Invariant, PTL DEF Spec, PeriodicExact
=============================================================================
