------------------------- MODULE KernelQueue_proofs -------------------------
(* Theorems about KernelQueue, for every set of tasks and priorities, every *)
(* length of the queue and every choice of the calling tasks.              *)
EXTENDS KernelQueue, Kernel_proofs, SequenceTheorems

-----------------------------------------------------------------------------
(* The inductive invariant.                                                *)

(* The running task alone is between vTaskSuspendAll and xTaskResumeAll.   *)
QRegion == {"lock", "check", "test", "place", "unlockTx", "unlockRx", "resume"}

QSuspendedAlone ==
    /\ suspended = IF pc[current] \in QRegion THEN 1 ELSE 0
    /\ \A t \in Task \ {current} : pc[t] \notin QRegion

(* Each lock is held from prvLockQueue to its half of prvUnlockQueue.      *)
LocksHeld ==
    /\ txLock # Unlocked <=> pc[current] \in {"check", "test", "place", "unlockTx"}
    /\ rxLock # Unlocked <=>
           pc[current] \in {"check", "test", "place", "unlockTx", "unlockRx"}

(* The running task is ready, except from its entry in a delay list to the *)
(* yield that follows.                                                     *)
Leaving == {"unlockTx", "unlockRx", "resume", "ticks"}

QCurrentReady ==
    \/ Placed(current)
    \/ pc[current] = "yield"
    \/ pc[current] \in Leaving /\ op[current].then = "blocked"

QIdleReady == Idle \notin Sleeping /\ pc[Idle] = "run"

(* What a call has noted where: the item of a send, a wait that is not     *)
(* zero, how the call goes on after prvUnlockQueue, and a counter that was *)
(* read as zero.                                                           *)
Blocking == {"suspend", "suspendStore", "lock", "check", "test", "place"}

CallSane(t) ==
    /\ pc[t] = "suspendStore" => arg[t].read = 0
    /\ op[t].call = "none" <=> pc[t] = "run"
    /\ op[t].call = "send" => op[t].item \in Item /\ op[t].position \in Positions
    /\ pc[t] \in Blocking => op[t].wait > 0
    /\ op[t].then # "none" <=> pc[t] \in Leaving
    /\ pc[t] = "expired" => op[t].call = "receive"

QCallsSane == \A t \in Task : CallSane(t)

(* Whoever sleeps comes back to the top of its loop.                       *)
ComesBack(t) == pc[t] \in {"try", "yield"} \/ op[t].then = "blocked"

SleepersLookAgain == pending \subseteq Sleeping /\ \A t \in Sleeping : ComesBack(t)

(* The callers that will look at the queue again before they give up or    *)
(* sleep: those who were woken and those who never slept.                  *)
LooksAgain(t) == pc[t] \in {"try", "yield"} \/ op[t].then \in {"again", "blocked"}

Coming(call) ==
    {t \in Task : op[t].call = call /\ (t \in pending \/ (t \notin Sleeping /\ LooksAgain(t)))}

(* While somebody sleeps for an item, or is about to, as many callers will *)
(* look again as there are items, counting those the lock still owes a     *)
(* wake-up; a lock that has reached its limit owes one to everybody.  The  *)
(* same for space.                                                         *)
Demand(call)   == IF call = "receive" THEN count ELSE Length - count
Waiters(call)  == IF call = "receive" THEN toReceive ELSE toSend
LockFor(call)  == IF call = "receive" THEN txLock ELSE rxLock
Owing(lock)    == IF lock = Unlocked THEN 0 ELSE lock
Placing(call)  == pc[current] = "place" /\ op[current].call = call
Needed(call)   == Waiters(call) # <<>> \/ Placing(call)

CoveredFor(call) ==
    Needed(call) =>
        \/ LockFor(call) = Cardinality(Task)
        \/ Demand(call) <= Cardinality(Coming(call)) + Owing(LockFor(call))

Covered == CoveredFor("receive") /\ CoveredFor("send")

(* The two ends of the storage area are count slots apart.                 *)
RingCoherent == writeTo = (readFrom + 1 + count) % Length

(* The types of the queue's variables, in parts.                           *)
StorageTypes ==
    /\ slots \in [0..(Length - 1) -> Item \cup {"none"}]
    /\ writeTo \in 0..(Length - 1) /\ readFrom \in 0..(Length - 1)
    /\ count \in 0..Length

LockTypes ==
    /\ rxLock \in Unlocked..Cardinality(Task)
    /\ txLock \in Unlocked..Cardinality(Task)

EventTypes == toReceive \in Seq(Task) /\ toSend \in Seq(Task)

CallRecord ==
    [call : {"none", "receive", "send"}, item : Item \cup {"none"},
     position : Positions \cup {"none"}, wait : Time, enter : Time,
     over : 0..(OverflowModulus - 1), set : BOOLEAN,
     then : {"none", "blocked", "again", "expired"}]

CallTypes == pc \in [Task -> QLabel] /\ op \in [Task -> CallRecord]

(* Of the invariant, what speaks of the running task.                      *)
RunnerInv == QSuspendedAlone /\ LocksHeld /\ QCurrentReady /\ Urgent

QInv ==
    /\ KCore /\ StorageTypes /\ LockTypes /\ EventTypes /\ CallTypes
    /\ RunnerInv /\ QIdleReady /\ QCallsSane
    /\ EventListsExact /\ SleepersLookAgain /\ Covered /\ RingCoherent

-----------------------------------------------------------------------------
(* The event lists.                                                        *)

(* f is the recursion of Without, up to n.                                  *)
Filter(f, list, S, n) ==
    f = [i \in 0..n |-> IF i = 0 THEN <<>>
                        ELSE IF list[i] \in S THEN f[i - 1]
                        ELSE Append(f[i - 1], list[i])]

\* There is one.
LEMMA FilterExists ==
    ASSUME NEW T, NEW list \in Seq(T), NEW S, NEW n \in 0..Len(list)
    PROVE  \E f \in [0..n -> Seq(T)] : Filter(f, list, S, n)
<1> DEFINE Bad == {m \in 0..Len(list) : ~ \E f \in [0..m -> Seq(T)] : Filter(f, list, S, m)}
<1>1. SUFFICES ASSUME Bad # {} PROVE FALSE
  OBVIOUS
<1>2. PICK m \in Bad : \A k \in Bad : m <= k
  <2>1. Bad \subseteq Nat
    OBVIOUS
  <2> HIDE DEF Bad
  <2> QED
    BY <1>1, <2>1, SmallestExists
<1>3. m \in 0..Len(list) /\ Len(list) \in Nat
  BY <1>2
<1>4. m # 0
  <2>1. SUFFICES ASSUME m = 0 PROVE FALSE
    OBVIOUS
  <2> DEFINE f == [i \in 0..0 |-> <<>>]
  <2>2. f \in [0..0 -> Seq(T)]
    OBVIOUS
  <2>3. Filter(f, list, S, 0)
    BY DEF Filter
  <2> QED
    BY <2>1, <2>2, <2>3, <1>2
<1>5. m - 1 \in 0..Len(list) /\ m - 1 \notin Bad
  <2>1. m - 1 \in 0..Len(list) /\ ~(m <= m - 1)
    BY <1>3, <1>4
  <2> HIDE DEF Bad
  <2> QED
    BY <1>2, <2>1
<1>6. PICK f \in [0..(m - 1) -> Seq(T)] : Filter(f, list, S, m - 1)
  BY <1>5
<1> DEFINE x == IF list[m] \in S THEN f[m - 1] ELSE Append(f[m - 1], list[m])
           g == [i \in 0..m |-> IF i = m THEN x ELSE f[i]]
<1>7. list[m] \in T /\ f[m - 1] \in Seq(T)
  BY <1>3, <1>4, <1>6
<1>8. x \in Seq(T)
  BY <1>7
<1>9. g \in [0..m -> Seq(T)]
  <2> HIDE DEF x
  <2> QED
    BY <1>8, <1>3, <1>6
<1>10. Filter(g, list, S, m)
  <2>1. ASSUME NEW i \in 0..m
        PROVE  g[i] = IF i = 0 THEN <<>>
                        ELSE IF list[i] \in S THEN g[i - 1]
                        ELSE Append(g[i - 1], list[i])
    <3>1. CASE i = m
      BY <3>1, <1>3, <1>4
    <3>2. CASE i # m
      <4>1. i \in 0..(m - 1) /\ g[i] = f[i] /\ (i # 0 => g[i - 1] = f[i - 1])
        BY <3>2, <1>3, <1>4
      <4>2. f[i] = IF i = 0 THEN <<>>
                        ELSE IF list[i] \in S THEN f[i - 1]
                        ELSE Append(f[i - 1], list[i])
        BY <4>1, <1>6 DEF Filter
      <4> QED
        BY <4>1, <4>2
    <3> QED
      BY <3>1, <3>2
  <2> QED
    BY <2>1 DEF Filter
<1> QED
  BY <1>2, <1>9, <1>10

\* Without is its value at the end of the list.
LEMMA WithoutIsFilter ==
    ASSUME NEW T, NEW list \in Seq(T), NEW S
    PROVE  \E f \in [0..Len(list) -> Seq(T)] :
               Filter(f, list, S, Len(list)) /\ Without(list, S) = f[Len(list)]
<1> DEFINE n == Len(list)
           F == CHOOSE f : Filter(f, list, S, n)
<1>1. n \in 0..n
  OBVIOUS
<1>2. PICK f \in [0..n -> Seq(T)] : Filter(f, list, S, n)
  BY <1>1, FilterExists
<1>3. Filter(F, list, S, n)
  BY <1>2
<1>4. Without(list, S) = F[n]
  BY DEF Without, Filter
<1>5. F = f
  <2> DEFINE Differ == {i \in 0..n : F[i] # f[i]}
  <2>1. SUFFICES ASSUME Differ # {} PROVE FALSE
    BY <1>2, <1>3 DEF Filter
  <2>2. PICK i \in Differ : \A k \in Differ : i <= k
    <3>1. Differ \subseteq Nat
      OBVIOUS
    <3> HIDE DEF Differ
    <3> QED
      BY <2>1, <3>1, SmallestExists
  <2>3. i # 0
    BY <2>2, <1>2, <1>3 DEF Filter
  <2>4. i - 1 \in 0..n /\ i - 1 \notin Differ
    BY <2>2, <2>3
  <2> QED
    BY <2>2, <2>3, <2>4, <1>2, <1>3 DEF Filter
<1> QED
  BY <1>2, <1>4, <1>5

\* What Without keeps: the members that are not in S, each as often as
\* before, that is once if it was there once.
LEMMA WithoutProperties ==
    ASSUME NEW T, NEW list \in Seq(T), NEW S
    PROVE  /\ Without(list, S) \in Seq(T)
           /\ \A t : OnList(t, Without(list, S)) <=> (OnList(t, list) /\ t \notin S)
           /\ IsInjective(list) => IsInjective(Without(list, S))
<1> DEFINE n == Len(list)
<1>1. PICK f \in [0..n -> Seq(T)] : Filter(f, list, S, n) /\ Without(list, S) = f[n]
  BY WithoutIsFilter
<1> DEFINE Sound(i) == /\ \A t : OnList(t, f[i]) <=> (\E k \in 1..i : list[k] = t /\ t \notin S)
                       /\ IsInjective(list) => IsInjective(f[i])
           Bad == {i \in 0..n : ~Sound(i)}
<1>2. ASSUME Bad # {} PROVE FALSE
  <2>1. PICK i \in Bad : \A k \in Bad : i <= k
    <3>1. Bad \subseteq Nat
      OBVIOUS
    <3> HIDE DEF Bad
    <3> QED
      BY <1>2, <3>1, SmallestExists
  <2>2. i \in 0..n /\ n \in Nat
    BY <2>1
  <2>3. i # 0
    <3>1. f[0] = <<>>
      BY <1>1, <2>2 DEF Filter
    <3>2. Sound(0)
      BY <3>1 DEF OnList, IsInjective
    <3> QED
      BY <3>2, <2>1
  <2>4. i - 1 \in 0..n /\ Sound(i - 1)
    <3> HIDE DEF Sound
    <3> QED
      BY <2>1, <2>2, <2>3
  <2>5. /\ f[i] = IF list[i] \in S THEN f[i - 1] ELSE Append(f[i - 1], list[i])
        /\ f[i - 1] \in Seq(T) /\ list[i] \in T
    <3>1. i \in 1..n /\ i \in DOMAIN list
      BY <2>2, <2>3
    <3>2. f[i] = IF list[i] \in S THEN f[i - 1] ELSE Append(f[i - 1], list[i])
      BY <1>1, <2>2, <2>3 DEF Filter
    <3>3. list[i] \in T
      BY <3>1, ElementOfSeq
    <3> QED
      BY <1>1, <2>4, <3>2, <3>3
  <2>6. CASE list[i] \in S
    <3>1. \A t : (\E k \in 1..i : list[k] = t /\ t \notin S) <=> (\E k \in 1..(i - 1) : list[k] = t /\ t \notin S)
      BY <2>2, <2>3, <2>6
    <3>2. Sound(i)
      BY <3>1, <2>4, <2>5, <2>6
    <3> QED
      BY <3>2, <2>1
  <2>7. CASE list[i] \notin S
    <3> DEFINE s == f[i - 1]
               x == list[i]
    <3>1. f[i] = Append(s, x) /\ s \in Seq(T) /\ x \in T
      BY <2>5, <2>7
    <3>2. /\ Len(Append(s, x)) = Len(s) + 1
          /\ \A k \in 1..Len(s) : Append(s, x)[k] = s[k]
          /\ Append(s, x)[Len(s) + 1] = x
          /\ DOMAIN Append(s, x) = 1..(Len(s) + 1)
          /\ DOMAIN s = 1..Len(s) /\ Len(s) \in Nat
      BY <3>1
    <3>3. \A t : OnList(t, f[i]) <=> OnList(t, s) \/ t = x
      BY <3>1, <3>2 DEF OnList
    <3>4. \A t : (\E k \in 1..i : list[k] = t /\ t \notin S)
                    <=> (\E k \in 1..(i - 1) : list[k] = t /\ t \notin S) \/ t = x
      BY <2>2, <2>3, <2>7
    <3>5. ASSUME IsInjective(list) PROVE IsInjective(f[i])
      <4>1. ~OnList(x, s)
        <5>1. \A k \in 1..(i - 1) : list[k] # x
          BY <3>5, <2>2, <2>3 DEF IsInjective
        <5> QED
          BY <5>1, <2>4
      <4>2. IsInjective(s)
        BY <2>4, <3>5
      <4> HIDE DEF s, x
      <4> QED
        BY <4>1, <4>2, <3>1, <3>2 DEF IsInjective, OnList
    <3>6. Sound(i)
      BY <3>3, <3>4, <3>5, <2>4
    <3> QED
      BY <3>6, <2>1
  <2> QED
    BY <2>6, <2>7
<1>3. Sound(n)
  <2> HIDE DEF Sound
  <2> QED
    BY <1>2
<1> QED
  BY <1>1, <1>3 DEF OnList
\* vListInsert puts the task somewhere and leaves the others as they were.
LEMMA InsertProperties ==
    ASSUME NEW list \in Seq(Task), NEW t \in Task, prio \in [Task -> Priority]
    PROVE  /\ InsertByPriority(list, t) \in Seq(Task)
           /\ InsertByPriority(list, t) # <<>>
           /\ \A u : OnList(u, InsertByPriority(list, t)) <=> (OnList(u, list) \/ u = t)
           /\ IsInjective(list) /\ ~OnList(t, list) => IsInjective(InsertByPriority(list, t))
<1> DEFINE new == InsertByPriority(list, t)
           less == {i \in 1..Len(list) : prio[list[i]] < prio[t]}
<1>1. PICK at \in 1..(Len(list) + 1) :
          /\ new \in Seq(Task)
          /\ Len(new) = Len(list) + 1
          /\ \A k \in 1..(Len(list) + 1) :
                 new[k] = IF k < at THEN list[k] ELSE IF k = at THEN t ELSE list[k - 1]
  <2>1. CASE less = {}
    <3>1. new = Append(list, t)
      BY <2>1 DEF InsertByPriority
    <3>2. /\ new \in Seq(Task) /\ Len(new) = Len(list) + 1
          /\ \A k \in 1..(Len(list) + 1) : new[k] = IF k < Len(list) + 1 THEN list[k] ELSE t
      BY <3>1
    <3> QED
      BY <3>2
  <2>2. CASE less # {}
    <3> DEFINE at == CHOOSE i \in less : \A j \in less : i <= j
    <3>1. at \in less
      <4>1. less \subseteq Nat
        OBVIOUS
      <4>2. \E i \in less : \A j \in less : i <= j
        <5> HIDE DEF less
        <5> QED
          BY <2>2, <4>1, SmallestExists
      <4> QED
        BY <4>2
    <3>2. new = SubSeq(list, 1, at - 1) \o <<t>> \o SubSeq(list, at, Len(list))
      BY <2>2 DEF InsertByPriority, InsertAt
    <3>3. at \in 1..Len(list) /\ Len(list) \in Nat
      BY <3>1
    <3> HIDE DEF at
    <3> DEFINE a == SubSeq(list, 1, at - 1)
               b == SubSeq(list, at, Len(list))
    <3>4. /\ a \in Seq(Task) /\ Len(a) = at - 1 /\ \A k \in 1..(at - 1) : a[k] = list[k]
      BY <3>3
    <3>5. /\ b \in Seq(Task) /\ Len(b) = Len(list) - at + 1
          /\ \A k \in 1..(Len(list) - at + 1) : b[k] = list[at + k - 1]
      BY <3>3
    <3> HIDE DEF a, b
    <3> DEFINE c == a \o <<t>>
    <3>6. /\ c \in Seq(Task) /\ Len(c) = at /\ c[at] = t
          /\ \A k \in 1..(at - 1) : c[k] = list[k]
      BY <3>3, <3>4
    <3>7. new = c \o b
      BY <3>2 DEF a, b
    <3> HIDE DEF c, new
    <3>8. /\ c \o b \in Seq(Task) /\ Len(c \o b) = Len(c) + Len(b)
          /\ \A k \in 1..(Len(c) + Len(b)) :
                 (c \o b)[k] = IF k <= Len(c) THEN c[k] ELSE b[k - Len(c)]
      BY <3>5, <3>6, ConcatProperties
    <3>9. ASSUME NEW k \in 1..(Len(list) + 1)
          PROVE  new[k] = IF k < at THEN list[k] ELSE IF k = at THEN t ELSE list[k - 1]
      <4>1. new[k] = IF k <= at THEN c[k] ELSE b[k - at]
        <5>1. Len(c) = at /\ k \in 1..(Len(c) + Len(b))
          BY <3>3, <3>5, <3>6
        <5> QED
          BY <5>1, <3>7, <3>8
      <4>2. CASE k <= at
        BY <4>1, <4>2, <3>3, <3>6
      <4>3. CASE k > at
        <5>1. k - at \in 1..(Len(list) - at + 1) /\ at + (k - at) - 1 = k - 1
          BY <4>3, <3>3
        <5>2. b[k - at] = list[k - 1]
          BY <5>1, <3>5
        <5> QED
          BY <4>1, <4>3, <5>2, <3>3
      <4> QED
        BY <4>2, <4>3, <3>3
    <3>10. new \in Seq(Task) /\ Len(new) = Len(list) + 1
      BY <3>3, <3>5, <3>6, <3>7, <3>8
    <3>11. at \in 1..(Len(list) + 1)
      BY <3>3
    <3> QED
      BY <3>9, <3>10, <3>11
  <2> QED
    BY <2>1, <2>2
<1> HIDE DEF new
<1>2. Len(list) \in Nat /\ DOMAIN list = 1..Len(list) /\ DOMAIN new = 1..(Len(list) + 1)
  BY <1>1
<1>3. new # <<>>
  BY <1>1, <1>2
<1>4. ASSUME NEW u
      PROVE  OnList(u, new) <=> (OnList(u, list) \/ u = t)
  <2>1. ASSUME OnList(u, new) PROVE OnList(u, list) \/ u = t
    <3>1. PICK k \in 1..(Len(list) + 1) : new[k] = u
      BY <2>1, <1>1, <1>2 DEF OnList
    <3>2. CASE k = at
      BY <3>1, <3>2, <1>1, <1>2
    <3>3. CASE k < at
      <4>1. k \in 1..Len(list) /\ new[k] = list[k]
        BY <3>3, <1>1, <1>2
      <4> QED
        BY <3>1, <4>1 DEF OnList
    <3>4. CASE k > at
      <4>1. k - 1 \in 1..Len(list) /\ new[k] = list[k - 1]
        BY <3>4, <1>1, <1>2
      <4> QED
        BY <3>1, <4>1 DEF OnList
    <3> QED
      BY <3>2, <3>3, <3>4, <1>2
  <2>2. ASSUME OnList(u, list) PROVE OnList(u, new)
    <3>1. PICK k \in 1..Len(list) : list[k] = u
      BY <2>2 DEF OnList
    <3>2. CASE k < at
      <4>1. k \in 1..Len(new) /\ new[k] = list[k]
        BY <3>2, <1>1, <1>2
      <4> QED
        BY <3>1, <4>1 DEF OnList
    <3>3. CASE ~(k < at)
      <4>1. k + 1 \in 1..(Len(list) + 1) /\ ~(k + 1 < at) /\ k + 1 # at /\ (k + 1) - 1 = k
        BY <3>3, <1>2
      <4>2. k + 1 \in 1..Len(new) /\ new[k + 1] = list[k]
        BY <4>1, <1>1, <1>2
      <4> QED
        BY <3>1, <4>2 DEF OnList
    <3> QED
      BY <3>2, <3>3
  <2>3. OnList(t, new)
    BY <1>1, <1>2 DEF OnList
  <2> QED
    BY <2>1, <2>2, <2>3
<1>5. ASSUME IsInjective(list), ~OnList(t, list) PROVE IsInjective(new)
  <2> SUFFICES ASSUME NEW k \in 1..(Len(list) + 1), NEW m \in 1..(Len(list) + 1), new[k] = new[m]
               PROVE  k = m
    BY <1>2 DEF IsInjective
  <2> DEFINE from(j) == IF j < at THEN j ELSE j - 1
  <2>1. ASSUME NEW j \in 1..(Len(list) + 1), j # at
        PROVE  from(j) \in 1..Len(list) /\ new[j] = list[from(j)] /\ new[j] # t
    <3>1. from(j) \in 1..Len(list) /\ new[j] = list[from(j)]
      BY <2>1, <1>1, <1>2
    <3> QED
      BY <3>1, <1>5 DEF OnList
  <2>2. new[at] = t
    BY <1>1, <1>2
  <2>3. CASE k = at \/ m = at
    BY <2>1, <2>2, <2>3
  <2>4. CASE k # at /\ m # at
    <3>1. from(k) = from(m)
      <4> HIDE DEF from
      <4> QED
        BY <2>1, <2>4, <1>2, <1>5 DEF IsInjective
    <3> QED
      BY <3>1, <2>4, <1>2
  <2> QED
    BY <2>3, <2>4
<1> QED
  BY <1>1, <1>3, <1>4, <1>5 DEF new

\* The first of a list leaves it.
LEMMA RestProperties ==
    ASSUME NEW list \in Seq(Task), IsInjective(list)
    PROVE  /\ RestOf(list) \in Seq(Task) /\ IsInjective(RestOf(list))
           /\ list # <<>> => Head(list) \in Task /\ OnList(Head(list), list)
           /\ \A u : OnList(u, RestOf(list)) <=>
                         (OnList(u, list) /\ (list # <<>> => u # Head(list)))
<1>1. CASE list = <<>>
  BY <1>1 DEF RestOf, OnList, IsInjective
<1>2. CASE list # <<>>
  <2> DEFINE rest == Tail(list)
  <2>1. /\ rest \in Seq(Task) /\ Len(rest) = Len(list) - 1 /\ Len(list) \in Nat
        /\ Len(list) > 0 /\ Head(list) = list[1]
        /\ \A k \in 1..Len(rest) : rest[k] = list[k + 1]
        /\ DOMAIN rest = 1..Len(rest) /\ DOMAIN list = 1..Len(list)
    BY <1>2
  <2>2. RestOf(list) = rest
    BY <1>2 DEF RestOf
  <2> HIDE DEF rest
  <2>3. IsInjective(rest)
    <3> SUFFICES ASSUME NEW k \in 1..Len(rest), NEW m \in 1..Len(rest), rest[k] = rest[m]
                 PROVE  k = m
      BY <2>1 DEF IsInjective
    <3>1. list[k + 1] = list[m + 1] /\ k + 1 \in 1..Len(list) /\ m + 1 \in 1..Len(list)
      BY <2>1
    <3>2. k + 1 = m + 1
      BY <3>1, <2>1 DEF IsInjective
    <3> QED
      BY <3>2
  <2>4. Head(list) \in Task /\ OnList(Head(list), list)
    BY <2>1 DEF OnList
  <2>5. ASSUME NEW u
        PROVE  OnList(u, rest) <=> (OnList(u, list) /\ u # Head(list))
    <3>1. ASSUME OnList(u, rest) PROVE OnList(u, list) /\ u # Head(list)
      <4>1. PICK k \in 1..Len(rest) : rest[k] = u
        BY <3>1 DEF OnList
      <4>2. k + 1 \in 1..Len(list) /\ list[k + 1] = u /\ k + 1 # 1 /\ 1 \in 1..Len(list)
        BY <4>1, <2>1
      <4>3. list[1] # u
        BY <4>2, <2>1 DEF IsInjective
      <4> QED
        BY <4>2, <4>3, <2>1 DEF OnList
    <3>2. ASSUME OnList(u, list), u # Head(list) PROVE OnList(u, rest)
      <4>1. PICK k \in 1..Len(list) : list[k] = u
        BY <3>2 DEF OnList
      <4>2. k - 1 \in 1..Len(rest) /\ rest[k - 1] = u
        <5>1. k # 1
          BY <4>1, <3>2, <2>1
        <5>2. k - 1 \in 1..Len(rest) /\ (k - 1) + 1 = k
          BY <5>1, <2>1
        <5> QED
          BY <5>2, <4>1, <2>1
      <4> QED
        BY <4>2 DEF OnList
    <3> QED
      BY <3>1, <3>2
  <2> QED
    BY <1>2, <2>1, <2>2, <2>3, <2>4, <2>5
<1> QED
  BY <1>1, <1>2

\* prvUnlockQueue wakes one for each item that was counted, or all there are.
LEMMA OwedProperties ==
    ASSUME NEW list \in Seq(Task), IsInjective(list), NEW lock \in Nat
    PROVE  /\ Owed(list, lock) \in SUBSET Task
           /\ \A u \in Owed(list, lock) : OnList(u, list)
           /\ lock < Len(list) => /\ IsFiniteSet(Owed(list, lock))
                                  /\ Cardinality(Owed(list, lock)) = lock
           /\ ~(lock < Len(list)) => \A u : OnList(u, list) => u \in Owed(list, lock)
<1> DEFINE n == IF lock < Len(list) THEN lock ELSE Len(list)
           W == {list[i] : i \in 1..n}
<1>1. /\ Owed(list, lock) = W /\ n \in Nat /\ n <= Len(list) /\ Len(list) \in Nat
      /\ DOMAIN list = 1..Len(list)
  BY DEF Owed
<1>2. lock < Len(list) => n = lock
  OBVIOUS
<1>3. ~(lock < Len(list)) => n = Len(list)
  OBVIOUS
<1> HIDE DEF n
<1>4. W \in SUBSET Task
  BY <1>1
<1>5. \A u \in W : OnList(u, list)
  BY <1>1 DEF OnList
<1>6. IsFiniteSet(W) /\ Cardinality(W) = n
  <2> DEFINE f == [i \in 1..n |-> list[i]]
  <2>1. f \in Bijection(1..n, W)
    <3>1. f \in [1..n -> W]
      OBVIOUS
    <3>2. \A w \in W : \E i \in 1..n : f[i] = w
      OBVIOUS
    <3>3. \A i, j \in 1..n : f[i] = f[j] => i = j
      BY <1>1 DEF IsInjective
    <3> HIDE DEF f, W
    <3> QED
      BY <3>1, <3>2, <3>3 DEF Bijection, Injection, Surjection, IsInjective
  <2>2. ExistsBijection(1..n, W)
    BY <2>1 DEF ExistsBijection
  <2> HIDE DEF f, W
  <2> QED
    BY <2>2, <1>1, FS_NatBijection, FS_CountingElements
<1>7. n = Len(list) => \A u : OnList(u, list) => u \in W
  BY DEF OnList
<1> QED
  BY <1>1, <1>2, <1>3, <1>4, <1>5, <1>6, <1>7


-----------------------------------------------------------------------------
(* The storage area.                                                       *)

\* The numbers of slots that are at most twice around.
LEMMA SlotNumber ==
    ASSUME NEW n \in 0..(2 * Length)
    PROVE  /\ n % Length \in 0..(Length - 1)
           /\ n < Length => n % Length = n
           /\ Length <= n /\ n < 2 * Length => n % Length = n - Length
           /\ n = 2 * Length => n % Length = 0
<1>1. Length \in Nat /\ Length > 0 /\ n \in Nat
  BY QueueAssumption
<1>2. CASE n < Length
  BY <1>1, <1>2, SMT
<1>3. CASE Length <= n /\ n < 2 * Length
  <2>1. n = 1 * Length + (n - Length) /\ n - Length \in 0..(Length - 1)
    BY <1>1, <1>3
  <2> QED
    BY <1>1, <1>3, <2>1, SMT
<1>4. CASE n = 2 * Length
  BY <1>1, <1>4, SMT
<1> QED
  BY <1>1, <1>2, <1>3, <1>4

\* An item that is put in is one more, unless it takes the only one's place,
\* and the ends of the storage area stay as far apart as it has items.
LEMMA CopyInKeeps ==
    ASSUME StorageTypes, RingCoherent, NEW item \in Item, NEW position \in Positions,
           Fits(position), CopyDataToQueue(item, position)
    PROVE  /\ StorageTypes' /\ RingCoherent'
           /\ count <= count' /\ count' <= count + 1
           /\ Length - count' = Length - count - 1 \/ Length - count' = 0
<1> USE DEF StorageTypes
<1>1. /\ Length \in Nat /\ Length > 0 /\ count \in Nat /\ count <= Length
      /\ position = "overwrite" => Length = 1
      /\ position # "overwrite" => count < Length
  BY QueueAssumption DEF Fits, Full
<1>2. count' = IF position = "overwrite" /\ count > 0 THEN count ELSE count + 1
  BY DEF CopyDataToQueue
<1>3. /\ count' \in 0..Length
      /\ count <= count' /\ count' <= count + 1
      /\ Length - count' = Length - count - 1 \/ Length - count' = 0
  BY <1>1, <1>2
<1>4. CASE position = "back"
  <2>1. /\ slots' = [slots EXCEPT ![writeTo] = item]
        /\ writeTo' = (writeTo + 1) % Length /\ readFrom' = readFrom /\ count' = count + 1
    BY <1>2, <1>4 DEF CopyDataToQueue
  <2>2. writeTo + 1 \in 0..(2 * Length) /\ readFrom + 1 + count \in 0..(2 * Length)
        /\ readFrom + 1 + (count + 1) \in 0..(2 * Length)
    BY <1>1, <1>4
  <2>3. writeTo' \in 0..(Length - 1)
    BY <2>1, <2>2, SlotNumber
  <2>4. RingCoherent'
    <3>1. writeTo = (readFrom + 1 + count) % Length
      BY DEF RingCoherent
    <3>2. (writeTo + 1) % Length = (readFrom + 1 + (count + 1)) % Length
      BY <1>1, <1>4, <2>2, <3>1, SlotNumber
    <3> QED
      BY <2>1, <3>2 DEF RingCoherent
  <2> QED
    BY <1>3, <2>1, <2>3, <2>4
<1>5. CASE position # "back"
  <2>1. /\ slots' = [slots EXCEPT ![readFrom] = item]
        /\ readFrom' = IF readFrom = 0 THEN Length - 1 ELSE readFrom - 1
        /\ writeTo' = writeTo
    BY <1>5 DEF CopyDataToQueue
  <2>2. readFrom' \in 0..(Length - 1)
    BY <1>1, <2>1
  <2>3. RingCoherent'
    <3>1. /\ readFrom + 1 + count \in 0..(2 * Length)
          /\ readFrom' + 1 + count' \in 0..(2 * Length)
      <4>1. \A r \in 0..(Length - 1), c \in 0..Length : r + 1 + c \in 0..(2 * Length)
        BY <1>1
      <4> QED
        BY <4>1, <1>3, <2>2
    <3>2. (readFrom' + 1 + count') % Length = (readFrom + 1 + count) % Length
      <4>1. CASE position = "overwrite"
        <5>1. /\ (readFrom + 1 + count) % Length \in 0..(Length - 1)
              /\ (readFrom' + 1 + count') % Length \in 0..(Length - 1)
          BY <3>1, SlotNumber
        <5> QED
          BY <4>1, <5>1, <1>1
      <4>2. CASE position # "overwrite"
        <5>1. count' = count + 1 /\ count < Length
          BY <4>2, <1>1, <1>2
        <5>2. CASE readFrom = 0
          BY <5>1, <5>2, <1>1, <2>1, <3>1, SlotNumber
        <5>3. CASE readFrom # 0
          BY <5>1, <5>3, <1>1, <2>1
        <5> QED
          BY <5>2, <5>3
      <4> QED
        BY <4>1, <4>2
    <3> QED
      BY <2>1, <3>2 DEF RingCoherent
  <2> QED
    BY <1>3, <2>1, <2>2, <2>3
<1> QED
  BY <1>4, <1>5

\* An item that is taken out is one less.
LEMMA CopyOutKeeps ==
    ASSUME StorageTypes, RingCoherent, ~Empty, CopyDataFromQueue
    PROVE  /\ StorageTypes' /\ RingCoherent'
           /\ count' = count - 1
<1> USE DEF StorageTypes
<1>1. /\ Length \in Nat /\ Length > 0 /\ count \in Nat /\ count <= Length /\ count > 0
      /\ readFrom' = (readFrom + 1) % Length /\ count' = count - 1
      /\ slots' = slots /\ writeTo' = writeTo
  BY QueueAssumption DEF Empty, CopyDataFromQueue
<1>2. readFrom + 1 \in 0..(2 * Length)
  BY <1>1
<1>3. readFrom' \in 0..(Length - 1)
  BY <1>1, <1>2, SlotNumber
<1>4. RingCoherent'
  <2>1. /\ readFrom + 1 + count \in 0..(2 * Length)
        /\ readFrom' + 1 + count' \in 0..(2 * Length)
    BY <1>1, <1>3
  <2>2. (readFrom' + 1 + count') % Length = (readFrom + 1 + count) % Length
    BY <1>1, <1>2, <2>1, SlotNumber
  <2> QED
    BY <1>1, <2>2 DEF RingCoherent
<1> QED
  BY <1>1, <1>3, <1>4

-----------------------------------------------------------------------------
(* The count of the callers that will look again.                          *)

\* There are finitely many tasks.
LEMMA TasksCount ==
    ASSUME NEW S, S \subseteq Task
    PROVE  IsFiniteSet(S) /\ Cardinality(S) \in Nat /\ Cardinality(S) <= Cardinality(Task)
BY QueueAssumption, FS_Subset, FS_CardinalityType

\* An item or a place is a number, in this state and the next.
LEMMA CoverTypes ==
    ASSUME StorageTypes, LockTypes, StorageTypes', LockTypes', NEW call \in {"receive", "send"}
    PROVE  /\ Demand(call) \in Nat /\ Demand(call)' \in Nat
           /\ LockFor(call) \in Unlocked..Cardinality(Task)
           /\ LockFor(call)' \in Unlocked..Cardinality(Task)
           /\ Owing(LockFor(call)) \in Nat /\ Owing(LockFor(call))' \in Nat
           /\ Cardinality(Task) \in Nat
           /\ IsFiniteSet(Coming(call)) /\ IsFiniteSet(Coming(call)')
           /\ Cardinality(Coming(call)) \in Nat /\ Cardinality(Coming(call)') \in Nat
<1>1. Cardinality(Task) \in Nat
  BY TasksCount
<1>2. Demand(call) \in Nat /\ Demand(call)' \in Nat
  <2>1. \A c \in 0..Length : c \in Nat /\ Length - c \in Nat
    BY QueueAssumption
  <2>2. count \in 0..Length /\ count' \in 0..Length
    BY DEF StorageTypes
  <2> QED
    BY <2>1, <2>2 DEF Demand
<1>3. /\ LockFor(call) \in Unlocked..Cardinality(Task)
      /\ LockFor(call)' \in Unlocked..Cardinality(Task)
  BY <1>1 DEF LockTypes, LockFor
<1>4. Owing(LockFor(call)) \in Nat /\ Owing(LockFor(call))' \in Nat
  BY <1>1, <1>3 DEF Owing, Unlocked
<1>5. Coming(call) \subseteq Task /\ Coming(call)' \subseteq Task
  BY DEF Coming
<1> QED
  BY <1>1, <1>2, <1>3, <1>4, <1>5, TasksCount

(* The lock owes what it did. *)
SameLock(call) == \/ LockFor(call)' = LockFor(call)
                  \/ LockFor(call) = Unlocked /\ LockFor(call)' = 0

\* Covered holds on when nobody less looks again, nothing more is there for
\* them, and the lock owes what it did.
LEMMA CoveredStays ==
    ASSUME StorageTypes, LockTypes, StorageTypes', LockTypes', NEW call \in {"receive", "send"},
           CoveredFor(call), Needed(call)' => Needed(call), SameLock(call),
           Demand(call)' <= Demand(call), Coming(call) \subseteq Coming(call)'
    PROVE  CoveredFor(call)'
<1>1. Cardinality(Coming(call)) <= Cardinality(Coming(call)')
  BY CoverTypes, FS_Subset
<1>2. /\ Owing(LockFor(call))' = Owing(LockFor(call))
      /\ LockFor(call) = Cardinality(Task) => LockFor(call)' = Cardinality(Task)
  BY CoverTypes DEF SameLock, Owing, Unlocked
<1> QED
  BY <1>1, <1>2, CoverTypes DEF CoveredFor

\* One more is there, and one more looks.
LEMMA CoveredOneMore ==
    ASSUME StorageTypes, LockTypes, StorageTypes', LockTypes', NEW call \in {"receive", "send"},
           CoveredFor(call), Needed(call)' => Needed(call), LockFor(call)' = LockFor(call),
           Demand(call)' <= Demand(call) + 1, Coming(call) \subseteq Coming(call)',
           NEW t \in Coming(call)', t \notin Coming(call)
    PROVE  CoveredFor(call)'
<1>1. Cardinality(Coming(call)) + 1 <= Cardinality(Coming(call)')
  <2>1. Cardinality(Coming(call) \cup {t}) = Cardinality(Coming(call)) + 1
    BY CoverTypes, FS_AddElement
  <2>2. Coming(call) \cup {t} \subseteq Coming(call)'
    OBVIOUS
  <2> QED
    BY <2>1, <2>2, CoverTypes, FS_Subset
<1> QED
  BY <1>1, CoverTypes DEF CoveredFor

\* One looks and takes one.
LEMMA CoveredOneLess ==
    ASSUME StorageTypes, LockTypes, StorageTypes', LockTypes', NEW call \in {"receive", "send"},
           CoveredFor(call), Needed(call)' => Needed(call), LockFor(call)' = LockFor(call),
           Demand(call)' = Demand(call) - 1, NEW t, Coming(call) \ {t} \subseteq Coming(call)'
    PROVE  CoveredFor(call)'
<1>1. Cardinality(Coming(call)) <= Cardinality(Coming(call)') + 1
  <2>1. Cardinality(Coming(call)) <= Cardinality(Coming(call) \ {t}) + 1
    <3>1. /\ IsFiniteSet(Coming(call) \ {t})
          /\ Cardinality(Coming(call) \ {t}) = IF t \in Coming(call)
                THEN Cardinality(Coming(call)) - 1 ELSE Cardinality(Coming(call))
      BY CoverTypes, FS_RemoveElement
    <3> QED
      BY <3>1, CoverTypes
  <2>2. Cardinality(Coming(call) \ {t}) <= Cardinality(Coming(call)')
        /\ Cardinality(Coming(call) \ {t}) \in Nat
    BY CoverTypes, FS_Subset, FS_CardinalityType
  <2> QED
    BY <2>1, <2>2, CoverTypes
<1> QED
  BY <1>1, CoverTypes DEF CoveredFor

\* One more is there, and the lock counts it or is at its limit.
LEMMA CoveredCounted ==
    ASSUME StorageTypes, LockTypes, StorageTypes', LockTypes', NEW call \in {"receive", "send"},
           CoveredFor(call), Needed(call)' => Needed(call), LockFor(call) # Unlocked,
           LockFor(call)' = Counted(LockFor(call)),
           Demand(call)' <= Demand(call) + 1, Coming(call) \subseteq Coming(call)'
    PROVE  CoveredFor(call)'
<1>1. Cardinality(Coming(call)) <= Cardinality(Coming(call)')
  BY CoverTypes, FS_Subset
<1>2. LockFor(call) \in Nat /\ Owing(LockFor(call)) = LockFor(call)
      /\ LockFor(call) <= Cardinality(Task)
  BY CoverTypes DEF Unlocked, Owing
<1>3. CASE LockFor(call) < Cardinality(Task)
  <2>1. LockFor(call)' = LockFor(call) + 1 /\ Owing(LockFor(call))' = LockFor(call) + 1
    BY <1>2, <1>3 DEF Counted, Owing, Unlocked
  <2> QED
    BY <1>1, <1>2, <1>3, <2>1, CoverTypes DEF CoveredFor
<1>4. CASE ~(LockFor(call) < Cardinality(Task))
  BY <1>2, <1>4, CoverTypes DEF Counted, CoveredFor
<1> QED
  BY <1>3, <1>4

\* Nothing is there.
LEMMA CoveredZero ==
    ASSUME StorageTypes, LockTypes, StorageTypes', LockTypes', NEW call \in {"receive", "send"},
           Demand(call)' = 0
    PROVE  CoveredFor(call)'
BY CoverTypes DEF CoveredFor

\* The lock is opened, and those it owes are woken.
LEMMA CoveredPaid ==
    ASSUME StorageTypes, LockTypes, StorageTypes', LockTypes', NEW call \in {"receive", "send"},
           CoveredFor(call), Needed(call), LockFor(call) # Unlocked,
           LockFor(call) # Cardinality(Task), LockFor(call)' = Unlocked,
           Demand(call)' = Demand(call),
           NEW W, IsFiniteSet(W), Cardinality(W) = LockFor(call),
           W \cap Coming(call) = {}, Coming(call) \cup W \subseteq Coming(call)'
    PROVE  CoveredFor(call)'
<1>1. Cardinality(Coming(call)) + LockFor(call) <= Cardinality(Coming(call)')
  <2>1. Cardinality(Coming(call) \cup W) = Cardinality(Coming(call)) + Cardinality(W)
    <3>1. Coming(call) \cap W = {} /\ Cardinality({}) = 0 /\ Cardinality(W) \in Nat
      BY FS_EmptySet, FS_CardinalityType
    <3>2. Cardinality(Coming(call) \cup W)
              = Cardinality(Coming(call)) + Cardinality(W) - Cardinality(Coming(call) \cap W)
      BY CoverTypes, FS_Union
    <3> QED
      BY <3>1, <3>2, CoverTypes
  <2>2. Cardinality(Coming(call) \cup W) <= Cardinality(Coming(call)')
    BY CoverTypes, FS_Subset
  <2> QED
    BY <2>1, <2>2, CoverTypes
<1>2. LockFor(call) \in Nat /\ Owing(LockFor(call)) = LockFor(call)
      /\ Owing(LockFor(call))' = 0
  BY CoverTypes DEF Unlocked, Owing
<1> QED
  BY <1>1, <1>2, CoverTypes DEF CoveredFor

-----------------------------------------------------------------------------
(* Steps that wake tasks, or nobody.                                       *)

\* What a step keeps of a call that stays: it looks again if it would have.
SameCall(t) ==
    /\ op'[t].call = op[t].call
    /\ LooksAgain(t) => LooksAgain(t)'
    /\ ComesBack(t) => ComesBack(t)'

\* A task that the step does not touch.
LEMMA Untouched ==
    ASSUME NEW t, pc'[t] = pc[t], op'[t] = op[t]
    PROVE  SameCall(t)
BY DEF SameCall, LooksAgain, ComesBack

\* The tasks of W are made ready, or pending where they are.
Wakes(W) ==
    /\ Sleeping' \in SUBSET Task /\ pending' \in SUBSET Task
    /\ \A t \in Task \ W : /\ t \in Sleeping' <=> t \in Sleeping
                           /\ t \in pending' <=> t \in pending
    /\ \A t \in W : t \in Sleeping' <=> t \in pending'

\* The tasks of W leave the event lists, those of C, who are awake, change
\* their calls, and the others go on as they were.
LEMMA WakingStep ==
    ASSUME QInv, NEW W \in SUBSET Sleeping, NEW C \in SUBSET Task, C \cap Sleeping = {},
           \A t \in Task \ C : SameCall(t),
           Wakes(W),
           IsInjective(toReceive'), IsInjective(toSend'),
           \A t \in Task : OnList(t, toReceive') <=> (OnList(t, toReceive) /\ t \notin W),
           \A t \in Task : OnList(t, toSend') <=> (OnList(t, toSend) /\ t \notin W)
    PROVE  /\ EventListsExact' /\ SleepersLookAgain'
           /\ \A call : Coming(call) \ C \subseteq Coming(call)'
           /\ \A call : \A t \in W \ pending :
                  op[t].call = call => t \in Coming(call)' /\ t \notin Coming(call)
<1>1. EventListsExact /\ SleepersLookAgain /\ Sleeping \in SUBSET Task
  BY DEF QInv, KCore, CoreTypes, Sleeping
<1> USE DEF Wakes
<1>2. \A t \in Sleeping : op'[t].call = op[t].call /\ ComesBack(t)'
  BY <1>1 DEF SameCall, SleepersLookAgain
<1>3. EventListsExact'
  <2>1. ASSUME NEW t \in Task
        PROVE  /\ OnList(t, toReceive') => op'[t].call = "receive"
               /\ OnList(t, toSend') => op'[t].call = "send"
               /\ OnList(t, toReceive') \/ OnList(t, toSend')
                      => t \in Sleeping' /\ t \notin pending'
               /\ t \in Sleeping' =>
                      OnList(t, toReceive') \/ OnList(t, toSend') \/ t \in pending'
    <3>1. /\ OnList(t, toReceive) => op[t].call = "receive"
          /\ OnList(t, toSend) => op[t].call = "send"
          /\ OnList(t, toReceive) \/ OnList(t, toSend)
                 => t \in Sleeping /\ t \notin pending
          /\ t \in Sleeping =>
                 OnList(t, toReceive) \/ OnList(t, toSend) \/ t \in pending
      BY <1>1 DEF EventListsExact
    <3> QED
      BY <3>1, <1>2
  <2> QED
    BY <2>1 DEF EventListsExact
<1>4. SleepersLookAgain'
  <2>1. pending' \subseteq Sleeping'
    BY <1>1 DEF SleepersLookAgain
  <2>2. \A t \in Sleeping' : t \in Sleeping
    BY <1>1
  <2> QED
    BY <2>1, <2>2, <1>2 DEF SleepersLookAgain
<1>5. ASSUME NEW call, NEW t \in Coming(call) \ C PROVE t \in Coming(call)'
  <2>1. t \in Task /\ op[t].call = call /\ op'[t].call = call
    BY <1>5 DEF Coming, SameCall
  <2>2. LooksAgain(t)'
    <3>1. LooksAgain(t) \/ t \in Sleeping
      BY <1>5, <1>1 DEF Coming, SleepersLookAgain
    <3>2. LooksAgain(t)' \/ ComesBack(t)'
      BY <3>1, <2>1, <1>2, <1>5 DEF SameCall
    <3> QED
      BY <3>2 DEF LooksAgain, ComesBack
  <2>3. t \in pending' \/ t \notin Sleeping'
    BY <1>5, <2>1 DEF Coming
  <2> QED
    BY <2>1, <2>2, <2>3 DEF Coming
<1>6. ASSUME NEW call, NEW t \in W \ pending, op[t].call = call
      PROVE  t \in Coming(call)' /\ t \notin Coming(call)
  <2>1. t \in Task /\ t \in Sleeping /\ op'[t].call = op[t].call /\ ComesBack(t)'
    BY <1>1, <1>2, <1>6
  <2>2. t \in pending' \/ (t \notin Sleeping' /\ LooksAgain(t)')
    BY <2>1 DEF ComesBack, LooksAgain
  <2> QED
    BY <2>1, <2>2, <1>6 DEF Coming
<1> QED
  BY <1>3, <1>4, <1>5, <1>6

-----------------------------------------------------------------------------
(* The running task.                                                       *)

\* While the scheduler runs nobody is in a region, the queue is unlocked and
\* nobody is pending.
LEMMA Unsuspended ==
    ASSUME QInv, suspended = 0
    PROVE  /\ \A t \in Task : pc[t] \notin QRegion
           /\ rxLock = Unlocked /\ txLock = Unlocked /\ pending = {}
<1>1. pc[current] \notin QRegion /\ \A t \in Task : pc[t] \notin QRegion
  BY DEF QInv, RunnerInv, QSuspendedAlone
<1> QED
  BY <1>1 DEF QInv, RunnerInv, LocksHeld, QRegion, KCore, PendingOnlySuspended

\* A task that is not on its way to sleep is ready, and is not the idle task
\* if it is in a call.
LEMMA RunningIsPlaced ==
    ASSUME QInv, pc[current] \notin Leaving \cup {"yield"}
    PROVE  /\ Placed(current) /\ current \in Task /\ current \notin Sleeping
           /\ current \notin pending
           /\ pc[current] # "run" => current # Idle
BY DEF QInv, RunnerInv, QCurrentReady, KCore, CoreTypes, ListsExact, SleepersLookAgain,
       QIdleReady

\* A context switch while the scheduler runs.
LEMMA SwitchKeepsRunner ==
    ASSUME ListTypes', ListsExact', QIdleReady', SwitchNow, suspended' = 0,
           rxLock' = Unlocked, txLock' = Unlocked, \A t \in Task : pc'[t] \notin QRegion
    PROVE  /\ current' \in Task /\ yieldPending' \in BOOLEAN
           /\ RunnerInv'
<1>1. /\ current' \in Task /\ Placed(current)'
      /\ \A p \in top' : p <= prio'[current']
      /\ yieldPending' = FALSE
  BY SwitchNowPicksHighest DEF QIdleReady
<1>2. pc'[current'] \notin QRegion
  BY <1>1
<1>3. QSuspendedAlone' /\ LocksHeld'
  BY <1>2 DEF QSuspendedAlone, LocksHeld, QRegion
<1>4. QCurrentReady' /\ Urgent'
  BY <1>1 DEF QCurrentReady, Urgent
<1> QED
  BY <1>1, <1>3, <1>4 DEF RunnerInv

\* The idle task's place, in a step that only takes tasks off the lists.
LEMMA IdleStays ==
    ASSUME QInv, NEW W, Wakes(W), W \subseteq Sleeping, pc'[Idle] = pc[Idle]
    PROVE  QIdleReady'
BY TaskAssumption DEF QInv, QIdleReady, Wakes

\* xTaskRemoveFromEventList, in a handler or in a call that ends.
LEMMA WakeFirstKeeps ==
    ASSUME QInv, NEW list, list = toReceive \/ list = toSend, WakeFirst(list),
           UNCHANGED <<prio, clock, suspended, notify, arg, last, locks>>,
           \/ UNCHANGED <<pc, op>> /\ ~Masked
           \/ /\ pc[current] = "try"
              /\ pc' = [pc EXCEPT ![current] = "run"]
              /\ op' = [op EXCEPT ![current] = NoOp]
    PROVE  /\ KCore' /\ RunnerInv' /\ QIdleReady'
           /\ Wakes(IF list = <<>> THEN {} ELSE {Head(list)})
           /\ list # <<>> => Head(list) \in Sleeping \ pending
<1> DEFINE W == IF list = <<>> THEN {} ELSE {Head(list)}
           Finishing == /\ pc[current] = "try"
                        /\ pc' = [pc EXCEPT ![current] = "run"]
                        /\ op' = [op EXCEPT ![current] = NoOp]
<1>1. /\ KCore /\ CoreTypes /\ ListsExact /\ NoOversleep /\ PendingOnlySuspended
      /\ CallTypes /\ RunnerInv /\ QIdleReady /\ current \in Task
      /\ Sleeping \in SUBSET Task
  BY DEF QInv, KCore, CoreTypes, Sleeping
<1>2. list \in Seq(Task) /\ IsInjective(list)
  BY DEF QInv, EventTypes, EventListsExact
<1>3. list # <<>> => Head(list) \in Task /\ OnList(Head(list), list)
  BY <1>2, RestProperties
<1>4. list # <<>> => Head(list) \in Sleeping \ pending
  BY <1>3 DEF QInv, EventListsExact
<1>5. Finishing => /\ Placed(current) /\ suspended = 0 /\ current # Idle
                   /\ \A t \in Task \ {current} : pc'[t] = pc[t]
                   /\ pc'[current] = "run"
  <2> SUFFICES ASSUME Finishing
               PROVE  /\ Placed(current) /\ suspended = 0 /\ current # Idle
                      /\ \A t \in Task \ {current} : pc'[t] = pc[t]
                      /\ pc'[current] = "run"
    OBVIOUS
  <2>1. pc[current] \notin Leaving \cup {"yield"} /\ pc[current] # "run"
    BY DEF Leaving
  <2>2. Placed(current) /\ current # Idle
    BY <2>1, RunningIsPlaced
  <2>3. suspended = 0
    BY <1>1 DEF RunnerInv, QSuspendedAlone, QRegion
  <2> QED
    BY <2>2, <2>3, <1>1 DEF CallTypes
<1>6. pc'[Idle] = pc[Idle]
  BY <1>5, TaskAssumption
<1>7. suspended = 0 => \A t \in Task : pc'[t] \notin QRegion
  BY <1>5, Unsuspended DEF QRegion
<1>8. CASE list = <<>>
  <2>1. UNCHANGED <<ready, top, delayed, overflow, wake, pending, yieldPending, current>>
    BY <1>8 DEF WakeFirst, lists
  <2>2. Wakes({})
    BY <2>1, <1>1 DEF Wakes, CoreTypes, Sleeping
  <2>3. KCore'
    BY <2>1, <1>1 DEF KCore, CoreTypes, ListsExact, NoOversleep, PendingOnlySuspended, Placed,
                      Sleeping, clock
  <2>4. QIdleReady'
    BY <1>6, <2>2, IdleStays
  <2>5. RunnerInv'
    <3>1. CASE UNCHANGED <<pc, op>>
      BY <2>1, <3>1, <1>1 DEF RunnerInv, QSuspendedAlone, LocksHeld, QCurrentReady, Urgent,
                              Placed, Masked, locks
    <3>2. CASE Finishing
      BY <2>1, <3>2, <1>1, <1>5
         DEF RunnerInv, QSuspendedAlone, LocksHeld, QCurrentReady, Urgent, Placed, Masked,
             QRegion, locks
    <3> QED
      BY <3>1, <3>2
  <2> QED
    BY <1>8, <2>2, <2>3, <2>4, <2>5
<1>9. CASE list # <<>>
  <2> DEFINE h == Head(list)
  <2>1. h \in Task /\ h \in Sleeping \ pending
    BY <1>3, <1>4, <1>9
  <2>2. Unblock(h)
    BY <1>9 DEF WakeFirst
  <2>3. /\ ListTypes' /\ ListsExact' /\ NoOversleep'
        /\ \A u \in Task : Placed(u) => Placed(u)'
        /\ top' \subseteq top \cup {prio[h]}
        /\ suspended > 0 => top' = top
        /\ pending' \in SUBSET Task
        /\ suspended = 0 => pending' = {}
    BY <1>1, <2>1, <2>2, UnblockKeepsLists
  <2>4. Wakes({h})
    <3>1. CASE suspended = 0
      <4>1. delayed' = delayed \ {h} /\ overflow' = overflow \ {h} /\ pending' = pending
        BY <2>2, <3>1 DEF Unblock
      <4> QED
        BY <4>1, <1>1, <2>1 DEF Wakes, Sleeping, CoreTypes
    <3>2. CASE suspended # 0
      <4>1. delayed' = delayed /\ overflow' = overflow /\ pending' = pending \cup {h}
        BY <2>2, <3>2 DEF Unblock
      <4> QED
        BY <4>1, <1>1, <2>1 DEF Wakes, Sleeping, CoreTypes
    <3> QED
      BY <3>1, <3>2
  <2>5. QIdleReady'
    BY <1>6, <2>1, <2>4, IdleStays
  <2>6. current' \in Task /\ yieldPending' \in BOOLEAN /\ RunnerInv'
    <3>1. suspended \in Nat /\ prio[h] \in Priority /\ prio[current] \in Priority
      BY <1>1, <2>1 DEF CoreTypes
    <3>2. CASE suspended = 0 /\ MoreUrgent({h})
      <4>1. SwitchNow
        BY <3>2, <1>9 DEF WakeFirst, SwitchContext
      <4>2. suspended' = 0 /\ rxLock' = Unlocked /\ txLock' = Unlocked
        BY <3>2, Unsuspended DEF locks
      <4> QED
        BY <4>1, <4>2, <1>7, <3>2, <2>3, <2>5, SwitchKeepsRunner
    <3>3. CASE suspended > 0 /\ MoreUrgent({h})
      <4>1. yieldPending' = TRUE /\ current' = current
        BY <3>3, <1>9 DEF WakeFirst, SwitchContext
      <4>2. UNCHANGED <<pc, op>>
        BY <3>3, <1>5
      <4> QED
        BY <4>1, <4>2, <3>3, <1>1, <2>3
           DEF RunnerInv, QSuspendedAlone, LocksHeld, QCurrentReady, Urgent, locks
    <3>4. CASE ~MoreUrgent({h})
      <4>1. yieldPending' = yieldPending /\ current' = current
        BY <3>4, <1>9 DEF WakeFirst
      <4>2. prio[h] <= prio[current]
        BY <3>1, <3>4, PriorityAssumption DEF MoreUrgent, Priority
      <4>3. Urgent'
        <5>1. ~yieldPending => \A p \in top' : p <= prio[current]
          BY <4>2, <2>3, <1>1 DEF RunnerInv, Urgent
        <5>2. yieldPending => suspended > 0 \/ Masked
          BY <1>1 DEF RunnerInv, Urgent
        <5>3. suspended = suspended' /\ Masked' = Masked
          BY <4>1, <1>5 DEF Masked
        <5> QED
          BY <5>1, <5>2, <5>3, <4>1 DEF Urgent
      <4>4. QSuspendedAlone' /\ LocksHeld' /\ QCurrentReady'
        <5>1. CASE UNCHANGED <<pc, op>>
          BY <5>1, <4>1, <1>1, <2>3
             DEF RunnerInv, QSuspendedAlone, LocksHeld, QCurrentReady, locks
        <5>2. CASE Finishing
          BY <5>2, <4>1, <1>1, <1>5, <2>3
             DEF RunnerInv, QSuspendedAlone, LocksHeld, QCurrentReady, QRegion, locks
        <5> QED
          BY <5>1, <5>2
      <4> QED
        BY <4>1, <4>3, <4>4, <1>1 DEF RunnerInv, CoreTypes
    <3> QED
      BY <3>1, <3>2, <3>3, <3>4
  <2>7. KCore'
    <3>1. CoreTypes'
      BY <1>1, <2>3, <2>6 DEF CoreTypes, ListTypes, clock
    <3>2. PendingOnlySuspended'
      BY <1>1, <2>3 DEF PendingOnlySuspended, CoreTypes
    <3> QED
      BY <3>1, <3>2, <2>3 DEF KCore
  <2> QED
    BY <1>9, <2>1, <2>4, <2>5, <2>6, <2>7
<1> QED
  BY <1>8, <1>9

-----------------------------------------------------------------------------
(* Items that come and go.                                                 *)

\* A call that is over.
LEMMA NoOpTypes == NoOp \in CallRecord
BY TimeAssumption DEF NoOp, CallRecord, Time

\* A step with the queue unlocked on one side: the first of its waiters is
\* woken for the item or the place, and looks again.  C is the caller if its
\* call ends in the step.
LEMMA WakeOneKeeps ==
    ASSUME QInv, StorageTypes', NEW call \in {"receive", "send"}, LockFor(call) = Unlocked,
           WakeFirst(Waiters(call)),
           IF call = "receive" THEN toReceive' = RestOf(toReceive) /\ toSend' = toSend
                               ELSE toSend' = RestOf(toSend) /\ toReceive' = toReceive,
           UNCHANGED <<prio, clock, suspended, notify, arg, last, locks>>,
           Demand(call)' <= Demand(call) + 1,
           NEW C,
           \/ C = {} /\ UNCHANGED <<pc, op>> /\ ~Masked
           \/ /\ C = {current} /\ pc[current] = "try" /\ op[current].call # call
              /\ pc' = [pc EXCEPT ![current] = "run"]
              /\ op' = [op EXCEPT ![current] = NoOp]
    PROVE  /\ KCore' /\ LockTypes' /\ EventTypes' /\ CallTypes' /\ RunnerInv' /\ QIdleReady'
           /\ QCallsSane' /\ EventListsExact' /\ SleepersLookAgain'
           /\ \A c : Needed(c)' => Needed(c)
           /\ \A c : Coming(c) \ C \subseteq Coming(c)'
           /\ CoveredFor(call)'
<1> DEFINE list == Waiters(call)
           W == IF list = <<>> THEN {} ELSE {Head(list)}
<1>1. /\ CallTypes /\ QCallsSane /\ EventTypes /\ LockTypes /\ EventListsExact /\ Covered
      /\ StorageTypes /\ current \in Task
  BY DEF QInv, KCore, CoreTypes
<1>2. list = toReceive \/ list = toSend
  BY DEF Waiters
<1>3. list \in Seq(Task) /\ IsInjective(list)
  BY <1>1, <1>2 DEF EventTypes, EventListsExact
<1>4. /\ KCore' /\ RunnerInv' /\ QIdleReady' /\ Wakes(W)
      /\ list # <<>> => Head(list) \in Sleeping \ pending
  BY <1>2, WakeFirstKeeps
<1>5. LockTypes'
  BY <1>1 DEF LockTypes, locks
<1>6. /\ RestOf(list) \in Seq(Task) /\ IsInjective(RestOf(list))
      /\ list # <<>> => Head(list) \in Task /\ OnList(Head(list), list)
      /\ \A u : OnList(u, RestOf(list)) <=> (OnList(u, list) /\ u \notin W)
  BY <1>3, RestProperties
<1>7. list # <<>> => op[Head(list)].call = call
  BY <1>1, <1>6 DEF EventListsExact, Waiters
<1>8. \A t \in W : ~(OnList(t, toReceive) /\ OnList(t, toSend))
  BY <1>1, <1>6 DEF EventListsExact
<1>9. /\ EventTypes' /\ IsInjective(toReceive') /\ IsInjective(toSend')
      /\ \A t \in Task : OnList(t, toReceive') <=> (OnList(t, toReceive) /\ t \notin W)
      /\ \A t \in Task : OnList(t, toSend') <=> (OnList(t, toSend) /\ t \notin W)
  <2>1. W # {} => OnList(Head(list), list) /\ W = {Head(list)}
    BY <1>6
  <2> HIDE DEF W
  <2>2. CASE call = "receive"
    <3>1. list = toReceive /\ toReceive' = RestOf(list) /\ toSend' = toSend
      BY <2>2 DEF Waiters
    <3> QED
      BY <3>1, <2>1, <1>1, <1>6, <1>8 DEF EventTypes, EventListsExact
  <2>3. CASE call = "send"
    <3>1. list = toSend /\ toSend' = RestOf(list) /\ toReceive' = toReceive
      BY <2>3 DEF Waiters
    <3> QED
      BY <3>1, <2>1, <1>1, <1>6, <1>8 DEF EventTypes, EventListsExact
  <2> QED
    BY <2>2, <2>3
<1>10. /\ C \in SUBSET Task /\ C \cap Sleeping = {}
       /\ \A t \in Task \ C : pc'[t] = pc[t] /\ op'[t] = op[t]
       /\ \A t \in C : pc'[t] = "run" /\ op'[t] = NoOp
  <2>1. CASE C = {}
    BY <2>1
  <2>2. CASE C = {current} /\ pc[current] = "try" /\ pc' = [pc EXCEPT ![current] = "run"]
                /\ op' = [op EXCEPT ![current] = NoOp]
    <3>1. current \notin Sleeping
      BY <2>2, RunningIsPlaced DEF Leaving
    <3> QED
      BY <2>2, <3>1, <1>1 DEF CallTypes
  <2> QED
    BY <2>1, <2>2
<1>11. CallTypes'
  <2>1. CASE UNCHANGED <<pc, op>>
    BY <2>1, <1>1 DEF CallTypes
  <2>2. CASE pc' = [pc EXCEPT ![current] = "run"] /\ op' = [op EXCEPT ![current] = NoOp]
    BY <2>2, <1>1, NoOpTypes DEF CallTypes, QLabel
  <2> QED
    BY <2>1, <2>2
<1>12. QCallsSane'
  <2> SUFFICES ASSUME NEW t \in Task PROVE CallSane(t)'
    BY DEF QCallsSane
  <2>1. CASE t \in C
    BY <2>1, <1>10 DEF CallSane, NoOp, Blocking, Leaving
  <2>2. CASE t \notin C
    BY <2>2, <1>1, <1>10 DEF CallSane, QCallsSane
  <2> QED
    BY <2>1, <2>2
<1>13. \A t \in Task \ C : SameCall(t)
  BY <1>10, Untouched
<1>14. W \in SUBSET Sleeping
  BY <1>4
<1>15. /\ EventListsExact' /\ SleepersLookAgain'
       /\ \A c : Coming(c) \ C \subseteq Coming(c)'
       /\ \A c : \A t \in W \ pending :
              op[t].call = c => t \in Coming(c)' /\ t \notin Coming(c)
  <2> HIDE DEF W
  <2> QED
    BY <1>4, <1>9, <1>10, <1>13, <1>14, WakingStep
<1>16. \A c : ~Placing(c)'
  <2>1. rxLock' = Unlocked \/ txLock' = Unlocked
    BY DEF LockFor, locks
  <2>2. pc'[current'] # "place"
    BY <2>1, <1>4 DEF RunnerInv, LocksHeld
  <2> QED
    BY <2>2 DEF Placing
<1>17. \A c : Needed(c)' => Needed(c)
  <2> SUFFICES ASSUME NEW c, Waiters(c)' # <<>>, Waiters(c) = <<>> PROVE FALSE
    BY <1>16 DEF Needed
  <2> QED
    BY DEF Waiters, RestOf
<1>18. LockFor(call)' = LockFor(call)
  BY DEF LockFor, locks
<1>19. CoveredFor(call)
  BY <1>1 DEF Covered
<1>20. CoveredFor(call)'
  <2>1. CASE list = <<>>
    <3>1. Waiters(call)' = <<>>
      BY <2>1 DEF Waiters, RestOf
    <3> QED
      BY <3>1, <1>16 DEF CoveredFor, Needed
  <2>2. CASE list # <<>>
    <3> DEFINE h == Head(list)
    <3>1. h \in Coming(call)' /\ h \notin Coming(call)
      BY <2>2, <1>4, <1>7, <1>15
    <3>2. Coming(call) \subseteq Coming(call)'
      <4>1. C \cap Coming(call) = {}
        BY DEF Coming
      <4> QED
        BY <4>1, <1>15
    <3> HIDE DEF h
    <3> QED
      BY <3>1, <3>2, <1>1, <1>5, <1>17, <1>18, <1>19, CoveredOneMore
  <2> QED
    BY <2>1, <2>2
<1> QED
  BY <1>4, <1>5, <1>9, <1>11, <1>12, <1>15, <1>17, <1>20

\* A step with the queue locked on one side: the lock counts the item or the
\* place.
LEMMA CountOneKeeps ==
    ASSUME QInv, StorageTypes', NEW call \in {"receive", "send"}, LockFor(call) # Unlocked,
           IF call = "receive" THEN txLock' = Counted(txLock) /\ rxLock' = rxLock
                               ELSE rxLock' = Counted(rxLock) /\ txLock' = txLock,
           UNCHANGED <<vars, events, op>>,
           Demand(call)' <= Demand(call) + 1
    PROVE  /\ KCore' /\ LockTypes' /\ EventTypes' /\ CallTypes' /\ RunnerInv' /\ QIdleReady'
           /\ QCallsSane' /\ EventListsExact' /\ SleepersLookAgain'
           /\ \A c : Needed(c)' => Needed(c)
           /\ \A c : Coming(c) \subseteq Coming(c)'
           /\ CoveredFor(call)'
<1> USE DEF vars, lists, clock, sched, locals, events
<1>1. /\ KCore /\ LockTypes /\ EventTypes /\ CallTypes /\ RunnerInv /\ QIdleReady
      /\ QCallsSane /\ EventListsExact /\ SleepersLookAgain /\ StorageTypes
      /\ CoveredFor(call)
  BY DEF QInv, Covered
<1>2. KCore'
  BY <1>1 DEF KCore, CoreTypes, ListsExact, NoOversleep, PendingOnlySuspended, Placed, Sleeping
<1>3. EventTypes' /\ CallTypes' /\ QIdleReady' /\ QCallsSane'
  BY <1>1 DEF EventTypes, CallTypes, QIdleReady, QCallsSane, CallSane, Sleeping
<1>4. EventListsExact' /\ SleepersLookAgain'
  BY <1>1 DEF EventListsExact, SleepersLookAgain, ComesBack, Sleeping
<1>5. LockFor(call) \in Nat /\ Cardinality(Task) \in Nat
  BY <1>1, TasksCount DEF LockTypes, LockFor, Unlocked
<1>6. Counted(LockFor(call)) \in Nat /\ Counted(LockFor(call)) \in Unlocked..Cardinality(Task)
  BY <1>1, <1>5 DEF LockTypes, LockFor, Counted, Unlocked
<1>7. LockFor(call)' = Counted(LockFor(call)) /\ Counted(LockFor(call)) # Unlocked
  BY <1>6 DEF LockFor, Unlocked
<1>8. LockTypes'
  BY <1>1, <1>6 DEF LockTypes, LockFor
<1>9. RunnerInv'
  <2>1. (rxLock' # Unlocked <=> rxLock # Unlocked) /\ (txLock' # Unlocked <=> txLock # Unlocked)
    BY <1>7 DEF LockFor
  <2> QED
    BY <2>1, <1>1 DEF RunnerInv, QSuspendedAlone, LocksHeld, QCurrentReady, Urgent, Placed,
                      Masked
<1>10. \A c : Needed(c)' => Needed(c)
  BY DEF Needed, Waiters, Placing
<1>11. \A c : Coming(c)' = Coming(c)
  BY DEF Coming, LooksAgain, Sleeping
<1>12. CoveredFor(call)'
  BY <1>1, <1>7, <1>8, <1>10, <1>11, CoveredCounted
<1> QED
  BY <1>2, <1>3, <1>4, <1>8, <1>9, <1>10, <1>11, <1>12

\* xQueueGenericSendFromISR, with the lock and without.
LEMMA SendFromIsrKeeps ==
    ASSUME QInv, NEW item \in Item, NEW position \in Positions,
           xQueueGenericSendFromISR(item, position)
    PROVE  QInv'
<1>1. /\ StorageTypes /\ RingCoherent /\ LockTypes /\ Covered
      /\ Fits(position) /\ CopyDataToQueue(item, position) /\ ~Masked
      /\ UNCHANGED <<prio, clock, suspended, notify, pc, arg, last, rxLock, toSend, op>>
  BY DEF QInv, xQueueGenericSendFromISR, locals
<1>2. /\ StorageTypes' /\ RingCoherent'
      /\ count \in Nat /\ count' \in Nat /\ Length \in Nat
      /\ count <= count' /\ count' <= count + 1
  BY <1>1, CopyInKeeps, QueueAssumption DEF StorageTypes
<1>3. /\ Demand("receive")' <= Demand("receive") + 1
      /\ Demand("send")' <= Demand("send")
  <2>1. Demand("receive")' = count' /\ Demand("receive") = count
    BY DEF Demand
  <2>2. Demand("send")' = Length - count' /\ Demand("send") = Length - count
    BY DEF Demand
  <2> QED
    BY <2>1, <2>2, <1>2
<1>4. /\ KCore' /\ LockTypes' /\ EventTypes' /\ CallTypes' /\ RunnerInv' /\ QIdleReady'
      /\ QCallsSane' /\ EventListsExact' /\ SleepersLookAgain'
      /\ \A c : Needed(c)' => Needed(c)
      /\ \A c : Coming(c) \subseteq Coming(c)'
      /\ CoveredFor("receive")'
  <2>1. CASE txLock = Unlocked
    <3>1. /\ LockFor("receive") = Unlocked /\ WakeFirst(Waiters("receive"))
          /\ toReceive' = RestOf(toReceive) /\ UNCHANGED locks
      BY <2>1, <1>1 DEF xQueueGenericSendFromISR, LockFor, Waiters, locks
    <3>2. /\ KCore' /\ LockTypes' /\ EventTypes' /\ CallTypes' /\ RunnerInv' /\ QIdleReady'
          /\ QCallsSane' /\ EventListsExact' /\ SleepersLookAgain'
          /\ \A c : Needed(c)' => Needed(c)
          /\ \A c : Coming(c) \ {} \subseteq Coming(c)'
          /\ CoveredFor("receive")'
      BY <3>1, <1>1, <1>2, <1>3, WakeOneKeeps
    <3> QED
      BY <3>2
  <2>2. CASE txLock # Unlocked
    <3>1. /\ LockFor("receive") # Unlocked /\ txLock' = Counted(txLock)
          /\ UNCHANGED <<vars, events, op>>
      BY <2>2, <1>1 DEF xQueueGenericSendFromISR, LockFor, vars, sched, locals, events
    <3> QED
      BY <3>1, <1>1, <1>2, <1>3, CountOneKeeps
  <2> QED
    BY <2>1, <2>2
<1>5. CoveredFor("send")'
  <2>1. LockFor("send")' = LockFor("send") /\ CoveredFor("send")
    BY <1>1 DEF LockFor, Covered
  <2> QED
    BY <2>1, <1>1, <1>2, <1>3, <1>4, CoveredStays DEF SameLock
<1> QED
  BY <1>2, <1>4, <1>5 DEF QInv, Covered

\* xQueueReceiveFromISR, likewise.
LEMMA ReceiveFromIsrKeeps == QInv /\ xQueueReceiveFromISR => QInv'
<1> SUFFICES ASSUME QInv, xQueueReceiveFromISR PROVE QInv'
  OBVIOUS
<1>1. /\ StorageTypes /\ RingCoherent /\ LockTypes /\ Covered
      /\ ~Empty /\ CopyDataFromQueue /\ ~Masked
      /\ UNCHANGED <<prio, clock, suspended, notify, pc, arg, last, txLock, toReceive, op>>
  BY DEF QInv, xQueueReceiveFromISR, locals
<1>2. /\ StorageTypes' /\ RingCoherent'
      /\ count \in Nat /\ count' = count - 1 /\ Length \in Nat
  BY <1>1, CopyOutKeeps, QueueAssumption DEF StorageTypes
<1>3. /\ Demand("send")' <= Demand("send") + 1
      /\ Demand("receive")' <= Demand("receive")
  BY <1>2 DEF Demand
<1>4. /\ KCore' /\ LockTypes' /\ EventTypes' /\ CallTypes' /\ RunnerInv' /\ QIdleReady'
      /\ QCallsSane' /\ EventListsExact' /\ SleepersLookAgain'
      /\ \A c : Needed(c)' => Needed(c)
      /\ \A c : Coming(c) \subseteq Coming(c)'
      /\ CoveredFor("send")'
  <2>1. CASE rxLock = Unlocked
    <3>1. /\ LockFor("send") = Unlocked /\ WakeFirst(Waiters("send"))
          /\ toSend' = RestOf(toSend) /\ UNCHANGED locks
      BY <2>1, <1>1 DEF xQueueReceiveFromISR, LockFor, Waiters, locks
    <3>2. /\ KCore' /\ LockTypes' /\ EventTypes' /\ CallTypes' /\ RunnerInv' /\ QIdleReady'
          /\ QCallsSane' /\ EventListsExact' /\ SleepersLookAgain'
          /\ \A c : Needed(c)' => Needed(c)
          /\ \A c : Coming(c) \ {} \subseteq Coming(c)'
          /\ CoveredFor("send")'
      BY <3>1, <1>1, <1>2, <1>3, WakeOneKeeps
    <3> QED
      BY <3>2
  <2>2. CASE rxLock # Unlocked
    <3>1. /\ LockFor("send") # Unlocked /\ rxLock' = Counted(rxLock)
          /\ UNCHANGED <<vars, events, op>>
      BY <2>2, <1>1 DEF xQueueReceiveFromISR, LockFor, vars, sched, locals, events
    <3> QED
      BY <3>1, <1>1, <1>2, <1>3, CountOneKeeps
  <2> QED
    BY <2>1, <2>2
<1>5. CoveredFor("receive")'
  <2>1. LockFor("receive")' = LockFor("receive") /\ CoveredFor("receive")
    BY <1>1 DEF LockFor, Covered
  <2> QED
    BY <2>1, <1>1, <1>2, <1>3, <1>4, CoveredStays DEF SameLock
<1> QED
  BY <1>2, <1>4, <1>5 DEF QInv, Covered

\* A receive that finds an item: it takes the item it came for, and wakes a
\* sender for the place.
LEMMA ReceiveItemKeeps == QInv /\ ReceiveItem => QInv'
<1> SUFFICES ASSUME QInv, ReceiveItem PROVE QInv'
  OBVIOUS
<1>1. /\ StorageTypes /\ RingCoherent /\ LockTypes /\ Covered
      /\ pc[current] = "try" /\ op[current].call = "receive"
      /\ ~Empty /\ CopyDataFromQueue
      /\ WakeFirst(Waiters("send")) /\ toSend' = RestOf(toSend)
      /\ pc' = [pc EXCEPT ![current] = "run"] /\ op' = [op EXCEPT ![current] = NoOp]
      /\ UNCHANGED <<prio, clock, suspended, notify, arg, last, locks, toReceive>>
  BY DEF QInv, ReceiveItem, Op, SetOp, Goto, Waiters
<1>2. /\ StorageTypes' /\ RingCoherent'
      /\ count \in Nat /\ count' = count - 1 /\ Length \in Nat
  BY <1>1, CopyOutKeeps, QueueAssumption DEF StorageTypes
<1>3. /\ Demand("send")' <= Demand("send") + 1
      /\ Demand("receive")' = Demand("receive") - 1
  BY <1>2 DEF Demand
<1>4. rxLock = Unlocked /\ txLock = Unlocked
  BY <1>1 DEF QInv, RunnerInv, LocksHeld
<1>5. /\ KCore' /\ LockTypes' /\ EventTypes' /\ CallTypes' /\ RunnerInv' /\ QIdleReady'
      /\ QCallsSane' /\ EventListsExact' /\ SleepersLookAgain'
      /\ \A c : Needed(c)' => Needed(c)
      /\ \A c : Coming(c) \ {current} \subseteq Coming(c)'
      /\ CoveredFor("send")'
  <2>1. LockFor("send") = Unlocked
    BY <1>4 DEF LockFor
  <2> QED
    BY <2>1, <1>1, <1>2, <1>3, WakeOneKeeps
<1>6. CoveredFor("receive")'
  <2>1. LockFor("receive")' = LockFor("receive") /\ CoveredFor("receive")
    BY <1>1 DEF LockFor, Covered, locks
  <2> QED
    BY <2>1, <1>1, <1>2, <1>3, <1>5, CoveredOneLess
<1> QED
  BY <1>2, <1>5, <1>6 DEF QInv, Covered

\* A send that finds a place, or overwrites the only one.
LEMMA SendItemKeeps == QInv /\ SendItem => QInv'
<1> SUFFICES ASSUME QInv, SendItem PROVE QInv'
  OBVIOUS
<1> DEFINE o == op[current]
<1>1. /\ StorageTypes /\ RingCoherent /\ LockTypes /\ Covered
      /\ pc[current] = "try" /\ o.call = "send"
      /\ Fits(o.position) /\ CopyDataToQueue(o.item, o.position)
      /\ WakeFirst(Waiters("receive")) /\ toReceive' = RestOf(toReceive)
      /\ pc' = [pc EXCEPT ![current] = "run"] /\ op' = [op EXCEPT ![current] = NoOp]
      /\ UNCHANGED <<prio, clock, suspended, notify, arg, last, locks, toSend>>
  BY DEF QInv, SendItem, Op, SetOp, Goto, Waiters
<1>2. o.item \in Item /\ o.position \in Positions
  BY <1>1 DEF QInv, KCore, CoreTypes, QCallsSane, CallSane
<1>3. /\ StorageTypes' /\ RingCoherent'
      /\ count \in Nat /\ count' \in Nat /\ Length \in Nat
      /\ count <= count' /\ count' <= count + 1
      /\ Length - count' = Length - count - 1 \/ Length - count' = 0
  <2>1. /\ StorageTypes' /\ RingCoherent'
        /\ count <= count' /\ count' <= count + 1
        /\ Length - count' = Length - count - 1 \/ Length - count' = 0
    <3> HIDE DEF o
    <3> QED
      BY <1>1, <1>2, CopyInKeeps
  <2>2. count \in Nat /\ count' \in Nat /\ Length \in Nat
    BY <2>1, <1>1, QueueAssumption DEF StorageTypes
  <2> QED
    BY <2>1, <2>2
<1>4. /\ Demand("receive")' <= Demand("receive") + 1
      /\ Demand("send")' = Demand("send") - 1 \/ Demand("send")' = 0
  BY <1>3 DEF Demand
<1>5. rxLock = Unlocked /\ txLock = Unlocked
  BY <1>1 DEF QInv, RunnerInv, LocksHeld
<1>6. /\ KCore' /\ LockTypes' /\ EventTypes' /\ CallTypes' /\ RunnerInv' /\ QIdleReady'
      /\ QCallsSane' /\ EventListsExact' /\ SleepersLookAgain'
      /\ \A c : Needed(c)' => Needed(c)
      /\ \A c : Coming(c) \ {current} \subseteq Coming(c)'
      /\ CoveredFor("receive")'
  <2>1. LockFor("receive") = Unlocked
    BY <1>5 DEF LockFor
  <2> QED
    BY <2>1, <1>1, <1>3, <1>4, WakeOneKeeps
<1>7. CoveredFor("send")'
  <2>1. LockFor("send")' = LockFor("send") /\ CoveredFor("send")
    BY <1>1 DEF LockFor, Covered, locks
  <2>2. CASE Demand("send")' = 0
    BY <2>2, <1>1, <1>3, <1>6, CoveredZero
  <2>3. CASE Demand("send")' = Demand("send") - 1
    BY <2>1, <2>3, <1>1, <1>3, <1>6, CoveredOneLess
  <2> QED
    BY <2>2, <2>3, <1>4
<1> QED
  BY <1>3, <1>6, <1>7 DEF QInv, Covered

-----------------------------------------------------------------------------
(* Steps of a call that leave the lists alone.                             *)

\* The running task goes on to label with the locals o.  It may leave those
\* who look again only when there is nothing for them, and begin to go to
\* sleep only then.
LEMMA LocalKeeps ==
    ASSUME QInv, UNCHANGED <<prio, lists, clock, yieldPending, current, notify, last,
                             storage, events>>,
           pc[current] \notin Leaving \cup {"yield"}, current # Idle,
           NEW label \in QLabel, pc' = [pc EXCEPT ![current] = label],
           NEW o \in CallRecord, op' = [op EXCEPT ![current] = o],
           arg' \in [Task -> [call : {"none", "delay", "until"}, wait : Time, read : Nat]],
           \A t \in Task \ {current} : arg'[t] = arg[t],
           suspended' = (IF label \in QRegion THEN 1 ELSE 0), suspended <= suspended',
           LockTypes', LocksHeld', CallSane(current)',
           \A c \in {"receive", "send"} :
               \/ Demand(c) = 0
               \/ /\ op[current].call = c => ~LooksAgain(current)
                  /\ Placing(c)' => Placing(c)
                  /\ SameLock(c)
    PROVE  QInv'
<1> USE DEF lists, clock, storage, events
<1>1. /\ KCore /\ CoreTypes /\ CallTypes /\ EventTypes /\ RunnerInv /\ QIdleReady
      /\ QCallsSane /\ EventListsExact /\ SleepersLookAgain /\ Covered
      /\ StorageTypes /\ RingCoherent /\ LockTypes
  BY DEF QInv, KCore
<1>2. /\ Placed(current) /\ current \in Task /\ current \notin Sleeping
      /\ current \notin pending
  BY RunningIsPlaced
<1>3. /\ \A t \in Task \ {current} : pc'[t] = pc[t] /\ op'[t] = op[t]
      /\ pc'[current] = label /\ op'[current] = o
  BY <1>1, <1>2 DEF CallTypes
<1>4. KCore'
  <2>1. suspended' \in Nat
    OBVIOUS
  <2>2. CoreTypes'
    BY <2>1, <1>1 DEF CoreTypes
  <2>3. PendingOnlySuspended'
    BY <2>1, <1>1 DEF KCore, PendingOnlySuspended, CoreTypes
  <2> QED
    BY <2>2, <2>3, <1>1 DEF KCore, ListsExact, NoOversleep, Placed, Sleeping
<1>5. StorageTypes' /\ RingCoherent' /\ EventTypes' /\ CallTypes'
  BY <1>1 DEF StorageTypes, RingCoherent, EventTypes, CallTypes
<1>6. RunnerInv'
  <2>1. QSuspendedAlone'
    BY <1>1, <1>2, <1>3 DEF RunnerInv, QSuspendedAlone
  <2>2. QCurrentReady'
    BY <1>2 DEF QCurrentReady, Placed
  <2>3. Urgent'
    <3>1. yieldPending => suspended > 0
      BY <1>1 DEF RunnerInv, Urgent, Masked, Leaving
    <3>2. suspended \in Nat /\ suspended' \in Nat
      BY <1>1 DEF CoreTypes
    <3> QED
      BY <3>1, <3>2, <1>1 DEF RunnerInv, Urgent
  <2> QED
    BY <2>1, <2>2, <2>3 DEF RunnerInv
<1>7. QIdleReady'
  BY <1>1, <1>3, TaskAssumption DEF QIdleReady, Sleeping
<1>8. QCallsSane'
  <2> SUFFICES ASSUME NEW t \in Task, t # current PROVE CallSane(t)'
    BY DEF QCallsSane
  <2> QED
    BY <1>1, <1>3 DEF QCallsSane, CallSane
<1>9. Wakes({})
  BY <1>1 DEF Wakes, Sleeping, CoreTypes
<1>10. \A t \in Task \ {current} : SameCall(t)
  BY <1>3, Untouched
<1>11. /\ EventListsExact' /\ SleepersLookAgain'
       /\ \A c : Coming(c) \ {current} \subseteq Coming(c)'
  <2>1. /\ IsInjective(toReceive') /\ IsInjective(toSend')
        /\ \A t \in Task : OnList(t, toReceive') <=> (OnList(t, toReceive) /\ t \notin {})
        /\ \A t \in Task : OnList(t, toSend') <=> (OnList(t, toSend) /\ t \notin {})
    BY <1>1 DEF EventListsExact
  <2>2. {current} \in SUBSET Task /\ {current} \cap Sleeping = {} /\ {} \in SUBSET Sleeping
    BY <1>2
  <2> QED
    BY <2>1, <2>2, <1>9, <1>10, WakingStep
<1>12. ASSUME NEW c \in {"receive", "send"} PROVE CoveredFor(c)'
  <2>1. Demand(c)' = Demand(c) /\ Waiters(c)' = Waiters(c) /\ CoveredFor(c)
    BY <1>1 DEF Demand, Waiters, Covered
  <2>2. CASE Demand(c) = 0
    BY <2>1, <2>2, <1>1, <1>5, CoveredZero
  <2>3. CASE /\ op[current].call = c => ~LooksAgain(current)
             /\ Placing(c)' => Placing(c)
             /\ SameLock(c)
    <3>1. current \notin Coming(c)
      BY <2>3, <1>2 DEF Coming
    <3>2. Coming(c) \subseteq Coming(c)'
      BY <3>1, <1>11
    <3>3. Needed(c)' => Needed(c)
      BY <2>1, <2>3 DEF Needed
    <3>4. Demand(c)' <= Demand(c)
      BY <2>1, <1>1, <1>5, CoverTypes
    <3> QED
      BY <3>2, <3>3, <3>4, <2>1, <2>3, <1>1, <1>5, CoveredStays
  <2> QED
    BY <2>2, <2>3
<1> QED
  BY <1>4, <1>5, <1>6, <1>7, <1>8, <1>11, <1>12 DEF QInv, RunnerInv, Covered

\* What the lemmas on such steps need to know of the running task.
LEMMA AboutCurrent ==
    ASSUME QInv
    PROVE  /\ current \in Task /\ pc[current] \in QLabel /\ op[current] \in CallRecord
           /\ CallSane(current) /\ pc[Idle] = "run"
           /\ suspended = (IF pc[current] \in QRegion THEN 1 ELSE 0)
           /\ LocksHeld /\ LockTypes /\ pc \in [Task -> QLabel] /\ op \in [Task -> CallRecord]
           /\ arg \in [Task -> [call : {"none", "delay", "until"}, wait : Time, read : Nat]]
           /\ tick \in Time /\ overflows \in 0..(OverflowModulus - 1)
           /\ StorageTypes
BY DEF QInv, KCore, CoreTypes, CallTypes, QCallsSane, RunnerInv, QSuspendedAlone, QIdleReady

\* The same for a step that leaves the scheduler and the locks alone, too.
LEMMA PlainKeeps ==
    ASSUME QInv, UNCHANGED <<prio, lists, clock, sched, notify, arg, last,
                             storage, locks, events>>,
           pc[current] \notin Leaving \cup {"yield"}, current # Idle,
           NEW label \in QLabel, pc' = [pc EXCEPT ![current] = label],
           NEW o \in CallRecord, op' = [op EXCEPT ![current] = o],
           label \in QRegion <=> pc[current] \in QRegion,
           LocksHeld', CallSane(current)',
           \A c \in {"receive", "send"} :
               \/ Demand(c) = 0
               \/ /\ op[current].call = c => ~LooksAgain(current)
                  /\ Placing(c)' => Placing(c)
    PROVE  QInv'
<1>1. /\ UNCHANGED <<prio, lists, clock, yieldPending, current, notify, last, storage, events>>
      /\ suspended' = suspended /\ UNCHANGED locks
  BY DEF sched
<1>2. /\ suspended' = (IF label \in QRegion THEN 1 ELSE 0)
      /\ suspended <= suspended'
  BY <1>1, AboutCurrent
<1>3. /\ LockTypes' /\ \A c \in {"receive", "send"} : SameLock(c)
      /\ arg' \in [Task -> [call : {"none", "delay", "until"}, wait : Time, read : Nat]]
      /\ \A t \in Task \ {current} : arg'[t] = arg[t]
  BY <1>1, AboutCurrent DEF LockTypes, SameLock, LockFor, locks
<1> QED
  BY <1>1, <1>2, <1>3, LocalKeeps

\* xQueueReceive is called.
LEMMA CallReceiveKeeps ==
    ASSUME QInv, NEW n \in Waits, CallReceive(n)
    PROVE  QInv'
<1> DEFINE o == [NoOp EXCEPT !.call = "receive", !.wait = n]
<1>1. /\ pc[current] = "run" /\ current \in Receivers
      /\ pc' = [pc EXCEPT ![current] = "try"] /\ op' = [op EXCEPT ![current] = o]
      /\ UNCHANGED <<prio, lists, clock, sched, notify, arg, last, storage, locks, events>>
  BY DEF CallReceive, Goto, SetOp
<1>2. n \in Time /\ current # Idle
  BY <1>1, TimeAssumption, QueueAssumption
<1>3. o \in CallRecord /\ o.call = "receive" /\ o.then = "none"
  BY <1>2, NoOpTypes DEF NoOp, CallRecord
<1> HIDE DEF o
<1>4. CallSane(current)' /\ LocksHeld'
  BY <1>1, <1>3, AboutCurrent DEF CallSane, Blocking, Leaving, LocksHeld, locks, sched
<1>5. op[current].call = "none" /\ \A c : ~Placing(c)'
  BY <1>1, AboutCurrent DEF CallSane, Placing, sched
<1>6. /\ pc[current] \notin Leaving \cup {"yield"} /\ "try" \in QLabel
      /\ "try" \in QRegion <=> pc[current] \in QRegion
  BY <1>1 DEF Leaving, QLabel, QRegion
<1> QED
  BY <1>1, <1>2, <1>3, <1>4, <1>5, <1>6, PlainKeeps

\* xQueueGenericSend is called.
LEMMA CallSendKeeps ==
    ASSUME QInv, NEW n \in Waits, NEW item \in Item, NEW position \in Positions,
           CallSend(item, position, n)
    PROVE  QInv'
<1> DEFINE o == [NoOp EXCEPT !.call = "send", !.wait = n,
                             !.item = item, !.position = position]
<1>1. /\ pc[current] = "run" /\ current \in Senders
      /\ pc' = [pc EXCEPT ![current] = "try"] /\ op' = [op EXCEPT ![current] = o]
      /\ UNCHANGED <<prio, lists, clock, sched, notify, arg, last, storage, locks, events>>
  BY DEF CallSend, Goto, SetOp
<1>2. n \in Time /\ current # Idle
  BY <1>1, TimeAssumption, QueueAssumption
<1>3. /\ o \in CallRecord /\ o.call = "send" /\ o.then = "none"
      /\ o.item \in Item /\ o.position \in Positions
  BY <1>2, NoOpTypes DEF NoOp, CallRecord
<1> HIDE DEF o
<1>4. CallSane(current)' /\ LocksHeld'
  BY <1>1, <1>3, AboutCurrent DEF CallSane, Blocking, Leaving, LocksHeld, locks, sched
<1>5. op[current].call = "none" /\ \A c : ~Placing(c)'
  BY <1>1, AboutCurrent DEF CallSane, Placing, sched
<1>6. /\ pc[current] \notin Leaving \cup {"yield"} /\ "try" \in QLabel
      /\ "try" \in QRegion <=> pc[current] \in QRegion
  BY <1>1 DEF Leaving, QLabel, QRegion
<1> QED
  BY <1>1, <1>2, <1>3, <1>4, <1>5, <1>6, PlainKeeps

\* A call that the queue does not let succeed has nothing to come back for.
LEMMA StuckMeansNothing ==
    ASSUME QInv, Stuck, pc[current] = "try", NEW c \in {"receive", "send"}, op[current].call = c
    PROVE  Demand(c) = 0
<1>1. CASE c = "receive"
  BY <1>1 DEF Stuck, Op, Empty, Demand
<1>2. CASE c = "send"
  <2>1. count = Length
    BY <1>2 DEF Stuck, Op, Fits, Full
  <2>2. Length - Length = 0
    BY QueueAssumption
  <2> QED
    BY <1>2, <2>1, <2>2 DEF Demand
<1> QED
  BY <1>1, <1>2

\* The call gives up.
LEMMA GiveUpCallKeeps == QInv /\ GiveUp => QInv'
<1> SUFFICES ASSUME QInv, GiveUp PROVE QInv'
  OBVIOUS
<1>1. /\ pc[current] = "try" /\ Stuck
      /\ pc' = [pc EXCEPT ![current] = "run"] /\ op' = [op EXCEPT ![current] = NoOp]
      /\ UNCHANGED <<prio, lists, clock, sched, notify, arg, last, storage, locks, events>>
  BY DEF GiveUp, Goto, SetOp
<1>2. current # Idle
  BY <1>1, AboutCurrent
<1>3. CallSane(current)' /\ LocksHeld'
  BY <1>1, AboutCurrent DEF CallSane, NoOp, Blocking, Leaving, LocksHeld, locks, sched
<1>4. \A c : ~Placing(c)'
  BY <1>1, AboutCurrent DEF Placing, sched
<1>5. /\ pc[current] \notin Leaving \cup {"yield"} /\ "run" \in QLabel
      /\ "run" \in QRegion <=> pc[current] \in QRegion
  BY <1>1 DEF Leaving, QLabel, QRegion
<1> QED
  BY <1>1, <1>2, <1>3, <1>4, <1>5, NoOpTypes, StuckMeansNothing, PlainKeeps

\* The call gets ready to wait, from the time of its first look on.
LEMMA GetReadyToWaitKeeps == QInv /\ GetReadyToWait => QInv'
<1> SUFFICES ASSUME QInv, GetReadyToWait PROVE QInv'
  OBVIOUS
<1> DEFINE o == IF op[current].set THEN op[current]
                ELSE [op[current] EXCEPT !.set = TRUE, !.enter = tick, !.over = overflows]
<1>1. /\ pc[current] = "try" /\ Stuck /\ op[current].wait > 0
      /\ pc' = [pc EXCEPT ![current] = "suspend"] /\ op' = [op EXCEPT ![current] = o]
      /\ UNCHANGED <<prio, lists, clock, sched, notify, arg, last, storage, locks, events>>
  BY DEF GetReadyToWait, Goto, SetOp, Op
<1>2. current # Idle
  BY <1>1, AboutCurrent
<1>3. /\ o \in CallRecord /\ o.call = op[current].call /\ o.then = op[current].then
      /\ o.wait = op[current].wait /\ o.item = op[current].item
      /\ o.position = op[current].position
  BY AboutCurrent DEF CallRecord
<1> HIDE DEF o
<1>4. CallSane(current)' /\ LocksHeld'
  BY <1>1, <1>3, AboutCurrent DEF CallSane, Blocking, Leaving, LocksHeld, locks, sched
<1>5. \A c : ~Placing(c)'
  BY <1>1, AboutCurrent DEF Placing, sched
<1>6. /\ pc[current] \notin Leaving \cup {"yield"} /\ "suspend" \in QLabel
      /\ "suspend" \in QRegion <=> pc[current] \in QRegion
  BY <1>1 DEF Leaving, QLabel, QRegion
<1> QED
  BY <1>1, <1>2, <1>3, <1>4, <1>5, <1>6, StuckMeansNothing, PlainKeeps

\* xTaskCheckForTimeOut: the call is over, or waits for the rest of its time.
LEMMA CheckForTimeOutKeeps == QInv /\ CheckForTimeOut => QInv'
<1> SUFFICES ASSUME QInv, CheckForTimeOut PROVE QInv'
  OBVIOUS
<1>1. /\ pc[current] = "check"
      /\ UNCHANGED <<prio, lists, clock, sched, notify, arg, last, storage, locks, events>>
  BY DEF CheckForTimeOut
<1>2. current # Idle /\ op[current].then = "none" /\ op[current].call # "none"
  BY <1>1, AboutCurrent DEF CallSane, Leaving
<1>3. ~LooksAgain(current)
  BY <1>1, <1>2 DEF LooksAgain
<1>4. pc[current] \notin Leaving \cup {"yield"} /\ pc[current] \in QRegion
  BY <1>1 DEF Leaving, QRegion
<1>5. CASE TimedOut(Op)
  <2> DEFINE o == [op[current] EXCEPT !.wait = 0, !.then = "expired"]
  <2>1. pc' = [pc EXCEPT ![current] = "unlockTx"] /\ op' = [op EXCEPT ![current] = o]
    BY <1>5 DEF CheckForTimeOut, Goto, SetOp, Op
  <2>2. /\ o \in CallRecord /\ o.call = op[current].call /\ o.then = "expired"
        /\ o.item = op[current].item /\ o.position = op[current].position
    <3>1. 0 \in Time
      BY TimeAssumption DEF Time
    <3> QED
      BY <3>1, AboutCurrent DEF CallRecord
  <2> HIDE DEF o
  <2>3. CallSane(current)' /\ LocksHeld' /\ "unlockTx" \in QLabel /\ "unlockTx" \in QRegion
    BY <1>1, <1>2, <2>1, <2>2, AboutCurrent
       DEF CallSane, Blocking, Leaving, LocksHeld, QLabel, QRegion, locks, sched
  <2>4. \A c : ~Placing(c)'
    BY <1>1, <2>1, AboutCurrent DEF Placing, sched
  <2> QED
    BY <1>1, <1>2, <1>3, <1>4, <2>1, <2>2, <2>3, <2>4, PlainKeeps
<1>6. CASE ~TimedOut(Op)
  <2> DEFINE left == op[current].wait - Elapsed(op[current])
             o == [op[current] EXCEPT !.wait = left, !.enter = tick, !.over = overflows]
  <2>1. pc' = [pc EXCEPT ![current] = "test"] /\ op' = [op EXCEPT ![current] = o]
    BY <1>6 DEF CheckForTimeOut, Goto, SetOp, Op
  <2>2. left \in Time /\ left > 0
    <3>1. op[current].wait \in Time /\ Elapsed(op[current]) \in Time
      BY AboutCurrent, TimeDifference DEF CallRecord, Elapsed
    <3>2. ~(Elapsed(op[current]) >= op[current].wait)
      BY <1>6 DEF TimedOut, Op
    <3> QED
      BY <3>1, <3>2, TimeAssumption DEF Time
  <2> HIDE DEF left
  <2>3. /\ o \in CallRecord /\ o.call = op[current].call /\ o.then = "none" /\ o.wait > 0
        /\ o.item = op[current].item /\ o.position = op[current].position
    BY <1>2, <2>2, AboutCurrent DEF CallRecord
  <2> HIDE DEF o
  <2>4. CallSane(current)' /\ LocksHeld' /\ "test" \in QLabel /\ "test" \in QRegion
    BY <1>1, <1>2, <2>1, <2>3, AboutCurrent
       DEF CallSane, Blocking, Leaving, LocksHeld, QLabel, QRegion, locks, sched
  <2>5. \A c : ~Placing(c)'
    BY <1>1, <2>1, AboutCurrent DEF Placing, sched
  <2> QED
    BY <1>1, <1>2, <1>3, <1>4, <2>1, <2>3, <2>4, <2>5, PlainKeeps
<1> QED
  BY <1>5, <1>6

\* The second look at the queue, with the scheduler suspended and the queue
\* locked.
LEMMA TestQueueKeeps == QInv /\ TestQueue => QInv'
<1> SUFFICES ASSUME QInv, TestQueue PROVE QInv'
  OBVIOUS
<1>1. /\ pc[current] = "test"
      /\ UNCHANGED <<prio, lists, clock, sched, notify, arg, last, storage, locks, events>>
  BY DEF TestQueue
<1>2. /\ current # Idle /\ op[current].then = "none" /\ op[current].call # "none"
      /\ op[current].wait > 0
  BY <1>1, AboutCurrent DEF CallSane, Leaving, Blocking
<1>3. ~LooksAgain(current)
  BY <1>1, <1>2 DEF LooksAgain
<1>4. pc[current] \notin Leaving \cup {"yield"} /\ pc[current] \in QRegion
  BY <1>1 DEF Leaving, QRegion
<1>5. CASE IF op[current].call = "receive" THEN Empty ELSE Full
  <2> DEFINE o == op[current]
  <2>1. pc' = [pc EXCEPT ![current] = "place"] /\ op' = [op EXCEPT ![current] = o]
    BY <1>5, AboutCurrent DEF TestQueue, Goto, Op
  <2>2. CallSane(current)' /\ LocksHeld' /\ "place" \in QLabel /\ "place" \in QRegion
    BY <1>1, <1>2, <2>1, AboutCurrent
       DEF CallSane, Blocking, Leaving, LocksHeld, QLabel, QRegion, locks, sched
  <2>3. ASSUME NEW c \in {"receive", "send"}, op[current].call = c
        PROVE  Demand(c) = 0
    <3>1. Length - Length = 0
      BY QueueAssumption
    <3> QED
      BY <1>5, <2>3, <3>1 DEF Empty, Full, Demand
  <2>4. \A c : op[current].call # c => ~Placing(c)'
    BY <1>1, <2>1, AboutCurrent DEF Placing, sched
  <2> QED
    BY <1>1, <1>2, <1>4, <2>1, <2>2, <2>3, <2>4, AboutCurrent, PlainKeeps
<1>6. CASE ~(IF op[current].call = "receive" THEN Empty ELSE Full)
  <2> DEFINE o == [op[current] EXCEPT !.then = "again"]
  <2>1. pc' = [pc EXCEPT ![current] = "unlockTx"] /\ op' = [op EXCEPT ![current] = o]
    BY <1>6 DEF TestQueue, Goto, SetOp, Op
  <2>2. /\ o \in CallRecord /\ o.call = op[current].call /\ o.then = "again"
        /\ o.item = op[current].item /\ o.position = op[current].position
    BY AboutCurrent DEF CallRecord
  <2> HIDE DEF o
  <2>3. CallSane(current)' /\ LocksHeld' /\ "unlockTx" \in QLabel /\ "unlockTx" \in QRegion
    BY <1>1, <1>2, <2>1, <2>2, AboutCurrent
       DEF CallSane, Blocking, Leaving, LocksHeld, QLabel, QRegion, locks, sched
  <2>4. \A c : ~Placing(c)'
    BY <1>1, <2>1, AboutCurrent DEF Placing, sched
  <2> QED
    BY <1>1, <1>2, <1>3, <1>4, <2>1, <2>2, <2>3, <2>4, PlainKeeps
<1> QED
  BY <1>5, <1>6

\* A receive whose time is over looks once more.
LEMMA ReceiveExpiredKeeps == QInv /\ ReceiveExpired => QInv'
<1> SUFFICES ASSUME QInv, ReceiveExpired PROVE QInv'
  OBVIOUS
<1>1. /\ pc[current] = "expired"
      /\ UNCHANGED <<prio, lists, clock, sched, notify, arg, last, storage, locks, events>>
  BY DEF ReceiveExpired
<1>2. current # Idle /\ op[current].then = "none" /\ op[current].call = "receive"
  BY <1>1, AboutCurrent DEF CallSane, Leaving
<1>3. ~LooksAgain(current)
  BY <1>1, <1>2 DEF LooksAgain
<1>4. pc[current] \notin Leaving \cup {"yield"} /\ pc[current] \notin QRegion
  BY <1>1 DEF Leaving, QRegion
<1>5. CASE Empty
  <2>1. pc' = [pc EXCEPT ![current] = "run"] /\ op' = [op EXCEPT ![current] = NoOp]
    BY <1>5 DEF ReceiveExpired, Goto, SetOp
  <2>2. CallSane(current)' /\ LocksHeld' /\ "run" \in QLabel /\ "run" \notin QRegion
    BY <1>1, <2>1, AboutCurrent
       DEF CallSane, NoOp, Blocking, Leaving, LocksHeld, QLabel, QRegion, locks, sched
  <2>3. \A c : ~Placing(c)'
    BY <1>1, <2>1, AboutCurrent DEF Placing, sched
  <2> QED
    BY <1>1, <1>2, <1>3, <1>4, <2>1, <2>2, <2>3, NoOpTypes, PlainKeeps
<1>6. CASE ~Empty
  <2> DEFINE o == op[current]
  <2>1. pc' = [pc EXCEPT ![current] = "try"] /\ op' = [op EXCEPT ![current] = o]
    BY <1>6, AboutCurrent DEF ReceiveExpired, Goto
  <2>2. CallSane(current)' /\ LocksHeld' /\ "try" \in QLabel /\ "try" \notin QRegion
    BY <1>1, <1>2, <2>1, AboutCurrent
       DEF CallSane, Blocking, Leaving, LocksHeld, QLabel, QRegion, locks, sched
  <2>3. \A c : ~Placing(c)'
    BY <1>1, <2>1, AboutCurrent DEF Placing, sched
  <2> QED
    BY <1>1, <1>2, <1>3, <1>4, <2>1, <2>2, <2>3, AboutCurrent, PlainKeeps
<1> QED
  BY <1>5, <1>6

\* vTaskSuspendAll's load.
LEMMA SuspendLoadKeeps == QInv /\ SuspendLoad /\ UNCHANGED qvars => QInv'
<1> SUFFICES ASSUME QInv, SuspendLoad, UNCHANGED qvars PROVE QInv'
  OBVIOUS
<1> DEFINE o == op[current]
<1>1. /\ pc[current] = "suspend" /\ arg' = [arg EXCEPT ![current].read = suspended]
      /\ pc' = [pc EXCEPT ![current] = "suspendStore"] /\ op' = [op EXCEPT ![current] = o]
      /\ UNCHANGED <<prio, lists, clock, suspended, yieldPending, current, notify, last,
                     storage, locks, events>>
  BY AboutCurrent DEF SuspendLoad, Goto, sched, qvars
<1>2. /\ current # Idle /\ op[current].then = "none" /\ op[current].call # "none"
      /\ op[current].wait > 0 /\ suspended = 0
  BY <1>1, AboutCurrent DEF CallSane, Leaving, Blocking, QRegion
<1>3. /\ arg' \in [Task -> [call : {"none", "delay", "until"}, wait : Time, read : Nat]]
      /\ \A t \in Task \ {current} : arg'[t] = arg[t]
      /\ arg'[current].read = 0
  BY <1>1, <1>2, AboutCurrent
<1>4. CallSane(current)' /\ LocksHeld' /\ LockTypes'
  BY <1>1, <1>2, <1>3, AboutCurrent
     DEF CallSane, Blocking, Leaving, LocksHeld, LockTypes, locks
<1>5. /\ ~LooksAgain(current) /\ (\A c : ~Placing(c)') /\ (\A c : SameLock(c))
  BY <1>1, <1>2, AboutCurrent DEF LooksAgain, Placing, SameLock, LockFor, locks
<1>6. /\ pc[current] \notin Leaving \cup {"yield"} /\ "suspendStore" \in QLabel
      /\ suspended' = (IF "suspendStore" \in QRegion THEN 1 ELSE 0)
      /\ suspended <= suspended'
  BY <1>1, <1>2 DEF Leaving, QLabel, QRegion
<1> QED
  BY <1>1, <1>2, <1>3, <1>4, <1>5, <1>6, AboutCurrent, LocalKeeps

\* vTaskSuspendAll's store: the counter is what it was at the load.
LEMMA SuspendStoreLockKeeps == QInv /\ SuspendStore("lock") /\ UNCHANGED qvars => QInv'
<1> SUFFICES ASSUME QInv, SuspendStore("lock"), UNCHANGED qvars PROVE QInv'
  OBVIOUS
<1> DEFINE o == op[current]
<1>1. /\ pc[current] = "suspendStore" /\ suspended' = arg[current].read + 1
      /\ pc' = [pc EXCEPT ![current] = "lock"] /\ op' = [op EXCEPT ![current] = o]
      /\ UNCHANGED <<prio, lists, clock, yieldPending, current, notify, arg, last,
                     storage, locks, events>>
  BY AboutCurrent DEF SuspendStore, Goto, qvars
<1>2. /\ current # Idle /\ op[current].then = "none" /\ op[current].call # "none"
      /\ op[current].wait > 0 /\ suspended = 0 /\ suspended' = 1
  BY <1>1, AboutCurrent DEF CallSane, Leaving, Blocking, QRegion
<1>3. CallSane(current)' /\ LocksHeld' /\ LockTypes'
  BY <1>1, <1>2, AboutCurrent DEF CallSane, Blocking, Leaving, LocksHeld, LockTypes, locks
<1>4. /\ ~LooksAgain(current) /\ (\A c : ~Placing(c)') /\ (\A c : SameLock(c))
  BY <1>1, <1>2, AboutCurrent DEF LooksAgain, Placing, SameLock, LockFor, locks
<1>5. /\ pc[current] \notin Leaving \cup {"yield"} /\ "lock" \in QLabel
      /\ suspended' = (IF "lock" \in QRegion THEN 1 ELSE 0)
      /\ suspended <= suspended'
  BY <1>1, <1>2 DEF Leaving, QLabel, QRegion
<1>6. /\ arg' \in [Task -> [call : {"none", "delay", "until"}, wait : Time, read : Nat]]
      /\ \A t \in Task \ {current} : arg'[t] = arg[t]
  BY <1>1, AboutCurrent
<1> QED
  BY <1>1, <1>2, <1>3, <1>4, <1>5, <1>6, AboutCurrent, LocalKeeps

\* prvLockQueue.
LEMMA LockQueueKeeps == QInv /\ LockQueue => QInv'
<1> SUFFICES ASSUME QInv, LockQueue PROVE QInv'
  OBVIOUS
<1> DEFINE o == op[current]
<1>1. /\ pc[current] = "lock"
      /\ pc' = [pc EXCEPT ![current] = "check"] /\ op' = [op EXCEPT ![current] = o]
      /\ UNCHANGED <<prio, lists, clock, sched, notify, arg, last, storage, events>>
  BY AboutCurrent DEF LockQueue, Goto
<1>2. rxLock = Unlocked /\ txLock = Unlocked /\ rxLock' = 0 /\ txLock' = 0
  BY <1>1, AboutCurrent DEF LocksHeld, LockQueue
<1>3. /\ current # Idle /\ op[current].then = "none" /\ op[current].call # "none"
      /\ op[current].wait > 0 /\ suspended = 1
  BY <1>1, AboutCurrent DEF CallSane, Leaving, Blocking, QRegion
<1>4. CallSane(current)' /\ LocksHeld' /\ LockTypes'
  <2>1. Cardinality(Task) \in Nat /\ 0 # Unlocked /\ 0 \in Unlocked..Cardinality(Task)
    BY TasksCount DEF Unlocked
  <2> QED
    BY <2>1, <1>1, <1>2, <1>3, AboutCurrent
       DEF CallSane, Blocking, Leaving, LocksHeld, LockTypes, sched
<1>5. /\ ~LooksAgain(current) /\ (\A c : ~Placing(c)') /\ (\A c : SameLock(c))
  BY <1>1, <1>2, <1>3, AboutCurrent DEF LooksAgain, Placing, SameLock, LockFor, sched
<1>6. /\ pc[current] \notin Leaving \cup {"yield"} /\ "check" \in QLabel
      /\ suspended' = (IF "check" \in QRegion THEN 1 ELSE 0)
      /\ suspended <= suspended'
  BY <1>1, <1>3 DEF Leaving, QLabel, QRegion, sched
<1>7. /\ arg' \in [Task -> [call : {"none", "delay", "until"}, wait : Time, read : Nat]]
      /\ \A t \in Task \ {current} : arg'[t] = arg[t]
      /\ yieldPending' = yieldPending /\ current' = current
  BY <1>1, AboutCurrent DEF sched
<1> QED
  BY <1>1, <1>3, <1>4, <1>5, <1>6, <1>7, AboutCurrent, LocalKeeps

-----------------------------------------------------------------------------
(* The tick, and the end of a call.                                        *)

\* A tick that is only counted for later.
LEMMA TickNotedKeeps == QInv /\ TickIsrSuspended /\ UNCHANGED qvars => QInv'
<1> SUFFICES ASSUME QInv, TickIsrSuspended, UNCHANGED qvars PROVE QInv'
  OBVIOUS
<1>1. /\ UNCHANGED <<prio, ready, top, delayed, overflow, wake, pending, next, tick, overflows,
                     suspended, yieldPending, current, notify, pc, arg, last>>
      /\ UNCHANGED <<slots, writeTo, readFrom, count, rxLock, txLock, toReceive, toSend, op>>
      /\ pended < PendedLimit /\ pended' = pended + 1
  BY DEF TickIsrSuspended, lists, sched, locals, qvars, storage, locks, events
<1>2. KCore'
  <2>1. pended' \in 0..PendedLimit
    BY <1>1, TimeAssumption DEF QInv, KCore, CoreTypes
  <2> QED
    BY <2>1, <1>1 DEF QInv, KCore, CoreTypes, ListsExact, NoOversleep, PendingOnlySuspended,
                      Placed, Sleeping
<1>3. StorageTypes' /\ LockTypes' /\ EventTypes' /\ CallTypes' /\ RingCoherent'
  BY <1>1 DEF QInv, StorageTypes, LockTypes, EventTypes, CallTypes, RingCoherent
<1>4. RunnerInv' /\ QIdleReady'
  BY <1>1 DEF QInv, RunnerInv, QSuspendedAlone, LocksHeld, QCurrentReady, Urgent, QIdleReady,
              Placed, Masked, Sleeping
<1>5. QCallsSane' /\ EventListsExact' /\ SleepersLookAgain'
  BY <1>1 DEF QInv, QCallsSane, CallSane, EventListsExact, SleepersLookAgain, ComesBack, Sleeping
<1>6. \A c : Coming(c)' = Coming(c) /\ Demand(c)' = Demand(c) /\ Needed(c)' = Needed(c)
             /\ LockFor(c)' = LockFor(c)
  BY <1>1 DEF Coming, LooksAgain, Sleeping, Demand, Needed, Waiters, Placing, LockFor
<1>7. Covered'
  <2>1. CoveredFor("receive") /\ CoveredFor("send")
    BY DEF QInv, Covered
  <2> QED
    BY <2>1, <1>6 DEF Covered, CoveredFor, Owing
<1> QED
  BY <1>2, <1>3, <1>4, <1>5, <1>7 DEF QInv

\* A step that takes the tasks of W, who sleep, off their lists while the
\* scheduler runs, and leaves the calls and the items alone: what remains to
\* be seen is the running task.
LEMMA TakenOffKeeps ==
    ASSUME QInv, NEW W \in SUBSET Sleeping, Wakes(W), suspended' = 0,
           \A t \in Task : t \notin pending' /\ pc'[t] \notin QRegion,
           UNCHANGED <<op, arg, storage>>,
           \A t \in Task : SameCall(t), CallTypes', QCallsSane', pc'[Idle] = pc[Idle],
           LockTypes', \A c \in {"receive", "send"} : SameLock(c),
           EventTypes', IsInjective(toReceive'), IsInjective(toSend'),
           \A t \in Task : OnList(t, toReceive') <=> (OnList(t, toReceive) /\ t \notin W),
           \A t \in Task : OnList(t, toSend') <=> (OnList(t, toSend) /\ t \notin W),
           current' \in Task
    PROVE  /\ StorageTypes' /\ RingCoherent' /\ QIdleReady'
           /\ EventListsExact' /\ SleepersLookAgain' /\ Covered'
<1>1. /\ StorageTypes /\ LockTypes /\ RingCoherent /\ Covered /\ EventTypes
  BY DEF QInv
<1>2. StorageTypes' /\ RingCoherent'
  BY <1>1 DEF StorageTypes, RingCoherent, storage
<1>3. QIdleReady'
  BY IdleStays
<1>4. /\ EventListsExact' /\ SleepersLookAgain'
      /\ \A c : Coming(c) \ {} \subseteq Coming(c)'
  <2>1. {} \in SUBSET Task /\ {} \cap Sleeping = {} /\ \A t \in Task \ {} : SameCall(t)
    OBVIOUS
  <2> QED
    BY <2>1, WakingStep
<1>5. ASSUME NEW c \in {"receive", "send"} PROVE CoveredFor(c)'
  <2>1. ~Placing(c)'
    BY DEF Placing, QRegion
  <2>2. Waiters(c)' # <<>> => Waiters(c) # <<>>
    <3>1. SUFFICES ASSUME Waiters(c)' # <<>>, Waiters(c) = <<>> PROVE FALSE
      OBVIOUS
    <3>2. Waiters(c)' \in Seq(Task)
      BY DEF EventTypes, Waiters
    <3>3. Waiters(c)'[1] \in Task /\ OnList(Waiters(c)'[1], Waiters(c)')
      BY <3>1, <3>2 DEF OnList
    <3>4. OnList(Waiters(c)'[1], Waiters(c))
      BY <3>3 DEF Waiters
    <3> QED
      BY <3>1, <3>4 DEF OnList
  <2>3. Demand(c)' = Demand(c)
    BY DEF Demand, storage
  <2>4. Demand(c)' <= Demand(c)
    BY <2>3, <1>1, <1>2, CoverTypes
  <2>5. CoveredFor(c) /\ Coming(c) \subseteq Coming(c)' /\ (Needed(c)' => Needed(c))
    BY <1>1, <1>4, <2>1, <2>2 DEF Covered, Needed
  <2> QED
    BY <2>4, <2>5, <1>1, <1>2, CoveredStays
<1> QED
  BY <1>2, <1>3, <1>4, <1>5 DEF Covered

\* A counted tick takes whose time has come off the event lists.
LEMMA TickTakesOff ==
    ASSUME QInv, CountTick, suspended = 0, UNCHANGED <<prio, suspended, pc, arg, op>>,
           UNCHANGED <<storage, locks>>,
           toReceive' = Without(toReceive, Expired), toSend' = Without(toSend, Expired),
           current' \in Task
    PROVE  /\ StorageTypes' /\ RingCoherent' /\ LockTypes' /\ EventTypes' /\ CallTypes'
           /\ QIdleReady' /\ QCallsSane' /\ EventListsExact' /\ SleepersLookAgain' /\ Covered'
           /\ pending' = {}
<1>1. /\ KCore /\ CoreTypes /\ ListsExact /\ NoOversleep /\ Sleeping \in SUBSET Task
      /\ LockTypes /\ EventTypes /\ CallTypes /\ QCallsSane /\ EventListsExact
  BY DEF QInv, KCore, CoreTypes, Sleeping
<1>2. Expired \subseteq Sleeping /\ Sleeping' = Sleeping \ Expired /\ pending' = pending \ Expired
  BY <1>1, CountTickKeepsLists
<1>3. /\ \A t \in Task : pc[t] \notin QRegion
      /\ rxLock = Unlocked /\ txLock = Unlocked /\ pending = {}
  BY Unsuspended
<1>4. Wakes(Expired) /\ Expired \in SUBSET Sleeping /\ pending' = {}
  BY <1>1, <1>2, <1>3 DEF Wakes
<1>5. /\ EventTypes' /\ IsInjective(toReceive') /\ IsInjective(toSend')
      /\ \A t \in Task : OnList(t, toReceive') <=> (OnList(t, toReceive) /\ t \notin Expired)
      /\ \A t \in Task : OnList(t, toSend') <=> (OnList(t, toSend) /\ t \notin Expired)
  BY <1>1, WithoutProperties DEF EventTypes, EventListsExact
<1>6. CallTypes' /\ QCallsSane' /\ LockTypes'
  BY <1>1 DEF CallTypes, QCallsSane, CallSane, LockTypes, locks
<1>7. \A t \in Task : SameCall(t)
  BY Untouched
<1>8. \A c : SameLock(c)
  BY DEF SameLock, LockFor, locks
<1>9. \A t \in Task : t \notin pending' /\ pc'[t] \notin QRegion
  BY <1>3, <1>4
<1>10. /\ StorageTypes' /\ RingCoherent' /\ QIdleReady'
       /\ EventListsExact' /\ SleepersLookAgain' /\ Covered'
  BY <1>4, <1>5, <1>6, <1>7, <1>8, <1>9, TakenOffKeeps
<1> QED
  BY <1>4, <1>5, <1>6, <1>10

\* The timer's interrupt, with the switch at its exit.
LEMMA QTickIsrKeeps == QInv /\ QTickIsr => QInv'
<1> SUFFICES ASSUME QInv, QTickIsr PROVE QInv'
  OBVIOUS
<1>1. /\ CountTick /\ ~Masked /\ suspended = 0
      /\ UNCHANGED <<prio, pended, suspended, notify, pc, arg, last, op>>
      /\ UNCHANGED <<storage, locks>>
      /\ toReceive' = Without(toReceive, Expired) /\ toSend' = Without(toSend, Expired)
  BY DEF QTickIsr, TickIsr, locals
<1>2. /\ KCore /\ CoreTypes /\ ListsExact /\ NoOversleep /\ RunnerInv /\ QIdleReady
      /\ current \in Task /\ prio \in [Task -> Priority] /\ Sleeping \in SUBSET Task
  BY DEF QInv, KCore, CoreTypes, Sleeping
<1>3. /\ ListTypes' /\ ListsExact' /\ NoOversleep'
      /\ tick' \in Time /\ next' \in Time /\ overflows' \in 0..(OverflowModulus - 1)
      /\ Expired \subseteq Sleeping /\ Sleeping' = Sleeping \ Expired
      /\ top' = top \cup {prio[t] : t \in Expired}
      /\ \A t \in Task : Placed(t) => Placed(t)'
  BY <1>1, <1>2, CountTickKeepsLists
<1>4. QIdleReady'
  BY <1>1, <1>2, <1>3 DEF QIdleReady
<1>5. /\ current' \in Task /\ yieldPending' \in BOOLEAN /\ RunnerInv'
  <2>1. CASE SwitchRequired
    <3>1. SwitchNow
      BY <2>1 DEF QTickIsr, TickIsr
    <3>2. /\ suspended' = 0 /\ rxLock' = Unlocked /\ txLock' = Unlocked
          /\ \A t \in Task : pc'[t] \notin QRegion
      BY <1>1, Unsuspended DEF locks
    <3> QED
      BY <3>1, <3>2, <1>3, <1>4, SwitchKeepsRunner
  <2>2. CASE ~SwitchRequired
    <3>1. yieldPending' = yieldPending /\ current' = current
      BY <2>2 DEF QTickIsr, TickIsr
    <3>2. ~yieldPending /\ \A t \in Expired : ~(prio[t] > prio[current])
      BY <2>2 DEF SwitchRequired
    <3>3. Urgent'
      BY <3>1, <3>2, <1>1, <1>2, <1>3, PriorityAssumption DEF RunnerInv, Urgent, Priority
    <3>4. QSuspendedAlone' /\ LocksHeld' /\ QCurrentReady'
      BY <3>1, <1>1, <1>2, <1>3 DEF RunnerInv, QSuspendedAlone, LocksHeld, QCurrentReady, locks
    <3> QED
      BY <3>1, <3>3, <3>4, <1>2 DEF RunnerInv, CoreTypes
  <2> QED
    BY <2>1, <2>2
<1>6. /\ StorageTypes' /\ RingCoherent' /\ LockTypes' /\ EventTypes' /\ CallTypes'
      /\ QCallsSane' /\ EventListsExact' /\ SleepersLookAgain' /\ Covered'
      /\ pending' = {}
  BY <1>1, <1>5, TickTakesOff
<1>7. KCore'
  <2>1. CoreTypes'
    BY <1>1, <1>2, <1>3, <1>5, <1>6 DEF CoreTypes, ListTypes
  <2> QED
    BY <2>1, <1>3, <1>6 DEF KCore, PendingOnlySuspended
<1> QED
  BY <1>4, <1>5, <1>6, <1>7 DEF QInv

\* A pended tick that xTaskResumeAll counts.
LEMMA QResumeTickKeeps == QInv /\ QResumeTick => QInv'
<1> SUFFICES ASSUME QInv, QResumeTick PROVE QInv'
  OBVIOUS
<1>1. /\ CountTick /\ pc[current] = "ticks" /\ pended > 0 /\ pended' = pended - 1
      /\ yieldPending' = SwitchRequired
      /\ UNCHANGED <<prio, suspended, current, notify, pc, arg, last, op>>
      /\ UNCHANGED <<storage, locks>>
      /\ toReceive' = Without(toReceive, Expired) /\ toSend' = Without(toSend, Expired)
  BY DEF QResumeTick, ResumeTick, locals
<1>2. /\ KCore /\ CoreTypes /\ ListsExact /\ NoOversleep /\ RunnerInv /\ QIdleReady
      /\ current \in Task /\ prio \in [Task -> Priority] /\ Sleeping \in SUBSET Task
  BY DEF QInv, KCore, CoreTypes, Sleeping
<1>3. /\ ListTypes' /\ ListsExact' /\ NoOversleep'
      /\ tick' \in Time /\ next' \in Time /\ overflows' \in 0..(OverflowModulus - 1)
      /\ Expired \subseteq Sleeping /\ Sleeping' = Sleeping \ Expired
      /\ top' = top \cup {prio[t] : t \in Expired}
      /\ \A t \in Task : Placed(t) => Placed(t)'
  BY <1>1, <1>2, CountTickKeepsLists
<1>4. suspended = 0
  BY <1>1, AboutCurrent DEF QRegion
<1>5. yieldPending' \in BOOLEAN
      /\ (~yieldPending' => ~yieldPending /\ \A t \in Expired : ~(prio[t] > prio[current]))
  BY <1>1 DEF SwitchRequired
<1>6. RunnerInv'
  <2>1. Urgent'
    BY <1>1, <1>2, <1>3, <1>5, PriorityAssumption DEF RunnerInv, Urgent, Masked, Priority
  <2>2. QSuspendedAlone' /\ LocksHeld' /\ QCurrentReady'
    BY <1>1, <1>2, <1>3 DEF RunnerInv, QSuspendedAlone, LocksHeld, QCurrentReady, locks
  <2> QED
    BY <2>1, <2>2 DEF RunnerInv
<1>7. current' \in Task
  BY <1>1, <1>2
<1>8. /\ StorageTypes' /\ RingCoherent' /\ LockTypes' /\ EventTypes' /\ CallTypes' /\ QIdleReady'
      /\ QCallsSane' /\ EventListsExact' /\ SleepersLookAgain' /\ Covered'
      /\ pending' = {}
  BY <1>1, <1>4, <1>7, TickTakesOff
<1>9. KCore'
  <2>1. pended' \in 0..PendedLimit
    BY <1>1, <1>2, TimeAssumption DEF CoreTypes
  <2>2. CoreTypes'
    BY <2>1, <1>1, <1>2, <1>3, <1>5, <1>8 DEF CoreTypes, ListTypes
  <2> QED
    BY <2>2, <1>3, <1>8 DEF KCore, PendingOnlySuspended
<1> QED
  BY <1>6, <1>8, <1>9 DEF QInv

\* vTaskPlaceOnEventList: the caller goes to sleep, on its event list and in
\* a delay list.
LEMMA PlaceKeeps == QInv /\ PlaceOnEventList => QInv'
<1> SUFFICES ASSUME QInv, PlaceOnEventList PROVE QInv'
  OBVIOUS
<1> DEFINE o == [op[current] EXCEPT !.then = "blocked"]
           call == op[current].call
<1>1. /\ KCore /\ CoreTypes /\ ListsExact /\ NoOversleep /\ PendingOnlySuspended /\ RunnerInv
      /\ QIdleReady /\ QCallsSane /\ EventTypes /\ EventListsExact /\ SleepersLookAgain
      /\ CallTypes /\ StorageTypes /\ LockTypes /\ RingCoherent /\ Covered
      /\ Sleeping \in SUBSET Task /\ prio \in [Task -> Priority]
  BY DEF QInv, KCore, CoreTypes, Sleeping
<1>2. /\ pc[current] = "place" /\ AddCurrentToDelayed(op[current].wait)
      /\ pc' = [pc EXCEPT ![current] = "unlockTx"] /\ op' = [op EXCEPT ![current] = o]
      /\ UNCHANGED <<prio, pending, tick, pended, overflows, suspended, yieldPending, current,
                     notify, arg, last>>
      /\ UNCHANGED <<storage, locks>>
  BY DEF PlaceOnEventList, Goto, SetOp, Op, sched
<1>3. /\ current \in Task /\ current # Idle /\ Placed(current)
      /\ current \notin Sleeping /\ current \notin pending
      /\ op[current].wait \in Time /\ op[current].wait > 0
      /\ op[current].then = "none" /\ call \in {"receive", "send"} /\ suspended = 1
      /\ rxLock # Unlocked /\ txLock # Unlocked
  BY <1>2, AboutCurrent, RunningIsPlaced
     DEF CallSane, Leaving, Blocking, QRegion, LocksHeld, CallRecord
<1>4. /\ ListTypes' /\ ListsExact' /\ NoOversleep' /\ next' \in Time /\ top' \subseteq top
      /\ Sleeping' = Sleeping \cup {current}
  BY <1>1, <1>2, <1>3, AddCurrentKeepsLists
<1>5. /\ o \in CallRecord /\ o.call = call /\ o.then = "blocked"
      /\ o.item = op[current].item /\ o.position = op[current].position
  BY AboutCurrent DEF CallRecord
<1> HIDE DEF o
<1>6. /\ \A t \in Task \ {current} : pc'[t] = pc[t] /\ op'[t] = op[t]
      /\ pc'[current] = "unlockTx" /\ op'[current] = o
      /\ CallTypes'
  BY <1>1, <1>2, <1>3, <1>5 DEF CallTypes, QLabel
<1>7. KCore'
  <2>1. CoreTypes'
    BY <1>1, <1>2, <1>3, <1>4 DEF CoreTypes, ListTypes
  <2> QED
    BY <2>1, <1>1, <1>2, <1>4 DEF KCore, PendingOnlySuspended
<1>8. StorageTypes' /\ LockTypes' /\ RingCoherent'
  BY <1>1, <1>2 DEF StorageTypes, LockTypes, RingCoherent, storage, locks
<1>9. RunnerInv' /\ QIdleReady'
  <2>1. QSuspendedAlone' /\ LocksHeld' /\ QCurrentReady'
    BY <1>1, <1>2, <1>3, <1>5, <1>6
       DEF RunnerInv, QSuspendedAlone, LocksHeld, QCurrentReady, QRegion, Leaving, locks
  <2>2. Urgent'
    BY <1>1, <1>2, <1>3, <1>4 DEF RunnerInv, Urgent
  <2>3. QIdleReady'
    BY <1>1, <1>3, <1>4, <1>6, TaskAssumption DEF QIdleReady
  <2> QED
    BY <2>1, <2>2, <2>3 DEF RunnerInv
<1>10. QCallsSane'
  <2> SUFFICES ASSUME NEW t \in Task PROVE CallSane(t)'
    BY DEF QCallsSane
  <2>1. CASE t = current
    BY <2>1, <1>2, <1>3, <1>5, <1>6, AboutCurrent DEF CallSane, Blocking, Leaving
  <2>2. CASE t # current
    BY <2>2, <1>1, <1>2, <1>6 DEF QCallsSane, CallSane
  <2> QED
    BY <2>1, <2>2
<1>11. ~OnList(current, toReceive) /\ ~OnList(current, toSend)
  BY <1>1, <1>3 DEF EventListsExact
<1>12. /\ EventTypes' /\ IsInjective(toReceive') /\ IsInjective(toSend')
       /\ \A t \in Task : OnList(t, toReceive') <=>
              (OnList(t, toReceive) \/ (t = current /\ call = "receive"))
       /\ \A t \in Task : OnList(t, toSend') <=>
              (OnList(t, toSend) \/ (t = current /\ call = "send"))
  <2>1. CASE call = "receive"
    <3>1. toReceive' = InsertByPriority(toReceive, current) /\ toSend' = toSend
      BY <2>1 DEF PlaceOnEventList, Op
    <3>2. /\ InsertByPriority(toReceive, current) \in Seq(Task)
          /\ \A t : OnList(t, InsertByPriority(toReceive, current)) <=>
                        (OnList(t, toReceive) \/ t = current)
          /\ IsInjective(InsertByPriority(toReceive, current))
      BY <1>1, <1>3, <1>11, InsertProperties DEF EventTypes, EventListsExact
    <3> QED
      BY <2>1, <3>1, <3>2, <1>1 DEF EventTypes, EventListsExact
  <2>2. CASE call = "send"
    <3>1. toSend' = InsertByPriority(toSend, current) /\ toReceive' = toReceive
      BY <2>2 DEF PlaceOnEventList, Op
    <3>2. /\ InsertByPriority(toSend, current) \in Seq(Task)
          /\ \A t : OnList(t, InsertByPriority(toSend, current)) <=>
                        (OnList(t, toSend) \/ t = current)
          /\ IsInjective(InsertByPriority(toSend, current))
      BY <1>1, <1>3, <1>11, InsertProperties DEF EventTypes, EventListsExact
    <3> QED
      BY <2>2, <3>1, <3>2, <1>1 DEF EventTypes, EventListsExact
  <2> QED
    BY <2>1, <2>2, <1>3
<1>13. EventListsExact'
  <2>1. ASSUME NEW t \in Task
        PROVE  /\ OnList(t, toReceive') => op'[t].call = "receive"
               /\ OnList(t, toSend') => op'[t].call = "send"
               /\ OnList(t, toReceive') \/ OnList(t, toSend')
                      => t \in Sleeping' /\ t \notin pending'
               /\ t \in Sleeping' =>
                      OnList(t, toReceive') \/ OnList(t, toSend') \/ t \in pending'
    <3>1. CASE t = current
      BY <3>1, <1>2, <1>3, <1>4, <1>5, <1>6, <1>11, <1>12
    <3>2. CASE t # current
      <4>1. op'[t] = op[t] /\ (t \in Sleeping' <=> t \in Sleeping) /\ pending' = pending
        BY <3>2, <1>2, <1>4, <1>6
      <4> QED
        BY <3>2, <4>1, <1>1, <1>12 DEF EventListsExact
    <3> QED
      BY <3>1, <3>2
  <2> QED
    BY <2>1, <1>12 DEF EventListsExact
<1>14. SleepersLookAgain'
  BY <1>1, <1>2, <1>3, <1>4, <1>5, <1>6 DEF SleepersLookAgain, ComesBack
<1>15. ASSUME NEW c \in {"receive", "send"} PROVE CoveredFor(c)'
  <2>1. Coming(c) \subseteq Coming(c)'
    <3> SUFFICES ASSUME NEW t \in Coming(c) PROVE t \in Coming(c)'
      OBVIOUS
    <3>1. t # current
      BY <1>2, <1>3 DEF Coming, LooksAgain
    <3> QED
      BY <3>1, <1>2, <1>4, <1>6 DEF Coming, LooksAgain
  <2>2. Needed(c)' => Needed(c)
    <3>1. ~Placing(c)'
      BY <1>2, <1>6 DEF Placing
    <3>2. CASE c = call
      BY <3>2, <1>2 DEF Needed, Placing
    <3>3. CASE c # call
      <4>1. Waiters(c)' = Waiters(c)
        BY <3>3, <1>3 DEF Waiters, PlaceOnEventList, Op
      <4> QED
        BY <4>1, <3>1 DEF Needed
    <3> QED
      BY <3>2, <3>3
  <2>3. Demand(c)' = Demand(c) /\ SameLock(c) /\ CoveredFor(c)
    BY <1>1, <1>2 DEF Demand, SameLock, LockFor, Covered, storage, locks
  <2>4. Demand(c)' <= Demand(c)
    BY <2>3, <1>1, <1>8, CoverTypes
  <2> QED
    BY <2>1, <2>2, <2>3, <2>4, <1>1, <1>8, CoveredStays
<1> QED
  BY <1>7, <1>8, <1>9, <1>6, <1>10, <1>12, <1>13, <1>14, <1>15 DEF QInv, Covered

\* One half of prvUnlockQueue: those the lock owes are woken, and become
\* pending.  A lock at its limit owes everybody on the list, because the idle
\* task is on none.
LEMMA UnlockKeeps ==
    ASSUME QInv, NEW call \in {"receive", "send"}, LockFor(call) # Unlocked,
           NEW woken, woken = Owed(Waiters(call), LockFor(call)),
           pending' = pending \cup woken,
           IF call = "receive"
               THEN toReceive' = Without(toReceive, woken) /\ toSend' = toSend
                    /\ txLock' = Unlocked /\ rxLock' = rxLock
               ELSE toSend' = Without(toSend, woken) /\ toReceive' = toReceive
                    /\ rxLock' = Unlocked /\ txLock' = txLock,
           yieldPending' = (yieldPending \/ MoreUrgent(woken)),
           pc[current] \in {"unlockTx", "unlockRx"},
           NEW label \in {"unlockRx", "resume"}, pc' = [pc EXCEPT ![current] = label],
           UNCHANGED <<prio, ready, top, delayed, overflow, wake, clock, suspended, current,
                       notify, arg, last, storage, op>>,
           LocksHeld'
    PROVE  QInv'
<1> DEFINE list == Waiters(call)
           lock == LockFor(call)
<1>1. /\ KCore /\ CoreTypes /\ ListsExact /\ NoOversleep /\ RunnerInv /\ QIdleReady
      /\ QCallsSane /\ EventTypes /\ EventListsExact /\ SleepersLookAgain /\ CallTypes
      /\ StorageTypes /\ LockTypes /\ RingCoherent /\ Covered /\ Sleeping \in SUBSET Task
  BY DEF QInv, KCore, CoreTypes, Sleeping
<1>2. /\ current \in Task /\ current # Idle /\ suspended = 1
      /\ op[current].then # "none" /\ op[current].call # "none"
  BY AboutCurrent DEF CallSane, Leaving, QRegion
<1>3. lock \in Nat /\ Cardinality(Task) \in Nat
  BY <1>1, TasksCount DEF LockTypes, LockFor, Unlocked
<1>4. list \in Seq(Task) /\ IsInjective(list)
  BY <1>1 DEF Waiters, EventTypes, EventListsExact
<1>5. /\ woken \in SUBSET Task
      /\ \A u \in woken : OnList(u, list)
      /\ lock < Len(list) => IsFiniteSet(woken) /\ Cardinality(woken) = lock
      /\ ~(lock < Len(list)) => \A u : OnList(u, list) => u \in woken
  BY <1>3, <1>4, OwedProperties
<1> HIDE DEF lock, list
<1>6. \A u \in woken : u \in Sleeping /\ u \notin pending /\ op[u].call = call
  BY <1>1, <1>5 DEF EventListsExact, Waiters, list
<1>7. /\ \A t \in Task \ {current} : pc'[t] = pc[t]
      /\ pc'[current] = label /\ CallTypes'
  BY <1>1, <1>2 DEF CallTypes, QLabel
<1>8. KCore'
  <2>1. pending' \in SUBSET Task /\ yieldPending' \in BOOLEAN
    BY <1>1, <1>5 DEF CoreTypes
  <2>2. CoreTypes'
    BY <2>1, <1>1 DEF CoreTypes, clock
  <2> QED
    BY <2>2, <1>1, <1>2
       DEF KCore, ListsExact, NoOversleep, PendingOnlySuspended, Placed, Sleeping, clock
<1>9. StorageTypes' /\ LockTypes' /\ RingCoherent'
  <2>1. Unlocked \in Unlocked..Cardinality(Task)
    BY <1>3 DEF Unlocked
  <2> QED
    BY <2>1, <1>1 DEF StorageTypes, LockTypes, RingCoherent, storage
<1>10. RunnerInv' /\ QIdleReady'
  <2>1. QSuspendedAlone' /\ QCurrentReady'
    BY <1>1, <1>2, <1>7
       DEF RunnerInv, QSuspendedAlone, QCurrentReady, QRegion, Leaving, Placed
  <2>2. Urgent'
    <3>1. ~yieldPending' => ~yieldPending
      BY Zenon
    <3>2. top' = top /\ prio' = prio /\ current' = current /\ suspended' = 1
      BY <1>2
    <3> QED
      BY <3>1, <3>2, <1>1 DEF RunnerInv, Urgent
  <2>3. QIdleReady'
    BY <1>1, <1>2, <1>7, TaskAssumption DEF QIdleReady, Sleeping
  <2> QED
    BY <2>1, <2>2, <2>3 DEF RunnerInv
<1>11. QCallsSane'
  <2> SUFFICES ASSUME NEW t \in Task PROVE CallSane(t)'
    BY DEF QCallsSane
  <2>1. CASE t = current
    BY <2>1, <1>2, <1>7, AboutCurrent DEF CallSane, Blocking, Leaving
  <2>2. CASE t # current
    BY <2>2, <1>1, <1>7 DEF QCallsSane, CallSane
  <2> QED
    BY <2>1, <2>2
<1>12. \A t \in Task : SameCall(t)
  <2> SUFFICES ASSUME NEW t \in Task PROVE SameCall(t)
    OBVIOUS
  <2>1. CASE t = current
    BY <2>1, <1>7 DEF SameCall, LooksAgain, ComesBack
  <2>2. CASE t # current
    BY <2>2, <1>7, Untouched
  <2> QED
    BY <2>1, <2>2
<1>13. Wakes(woken)
  BY <1>1, <1>5, <1>6 DEF Wakes, Sleeping, CoreTypes
<1>14. /\ Without(list, woken) \in Seq(Task) /\ IsInjective(Without(list, woken))
       /\ \A t : OnList(t, Without(list, woken)) <=> (OnList(t, list) /\ t \notin woken)
  BY <1>4, WithoutProperties
<1>15. /\ EventTypes' /\ IsInjective(toReceive') /\ IsInjective(toSend')
       /\ \A t \in Task : OnList(t, toReceive') <=> (OnList(t, toReceive) /\ t \notin woken)
       /\ \A t \in Task : OnList(t, toSend') <=> (OnList(t, toSend) /\ t \notin woken)
  <2>1. CASE call = "receive"
    <3>1. list = toReceive /\ toReceive' = Without(list, woken) /\ toSend' = toSend
      BY <2>1 DEF list, Waiters
    <3>2. \A t \in woken : ~OnList(t, toSend)
      BY <2>1, <1>1, <1>5, <1>6 DEF EventListsExact
    <3> QED
      BY <3>1, <3>2, <1>1, <1>14 DEF EventTypes, EventListsExact
  <2>2. CASE call = "send"
    <3>1. list = toSend /\ toSend' = Without(list, woken) /\ toReceive' = toReceive
      BY <2>2 DEF list, Waiters
    <3>2. \A t \in woken : ~OnList(t, toReceive)
      BY <2>2, <1>1, <1>5, <1>6 DEF EventListsExact
    <3> QED
      BY <3>1, <3>2, <1>1, <1>14 DEF EventTypes, EventListsExact
  <2> QED
    BY <2>1, <2>2
<1>16. /\ EventListsExact' /\ SleepersLookAgain'
       /\ \A c : Coming(c) \ {} \subseteq Coming(c)'
       /\ \A c : \A t \in woken \ pending :
              op[t].call = c => t \in Coming(c)' /\ t \notin Coming(c)
  <2>1. {} \in SUBSET Task /\ {} \cap Sleeping = {} /\ \A t \in Task \ {} : SameCall(t)
    BY <1>12
  <2>2. woken \in SUBSET Sleeping
    BY <1>6
  <2>3. IsInjective(toReceive') /\ IsInjective(toSend')
    BY <1>15
  <2>4. \A t \in Task : OnList(t, toReceive') <=> (OnList(t, toReceive) /\ t \notin woken)
    BY <1>15
  <2>5. \A t \in Task : OnList(t, toSend') <=> (OnList(t, toSend) /\ t \notin woken)
    BY <1>15
  <2> QED
    BY <2>1, <2>2, <2>3, <2>4, <2>5, <1>13, WakingStep
<1>17. \A c : ~Placing(c)'
  BY <1>7 DEF Placing
<1>18. CoveredFor(call)'
  <2>1. CASE lock < Len(list)
    <3>1. woken \cap Coming(call) = {} /\ Coming(call) \cup woken \subseteq Coming(call)'
      BY <1>6, <1>16
    <3>2. list # <<>>
      BY <2>1, <1>3
    <3>3. lock # Cardinality(Task)
      <4>1. woken \subseteq Task \ {Idle}
        BY <1>1, <1>5, <1>6 DEF QIdleReady
      <4>2. Cardinality(Task \ {Idle}) = Cardinality(Task) - 1
        BY TaskAssumption, QueueAssumption, FS_RemoveElement
      <4>3. Cardinality(woken) <= Cardinality(Task \ {Idle})
        BY <4>1, QueueAssumption, FS_Subset, FS_RemoveElement
      <4> QED
        BY <4>2, <4>3, <2>1, <1>3, <1>5
    <3>4. /\ CoveredFor(call) /\ Needed(call) /\ LockFor(call)' = Unlocked
          /\ Demand(call)' = Demand(call)
      BY <3>2, <1>1 DEF Covered, Needed, LockFor, Demand, storage, list
    <3>5. IsFiniteSet(woken) /\ Cardinality(woken) = LockFor(call)
          /\ LockFor(call) # Cardinality(Task)
      BY <2>1, <3>3, <1>5 DEF lock
    <3> QED
      BY <3>1, <3>4, <3>5, <1>1, <1>9, CoveredPaid
  <2>2. CASE ~(lock < Len(list))
    <3>1. \A t : ~OnList(t, Without(list, woken))
      BY <2>2, <1>5, <1>14
    <3>2. Without(list, woken) = <<>>
      <4>1. SUFFICES ASSUME Without(list, woken) # <<>> PROVE FALSE
        OBVIOUS
      <4>2. 1 \in 1..Len(Without(list, woken))
        BY <4>1, <1>14
      <4> QED
        BY <4>2, <3>1 DEF OnList
    <3>3. Waiters(call)' = <<>>
      BY <3>2 DEF list, Waiters
    <3> QED
      BY <3>3, <1>17 DEF CoveredFor, Needed
  <2> QED
    BY <2>1, <2>2
<1>19. ASSUME NEW c \in {"receive", "send"}, c # call PROVE CoveredFor(c)'
  <2>1. /\ Waiters(c)' = Waiters(c) /\ SameLock(c) /\ Demand(c)' = Demand(c) /\ CoveredFor(c)
        /\ Coming(c) \subseteq Coming(c)'
    BY <1>1, <1>16, <1>19 DEF Waiters, SameLock, LockFor, Demand, storage, Covered
  <2>2. Needed(c)' => Needed(c)
    BY <2>1, <1>17 DEF Needed
  <2>3. Demand(c)' <= Demand(c)
    BY <2>1, <1>1, <1>9, CoverTypes
  <2> QED
    BY <2>1, <2>2, <2>3, <1>1, <1>9, CoveredStays
<1> QED
  BY <1>7, <1>8, <1>9, <1>10, <1>11, <1>15, <1>16, <1>18, <1>19 DEF QInv, Covered

\* The first half of prvUnlockQueue.
LEMMA UnlockTxKeeps == QInv /\ UnlockTx => QInv'
<1> SUFFICES ASSUME QInv, UnlockTx PROVE QInv'
  OBVIOUS
<1> DEFINE woken == Owed(toReceive, txLock)
<1>1. /\ pc[current] = "unlockTx" /\ pending' = pending \cup woken
      /\ toReceive' = Without(toReceive, woken) /\ toSend' = toSend
      /\ txLock' = Unlocked /\ rxLock' = rxLock
      /\ yieldPending' = (yieldPending \/ MoreUrgent(woken))
      /\ pc' = [pc EXCEPT ![current] = "unlockRx"]
      /\ UNCHANGED <<prio, ready, top, delayed, overflow, wake, clock, suspended, current,
                     notify, arg, last, storage, op>>
  BY DEF UnlockTx, Goto
<1>2. LockFor("receive") # Unlocked /\ woken = Owed(Waiters("receive"), LockFor("receive"))
  BY <1>1, AboutCurrent DEF LockFor, Waiters, LocksHeld
<1>3. LocksHeld'
  BY <1>1, AboutCurrent DEF LocksHeld
<1> HIDE DEF woken
<1> QED
  BY <1>1, <1>2, <1>3, UnlockKeeps

\* The second half.
LEMMA UnlockRxKeeps == QInv /\ UnlockRx => QInv'
<1> SUFFICES ASSUME QInv, UnlockRx PROVE QInv'
  OBVIOUS
<1> DEFINE woken == Owed(toSend, rxLock)
<1>1. /\ pc[current] = "unlockRx" /\ pending' = pending \cup woken
      /\ toSend' = Without(toSend, woken) /\ toReceive' = toReceive
      /\ rxLock' = Unlocked /\ txLock' = txLock
      /\ yieldPending' = (yieldPending \/ MoreUrgent(woken))
      /\ pc' = [pc EXCEPT ![current] = "resume"]
      /\ UNCHANGED <<prio, ready, top, delayed, overflow, wake, clock, suspended, current,
                     notify, arg, last, storage, op>>
  BY DEF UnlockRx, Goto
<1>2. LockFor("send") # Unlocked /\ woken = Owed(Waiters("send"), LockFor("send"))
  BY <1>1, AboutCurrent DEF LockFor, Waiters, LocksHeld
<1>3. LocksHeld'
  BY <1>1, AboutCurrent DEF LocksHeld
<1> HIDE DEF woken
<1> QED
  BY <1>1, <1>2, <1>3, UnlockKeeps

-----------------------------------------------------------------------------
(* The end of a wait.                                                      *)

\* xTaskResumeAll makes the pending tasks ready.
LEMMA QResumePendingKeeps == QInv /\ ResumePending /\ UNCHANGED qvars => QInv'
<1> SUFFICES ASSUME QInv, ResumePending, UNCHANGED qvars PROVE QInv'
  OBVIOUS
<1>1. /\ KCore /\ CoreTypes /\ ListsExact /\ NoOversleep /\ RunnerInv /\ QIdleReady
      /\ QCallsSane /\ EventTypes /\ EventListsExact /\ SleepersLookAgain
      /\ LockTypes /\ Sleeping \in SUBSET Task /\ pending \subseteq Sleeping
  BY DEF QInv, KCore, CoreTypes, Sleeping, SleepersLookAgain
<1>2. /\ current \in Task /\ pc[current] = "resume" /\ suspended = 1
      /\ rxLock = Unlocked /\ txLock = Unlocked /\ current # Idle
      /\ op[current].then # "none" /\ op[current].call # "none"
      /\ \A t \in Task \ {current} : pc[t] \notin QRegion
  BY <1>1, AboutCurrent
     DEF ResumePending, QRegion, LocksHeld, CallSane, Leaving, RunnerInv, QSuspendedAlone
<1>3. /\ suspended' = 0 /\ MakeReady(pending) /\ pending \in SUBSET Task /\ pending' = {}
      /\ delayed' = delayed \ pending /\ overflow' = overflow \ pending
      /\ pc' = [pc EXCEPT ![current] = "ticks"]
      /\ UNCHANGED <<prio, tick, pended, overflows, current, notify, arg, last>>
      /\ UNCHANGED <<op, storage, locks, toReceive, toSend>>
  BY <1>1, <1>2 DEF ResumePending, Goto, CoreTypes, qvars, events
<1>4. delayed' \cup overflow' = Sleeping \ pending /\ delayed' \cap overflow' = {}
  BY <1>1, <1>3 DEF Sleeping, ListsExact
<1>5. /\ ListTypes' /\ ListsExact'
      /\ top' = top \cup {prio[t] : t \in pending}
      /\ \A t \in Task \ pending : wake'[t] = wake[t]
  BY <1>1, <1>3, <1>4, MakeReadyKeepsLists
<1>6. Sleeping' = Sleeping \ pending
  BY <1>4 DEF Sleeping
<1>7. next' \in Time /\ NoOversleep'
  <2>1. delayed' \in SUBSET Task /\ wake \in [Task -> Time] /\ next \in Time
    BY <1>1, <1>3 DEF CoreTypes
  <2>2. CASE pending = {}
    <3>1. next' = next
      BY <2>2 DEF ResumePending
    <3> QED
      BY <3>1, <2>1, <2>2, <1>1, <1>3, <1>5 DEF NoOversleep, CoreTypes
  <2>3. CASE pending # {}
    <3>1. next' = UnblockTime(delayed \ pending)
      BY <2>3 DEF ResumePending
    <3>2. UnblockTime(delayed \ pending) \in Time
          /\ \A t \in delayed \ pending : UnblockTime(delayed \ pending) <= wake[t]
      BY <2>1, <1>3, UnblockTimeIsFirst
    <3> QED
      BY <3>1, <3>2, <2>1, <1>1, <1>3, <1>5 DEF NoOversleep, CoreTypes
  <2> QED
    BY <2>2, <2>3
<1>8. /\ \A t \in Task \ {current} : pc'[t] = pc[t]
      /\ pc'[current] = "ticks" /\ CallTypes'
  BY <1>2, <1>3 DEF QInv, CallTypes, QLabel
<1>9. yieldPending' \in BOOLEAN
      /\ (~yieldPending' => ~yieldPending /\ \A t \in pending : ~(prio[t] > prio[current]))
  BY DEF ResumePending
<1>10. KCore'
  <2>1. CoreTypes'
    BY <1>1, <1>3, <1>5, <1>7, <1>9 DEF CoreTypes, ListTypes
  <2> QED
    BY <2>1, <1>3, <1>5, <1>7 DEF KCore, PendingOnlySuspended
<1>11. RunnerInv'
  <2>1. Urgent'
    BY <1>1, <1>3, <1>5, <1>8, <1>9, PriorityAssumption
       DEF RunnerInv, Urgent, Masked, CoreTypes, Priority
  <2>2. QSuspendedAlone' /\ LocksHeld'
    BY <1>2, <1>3, <1>8 DEF QSuspendedAlone, LocksHeld, QRegion, locks
  <2>3. QCurrentReady'
    <3>1. Placed(current)' \/ op'[current].then = "blocked"
      <4>1. Placed(current) \/ op[current].then = "blocked"
        BY <1>1, <1>2 DEF RunnerInv, QCurrentReady
      <4>2. Placed(current) => current \notin Sleeping'
        BY <1>1, <1>2, <1>6 DEF ListsExact
      <4> QED
        BY <4>1, <4>2, <1>2, <1>3, <1>5 DEF ListsExact
    <3> QED
      BY <3>1, <1>3, <1>8 DEF QCurrentReady, Leaving
  <2> QED
    BY <2>1, <2>2, <2>3 DEF RunnerInv
<1>12. QCallsSane'
  <2> SUFFICES ASSUME NEW t \in Task PROVE CallSane(t)'
    BY DEF QCallsSane
  <2>1. CASE t = current
    BY <2>1, <1>2, <1>3, <1>8, AboutCurrent DEF CallSane, Blocking, Leaving
  <2>2. CASE t # current
    BY <2>2, <1>1, <1>3, <1>8 DEF QCallsSane, CallSane
  <2> QED
    BY <2>1, <2>2
<1>13. \A t \in Task : SameCall(t)
  <2> SUFFICES ASSUME NEW t \in Task PROVE SameCall(t)
    OBVIOUS
  <2>1. CASE t = current
    BY <2>1, <1>2, <1>3, <1>8 DEF SameCall, LooksAgain, ComesBack
  <2>2. CASE t # current
    BY <2>2, <1>3, <1>8, Untouched
  <2> QED
    BY <2>1, <2>2
<1>14. Wakes(pending) /\ pending \in SUBSET Sleeping
  BY <1>1, <1>3, <1>6 DEF Wakes
<1>15. \A t \in Task : t \notin pending' /\ pc'[t] \notin QRegion
  BY <1>2, <1>3, <1>8 DEF QRegion
<1>16. /\ EventTypes' /\ IsInjective(toReceive') /\ IsInjective(toSend')
       /\ \A t \in Task : OnList(t, toReceive') <=> (OnList(t, toReceive) /\ t \notin pending)
       /\ \A t \in Task : OnList(t, toSend') <=> (OnList(t, toSend) /\ t \notin pending)
  BY <1>1, <1>3 DEF EventTypes, EventListsExact
<1>17. /\ LockTypes' /\ \A c \in {"receive", "send"} : SameLock(c)
       /\ pc'[Idle] = pc[Idle] /\ current' \in Task
       /\ UNCHANGED <<op, arg, storage>> /\ suspended' = 0
  BY <1>1, <1>2, <1>3, <1>8, TaskAssumption DEF LockTypes, locks, SameLock, LockFor
<1>18. /\ StorageTypes' /\ RingCoherent' /\ QIdleReady'
       /\ EventListsExact' /\ SleepersLookAgain' /\ Covered'
  BY <1>8, <1>12, <1>13, <1>14, <1>15, <1>16, <1>17, TakenOffKeeps
<1> QED
  BY <1>8, <1>10, <1>11, <1>12, <1>16, <1>17, <1>18 DEF QInv

\* The running task, who is t, goes on to label with the locals o, while the
\* scheduler runs; another may run then.  It goes on looking for what it
\* wanted, or was not going to look again.
LEMMA EndKeeps ==
    ASSUME QInv, UNCHANGED <<prio, lists, clock, suspended, notify, arg, last,
                             storage, locks, events>>,
           suspended = 0, NEW t \in Task, t = current,
           NEW label \in QLabel \ QRegion, pc' = [pc EXCEPT ![t] = label],
           NEW o \in CallRecord, op' = [op EXCEPT ![t] = o],
           CallSane(t)', t = Idle => label = "run",
           SameCall(t) \/ (Placed(t) /\ ~LooksAgain(t)),
           \/ SwitchNow
           \/ /\ UNCHANGED <<yieldPending, current>> /\ ~yieldPending
              /\ Placed(t) \/ label = "yield"
    PROVE  QInv'
<1> USE DEF lists, clock, storage, locks, events
<1>1. /\ KCore /\ CoreTypes /\ CallTypes /\ EventTypes /\ RunnerInv /\ QIdleReady
      /\ QCallsSane /\ EventListsExact /\ SleepersLookAgain /\ Covered
      /\ StorageTypes /\ RingCoherent /\ LockTypes /\ ListsExact
  BY DEF QInv, KCore
<1>2. /\ \A u \in Task : pc[u] \notin QRegion
      /\ rxLock = Unlocked /\ txLock = Unlocked /\ pending = {}
  BY Unsuspended
<1>3. /\ \A u \in Task \ {t} : pc'[u] = pc[u] /\ op'[u] = op[u]
      /\ pc'[t] = label /\ op'[t] = o
  BY <1>1 DEF CallTypes
<1>4. \A u \in Task : pc'[u] \notin QRegion
  BY <1>2, <1>3
<1>5. StorageTypes' /\ RingCoherent' /\ EventTypes' /\ CallTypes' /\ LockTypes'
  BY <1>1 DEF StorageTypes, RingCoherent, EventTypes, CallTypes, LockTypes
<1>6. ListTypes' /\ ListsExact' /\ NoOversleep' /\ QIdleReady'
  <2>1. ListTypes' /\ ListsExact' /\ NoOversleep'
    BY <1>1 DEF KCore, CoreTypes, ListTypes, ListsExact, NoOversleep, Placed, Sleeping
  <2>2. QIdleReady'
    BY <1>1, <1>3, TaskAssumption DEF QIdleReady, Sleeping
  <2> QED
    BY <2>1, <2>2
<1>7. current' \in Task /\ yieldPending' \in BOOLEAN /\ RunnerInv'
  <2>1. CASE SwitchNow
    <3>1. suspended' = 0 /\ rxLock' = Unlocked /\ txLock' = Unlocked
      BY <1>2
    <3> QED
      BY <2>1, <3>1, <1>4, <1>6, SwitchKeepsRunner
  <2>2. CASE /\ UNCHANGED <<yieldPending, current>> /\ ~yieldPending
             /\ Placed(t) \/ label = "yield"
    <3>1. Urgent'
      BY <2>2, <1>1 DEF RunnerInv, Urgent
    <3>2. QSuspendedAlone' /\ LocksHeld'
      BY <2>2, <1>2, <1>4 DEF QSuspendedAlone, LocksHeld, QRegion
    <3>3. QCurrentReady'
      BY <2>2, <1>3 DEF QCurrentReady, Placed
    <3> QED
      BY <2>2, <3>1, <3>2, <3>3, <1>1 DEF RunnerInv, CoreTypes
  <2> QED
    BY <2>1, <2>2
<1>8. KCore'
  <2>1. CoreTypes'
    BY <1>1, <1>7 DEF CoreTypes
  <2> QED
    BY <2>1, <1>2, <1>6 DEF KCore, PendingOnlySuspended
<1>9. QCallsSane'
  <2> SUFFICES ASSUME NEW u \in Task, u # t PROVE CallSane(u)'
    BY DEF QCallsSane
  <2> QED
    BY <1>1, <1>3 DEF QCallsSane, CallSane
<1>10. \A u \in Task \ {t} : SameCall(u)
  BY <1>3, Untouched
<1>11. /\ EventListsExact' /\ SleepersLookAgain'
       /\ \A c : Coming(c) \subseteq Coming(c)'
  <2>1. Wakes({}) /\ {} \in SUBSET Sleeping
    BY <1>1 DEF Wakes, Sleeping, CoreTypes
  <2>2. IsInjective(toReceive') /\ IsInjective(toSend')
    BY <1>1 DEF EventListsExact
  <2>3. \A u \in Task : OnList(u, toReceive') <=> (OnList(u, toReceive) /\ u \notin {})
    OBVIOUS
  <2>4. \A u \in Task : OnList(u, toSend') <=> (OnList(u, toSend) /\ u \notin {})
    OBVIOUS
  <2>5. CASE SameCall(t)
    <3>1. {} \in SUBSET Task /\ {} \cap Sleeping = {} /\ \A u \in Task \ {} : SameCall(u)
      BY <2>5, <1>10
    <3>2. /\ EventListsExact' /\ SleepersLookAgain'
          /\ \A c : Coming(c) \ {} \subseteq Coming(c)'
      BY <3>1, <2>1, <2>2, <2>3, <2>4, WakingStep
    <3> QED
      BY <3>2
  <2>6. CASE Placed(t) /\ ~LooksAgain(t)
    <3>1. t \notin Sleeping /\ \A c : t \notin Coming(c)
      BY <2>6, <1>1, <1>2 DEF ListsExact, Coming
    <3>2. {t} \in SUBSET Task /\ {t} \cap Sleeping = {}
      BY <3>1
    <3>3. /\ EventListsExact' /\ SleepersLookAgain'
          /\ \A c : Coming(c) \ {t} \subseteq Coming(c)'
      BY <3>2, <2>1, <2>2, <2>3, <2>4, <1>10, WakingStep
    <3> QED
      BY <3>1, <3>3
  <2> QED
    BY <2>5, <2>6
<1>12. ASSUME NEW c \in {"receive", "send"} PROVE CoveredFor(c)'
  <2>1. Demand(c)' = Demand(c) /\ Waiters(c)' = Waiters(c) /\ CoveredFor(c) /\ SameLock(c)
    BY <1>1 DEF Demand, Waiters, Covered, SameLock, LockFor
  <2>2. Needed(c)' => Needed(c)
    <3>1. ~Placing(c)'
      BY <1>4, <1>7 DEF Placing, QRegion
    <3> QED
      BY <2>1, <3>1 DEF Needed
  <2>3. Demand(c)' <= Demand(c)
    BY <2>1, <1>1, <1>5, CoverTypes
  <2>4. Coming(c) \subseteq Coming(c)'
    BY <1>11
  <2> QED
    BY <2>1, <2>2, <2>3, <2>4, <1>1, <1>5, CoveredStays
<1> QED
  BY <1>5, <1>6, <1>7, <1>8, <1>9, <1>11, <1>12 DEF QInv, Covered

\* The end of xTaskResumeAll: the call goes on as it has noted.
LEMMA QResumeEndKeeps == QInv /\ QResumeEnd => QInv'
<1> SUFFICES ASSUME QInv, QResumeEnd PROVE QInv'
  OBVIOUS
<1> DEFINE sends == op[current].then = "expired" /\ op[current].call = "send"
           o == IF sends THEN NoOp ELSE [op[current] EXCEPT !.then = "none"]
<1>1. /\ pc[current] = "ticks" /\ op' = [op EXCEPT ![current] = o]
      /\ UNCHANGED <<prio, lists, clock, suspended, notify, arg, last, storage, locks, events>>
  BY DEF QResumeEnd, ResumeEnd, SetOp, Op
<1>2. /\ current \in Task /\ suspended = 0 /\ current # Idle
      /\ op[current] \in CallRecord /\ CallSane(current)
      /\ Placed(current) \/ op[current].then = "blocked"
      /\ pc \in [Task -> QLabel] /\ op \in [Task -> CallRecord]
  BY <1>1, AboutCurrent DEF QRegion, QInv, RunnerInv, QCurrentReady
<1>3. /\ o \in CallRecord /\ o.then = "none"
      /\ ~sends => /\ o.call = op[current].call
                   /\ o.item = op[current].item /\ o.position = op[current].position
      /\ sends => o.call = "none"
  BY <1>2, NoOpTypes DEF CallRecord, NoOp
<1>4. op[current].call # "none"
  BY <1>1, <1>2 DEF CallSane
<1>5. PICK label \in {"try", "yield", "expired", "run"} :
         /\ pc' = [pc EXCEPT ![current] = label]
         /\ label = "run" <=> sends
         /\ label = "expired" => op[current].then = "expired" /\ op[current].call = "receive"
         /\ label \in {"try", "yield"} => op[current].then \in {"blocked", "again"}
         /\ \/ SwitchNow
            \/ /\ UNCHANGED <<yieldPending, current>> /\ ~yieldPending
               /\ op[current].then = "blocked" => label = "yield"
  <2>1. CASE Op.then = "blocked" /\ ResumeEnd("try", "yield")
    BY <2>1 DEF ResumeEnd, Op, Goto
  <2>2. CASE Op.then = "again" /\ ResumeEnd("try", "try")
    BY <2>2 DEF ResumeEnd, Op, Goto
  <2>3. CASE Op.then = "expired" /\ Op.call = "receive" /\ ResumeEnd("expired", "expired")
    BY <2>3 DEF ResumeEnd, Op, Goto
  <2>4. CASE Op.then = "expired" /\ Op.call = "send" /\ ResumeEnd("run", "run")
    BY <2>4 DEF ResumeEnd, Op, Goto
  <2> QED
    BY <2>1, <2>2, <2>3, <2>4 DEF QResumeEnd
<1>6. PICK t \in Task : t = current
  BY <1>2
<1>7. pc'[t] = label /\ op'[t] = o /\ arg' = arg
  BY <1>1, <1>2, <1>5, <1>6
<1>8. CallSane(t)'
  <2>1. label \notin Leaving /\ label \notin Blocking /\ label # "suspendStore"
    BY <1>5 DEF Leaving, Blocking
  <2>2. CASE sends
    <3>1. pc'[t] = "run" /\ op'[t].call = "none" /\ op'[t].then = "none"
      BY <2>2, <1>3, <1>5, <1>7
    <3> QED
      BY <3>1 DEF CallSane, Leaving, Blocking
  <2>3. CASE ~sends
    <3>1. /\ pc'[t] = label /\ label # "run"
          /\ op'[t].call = op[t].call /\ op'[t].call # "none" /\ op'[t].then = "none"
          /\ op'[t].item = op[t].item /\ op'[t].position = op[t].position
          /\ label = "expired" => op'[t].call = "receive"
      BY <2>3, <1>3, <1>4, <1>5, <1>6, <1>7
    <3> QED
      BY <3>1, <2>1, <1>2, <1>6 DEF CallSane
  <2> QED
    BY <2>2, <2>3
<1>9. SameCall(t) \/ (Placed(t) /\ ~LooksAgain(t))
  <2>1. CASE label \in {"try", "yield"}
    <3>1. op'[t].call = op[t].call
      BY <2>1, <1>3, <1>5, <1>6, <1>7
    <3> QED
      BY <2>1, <3>1, <1>7 DEF SameCall, LooksAgain, ComesBack
  <2>2. CASE label \in {"expired", "run"}
    <3>1. op[current].then = "expired"
      BY <2>2, <1>5
    <3> QED
      BY <3>1, <1>1, <1>2, <1>6 DEF LooksAgain
  <2> QED
    BY <2>1, <2>2
<1>10. \/ SwitchNow
       \/ /\ UNCHANGED <<yieldPending, current>> /\ ~yieldPending
          /\ Placed(t) \/ label = "yield"
  BY <1>2, <1>5, <1>6
<1>11. label \in QLabel \ QRegion
  BY DEF QLabel, QRegion
<1> HIDE DEF o
<1>12. pc' = [pc EXCEPT ![t] = label] /\ op' = [op EXCEPT ![t] = o] /\ (t = Idle => label = "run")
  BY <1>1, <1>2, <1>5, <1>6
<1> QED
  BY <1>1, <1>2, <1>3, <1>6, <1>8, <1>9, <1>10, <1>11, <1>12, EndKeeps

\* The yield of a blocked task.
LEMMA QYieldKeeps == QInv /\ Yield("try") /\ UNCHANGED qvars => QInv'
<1> SUFFICES ASSUME QInv, Yield("try"), UNCHANGED qvars PROVE QInv'
  OBVIOUS
<1>1. /\ pc[current] = "yield" /\ pc' = [pc EXCEPT ![current] = "try"]
      /\ UNCHANGED <<prio, lists, clock, suspended, notify, arg, last, storage, locks, events>>
      /\ op' = op /\ SwitchContext
  BY DEF Yield, Goto, qvars
<1>2. /\ current \in Task /\ suspended = 0 /\ current # Idle
      /\ op[current] \in CallRecord /\ CallSane(current)
      /\ pc \in [Task -> QLabel] /\ op \in [Task -> CallRecord]
  BY <1>1, AboutCurrent DEF QRegion
<1>3. PICK t \in Task : t = current
  BY <1>2
<1>4. /\ pc' = [pc EXCEPT ![t] = "try"] /\ op' = [op EXCEPT ![t] = op[t]]
      /\ pc'[t] = "try" /\ op'[t] = op[t] /\ op[t] \in CallRecord
      /\ t = Idle => "try" = "run"
  BY <1>1, <1>2, <1>3
<1>5. CallSane(t)'
  BY <1>1, <1>2, <1>3, <1>4 DEF CallSane, Leaving, Blocking
<1>6. SameCall(t)
  BY <1>4 DEF SameCall, LooksAgain, ComesBack
<1>7. SwitchNow /\ "try" \in QLabel \ QRegion
  BY <1>1, <1>2 DEF SwitchContext, QLabel, QRegion
<1> QED
  BY <1>1, <1>2, <1>3, <1>4, <1>5, <1>6, <1>7, EndKeeps

\* prvIdleTask's yield.
LEMMA QIdleYieldKeeps == QInv /\ IdleYield /\ UNCHANGED qvars => QInv'
<1> SUFFICES ASSUME QInv, IdleYield, UNCHANGED qvars PROVE QInv'
  OBVIOUS
<1>1. /\ pc[Idle] = "run" /\ current = Idle /\ pc' = pc /\ op' = op /\ SwitchNow
      /\ UNCHANGED <<prio, lists, clock, suspended, notify, arg, last, storage, locks, events>>
  BY DEF IdleYield, qvars, locals
<1>2. /\ Idle \in Task /\ suspended = 0
      /\ op[Idle] \in CallRecord /\ CallSane(Idle)
      /\ pc \in [Task -> QLabel] /\ op \in [Task -> CallRecord]
  BY <1>1, AboutCurrent DEF QRegion
<1>3. pc' = [pc EXCEPT ![Idle] = "run"] /\ op' = [op EXCEPT ![Idle] = op[Idle]]
  BY <1>1, <1>2
<1>4. CallSane(Idle)' /\ SameCall(Idle)
  BY <1>1, <1>2, Untouched DEF CallSane
<1>5. "run" \in QLabel \ QRegion
  BY DEF QLabel, QRegion
<1> QED
  BY <1>1, <1>2, <1>3, <1>4, <1>5, EndKeeps

-----------------------------------------------------------------------------
(* The theorems.                                                           *)

\* A new queue.
LEMMA QInitEstablishes == QInit => QInv
<1> SUFFICES ASSUME QInit PROVE QInv
  OBVIOUS
<1>1. /\ KInv /\ KCore /\ CoreTypes
      /\ rxLock = Unlocked /\ txLock = Unlocked /\ toReceive = <<>> /\ toSend = <<>>
      /\ pc = [t \in Task |-> "run"] /\ op = [t \in Task |-> NoOp]
      /\ suspended = 0 /\ pending = {} /\ Sleeping = {} /\ current \in Task
      /\ writeTo = 0 /\ readFrom = Length - 1 /\ count = 0
      /\ slots \in [0..(Length - 1) -> {"none"}]
  BY InitEstablishes, CoreOfKInv DEF QInit, Init, Sleeping, KCore, CoreTypes
<1>2. Length \in Nat /\ Length > 0 /\ Cardinality(Task) \in Nat
  BY QueueAssumption, TasksCount
<1>3. StorageTypes
  BY <1>1, <1>2 DEF StorageTypes
<1>4. LockTypes /\ EventTypes
  BY <1>1, <1>2 DEF LockTypes, EventTypes, Unlocked
<1>5. CallTypes
  BY <1>1, NoOpTypes DEF CallTypes, QLabel
<1>6. RunnerInv
  <2>1. Urgent /\ Placed(current)
    BY <1>1 DEF KInv, ListsExact
  <2> QED
    BY <2>1, <1>1 DEF RunnerInv, QSuspendedAlone, LocksHeld, QCurrentReady, QRegion
<1>7. QIdleReady /\ QCallsSane
  BY <1>1, TaskAssumption DEF QIdleReady, QCallsSane, CallSane, NoOp, Blocking, Leaving
<1>8. EventListsExact /\ SleepersLookAgain
  BY <1>1 DEF EventListsExact, IsInjective, OnList, SleepersLookAgain
<1>9. Covered
  BY <1>1 DEF Covered, CoveredFor, Needed, Waiters, Placing
<1>10. RingCoherent
  <2>1. readFrom + 1 + count = Length /\ Length \in 0..(2 * Length)
    BY <1>1, <1>2
  <2>2. Length % Length = 0
    BY <2>1, <1>2, SlotNumber
  <2> QED
    BY <2>1, <2>2, <1>1 DEF RingCoherent
<1> QED
  BY <1>1, <1>3, <1>4, <1>5, <1>6, <1>7, <1>8, <1>9, <1>10 DEF QInv

\* Every step keeps the invariant.
LEMMA QStepKeeps == QInv /\ [QNext]_allVars => QInv'
<1> SUFFICES ASSUME QInv, [QNext]_allVars PROVE QInv'
  OBVIOUS
<1>1. CASE Handler
  <2>1. CASE \E item \in Item, position \in Positions : xQueueGenericSendFromISR(item, position)
    BY <2>1, SendFromIsrKeeps
  <2> QED
    BY <1>1, <2>1, QTickIsrKeeps, TickNotedKeeps, ReceiveFromIsrKeeps DEF Handler
<1>2. CASE QInside
  <2>1. CASE ReceiveItem \/ SendItem \/ GiveUp \/ GetReadyToWait
    BY <2>1, ReceiveItemKeeps, SendItemKeeps, GiveUpCallKeeps, GetReadyToWaitKeeps
  <2>2. CASE (SuspendLoad \/ SuspendStore("lock")) /\ UNCHANGED qvars
    BY <2>2, SuspendLoadKeeps, SuspendStoreLockKeeps
  <2>3. CASE LockQueue \/ CheckForTimeOut \/ TestQueue \/ PlaceOnEventList
    BY <2>3, LockQueueKeeps, CheckForTimeOutKeeps, TestQueueKeeps, PlaceKeeps
  <2>4. CASE UnlockTx \/ UnlockRx
    BY <2>4, UnlockTxKeeps, UnlockRxKeeps
  <2>5. CASE (ResumePending /\ UNCHANGED qvars) \/ QResumeTick \/ QResumeEnd
    BY <2>5, QResumePendingKeeps, QResumeTickKeeps, QResumeEndKeeps
  <2>6. CASE (Yield("try") /\ UNCHANGED qvars) \/ ReceiveExpired
    BY <2>6, QYieldKeeps, ReceiveExpiredKeeps
  <2> QED
    BY <1>2, <2>1, <2>2, <2>3, <2>4, <2>5, <2>6 DEF QInside
<1>3. CASE QCall
  BY <1>3, CallReceiveKeeps, CallSendKeeps DEF QCall
<1>4. CASE IdleYield /\ UNCHANGED qvars
  BY <1>4, QIdleYieldKeeps
<1>5. CASE UNCHANGED allVars
  <2>1. /\ UNCHANGED <<prio, ready, top, delayed, overflow, wake, pending, next, tick, pended,
                       overflows, suspended, yieldPending, current, notify, pc, arg, last>>
        /\ UNCHANGED <<slots, writeTo, readFrom, count, rxLock, txLock, toReceive, toSend, op>>
    BY <1>5 DEF allVars, vars, lists, clock, sched, locals, qvars, storage, locks, events
  <2>2. KCore'
    BY <2>1 DEF QInv, KCore, CoreTypes, ListsExact, NoOversleep, PendingOnlySuspended,
                Placed, Sleeping
  <2>3. StorageTypes' /\ LockTypes' /\ EventTypes' /\ CallTypes' /\ RingCoherent'
    BY <2>1 DEF QInv, StorageTypes, LockTypes, EventTypes, CallTypes, RingCoherent
  <2>4. RunnerInv' /\ QIdleReady'
    BY <2>1 DEF QInv, RunnerInv, QSuspendedAlone, LocksHeld, QCurrentReady, Urgent, QIdleReady,
                Placed, Masked, Sleeping
  <2>5. QCallsSane' /\ EventListsExact' /\ SleepersLookAgain'
    BY <2>1 DEF QInv, QCallsSane, CallSane, EventListsExact, SleepersLookAgain, ComesBack,
                Sleeping
  <2>6. \A c : Coming(c)' = Coming(c) /\ Demand(c)' = Demand(c) /\ Needed(c)' = Needed(c)
               /\ LockFor(c)' = LockFor(c)
    BY <2>1 DEF Coming, LooksAgain, Sleeping, Demand, Needed, Waiters, Placing, LockFor
  <2>7. Covered'
    <3>1. CoveredFor("receive") /\ CoveredFor("send")
      BY DEF QInv, Covered
    <3> QED
      BY <3>1, <2>6 DEF Covered, CoveredFor, Owing
  <2> QED
    BY <2>2, <2>3, <2>4, <2>5, <2>7 DEF QInv
<1> QED
  BY <1>1, <1>2, <1>3, <1>4, <1>5 DEF QNext

\* The invariant holds in every reachable state.
THEOREM QInvariant == QSpec => []QInv
BY QInitEstablishes, QStepKeeps, PTL DEF QSpec

\* The queue's variables keep their types.
THEOREM QTypeCorrect == QSpec => []QTypeOK
<1>1. QInv => QTypeOK
  BY DEF QInv, QTypeOK, StorageTypes, LockTypes, EventTypes, CallTypes, CallRecord
<1> QED
  BY <1>1, QInvariant, PTL

\* No task is on two event lists, on one twice, or on one while it is awake
\* or pending, and whoever sleeps for the queue can be found by a wake-up.
THEOREM EventListsAlwaysExact == QSpec => []EventListsExact
<1>1. QInv => EventListsExact
  BY DEF QInv
<1> QED
  BY <1>1, QInvariant, PTL

\* cRxLock and cTxLock are held by the running task alone, and only while the
\* scheduler is suspended.
THEOREM LockHeldAlone == QSpec => []LockedAlone
<1>1. QInv => LockedAlone
  <2> SUFFICES ASSUME QInv PROVE LockedAlone
    OBVIOUS
  <2>1. rxLock # Unlocked \/ txLock # Unlocked =>
            suspended > 0 /\ pc[current] \in {"check", "test", "place", "unlockTx", "unlockRx"}
    BY AboutCurrent DEF LocksHeld, QRegion
  <2>2. suspended = 0 => \A t \in Task : pc[t] \notin {"lock", "check", "test", "place"}
    BY Unsuspended DEF QRegion
  <2> QED
    BY <2>1, <2>2 DEF LockedAlone
<1> QED
  BY <1>1, QInvariant, PTL

\* While the queue is unlocked nobody sleeps for an item that is there, or for
\* a place that is free, unless somebody who will look is on the way.
THEOREM NobodyEverForgotten == QSpec => []NobodyForgotten
<1>1. QInv => NobodyForgotten
  <2> SUFFICES ASSUME QInv PROVE NobodyForgotten
    OBVIOUS
  <2>1. /\ StorageTypes /\ Covered /\ QCallsSane
        /\ Length \in Nat /\ count \in Nat /\ count <= Length
    BY QueueAssumption DEF QInv, StorageTypes
  <2>2. ASSUME NEW c \in {"receive", "send"}, LockFor(c) = Unlocked, Waiters(c) # <<>>,
               Demand(c) \in Nat, Demand(c) > 0
        PROVE  Cardinality({t \in Task : Returning(t, c)}) > 0
    <3>1. Unlocked # Cardinality(Task) /\ Owing(LockFor(c)) = 0
      BY <2>2, TasksCount DEF Unlocked, Owing
    <3>2. Demand(c) <= Cardinality(Coming(c))
      <4>1. CoveredFor(c)
        BY <2>1, <2>2 DEF Covered
      <4>2. Demand(c) <= Cardinality(Coming(c)) + 0
        BY <4>1, <3>1, <2>2 DEF CoveredFor, Needed
      <4>3. Cardinality(Coming(c)) \in Nat
        BY TasksCount DEF Coming
      <4> QED
        BY <4>2, <4>3, <2>2
    <3>3. Coming(c) \subseteq {t \in Task : Returning(t, c)}
      BY <2>1, <2>2 DEF Coming, Returning, QCallsSane, CallSane
    <3>4. /\ Cardinality({t \in Task : Returning(t, c)}) \in Nat
          /\ Cardinality(Coming(c)) \in Nat
          /\ Cardinality(Coming(c)) <= Cardinality({t \in Task : Returning(t, c)})
      <4>1. IsFiniteSet({t \in Task : Returning(t, c)})
            /\ Cardinality({t \in Task : Returning(t, c)}) \in Nat
        BY TasksCount
      <4>2. Coming(c) \subseteq Task
        BY DEF Coming
      <4> QED
        BY <3>3, <4>1, <4>2, TasksCount, FS_Subset
    <3> QED
      BY <3>2, <3>4, <2>2
  <2>3. ASSUME txLock = Unlocked, toReceive # <<>>, ~Empty
        PROVE  Cardinality({t \in Task : Returning(t, "receive")}) > 0
    <3>1. LockFor("receive") = Unlocked /\ Waiters("receive") # <<>>
      BY <2>3 DEF LockFor, Waiters
    <3>2. Demand("receive") \in Nat /\ Demand("receive") > 0
      BY <2>1, <2>3 DEF Demand, Empty
    <3> QED
      BY <3>1, <3>2, <2>2
  <2>4. ASSUME rxLock = Unlocked, toSend # <<>>, ~Full
        PROVE  Cardinality({t \in Task : Returning(t, "send")}) > 0
    <3>1. LockFor("send") = Unlocked /\ Waiters("send") # <<>>
      BY <2>4 DEF LockFor, Waiters
    <3>2. Demand("send") \in Nat /\ Demand("send") > 0
      BY <2>1, <2>4 DEF Demand, Full
    <3> QED
      BY <3>1, <3>2, <2>2
  <2> QED
    BY <2>3, <2>4 DEF NobodyForgotten
<1> QED
  BY <1>1, QInvariant, PTL

\* The most urgent ready task runs with a queue between the tasks, too.
THEOREM QHighestAlwaysRuns == QSpec => []HighestRuns
<1>1. QInv => HighestRuns
  <2> SUFFICES ASSUME QInv, suspended = 0, ~Masked, pc[current] # "yield"
               PROVE  /\ current \in ready[prio[current]]
                      /\ prio[current] = Highest(top)
                      /\ ~yieldPending
    BY DEF HighestRuns
  <2>1. ~yieldPending /\ \A p \in top : p <= prio[current]
    BY DEF QInv, RunnerInv, Urgent
  <2>2. current \in ready[prio[current]]
    <3>1. pc[current] \notin QRegion /\ pc[current] # "ticks"
      BY AboutCurrent DEF Masked
    <3>2. pc[current] \notin Leaving
      BY <3>1 DEF Leaving, QRegion
    <3> QED
      BY <3>2 DEF QInv, RunnerInv, QCurrentReady, Placed
  <2>3. prio[current] \in top /\ top \in SUBSET Priority /\ prio[current] \in Priority
    BY <2>2 DEF QInv, KCore, ListsExact, CoreTypes
  <2>4. Highest(top) \in top /\ \A q \in top : q <= Highest(top)
    BY <2>3, HighestIsMaximum
  <2>5. prio[current] = Highest(top)
    <3>1. \A p, q \in Priority : p <= q /\ q <= p => p = q
      BY PriorityAssumption DEF Priority
    <3>2. Highest(top) <= prio[current] /\ prio[current] <= Highest(top)
      BY <2>1, <2>3, <2>4
    <3> QED
      BY <2>3, <2>4, <3>1, <3>2
  <2> QED
    BY <2>1, <2>2, <2>5
<1> QED
  BY <1>1, QInvariant, PTL

-----------------------------------------------------------------------------
(* The first-in first-out queue.                                           *)

\* The slot of the i-th item.
LEMMA SlotOf ==
    ASSUME NEW r \in 0..(Length - 1), NEW i \in 0..Length
    PROVE  (r + i) % Length = IF r + i < Length THEN r + i ELSE r + i - Length
<1>1. Length \in Nat /\ Length > 0 /\ r + i \in 0..(2 * Length) /\ r + i < 2 * Length
  BY QueueAssumption
<1> QED
  BY <1>1, SlotNumber

(* The items in n consecutive slots of s. *)
ItemsIn(s, r, n) == [i \in 1..n |-> s[(r + i) % Length]]

\* They are a sequence.
LEMMA SlotsSequence ==
    ASSUME NEW T, NEW s \in [0..(Length - 1) -> T], NEW r \in 0..(Length - 1),
           NEW n \in 0..Length
    PROVE  /\ ItemsIn(s, r, n) \in Seq(T) /\ Len(ItemsIn(s, r, n)) = n
           /\ \A i \in 1..n : ItemsIn(s, r, n)[i] = s[(r + i) % Length]
<1>1. Length \in Nat /\ Length > 0 /\ n \in Nat /\ n <= Length
  BY QueueAssumption
<1>2. ASSUME NEW i \in 1..n
      PROVE  s[(r + i) % Length] \in T
  <2>1. i \in 0..Length
    BY <1>1
  <2>2. (r + i) % Length \in 0..(Length - 1)
    BY <2>1, <1>1, SlotOf
  <2> QED
    BY <2>2
<1> QED
  BY <1>1, <1>2 DEF ItemsIn

\* The contents are a sequence of as many items as are counted.
LEMMA ContentsSequence ==
    ASSUME StorageTypes
    PROVE  /\ Contents \in Seq(Item \cup {"none"}) /\ Len(Contents) = count
           /\ \A i \in 1..count : Contents[i] = slots[(readFrom + i) % Length]
<1> DEFINE T == Item \cup {"none"}
<1>1. slots \in [0..(Length - 1) -> T] /\ readFrom \in 0..(Length - 1) /\ count \in 0..Length
  BY DEF StorageTypes
<1>2. Contents = ItemsIn(slots, readFrom, count)
  BY DEF Contents, ItemsIn
<1> HIDE DEF T
<1>3. /\ ItemsIn(slots, readFrom, count) \in Seq(T)
      /\ Len(ItemsIn(slots, readFrom, count)) = count
      /\ \A i \in 1..count :
             ItemsIn(slots, readFrom, count)[i] = slots[(readFrom + i) % Length]
  BY <1>1, SlotsSequence, Zenon
<1> QED
  BY <1>2, <1>3, Zenon DEF T

\* The same of the next state.
LEMMA NextContentsSequence ==
    ASSUME StorageTypes'
    PROVE  /\ Contents' \in Seq(Item \cup {"none"}) /\ Len(Contents') = count'
           /\ \A i \in 1..count' : Contents'[i] = slots'[(readFrom' + i) % Length]
<1> DEFINE T == Item \cup {"none"}
<1>1. /\ slots' \in [0..(Length - 1) -> T]
      /\ readFrom' \in 0..(Length - 1) /\ count' \in 0..Length
  BY DEF StorageTypes
<1>2. Contents' = ItemsIn(slots', readFrom', count')
  BY DEF Contents, ItemsIn
<1> HIDE DEF T
<1>3. /\ ItemsIn(slots', readFrom', count') \in Seq(T)
      /\ Len(ItemsIn(slots', readFrom', count')) = count'
      /\ \A i \in 1..count' :
             ItemsIn(slots', readFrom', count')[i] = slots'[(readFrom' + i) % Length]
  BY <1>1, SlotsSequence, Zenon
<1> QED
  BY <1>2, <1>3, Zenon DEF T

\* An item that is copied to the back comes out last, one that is copied to
\* the front comes out next, and one that overwrites is the only one.
LEMMA CopyInSimulates ==
    ASSUME StorageTypes, RingCoherent, NEW item \in Item, NEW position \in Positions,
           Fits(position), CopyDataToQueue(item, position)
    PROVE  Promise!Next
<1> DEFINE T == Item \cup {"none"}
<1>1. /\ Length \in Nat /\ Length > 0 /\ count \in Nat /\ count <= Length
      /\ position \in {"back", "front", "overwrite"}
      /\ position = "overwrite" => Length = 1
      /\ position # "overwrite" => count < Length
      /\ readFrom \in 0..(Length - 1) /\ writeTo \in 0..(Length - 1)
      /\ slots \in [0..(Length - 1) -> T] /\ item \in T
  BY QueueAssumption DEF Fits, Full, StorageTypes
<1>2. StorageTypes'
  BY CopyInKeeps
<1>3. /\ Contents \in Seq(T) /\ Len(Contents) = count
      /\ \A i \in 1..count : Contents[i] = slots[(readFrom + i) % Length]
  BY ContentsSequence
<1>4. /\ Contents' \in Seq(T) /\ Len(Contents') = count'
      /\ \A i \in 1..count' : Contents'[i] = slots'[(readFrom' + i) % Length]
  BY <1>2, NextContentsSequence
<1>5. CASE position = "back"
  <2>1. /\ slots' = [slots EXCEPT ![writeTo] = item]
        /\ readFrom' = readFrom /\ count' = count + 1 /\ count < Length
    BY <1>1, <1>5 DEF CopyDataToQueue
  <2>2. Append(Contents, item) \in Seq(T) /\ Len(Append(Contents, item)) = count + 1
        /\ \A i \in 1..count : Append(Contents, item)[i] = Contents[i]
        /\ Append(Contents, item)[count + 1] = item
    BY <1>1, <1>3
  <2>3. ASSUME NEW i \in 1..(count + 1) PROVE Contents'[i] = Append(Contents, item)[i]
    <3>1. /\ i \in 0..Length /\ count + 1 \in 0..Length /\ i \in 1..count'
          /\ writeTo = (readFrom + (count + 1)) % Length
      BY <1>1, <2>1 DEF RingCoherent
    <3>2. Contents'[i] = slots'[(readFrom + i) % Length]
          /\ (readFrom + i) % Length \in 0..(Length - 1)
      BY <1>1, <1>4, <2>1, <3>1, SlotOf
    <3>3. CASE i = count + 1
      BY <3>1, <3>2, <3>3, <1>1, <2>1, <2>2
    <3>4. CASE i # count + 1
      <4>1. i \in 1..count
        BY <3>4, <1>1
      <4>2. (readFrom + i) % Length # writeTo
        <5>1. /\ (readFrom + i) % Length = IF readFrom + i < Length THEN readFrom + i
                                                ELSE readFrom + i - Length
              /\ (readFrom + (count + 1)) % Length =
                     IF readFrom + (count + 1) < Length THEN readFrom + (count + 1)
                     ELSE readFrom + (count + 1) - Length
          BY <3>1, <1>1, SlotOf
        <5> QED
          BY <5>1, <3>1, <4>1, <1>1, <2>1
      <4> QED
        BY <3>2, <4>1, <4>2, <1>1, <1>3, <2>1, <2>2
    <3> QED
      BY <3>3, <3>4
  <2>4. Contents' = Append(Contents, item)
    BY <1>4, <2>1, <2>2, <2>3, SeqEqual
  <2> QED
    BY <2>1, <2>4, <1>3 DEF Promise!Next, Promise!SendToBack
<1>6. CASE position = "front"
  <2>1. /\ slots' = [slots EXCEPT ![readFrom] = item]
        /\ readFrom' = (IF readFrom = 0 THEN Length - 1 ELSE readFrom - 1)
        /\ count' = count + 1 /\ count < Length
    BY <1>1, <1>6 DEF CopyDataToQueue
  <2>2. /\ <<item>> \o Contents \in Seq(T) /\ Len(<<item>> \o Contents) = count + 1
        /\ \A i \in 1..(count + 1) :
               (<<item>> \o Contents)[i] = IF i = 1 THEN item ELSE Contents[i - 1]
    <3>1. <<item>> \in Seq(T) /\ Len(<<item>>) = 1 /\ <<item>>[1] = item
      BY <1>1
    <3> HIDE DEF T, Contents
    <3> QED
      BY <3>1, <1>1, <1>3, ConcatProperties
  <2>3. ASSUME NEW i \in 1..(count + 1) PROVE Contents'[i] = (<<item>> \o Contents)[i]
    <3>1. /\ i \in 0..Length /\ i - 1 \in 0..Length /\ i \in 1..count'
          /\ readFrom' \in 0..(Length - 1)
      BY <1>1, <2>1
    <3>2. (readFrom' + i) % Length = (readFrom + (i - 1)) % Length
      BY <3>1, <1>1, <2>1, SlotOf
    <3>3. /\ Contents'[i] = slots'[(readFrom + (i - 1)) % Length]
          /\ (readFrom + (i - 1)) % Length \in 0..(Length - 1)
          /\ (readFrom + (i - 1)) % Length =
                 IF readFrom + (i - 1) < Length THEN readFrom + (i - 1)
                 ELSE readFrom + (i - 1) - Length
      <4>1. Contents'[i] = slots'[(readFrom + (i - 1)) % Length]
        BY <1>4, <3>1, <3>2
      <4>2. (readFrom + (i - 1)) % Length =
                IF readFrom + (i - 1) < Length THEN readFrom + (i - 1)
                ELSE readFrom + (i - 1) - Length
        BY <1>1, <3>1, SlotOf
      <4>3. (readFrom + (i - 1)) % Length \in 0..(Length - 1)
        BY <4>2, <1>1, <3>1
      <4> QED
        BY <4>1, <4>2, <4>3
    <3>4. CASE i = 1
      <4>1. (readFrom + (i - 1)) % Length = readFrom
        BY <3>3, <3>4, <1>1
      <4> QED
        BY <4>1, <3>3, <3>4, <1>1, <2>1, <2>2
    <3>5. CASE i # 1
      <4>1. i - 1 \in 1..count
        BY <3>5, <1>1
      <4>2. (readFrom + (i - 1)) % Length # readFrom
        BY <4>1, <3>3, <1>1, <2>1
      <4>3. Contents'[i] = slots[(readFrom + (i - 1)) % Length]
        BY <3>3, <4>2, <1>1, <2>1
      <4>4. Contents[i - 1] = slots[(readFrom + (i - 1)) % Length]
        BY <4>1, <1>3
      <4> QED
        BY <4>3, <4>4, <3>5, <2>2
    <3> QED
      BY <3>4, <3>5
  <2>4. Contents' = <<item>> \o Contents
    BY <1>4, <2>1, <2>2, <2>3, SeqEqual
  <2> QED
    BY <2>1, <2>4, <1>3 DEF Promise!Next, Promise!SendToFront
<1>7. CASE position = "overwrite"
  <2>1. Length = 1 /\ readFrom = 0 /\ count' = 1 /\ slots' = [slots EXCEPT ![0] = item]
    BY <1>1, <1>7 DEF CopyDataToQueue
  <2>2. Contents'[1] = item
    <3>1. readFrom' \in 0..(Length - 1) /\ 1 \in 0..Length /\ 1 \in 1..count'
      BY <2>1, <1>2 DEF StorageTypes
    <3>2. (readFrom' + 1) % Length = 0
      BY <3>1, <2>1, SlotOf
    <3> QED
      BY <3>1, <3>2, <2>1, <1>1, <1>4
  <2>3. <<item>> \in Seq(T) /\ Len(<<item>>) = 1 /\ <<item>>[1] = item
    BY <1>1
  <2>4. Contents' = <<item>>
    BY <2>1, <2>2, <2>3, <1>4, SeqEqual
  <2> QED
    BY <2>1, <2>4 DEF Promise!Next, Promise!Overwrite
<1> QED
  BY <1>1, <1>5, <1>6, <1>7

\* The item that is copied out is the first.
LEMMA CopyOutSimulates ==
    ASSUME StorageTypes, RingCoherent, ~Empty, CopyDataFromQueue
    PROVE  Promise!Next
<1> DEFINE T == Item \cup {"none"}
<1>1. /\ Length \in Nat /\ Length > 0 /\ count \in Nat /\ count <= Length /\ count > 0
      /\ readFrom \in 0..(Length - 1)
      /\ readFrom' = (readFrom + 1) % Length /\ count' = count - 1 /\ slots' = slots
  BY QueueAssumption DEF Empty, StorageTypes, CopyDataFromQueue
<1>2. StorageTypes'
  BY CopyOutKeeps
<1>3. /\ Contents \in Seq(T) /\ Len(Contents) = count
      /\ \A i \in 1..count : Contents[i] = slots[(readFrom + i) % Length]
  BY ContentsSequence
<1>4. /\ Contents' \in Seq(T) /\ Len(Contents') = count'
      /\ \A i \in 1..count' : Contents'[i] = slots'[(readFrom' + i) % Length]
  BY <1>2, NextContentsSequence
<1>5. /\ Contents # <<>>
      /\ Tail(Contents) \in Seq(T) /\ Len(Tail(Contents)) = count - 1
      /\ \A i \in 1..(count - 1) : Tail(Contents)[i] = Contents[i + 1]
  <2> HIDE DEF T, Contents
  <2> QED
    BY <1>1, <1>3
<1>6. ASSUME NEW i \in 1..(count - 1) PROVE Contents'[i] = Tail(Contents)[i]
  <2>1. i \in 0..Length /\ 1 \in 0..Length /\ i + 1 \in 0..Length /\ i + 1 \in 1..count
        /\ readFrom' \in 0..(Length - 1) /\ i \in 1..count'
    BY <1>1, <1>2 DEF StorageTypes
  <2>2. (readFrom' + i) % Length = (readFrom + (i + 1)) % Length
    BY <2>1, <1>1, SlotOf
  <2> QED
    BY <2>1, <2>2, <1>1, <1>3, <1>4, <1>5
<1>7. Contents' = Tail(Contents)
  BY <1>1, <1>4, <1>5, <1>6, SeqEqual
<1> QED
  BY <1>5, <1>7 DEF Promise!Next, Promise!Receive

\* Every step is one of Fifo or leaves the contents alone.
LEMMA QStepSimulatesFifo == QInv /\ [QNext]_allVars => [Promise!Next]_Contents
<1> SUFFICES ASSUME QInv, [QNext]_allVars PROVE [Promise!Next]_Contents
  OBVIOUS
<1>1. StorageTypes /\ RingCoherent
  BY DEF QInv
<1>2. CASE UNCHANGED storage
  BY <1>2 DEF storage, Contents
<1>3. CASE xQueueReceiveFromISR \/ ReceiveItem
  BY <1>1, <1>3, CopyOutSimulates DEF xQueueReceiveFromISR, ReceiveItem
<1>4. CASE \E item \in Item, position \in Positions : xQueueGenericSendFromISR(item, position)
  BY <1>1, <1>4, CopyInSimulates DEF xQueueGenericSendFromISR
<1>5. CASE SendItem
  <2> DEFINE item == op[current].item
             position == op[current].position
  <2>1. /\ Fits(position) /\ CopyDataToQueue(item, position)
        /\ item \in Item /\ position \in Positions
    BY <1>5, AboutCurrent DEF SendItem, Op, CallSane
  <2> HIDE DEF item, position
  <2> QED
    BY <2>1, <1>1, CopyInSimulates
<1>6. CASE Handler
  <2>1. QTickIsr \/ (TickIsrSuspended /\ UNCHANGED qvars) => UNCHANGED storage
    BY DEF QTickIsr, qvars
  <2> QED
    BY <2>1, <1>2, <1>3, <1>4, <1>6 DEF Handler
<1>7. CASE QInside
  <2>1. GiveUp \/ GetReadyToWait \/ LockQueue \/ CheckForTimeOut \/ TestQueue => UNCHANGED storage
    BY DEF GiveUp, GetReadyToWait, LockQueue, CheckForTimeOut, TestQueue
  <2>2. PlaceOnEventList \/ UnlockTx \/ UnlockRx => UNCHANGED storage
    BY DEF PlaceOnEventList, UnlockTx, UnlockRx
  <2>3. QResumeTick \/ QResumeEnd \/ ReceiveExpired \/ UNCHANGED qvars => UNCHANGED storage
    BY DEF QResumeTick, QResumeEnd, ReceiveExpired, qvars
  <2> QED
    BY <2>1, <2>2, <2>3, <1>2, <1>3, <1>5, <1>7 DEF QInside
<1>8. CASE QCall
  BY <1>2, <1>8 DEF QCall, CallReceive, CallSend
<1>9. CASE (IdleYield /\ UNCHANGED qvars) \/ UNCHANGED allVars
  BY <1>2, <1>9 DEF qvars, allVars
<1> QED
  BY <1>6, <1>7, <1>8, <1>9 DEF QNext

\* The ring of slots is a first-in first-out queue with two ends to put in,
\* for tasks and handlers alike.
THEOREM QueueImplementsFifo == QSpec => ImplementsFifo
<1>1. QInit => Promise!Init
  <2> SUFFICES ASSUME QInit PROVE Contents = <<>>
    BY DEF Promise!Init
  <2>1. StorageTypes /\ count = 0
    BY QInitEstablishes DEF QInv, QInit
  <2>2. Contents \in Seq(Item \cup {"none"}) /\ Len(Contents) = 0
    BY <2>1, ContentsSequence
  <2> HIDE DEF Contents
  <2> QED
    BY <2>2
<1> QED
  BY <1>1, QInvariant, QStepSimulatesFifo, PTL DEF QSpec, ImplementsFifo, Promise!Spec

-----------------------------------------------------------------------------
(* The waits.                                                              *)

\* A wake-up of the first of a list is Alarms' Wake, or none of its steps.
LEMMA WakeFirstIsWake ==
    ASSUME QInv, NEW list, list = toReceive \/ list = toSend, WakeFirst(list),
           UNCHANGED <<prio, clock>>
    PROVE  [Alarm!Next]_(Alarm!vars)
<1>1. CoreTypes /\ ListsExact /\ NoOversleep /\ UNCHANGED <<tick, pended>>
  BY DEF QInv, KCore, clock
<1>2. list # <<>> => Head(list) \in Task
  BY RestProperties DEF QInv, EventTypes, EventListsExact
<1>3. CASE list # <<>> /\ suspended = 0
  <2>1. PICK h \in Task : h = Head(list)
    BY <1>2, <1>3
  <2>2. MakeReady({h}) /\ delayed' = delayed \ {h} /\ overflow' = overflow \ {h}
    BY <2>1, <1>3 DEF WakeFirst, Unblock
  <2>3. {h} \in SUBSET Task /\ \A u \in Task \ {h} : wake'[u] = wake[u]
    BY <2>2 DEF MakeReady
  <2> QED
    BY <2>2, <2>3, <1>1, LeavingIsWake DEF Alarm!Next
<1>4. CASE ~(list # <<>> /\ suspended = 0)
  <2>1. UNCHANGED <<delayed, overflow, wake>>
    BY <1>4 DEF WakeFirst, Unblock, lists
  <2> QED
    BY <2>1, <1>1, NothingLeaves
<1> QED
  BY <1>3, <1>4

\* Every step of the queue is a step of Alarms or leaves its variables alone.
LEMMA QStepSimulatesAlarms == QInv /\ [QNext]_allVars => [Alarm!Next]_(Alarm!vars)
<1> SUFFICES ASSUME QInv, [QNext]_allVars PROVE [Alarm!Next]_(Alarm!vars)
  OBVIOUS
<1>1. KCore /\ CoreTypes /\ ListsExact /\ NoOversleep
  BY DEF QInv, KCore
<1>2. CASE UNCHANGED <<delayed, overflow, wake, tick, pended>>
  BY <1>2, NothingLeaves
<1>3. CASE QTickIsr
  <2>1. CountTick /\ prio' = prio /\ pended' = pended
    BY <1>3 DEF QTickIsr, TickIsr
  <2> QED
    BY <2>1, <1>1, CountTickIsElapse DEF Alarm!Next, Alarm!Tick
<1>4. CASE TickIsrSuspended
  <2>1. UNCHANGED <<delayed, overflow, wake, tick>> /\ pended' = pended + 1
    BY <1>4 DEF TickIsrSuspended, lists
  <2>2. Alarm!Owe
    BY <2>1 DEF TicksLeft, Alarm!Owe
  <2> QED
    BY <2>2 DEF Alarm!Next
<1>5. ASSUME NEW item \in Item, NEW position \in Positions,
             xQueueGenericSendFromISR(item, position)
      PROVE  [Alarm!Next]_(Alarm!vars)
  <2>1. CASE txLock = Unlocked
    <3>1. WakeFirst(toReceive) /\ UNCHANGED <<prio, clock>>
      BY <2>1, <1>5 DEF xQueueGenericSendFromISR
    <3> QED
      BY <3>1, WakeFirstIsWake
  <2>2. CASE txLock # Unlocked
    BY <2>2, <1>2, <1>5 DEF xQueueGenericSendFromISR, lists, clock
  <2> QED
    BY <2>1, <2>2
<1>6. CASE xQueueReceiveFromISR
  <2>1. CASE rxLock = Unlocked
    <3>1. WakeFirst(toSend) /\ UNCHANGED <<prio, clock>>
      BY <2>1, <1>6 DEF xQueueReceiveFromISR
    <3> QED
      BY <3>1, WakeFirstIsWake
  <2>2. CASE rxLock # Unlocked
    BY <2>2, <1>2, <1>6 DEF xQueueReceiveFromISR, lists, clock
  <2> QED
    BY <2>1, <2>2
<1>7. CASE ReceiveItem
  <2>1. WakeFirst(toSend) /\ UNCHANGED <<prio, clock>>
    BY <1>7 DEF ReceiveItem
  <2> QED
    BY <2>1, WakeFirstIsWake
<1>8. CASE SendItem
  <2>1. WakeFirst(toReceive) /\ UNCHANGED <<prio, clock>>
    BY <1>8 DEF SendItem
  <2> QED
    BY <2>1, WakeFirstIsWake
<1>9. CASE PlaceOnEventList
  <2>1. /\ pc[current] = "place" /\ AddCurrentToDelayed(op[current].wait)
        /\ UNCHANGED <<prio, pending, tick, pended, overflows>>
    BY <1>9 DEF PlaceOnEventList, Op
  <2>2. op[current].wait \in Time /\ op[current].wait > 0 /\ Placed(current)
    BY <2>1, AboutCurrent, RunningIsPlaced DEF CallSane, Leaving, Blocking, CallRecord
  <2> QED
    BY <2>1, <2>2, <1>1, JoiningIsSleep DEF Alarm!Next
<1>10. CASE ResumePending
  <2>1. /\ MakeReady(pending) /\ pending \in SUBSET Task
        /\ delayed' = delayed \ pending /\ overflow' = overflow \ pending
        /\ UNCHANGED <<tick, pended>>
    BY <1>1, <1>10 DEF ResumePending, CoreTypes
  <2>2. \A t \in Task \ pending : wake'[t] = wake[t]
    BY <2>1 DEF MakeReady
  <2> QED
    BY <2>1, <2>2, <1>1, LeavingIsWake DEF Alarm!Next
<1>11. CASE QResumeTick
  <2>1. CountTick /\ prio' = prio /\ pended > 0 /\ pended' = pended - 1
    BY <1>11 DEF QResumeTick, ResumeTick
  <2> QED
    BY <2>1, <1>1, CountTickIsElapse DEF Alarm!Next, Alarm!CatchUp
<1>12. GiveUp \/ GetReadyToWait \/ LockQueue \/ CheckForTimeOut \/ TestQueue
          \/ UnlockTx \/ UnlockRx \/ ReceiveExpired \/ QCall
       => UNCHANGED <<delayed, overflow, wake, tick, pended>>
  BY DEF GiveUp, GetReadyToWait, LockQueue, CheckForTimeOut, TestQueue, UnlockTx, UnlockRx,
         ReceiveExpired, QCall, CallReceive, CallSend, lists, clock
<1>13. SuspendLoad \/ SuspendStore("lock") \/ QResumeEnd \/ Yield("try") \/ IdleYield
          \/ UNCHANGED allVars
       => UNCHANGED <<delayed, overflow, wake, tick, pended>>
  BY DEF SuspendLoad, SuspendStore, QResumeEnd, ResumeEnd, Yield, IdleYield, allVars, vars,
         lists, clock
<1>14. CASE Handler
  BY <1>3, <1>4, <1>5, <1>6, <1>14 DEF Handler
<1>15. CASE QInside
  BY <1>2, <1>7, <1>8, <1>9, <1>10, <1>11, <1>12, <1>13, <1>15 DEF QInside
<1> QED
  BY <1>2, <1>12, <1>13, <1>14, <1>15 DEF QNext

\* The waits of a queue's callers end after exactly their ticks, or before by
\* an event, as the waits of every other call do.
THEOREM QueueImplementsAlarms == QSpec => ImplementsAlarms
<1>1. QInit => Alarm!Init
  BY DEF QInit, Init, Alarm!Init, TicksLeft
<1> QED
  BY <1>1, QInvariant, QStepSimulatesAlarms, PTL DEF QSpec, ImplementsAlarms, Alarm!Spec

-----------------------------------------------------------------------------
(* The timeouts.                                                           *)

(* What a call has noted of the time is not later than now, as long as     *)
(* xNumOfOverflows has not come round.                                     *)
NotesPast ==
    \A t \in Task :
        /\ pc[t] \in Blocking => op[t].set
        /\ op[t].set => op[t].over < overflows \/ (op[t].over = overflows /\ op[t].enter <= tick)

\* Time passes.
LEMMA TimePasses ==
    ASSUME QInv, UNCHANGED <<tick, overflows>> \/ CountTick, overflows <= overflows',
           OverflowModulus > 1
    PROVE  /\ tick \in Time /\ tick' \in Time /\ overflows \in Nat /\ overflows' \in Nat
           /\ overflows < overflows' \/ (overflows = overflows' /\ tick <= tick')
<1>1. /\ tick \in Time /\ overflows \in 0..(OverflowModulus - 1)
      /\ TickModulus \in Nat /\ TickModulus > 1
      /\ OverflowModulus \in Nat /\ OverflowModulus > 1
  BY TimeAssumption, AboutCurrent
<1>2. CASE UNCHANGED <<tick, overflows>>
  BY <1>1, <1>2 DEF Time
<1>3. CASE CountTick
  <2>1. tick' = TickCount
        /\ overflows' = IF Wraps THEN (overflows + 1) % OverflowModulus ELSE overflows
    BY <1>3 DEF CountTick
  <2>2. /\ tick + 1 < TickModulus => TickCount = tick + 1
        /\ tick + 1 >= TickModulus => TickCount = tick + 1 - TickModulus
        /\ TickCount \in Time
    <3>1. 1 \in Time
      BY <1>1 DEF Time
    <3> QED
      BY <3>1, <1>1, TimeSum DEF TickCount
  <2>3. CASE Wraps
    <3>1. CASE overflows + 1 < OverflowModulus
      <4>1. overflows' = overflows + 1
        BY <3>1, <2>1, <2>3, <1>1
      <4> QED
        BY <4>1, <2>1, <2>2, <1>1
    <3>2. CASE overflows + 1 = OverflowModulus
      <4>1. overflows' = 0 /\ overflows > 0
        BY <3>2, <2>1, <2>3, <1>1
      <4> QED
        BY <4>1, <1>1
    <3> QED
      BY <3>1, <3>2, <1>1
  <2>4. CASE ~Wraps
    BY <2>1, <2>2, <2>4, <1>1, TimeAssumption DEF Wraps, Time
  <2> QED
    BY <2>3, <2>4
<1> QED
  BY <1>2, <1>3

\* A step leaves what a call has noted, forgets it, or notes the time anew.
NoteStays(t) ==
    \/ /\ op'[t].set = op[t].set /\ op'[t].over = op[t].over /\ op'[t].enter = op[t].enter
       /\ pc'[t] \in Blocking => op'[t].set \/ pc[t] \in Blocking
    \/ ~op'[t].set /\ pc'[t] \notin Blocking
    \/ op'[t].set /\ op'[t].over = overflows /\ op'[t].enter = tick

\* The running task goes on to label with the locals o.
LEMMA NoteOfCurrent ==
    ASSUME QInv, NEW o, op' = [op EXCEPT ![current] = o],
           NEW label, pc' = [pc EXCEPT ![current] = label],
           \/ /\ o.set = op[current].set /\ o.over = op[current].over
              /\ o.enter = op[current].enter
              /\ label \in Blocking => o.set \/ pc[current] \in Blocking
           \/ ~o.set /\ label \notin Blocking
           \/ o.set /\ o.over = overflows /\ o.enter = tick
    PROVE  \A t \in Task : NoteStays(t)
<1>1. current \in Task /\ pc \in [Task -> QLabel] /\ op \in [Task -> CallRecord]
  BY AboutCurrent
<1>2. /\ op'[current] = o /\ pc'[current] = label
      /\ \A t \in Task \ {current} : op'[t] = op[t] /\ pc'[t] = pc[t]
  BY <1>1
<1>3. NoteStays(current)
  BY <1>2 DEF NoteStays
<1>4. \A t \in Task \ {current} : NoteStays(t)
  BY <1>2 DEF NoteStays
<1> QED
  BY <1>3, <1>4

\* No step notes a time that is not yet.
LEMMA NotesStay ==
    ASSUME QInv, NotesPast, [QNext]_allVars
    PROVE  /\ \A t \in Task : NoteStays(t)
           /\ UNCHANGED <<tick, overflows>> \/ CountTick
<1> DEFINE o == op[current]
           Noted == \A t \in Task : NoteStays(t)
<1>1. /\ o \in CallRecord /\ current \in Task
      /\ pc \in [Task -> QLabel] /\ op \in [Task -> CallRecord]
  BY AboutCurrent
<1>2. UNCHANGED <<pc, op>> => Noted
  BY DEF NoteStays
<1>3. ASSUME NEW label, Goto(label), UNCHANGED op,
             label \in Blocking => pc[current] \in Blocking
      PROVE  Noted
  <2>1. op' = [op EXCEPT ![current] = o] /\ pc' = [pc EXCEPT ![current] = label]
    BY <1>1, <1>3 DEF Goto
  <2> HIDE DEF o
  <2> QED
    BY <2>1, <1>3, NoteOfCurrent DEF o
<1>4. ASSUME NEW label, Goto(label), SetOp(NoOp), label \notin Blocking
      PROVE  Noted
  <2> DEFINE new == NoOp
  <2>1. ~new.set
    BY DEF NoOp
  <2>2. op' = [op EXCEPT ![current] = new] /\ pc' = [pc EXCEPT ![current] = label]
    BY <1>4 DEF SetOp, Goto
  <2> HIDE DEF new
  <2> QED
    BY <2>1, <2>2, <1>4, NoteOfCurrent
<1>5. ASSUME NEW label, Goto(label), NEW then, SetOp([o EXCEPT !.then = then]),
             label \notin Blocking
      PROVE  Noted
  <2>1. /\ [o EXCEPT !.then = then].set = o.set /\ [o EXCEPT !.then = then].over = o.over
        /\ [o EXCEPT !.then = then].enter = o.enter
    BY <1>1 DEF CallRecord
  <2> QED
    BY <2>1, <1>5, NoteOfCurrent DEF Goto, SetOp
<1>6. Handler => Noted
  BY <1>2 DEF Handler, QTickIsr, TickIsr, TickIsrSuspended, xQueueReceiveFromISR,
              xQueueGenericSendFromISR, qvars, locals
<1>7. ASSUME NEW n \in Waits, CallReceive(n) PROVE Noted
  <2> DEFINE new == [NoOp EXCEPT !.call = "receive", !.wait = n]
  <2>1. ~new.set /\ "try" \notin Blocking
    BY DEF NoOp, Blocking
  <2>2. op' = [op EXCEPT ![current] = new] /\ pc' = [pc EXCEPT ![current] = "try"]
    BY <1>7 DEF CallReceive, SetOp, Goto
  <2> HIDE DEF new
  <2> QED
    BY <2>1, <2>2, NoteOfCurrent
<1>8. ASSUME NEW n \in Waits, NEW item \in Item, NEW position \in Positions,
             CallSend(item, position, n)
      PROVE  Noted
  <2> DEFINE new == [NoOp EXCEPT !.call = "send", !.wait = n,
                                 !.item = item, !.position = position]
  <2>1. ~new.set /\ "try" \notin Blocking
    BY DEF NoOp, Blocking
  <2>2. op' = [op EXCEPT ![current] = new] /\ pc' = [pc EXCEPT ![current] = "try"]
    BY <1>8 DEF CallSend, SetOp, Goto
  <2> HIDE DEF new
  <2> QED
    BY <2>1, <2>2, NoteOfCurrent
<1>9. ReceiveItem \/ SendItem \/ GiveUp => Noted
  <2>1. ReceiveItem \/ SendItem \/ GiveUp => Goto("run") /\ SetOp(NoOp)
    BY DEF ReceiveItem, SendItem, GiveUp
  <2> QED
    BY <2>1, <1>4 DEF Blocking
<1>10. GetReadyToWait => Noted
  <2> SUFFICES ASSUME GetReadyToWait PROVE Noted
    OBVIOUS
  <2>1. CASE o.set
    <3>1. op' = [op EXCEPT ![current] = o] /\ pc' = [pc EXCEPT ![current] = "suspend"]
      BY <2>1 DEF GetReadyToWait, SetOp, Goto, Op
    <3> HIDE DEF o
    <3> QED
      BY <2>1, <3>1, NoteOfCurrent DEF o
  <2>2. CASE ~o.set
    <3> DEFINE new == [o EXCEPT !.set = TRUE, !.enter = tick, !.over = overflows]
    <3>1. op' = [op EXCEPT ![current] = new] /\ pc' = [pc EXCEPT ![current] = "suspend"]
      BY <2>2 DEF GetReadyToWait, SetOp, Goto, Op
    <3>2. new.set /\ new.over = overflows /\ new.enter = tick
      BY <1>1 DEF CallRecord
    <3> HIDE DEF new
    <3> QED
      BY <3>1, <3>2, NoteOfCurrent
  <2> QED
    BY <2>1, <2>2
<1>11. CheckForTimeOut => Noted
  <2> SUFFICES ASSUME CheckForTimeOut PROVE Noted
    OBVIOUS
  <2>1. CASE TimedOut(Op)
    <3> DEFINE new == [o EXCEPT !.wait = 0, !.then = "expired"]
    <3>1. op' = [op EXCEPT ![current] = new] /\ pc' = [pc EXCEPT ![current] = "unlockTx"]
      BY <2>1 DEF CheckForTimeOut, SetOp, Goto, Op
    <3>2. new.set = o.set /\ new.over = o.over /\ new.enter = o.enter
      BY <1>1 DEF CallRecord
    <3>3. "unlockTx" \notin Blocking
      BY DEF Blocking
    <3> HIDE DEF new
    <3> QED
      BY <3>1, <3>2, <3>3, NoteOfCurrent
  <2>2. CASE ~TimedOut(Op)
    <3> DEFINE left == o.wait - Elapsed(o)
               new == [o EXCEPT !.wait = left, !.enter = tick, !.over = overflows]
    <3>1. op' = [op EXCEPT ![current] = new] /\ pc' = [pc EXCEPT ![current] = "test"]
      BY <2>2 DEF CheckForTimeOut, SetOp, Goto, Op
    <3>2. o.set
      BY <1>1 DEF CheckForTimeOut, NotesPast, Blocking
    <3> HIDE DEF left
    <3>3. new.set /\ new.over = overflows /\ new.enter = tick
      BY <3>2, <1>1 DEF CallRecord
    <3> HIDE DEF new
    <3> QED
      BY <3>1, <3>3, NoteOfCurrent
  <2> QED
    BY <2>1, <2>2
<1>12. TestQueue => Noted
  <2> SUFFICES ASSUME TestQueue PROVE Noted
    OBVIOUS
  <2>1. \/ Goto("place") /\ UNCHANGED op
        \/ SetOp([o EXCEPT !.then = "again"]) /\ Goto("unlockTx")
    BY DEF TestQueue, Op
  <2>2. pc[current] = "test"
    BY DEF TestQueue
  <2> HIDE DEF o, Noted
  <2> QED
    BY <2>1, <2>2, <1>3, <1>5 DEF Blocking
<1>13. PlaceOnEventList => Noted
  <2> SUFFICES ASSUME PlaceOnEventList PROVE Noted
    OBVIOUS
  <2>1. SetOp([o EXCEPT !.then = "blocked"]) /\ Goto("unlockTx")
    BY DEF PlaceOnEventList, Op
  <2> HIDE DEF o, Noted
  <2> QED
    BY <2>1, <1>5 DEF Blocking
<1>14. QResumeEnd => Noted
  <2> SUFFICES ASSUME QResumeEnd PROVE Noted
    OBVIOUS
  <2>1. PICK label \in {"try", "yield", "expired", "run"} : Goto(label)
    BY DEF QResumeEnd, ResumeEnd
  <2>2. SetOp(NoOp) \/ SetOp([o EXCEPT !.then = "none"])
    BY DEF QResumeEnd, Op
  <2>3. label \notin Blocking
    BY <2>1 DEF Blocking
  <2> HIDE DEF o, Noted
  <2> QED
    BY <2>1, <2>2, <2>3, <1>4, <1>5
<1>15. ReceiveExpired => Noted
  <2> SUFFICES ASSUME ReceiveExpired PROVE Noted
    OBVIOUS
  <2>1. (SetOp(NoOp) /\ Goto("run")) \/ (Goto("try") /\ UNCHANGED op)
    BY DEF ReceiveExpired
  <2> HIDE DEF o, Noted
  <2> QED
    BY <2>1, <1>3, <1>4 DEF Blocking
<1>16. (SuspendLoad \/ SuspendStore("lock")) /\ UNCHANGED qvars => Noted
  <2> SUFFICES ASSUME (SuspendLoad \/ SuspendStore("lock")) /\ UNCHANGED qvars PROVE Noted
    OBVIOUS
  <2>1. UNCHANGED op /\ pc[current] \in Blocking /\ (Goto("suspendStore") \/ Goto("lock"))
    BY DEF SuspendLoad, SuspendStore, qvars, Blocking
  <2> HIDE DEF o, Noted
  <2> QED
    BY <2>1, <1>3
<1>17. LockQueue => Noted
  <2> SUFFICES ASSUME LockQueue PROVE Noted
    OBVIOUS
  <2>1. UNCHANGED op /\ pc[current] \in Blocking /\ Goto("check")
    BY DEF LockQueue, Blocking
  <2> HIDE DEF o, Noted
  <2> QED
    BY <2>1, <1>3
<1>18. UnlockTx \/ UnlockRx \/ (ResumePending /\ UNCHANGED qvars)
          \/ (Yield("try") /\ UNCHANGED qvars)
       => Noted
  <2>1. UnlockTx \/ UnlockRx \/ (ResumePending /\ UNCHANGED qvars)
          \/ (Yield("try") /\ UNCHANGED qvars)
        => UNCHANGED op /\ (Goto("unlockRx") \/ Goto("resume") \/ Goto("ticks") \/ Goto("try"))
    BY DEF UnlockTx, UnlockRx, ResumePending, Yield, qvars
  <2> HIDE DEF o, Noted
  <2> QED
    BY <2>1, <1>3 DEF Blocking
<1>19. QResumeTick \/ (IdleYield /\ UNCHANGED qvars) \/ UNCHANGED allVars => Noted
  <2>1. QResumeTick \/ (IdleYield /\ UNCHANGED qvars) \/ UNCHANGED allVars
        => UNCHANGED <<pc, op>>
    BY DEF QResumeTick, ResumeTick, IdleYield, allVars, vars, qvars, locals
  <2> HIDE DEF o, Noted
  <2> QED
    BY <2>1, <1>2
<1>20. Noted
  <2> HIDE DEF o, Noted
  <2> QED
    BY <1>6, <1>7, <1>8, <1>9, <1>10, <1>11, <1>12, <1>13, <1>14, <1>15, <1>16, <1>17, <1>18,
       <1>19 DEF QNext, QInside, QCall
<1>21. UNCHANGED <<tick, overflows>> \/ CountTick
  <2>1. Handler => UNCHANGED <<tick, overflows>> \/ CountTick
    BY DEF Handler, QTickIsr, TickIsr, TickIsrSuspended, xQueueReceiveFromISR,
           xQueueGenericSendFromISR, clock
  <2>2. QInside => UNCHANGED <<tick, overflows>> \/ CountTick
    <3>1. ReceiveItem \/ SendItem \/ GiveUp \/ GetReadyToWait \/ LockQueue \/ CheckForTimeOut
          => UNCHANGED <<tick, overflows>>
      BY DEF ReceiveItem, SendItem, GiveUp, GetReadyToWait, LockQueue, CheckForTimeOut, clock
    <3>2. TestQueue \/ PlaceOnEventList \/ UnlockTx \/ UnlockRx \/ ReceiveExpired
          => UNCHANGED <<tick, overflows>>
      BY DEF TestQueue, PlaceOnEventList, UnlockTx, UnlockRx, ReceiveExpired, clock
    <3>3. SuspendLoad \/ SuspendStore("lock") \/ ResumePending \/ Yield("try") \/ QResumeEnd
          => UNCHANGED <<tick, overflows>>
      BY DEF SuspendLoad, SuspendStore, ResumePending, Yield, QResumeEnd, ResumeEnd, clock
    <3>4. QResumeTick => CountTick
      BY DEF QResumeTick, ResumeTick
    <3> QED
      BY <3>1, <3>2, <3>3, <3>4 DEF QInside
  <2>3. QCall \/ IdleYield \/ UNCHANGED allVars => UNCHANGED <<tick, overflows>>
    BY DEF QCall, CallReceive, CallSend, IdleYield, allVars, vars, clock
  <2> QED
    BY <2>1, <2>2, <2>3 DEF QNext
<1> QED
  BY <1>20, <1>21

\* A step keeps every note in the past.
LEMMA NotesPastStays ==
    ASSUME QInv, NotesPast, [QNext]_allVars, overflows <= overflows', OverflowModulus > 1
    PROVE  NotesPast'
<1>1. /\ tick \in Time /\ tick' \in Time /\ overflows \in Nat /\ overflows' \in Nat
      /\ overflows < overflows' \/ (overflows = overflows' /\ tick <= tick')
  BY NotesStay, TimePasses
<1>2. ASSUME NEW t \in Task
      PROVE  /\ pc'[t] \in Blocking => op'[t].set
             /\ op'[t].set => \/ op'[t].over < overflows'
                              \/ op'[t].over = overflows' /\ op'[t].enter <= tick'
  <2>1. NoteStays(t)
    BY NotesStay
  <2>2. op[t].over \in Nat /\ op[t].enter \in Nat
    BY TimeAssumption, AboutCurrent DEF CallRecord, Time
  <2>3. tick \in Nat /\ tick' \in Nat
    BY <1>1, TimeAssumption DEF Time
  <2>4. CASE /\ op'[t].set = op[t].set /\ op'[t].over = op[t].over
             /\ op'[t].enter = op[t].enter
             /\ pc'[t] \in Blocking => op'[t].set \/ pc[t] \in Blocking
    <3>1. pc'[t] \in Blocking => op'[t].set
      BY <2>4 DEF NotesPast
    <3>2. op[t].set => op[t].over < overflows \/ (op[t].over = overflows /\ op[t].enter <= tick)
      BY DEF NotesPast
    <3> DEFINE set == op[t].set
               over == op[t].over
               enter == op[t].enter
    <3>3. set => over < overflows' \/ (over = overflows' /\ enter <= tick')
      <4> HIDE DEF set, over, enter
      <4> QED
        BY <3>2, <1>1, <2>2, <2>3 DEF set, over, enter
    <3> QED
      BY <3>1, <3>3, <2>4
  <2>5. CASE ~op'[t].set /\ pc'[t] \notin Blocking
    BY <2>5
  <2>6. CASE op'[t].set /\ op'[t].over = overflows /\ op'[t].enter = tick
    BY <2>6, <1>1
  <2> QED
    BY <2>1, <2>4, <2>5, <2>6 DEF NoteStays
<1> QED
  BY <1>2 DEF NotesPast

\* xTaskCheckForTimeOut counts the ticks that have passed since a call has
\* noted the time, if the counter has not wrapped twice since.
LEMMA LookIsExact ==
    ASSUME NEW o \in CallRecord, tick \in Time, overflows \in Nat, overflows <= o.over + 1,
           o.over < overflows \/ (o.over = overflows /\ o.enter <= tick)
    PROVE  /\ TimedOut(o) <=> Since(o) >= o.wait
           /\ ~TimedOut(o) => Elapsed(o) = Since(o)
<1> DEFINE enter == o.enter
           over == o.over
           wait == o.wait
           elapsed == (tick - enter) % TickModulus
           passed == (overflows * TickModulus + tick) - (over * TickModulus + enter)
<1>1. /\ enter \in Time /\ over \in Nat /\ wait \in Time
      /\ over = overflows \/ over = overflows - 1
  BY TimeAssumption DEF CallRecord
<1>2. /\ Elapsed(o) = elapsed /\ Since(o) = passed
      /\ TimedOut(o) <=> ((overflows # over /\ tick >= enter) \/ elapsed >= wait)
  <2>1. Elapsed(o) = elapsed /\ Since(o) = passed
    BY DEF Elapsed, Since, Now
  <2>2. TimedOut(o) <=> ((overflows # o.over /\ tick >= o.enter) \/ Elapsed(o) >= o.wait)
    BY DEF TimedOut
  <2> QED
    BY <2>1, <2>2
<1>3. /\ tick >= enter => elapsed = tick - enter
      /\ tick < enter => elapsed = tick - enter + TickModulus
  BY <1>1, TimeDifference
<1>4. TickModulus \in Nat /\ tick \in Nat /\ enter \in Nat /\ wait \in Nat
      /\ wait < TickModulus /\ enter < TickModulus
  BY <1>1, TimeAssumption DEF Time
<1>5. over = overflows => passed = tick - enter /\ tick >= enter
  <2>1. over * TickModulus \in Nat
    BY <1>1, <1>4
  <2> QED
    BY <2>1, <1>1, <1>4
<1>6. over = overflows - 1 => passed = TickModulus + tick - enter
  <2>1. over * TickModulus \in Nat
    BY <1>1, <1>4
  <2>2. (over + 1) * TickModulus = over * TickModulus + TickModulus
    BY <1>1, <1>4
  <2> QED
    BY <2>1, <2>2, <1>1, <1>4
<1> HIDE DEF enter, over, wait, elapsed, passed
<1>7. CASE over = overflows
  BY <1>7, <1>2, <1>3, <1>4, <1>5 DEF wait
<1>8. CASE over = overflows - 1
  BY <1>8, <1>1, <1>2, <1>3, <1>4, <1>6 DEF wait
<1> QED
  BY <1>1, <1>7, <1>8

\* A task that leaves xTaskCheckForTimeOut leaves it by itself.
LEMMA LooksByItself ==
    ASSUME QInv, [QNext]_allVars, NEW t \in Task, pc[t] = "check", pc'[t] # "check"
    PROVE  t = current /\ CheckForTimeOut
<1>1. /\ pc[current] = "check" /\ t = current /\ ~Masked
      /\ suspended = 1 /\ txLock # Unlocked /\ rxLock # Unlocked /\ pc \in [Task -> QLabel]
  BY AboutCurrent DEF QInv, RunnerInv, QSuspendedAlone, LocksHeld, QRegion, Masked
<1>2. Handler => UNCHANGED pc
  BY DEF Handler, QTickIsr, TickIsr, TickIsrSuspended, xQueueReceiveFromISR,
         xQueueGenericSendFromISR, locals
<1>3. ~ (ReceiveItem \/ SendItem \/ GiveUp \/ GetReadyToWait \/ LockQueue \/ TestQueue)
  BY <1>1 DEF ReceiveItem, SendItem, GiveUp, GetReadyToWait, LockQueue, TestQueue
<1>4. ~ (PlaceOnEventList \/ UnlockTx \/ UnlockRx \/ ReceiveExpired \/ QCall)
  BY <1>1 DEF PlaceOnEventList, UnlockTx, UnlockRx, ReceiveExpired, QCall, CallReceive, CallSend
<1>5. ~ (SuspendLoad \/ SuspendStore("lock") \/ ResumePending \/ Yield("try"))
  BY <1>1 DEF SuspendLoad, SuspendStore, ResumePending, Yield
<1>6. ~ (QResumeTick \/ QResumeEnd)
  BY <1>1 DEF QResumeTick, ResumeTick, QResumeEnd, ResumeEnd
<1>7. IdleYield \/ UNCHANGED allVars => UNCHANGED pc
  BY DEF IdleYield, allVars, vars, locals
<1> QED
  BY <1>1, <1>2, <1>3, <1>4, <1>5, <1>6, <1>7 DEF QNext, QInside

\* What a step does to a wait, xNumOfOverflows not having come round.
LEMMA StepTimesOutExactly ==
    ASSUME QInv, NotesPast, [QNext]_allVars,
           NEW t \in Task, pc[t] = "check", pc'[t] # "check", overflows <= op[t].over + 1
    PROVE  IF Since(op[t]) >= op[t].wait
               THEN pc'[t] = "unlockTx" /\ op'[t].wait = 0
               ELSE pc'[t] = "test" /\ op'[t].wait = op[t].wait - Since(op[t])
<1> DEFINE o == op[t]
<1>1. t = current /\ CheckForTimeOut
  BY LooksByItself
<1>2. /\ o \in CallRecord /\ tick \in Time /\ overflows \in Nat
      /\ pc \in [Task -> QLabel] /\ op \in [Task -> CallRecord]
  BY AboutCurrent, TimeAssumption
<1>3. o.over < overflows \/ (o.over = overflows /\ o.enter <= tick)
  BY DEF NotesPast, Blocking
<1>4. /\ TimedOut(o) <=> Since(o) >= o.wait
      /\ ~TimedOut(o) => Elapsed(o) = Since(o)
  <2> HIDE DEF o
  <2> QED
    BY <1>2, <1>3, LookIsExact DEF o
<1>5. TimedOut(o) => pc'[t] = "unlockTx" /\ op'[t].wait = 0
  <2> SUFFICES ASSUME TimedOut(o) PROVE pc'[t] = "unlockTx" /\ op'[t].wait = 0
    OBVIOUS
  <2> DEFINE new == [o EXCEPT !.wait = 0, !.then = "expired"]
  <2>1. op' = [op EXCEPT ![t] = new] /\ pc' = [pc EXCEPT ![t] = "unlockTx"]
    BY <1>1 DEF CheckForTimeOut, SetOp, Goto, Op
  <2>2. new.wait = 0
    BY <1>2 DEF CallRecord
  <2> HIDE DEF new
  <2> QED
    BY <2>1, <2>2, <1>2
<1>6. ~TimedOut(o) => pc'[t] = "test" /\ op'[t].wait = o.wait - Elapsed(o)
  <2> SUFFICES ASSUME ~TimedOut(o)
               PROVE  pc'[t] = "test" /\ op'[t].wait = o.wait - Elapsed(o)
    OBVIOUS
  <2> DEFINE left == o.wait - Elapsed(o)
             new == [o EXCEPT !.wait = left, !.enter = tick, !.over = overflows]
  <2>1. op' = [op EXCEPT ![t] = new] /\ pc' = [pc EXCEPT ![t] = "test"]
    BY <1>1 DEF CheckForTimeOut, SetOp, Goto, Op
  <2> HIDE DEF left
  <2>2. new.wait = left
    BY <1>2 DEF CallRecord
  <2> HIDE DEF new
  <2>3. pc'[t] = "test" /\ op'[t].wait = left
    BY <2>1, <2>2, <1>2
  <2> QED
    BY <2>3 DEF left
<1> HIDE DEF o
<1> QED
  BY <1>4, <1>5, <1>6 DEF o

\* As long as xNumOfOverflows does not come round, a wait is over exactly when
\* its ticks have been counted, for a task that looks before the counter has
\* wrapped twice.
THEOREM WaitsEndOnTime ==
    ASSUME OverflowModulus > 1
    PROVE  QSpec /\ [][overflows <= overflows']_overflows => TimeoutExact
<1> DEFINE Forward == [overflows <= overflows']_overflows
<1>1. QInit => NotesPast
  <2> SUFFICES ASSUME QInit PROVE NotesPast
    OBVIOUS
  <2>1. \A t \in Task : pc[t] = "run" /\ ~op[t].set
    BY DEF QInit, Init, NoOp
  <2> QED
    BY <2>1 DEF NotesPast, Blocking
<1>2. QInv /\ NotesPast /\ [QNext]_allVars /\ Forward => NotesPast'
  <2> SUFFICES ASSUME QInv, NotesPast, [QNext]_allVars, Forward PROVE NotesPast'
    OBVIOUS
  <2>1. overflows <= overflows'
    BY AboutCurrent
  <2> QED
    BY <2>1, NotesPastStays
<1>3. QInv /\ NotesPast /\ [QNext]_allVars =>
        [\A t \in Task : (pc[t] = "check" /\ pc'[t] # "check"
                            /\ overflows <= op[t].over + 1) =>
           IF Since(op[t]) >= op[t].wait
               THEN pc'[t] = "unlockTx" /\ op'[t].wait = 0
               ELSE pc'[t] = "test" /\ op'[t].wait = op[t].wait - Since(op[t])]_allVars
  BY StepTimesOutExactly
<1> QED
  BY <1>1, <1>2, <1>3, QInvariant, PTL DEF QSpec, TimeoutExact
=============================================================================
