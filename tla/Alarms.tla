------------------------------- MODULE Alarms -------------------------------
(***************************************************************************)
(* What tasks.c promises a caller of vTaskDelay, xTaskDelayUntil or of a   *)
(* wait with a timeout, in the time that xTickCount counts: left[t] is the *)
(* number of ticks that still have to be counted before t is made ready,   *)
(* zero when t does not wait.  owed is the number of tick interrupts that  *)
(* came while the scheduler was suspended and are counted when it resumes. *)
(***************************************************************************)
EXTENDS Naturals

CONSTANTS
    Task,        \* the tasks
    MaxWait      \* the longest wait: portMAX_DELAY

VARIABLES left, owed

vars == <<left, owed>>

Init ==
    /\ left = [t \in Task |-> 0]
    /\ owed = 0

(* A task begins to wait. *)
Sleep(t) ==
    /\ left[t] = 0
    /\ \E n \in 1..MaxWait : left' = [left EXCEPT ![t] = n]
    /\ UNCHANGED owed

(* Tasks are made ready before their time, by an event. *)
Wake ==
    /\ \E W \in SUBSET {t \in Task : left[t] > 0} :
           left' = [t \in Task |-> IF t \in W THEN 0 ELSE left[t]]
    /\ UNCHANGED owed

(* A tick interrupt that only gets noted. *)
Owe ==
    /\ owed' = owed + 1
    /\ UNCHANGED left

(* One tick is counted, for every waiting task alike: who had one left is  *)
(* ready now and nobody else is.                                           *)
Elapse ==
    left' = [t \in Task |-> IF left[t] > 0 THEN left[t] - 1 ELSE 0]

Tick == Elapse /\ UNCHANGED owed

CatchUp == owed > 0 /\ owed' = owed - 1 /\ Elapse

Next == (\E t \in Task : Sleep(t)) \/ Wake \/ Owe \/ Tick \/ CatchUp

Spec == Init /\ [][Next]_vars
=============================================================================
