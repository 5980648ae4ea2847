------------------------------ MODULE MCKernel ------------------------------
(* main.c's tasks for TLC: rpmsg over t1 over t2, and the idle task. *)
EXTENDS Kernel, TLC

CONSTANTS idle, t1, t2, rpmsg

AppPriority == idle :> 0 @@ t2 :> 1 @@ t1 :> 1 @@ rpmsg :> 2
=============================================================================
