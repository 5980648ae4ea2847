--------------------------- MODULE MCKernelQueue ---------------------------
(* A task that receives above one that sends and receives; the latter      *)
(* shares the priority of the idle task, which gives way to it.            *)
EXTENDS KernelQueue, TLC

CONSTANTS idle, low, high, x, y, WrapLimit

AppPriority == idle :> 0 @@ low :> 0 @@ high :> 1

(* The items are only copied. *)
ItemsAlike == Permutations({x, y})

(* Bound: how often the tick counter wraps.  xNumOfOverflows does not come *)
(* around in the life of a wait. *)
FewWraps == overflows < WrapLimit
=============================================================================
