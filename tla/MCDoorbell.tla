----------------------------- MODULE MCDoorbell -----------------------------
(* Doorbell for TLC.  Three buffers let Linux post while core1 is anywhere *)
(* in its loop; a queue of two lets a third doorbell be refused.           *)
EXTENDS Doorbell
==============================================================================
