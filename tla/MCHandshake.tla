---------------------------- MODULE MCHandshake ----------------------------
(* Handshake for TLC.  Four messages and a queue of two let a doorbell be *)
(* pending, others wait, and one be refused while the link comes up.       *)
EXTENDS Handshake
==============================================================================
