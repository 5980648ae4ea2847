------------------------------- MODULE MCVring -------------------------------
(* Instances of Vring for TLC: one task of core1 and a small ring.  IDXMOD  *)
(* is a few times NUM, so that the cursors wrap, and do so at every fill    *)
(* level of the rings.                                                      *)
EXTENDS Vring
==============================================================================
