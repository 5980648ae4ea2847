----------------------------- MODULE MCRpmsgLink -----------------------------
(* RpmsgLink for TLC, with two buffers in each queue and indices that wrap *)
(* at twice that.                                                          *)
EXTENDS RpmsgLink
==============================================================================
