------------------------------ MODULE MCBarrier ------------------------------
(***************************************************************************)
(* Three processes and a barrier.                                          *)
(***************************************************************************)
EXTENDS Barrier

CONSTANTS a, b, c

=============================================================================
