------------------------------- MODULE MCShmMq -------------------------------
(***************************************************************************)
(* A ring of four units, and messages shorter and longer than that.        *)
(***************************************************************************)
EXTENDS ShmMq

=============================================================================
