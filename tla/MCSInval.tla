------------------------------ MODULE MCSInval ------------------------------
(***************************************************************************)
(* The invalidation queue with two backends.                               *)
(***************************************************************************)
EXTENDS SInval, TLC

\* One message, and more than go into one WRITE_QUANTUM.
MCCalls == 1 :> {<<"a", "b">>} @@ 2 :> {}

=============================================================================
