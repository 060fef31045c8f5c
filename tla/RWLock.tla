------------------------------- MODULE RWLock -------------------------------
(***************************************************************************)
(* What an LWLock promises its callers: many shared holders or a single    *)
(* exclusive one, taken and given up one process at a time.  See the       *)
(* comments at the head of src/backend/storage/lmgr/lwlock.c.              *)
(***************************************************************************)
CONSTANT Proc

VARIABLE holder     \* [Proc -> "none", "shared" or "exclusive"]

Init == holder = [p \in Proc |-> "none"]

Acquire(p, m) ==
    /\ holder[p] = "none"
    /\ \A q \in Proc : holder[q] # "exclusive"
    /\ m = "exclusive" => \A q \in Proc : holder[q] = "none"
    /\ holder' = [holder EXCEPT ![p] = m]

Release(p) ==
    /\ holder[p] # "none"
    /\ holder' = [holder EXCEPT ![p] = "none"]

Next == \E p \in Proc : Release(p) \/ \E m \in {"shared", "exclusive"} : Acquire(p, m)

Spec == Init /\ [][Next]_holder
=============================================================================
