------------------------------ MODULE MCLWLock ------------------------------
(* A small instance of LWLock. *)
EXTENDS LWLock

CONSTANTS p1, p2, p3

ForAll(c) == [q \in Proc |-> c]

\* Most of the server: shared and exclusive, waiting for as long as it takes.
AcquireBoth ==
    [calls |-> ForAll({"acquire"}), modes |-> LockModes,
     values |-> {0}, foreign |-> ForAll(0)]

\* WALWriteLock and its like: exclusive, and the three ways to ask for it.
AcquireOrWait ==
    [AcquireBoth EXCEPT !.calls = ForAll({"acquire", "conditional", "orwait"}),
                        !.modes = {"exclusive"}]

\* The WAL insertion locks: the inserters take the lock and advance its
\* variable, the others wait for it to change, and somebody signals the
\* semaphore of p3 for another reason.
WithVar(inserters) ==
    [calls |-> [q \in Proc |-> {IF q \in inserters THEN "acquire" ELSE "waitvar"}],
     modes |-> {"exclusive"}, values |-> {0, 1},
     foreign |-> [q \in Proc |-> IF q = p3 THEN 1 ELSE 0]]

MCWorkloads == {AcquireBoth, AcquireOrWait, WithVar({p1}), WithVar({p1, p2})}
=============================================================================
