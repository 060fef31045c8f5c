----------------------------- MODULE PageStore -----------------------------
(***************************************************************************)
(* What the shared buffer pool promises its callers, with no buffer in it: *)
(* every page has one current contents, which only a logged change or a    *)
(* hint changes.  Reading a page in, writing it out, evicting it and       *)
(* checkpointing it are all invisible here.                                *)
(***************************************************************************)
EXTENDS Integers

CONSTANT Pages

VARIABLES page,      \* page[t] : the contents a reader of page t sees
          gone       \* the pages whose relation has been dropped

vars == <<page, gone>>

Init == /\ page \in [Pages -> [lsn : Nat, hint : BOOLEAN]]
        /\ gone = {}

\* A logged change: the page moves to a later LSN and its hint is unset again.
Change(t) == /\ t \notin gone
             /\ page'[t].lsn \in Nat /\ page'[t].lsn > page[t].lsn
             /\ page' = [page EXCEPT ![t] = [lsn |-> page'[t].lsn, hint |-> FALSE]]
             /\ UNCHANGED gone

\* A hint: the page keeps its LSN.
Hint(t) == /\ t \notin gone
           /\ page' = [page EXCEPT ![t] = [lsn |-> page[t].lsn, hint |-> TRUE]]
           /\ UNCHANGED gone

\* The relation of page t is dropped.  Its contents no longer matter.
Discard(t) == /\ t \notin gone
              /\ gone' = gone \cup {t}
              /\ page' = [page EXCEPT ![t] = [lsn |-> 0, hint |-> FALSE]]

Next == \E t \in Pages : Change(t) \/ Hint(t) \/ Discard(t)

Spec == Init /\ [][Next]_vars
=============================================================================
