-------------------------- MODULE MCBTParallelScan --------------------------
(***************************************************************************)
(* Three processes, three pages, and key sets that can be satisfied or not.  *)
(***************************************************************************)
EXTENDS BTParallelScan

CONSTANTS a, b, c

\* The whole index, then keys that contradict each other, then the first page.
MCKeySets == << [qual_ok |-> TRUE, first |-> 1, last |-> 3],
                [qual_ok |-> FALSE, first |-> 0, last |-> 0],
                [qual_ok |-> TRUE, first |-> 1, last |-> 1] >>

=============================================================================
