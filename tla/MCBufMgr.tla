------------------------------ MODULE MCBufMgr ------------------------------
EXTENDS BufMgr, TLC

CONSTANTS p1, p2, cp

MCPages == {1, 2, 3}
MCPartition == [t \in MCPages |-> t % 2]

\* Two backends that do nothing but read.
Readers == [cached |-> <<1, 2>>, changed |-> <<>>, hinted |-> {}, changers |-> {},
            splitters |-> {}, hinters |-> {}, vacuumers |-> {}, droppers |-> {},
            droppable |-> {}, faulty |-> {}, reads |-> 3, lsns |-> 0]

MCWorkloads ==
    { \* both fill an empty pool, with one page more than buffers
      [Readers EXCEPT !.cached = <<>>],
      \* both hold one page locked while they look for a victim for another
      [Readers EXCEPT !.changers = {p1, p2}, !.splitters = {p1, p2}, !.hinted = {1}, !.reads = 4],
      \* a change, its eviction and a checkpoint, with I/O errors
      [Readers EXCEPT !.changers = {p1}, !.faulty = {p1}, !.lsns = 1],
      \* two changes and hints against checkpoints that fail
      [Readers EXCEPT !.changers = {p1}, !.hinters = {p2}, !.faulty = {cp}, !.reads = 2, !.lsns = 2],
      \* hints against the writes and the eviction of a changed page
      [Readers EXCEPT !.changed = <<1>>, !.hinters = {p1}, !.reads = 2],
      \* two waiters for cleanup locks, and one that changes the page it got
      [Readers EXCEPT !.vacuumers = {p1, p2}],
      [Readers EXCEPT !.vacuumers = {p1}, !.reads = 2, !.lsns = 1],
      \* drops against checkpoints and against evictions
      [Readers EXCEPT !.changers = {p1}, !.droppers = {p2}, !.droppable = {1, 2}, !.reads = 2,
                      !.lsns = 1],
      [Readers EXCEPT !.changers = {p1}, !.droppers = {p2}, !.droppable = {1}, !.hinted = {1}] }
=============================================================================
