--------------------------- MODULE JoinOrderFile ----------------------------
(***************************************************************************)
(* save_join_order_plans() of optimizer/jop/jop_extension.c: every backend *)
(* that plans with enable_join_order_plans writes its candidate join       *)
(* orders to one file of fixed name, through stdio and without a lock.     *)
(*                                                                         *)
(* A path tree is a record with a field type; its join order is a tree of  *)
(* aliases and pairs.  The file is a sequence of lines; where a write      *)
(* starts beyond its end the gap reads as Hole.  A stream buffers lines    *)
(* until the C library flushes them, at the offset the stream has reached. *)
(***************************************************************************)
EXTENDS Naturals, Sequences

CONSTANTS
    Backend,
    Alias,      \* names of the relations that are joined
    Pathlist,   \* the final pathlists that may be exported: a set of sequences of trees
    MaxLeaks,   \* bound on the streams one backend leaks before it exits
    Hole, Empty \* contents of a gap in the file; the empty string

VARIABLES
    file,       \* the lines of /tmp/Athena_join_order_plans.txt
    fp,         \* [Backend -> the open stream, or Closed]
    leaked,     \* [Backend -> streams an ERROR left open]
    last,       \* history: the lines the last successful export should have left
    serial      \* history: no export has met another one or an ERROR so far

vars == <<file, fp, leaked, last, serial>>

Closed == [rest |-> "closed"]

-----------------------------------------------------------------------------
(* catch_join_order() *)

\* Does the recursion reach a node of a type that ends in elog(ERROR)?
RECURSIVE Fails(_)
Fails(path) ==
    CASE path.type = "error" -> TRUE
      [] path.type = "join" -> Fails(path.inner) \/ Fails(path.outer)
      [] path.type = "unary" -> Fails(path.subpath)
      [] OTHER -> FALSE

RECURSIVE OuterOnly(_)
OuterOnly(path) ==
    CASE path.type = "scan" -> path.alias
      [] path.type = "join" -> OuterOnly(path.outer)
      [] path.type = "unary" -> OuterOnly(path.subpath)
      [] path.type = "warning" -> Empty

\* Scans give their alias, joins a pair; Material, Sort, Agg, Gather, GatherMerge,
\* Memoize and Projection are transparent; other known types give a WARNING.
RECURSIVE catch_join_order(_)
catch_join_order(path) ==
    CASE path.type = "scan" -> path.alias
      [] path.type = "join" ->
           <<catch_join_order(path.outer), catch_join_order(path.inner)>>
      [] path.type = "unary" -> catch_join_order(path.subpath)
      [] path.type = "warning" -> Empty

-----------------------------------------------------------------------------
Init ==
    /\ file = <<>>
    /\ fp = [b \in Backend |-> Closed]
    /\ leaked = [b \in Backend |-> <<>>]
    /\ last = <<>>
    /\ serial = TRUE

\* What fwrite of lines at an offset makes of the file.
Written(f, offset, lines) ==
    [i \in 1 .. IF lines = <<>> \/ Len(f) > offset + Len(lines)
                THEN Len(f) ELSE offset + Len(lines) |->
        IF i \in offset + 1 .. offset + Len(lines) THEN lines[i - offset]
        ELSE IF i <= Len(f) THEN f[i] ELSE Hole]

OpenKeep == file
\* fopen(..., "w")
OpenTruncate == <<>>

\* save_join_order_plans() entered.
Open(b) ==
    /\ fp[b] = Closed
    /\ Len(leaked[b]) < MaxLeaks
    /\ \E list \in Pathlist :
         fp' = [fp EXCEPT ![b] = [rest |-> list, all |-> list, offset |-> 0, buffer |-> <<>>]]
    /\ file' = OpenTruncate
    /\ serial' = (serial /\ \A c \in Backend : fp[c] = Closed)
    /\ UNCHANGED <<leaked, last>>

\* One turn of the loop: a line goes to the buffer.
WriteLine(b) ==
    /\ fp[b] # Closed /\ fp[b].rest # <<>>
    /\ ~Fails(Head(fp[b].rest))
    /\ fp' = [fp EXCEPT ![b].rest = Tail(@),
                        ![b].buffer = Append(@, catch_join_order(Head(fp[b].rest)))]
    /\ UNCHANGED <<file, leaked, last, serial>>

\* elog(ERROR) in catch_join_order(): the transaction ends, the stream stays.
Error(b) ==
    /\ fp[b] # Closed /\ fp[b].rest # <<>>
    /\ Fails(Head(fp[b].rest))
    /\ leaked' = [leaked EXCEPT ![b] = Append(@, fp[b])]
    /\ fp' = [fp EXCEPT ![b] = Closed]
    /\ serial' = FALSE
    /\ UNCHANGED <<file, last>>

\* The C library writes the buffer out because it is full.
Flush(b) ==
    /\ fp[b] # Closed /\ fp[b].buffer # <<>>
    /\ file' = Written(file, fp[b].offset, fp[b].buffer)
    /\ fp' = [fp EXCEPT ![b].offset = @ + Len(fp[b].buffer), ![b].buffer = <<>>]
    /\ UNCHANGED <<leaked, last, serial>>

Lines(list) == [i \in 1 .. Len(list) |-> catch_join_order(list[i])]

\* fclose() after the loop.
Close(b) ==
    /\ fp[b] # Closed /\ fp[b].rest = <<>>
    /\ file' = Written(file, fp[b].offset, fp[b].buffer)
    /\ fp' = [fp EXCEPT ![b] = Closed]
    /\ last' = Lines(fp[b].all)
    /\ UNCHANGED <<leaked, serial>>

\* exit() of the backend flushes the streams it leaked; a new one takes its place.
Exit(b) ==
    /\ fp[b] = Closed
    /\ leaked[b] # <<>>
    /\ LET flushed[n \in 0 .. Len(leaked[b])] ==
             IF n = 0 THEN file
             ELSE Written(flushed[n - 1], leaked[b][n].offset, leaked[b][n].buffer)
       IN  file' = flushed[Len(leaked[b])]
    /\ leaked' = [leaked EXCEPT ![b] = <<>>]
    /\ UNCHANGED <<fp, last, serial>>

Next == \E b \in Backend :
    Open(b) \/ WriteLine(b) \/ Error(b) \/ Flush(b) \/ Close(b) \/ Exit(b)

Spec == Init /\ [][Next]_vars

-----------------------------------------------------------------------------
(* Properties. *)

\* The aliases of a path's scans from left to right, and those of a line.
RECURSIVE Scans(_)
Scans(path) ==
    CASE path.type = "scan" -> <<path.alias>>
      [] path.type = "join" -> Scans(path.outer) \o Scans(path.inner)
      [] path.type = "unary" -> Scans(path.subpath)
      [] OTHER -> <<>>

RECURSIVE Aliases(_)
Aliases(line) ==
    IF line = Empty THEN <<>>
    ELSE IF line \in Alias THEN <<line>> ELSE Aliases(line[1]) \o Aliases(line[2])

\* A stream accounts for all its paths, and the lines it has buffered are those
\* of the paths at their positions: each names every scanned relation of its
\* path, once and in join order.
LinesMatchPaths ==
    \A b \in Backend : fp[b] # Closed =>
        /\ fp[b].offset + Len(fp[b].buffer) + Len(fp[b].rest) = Len(fp[b].all)
        /\ \A i \in 1 .. Len(fp[b].buffer) :
              Aliases(fp[b].buffer[i]) = Scans(fp[b].all[fp[b].offset + i])

\* "saved to /tmp/Athena_join_order_plans.txt, one path per line": when nobody
\* is writing, the file holds the candidates of the last export.
FileHoldsLastExport ==
    (\A b \in Backend : fp[b] = Closed /\ leaked[b] = <<>>) => file = last

\* While exports follow one another without an ERROR, by whatever backends, the
\* file never mixes two: at rest it holds the last one whole, and during one a
\* beginning of its lines, all that was flushed.
SerialExportsKept ==
    serial =>
        /\ FileHoldsLastExport
        /\ \A b \in Backend : fp[b] # Closed =>
              file = Lines(SubSeq(fp[b].all, 1, fp[b].offset))
=============================================================================
