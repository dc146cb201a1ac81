------------------------------- MODULE RowSets -------------------------------
(***************************************************************************)
(* Log rows and the queues that carry them.                                *)
(*                                                                         *)
(* A row is the number under which it entered the ingest channel, so the   *)
(* order of rows is the order in which the engine received them.  A batch  *)
(* is a set of rows; a queue of batches is a sequence of such sets.        *)
(***************************************************************************)
EXTENDS Naturals, Sequences, FiniteSets

\* The rows carried by a queue of batches.
RowsIn(queue) == UNION {queue[i] : i \in DOMAIN queue}

\* Every row of the first set is older than every row of the second.
Before(older, newer) == \A r \in older, s \in newer : r < s

\* A queue whose batches appear oldest first.
InOrder(queue) ==
    \A i, j \in DOMAIN queue : i < j => Before(queue[i], queue[j])

\* The row's position, counted from one, among the rows of a set.
Rank(r, rows) == Cardinality({s \in rows : s <= r})
=============================================================================
