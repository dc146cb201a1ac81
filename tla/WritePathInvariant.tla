-------------------------- MODULE WritePathInvariant --------------------------
(***************************************************************************)
(* The inductive invariant behind AckedRowsSurvive and                     *)
(* ReclaimsOnlyFlushedRows.                                                *)
(*                                                                         *)
(* WalState compares two numbers: how many rows were confirmed, and how    *)
(* many had been logged when a segment was sealed.  The comparison says    *)
(* something about rows only because rows leave memory in the order in     *)
(* which they were logged.  So the invariant follows the rows the WAL      *)
(* worker has logged since startup down the pipeline, oldest stage first:  *)
(*                                                                         *)
(*   flushed, taken and live, table, handoff, the batch being handed off   *)
(*                                                                         *)
(* and says that every logged row is in one of them unless it was shed,    *)
(* that each stage is older than the later ones, and that a row's rank     *)
(* among the logged rows is at most the cumulative count of its segment.   *)
(* The last, and the numbering of the segments it rests on, is lost for    *)
(* good when a start fails to read part of the log (misread).              *)
(***************************************************************************)
EXTENDS WritePath

-----------------------------------------------------------------------------
(***************************************************************************)
(* The stages                                                              *)
(***************************************************************************)
\* The rows staged in the live buffer, or taken out of it by a flush.
Staged == RowsIn(taken) \cup RowsIn(live)

\* The batch that has been answered and waits to be handed off.
Delivering == IF walPc = "send" THEN Head(group) ELSE {}

\* The rows of the group that have not been answered.
Unanswered ==
    CASE walPc \in {"commit", "ack"} -> RowsIn(group)
      [] walPc = "send"              -> RowsIn(Tail(group))
      [] OTHER                       -> {}

\* The logged rows that are only in memory.
InMemory == Staged \cup table \cup RowsIn(handoff) \cup Delivering

\* The rows that have not been logged yet.
Incoming == Unanswered \cup RowsIn(ingest)

-----------------------------------------------------------------------------
(***************************************************************************)
(* Control                                                                 *)
(***************************************************************************)
ControlInv ==
    /\ walPc \in {"commit", "ack", "send"} <=> group # <<>>
    /\ walPc \notin {"ack", "send", "count"} => written = 0
    /\ IF memPc \in {"flush", "signal"} THEN live = <<>> ELSE taken = <<>>
    /\ memPc = "signal" => unwritten = {}
    /\ ~Up => /\ walPc = "select" /\ memPc = "recv"
              /\ ingest = <<>> /\ truncate = <<>> /\ handoff = <<>>
              /\ live = <<>> /\ table = {} /\ flushed = {} /\ logged = {}
              /\ segments = {} /\ cumulative = 0 /\ confirmed = 0

(***************************************************************************)
(* Where the logged rows are                                               *)
(***************************************************************************)
StagesInv ==
    /\ logged \subseteq flushed \cup shed \cup InMemory
    /\ flushed \cup InMemory \subseteq logged

(***************************************************************************)
(* Rows keep their order                                                   *)
(***************************************************************************)
OrderInv ==
    /\ Before(flushed, InMemory)
    /\ Before(Staged, table \cup RowsIn(handoff) \cup Delivering)
    /\ Before(table, RowsIn(handoff) \cup Delivering)
    /\ Before(RowsIn(handoff), Delivering)
    /\ InOrder(handoff)

IncomingInv ==
    /\ Before(logged \cup acked, Incoming)
    /\ Before(Unanswered, RowsIn(ingest))
    /\ InOrder(group)
    /\ InOrder(ingest)
    /\ \A r \in Replayable \cup acked \cup logged \cup Incoming : r < nextRow

(***************************************************************************)
(* The files of the log                                                    *)
(***************************************************************************)
DiskInv ==
    /\ \A file \in sealed : Before(file.rows, active \cup Incoming)
    /\ Before(active, RowsIn(ingest))
    /\ walPc = "commit" => Before(active, RowsIn(group))
    /\ walPc \in {"ack", "send"} => RowsIn(group) \subseteq active \cup buried
    /\ Up => Replayable \cap acked \subseteq logged

(***************************************************************************)
(* How the segments are numbered                                           *)
(***************************************************************************)
NumberInv ==
    /\ \A file \in sealed : Up => file.seq < nextSeq
    /\ \A older, newer \in sealed :
          older.seq < newer.seq => Before(older.rows, newer.rows)

(***************************************************************************)
(* What the counts stand for                                               *)
(***************************************************************************)
CountInv ==
    /\ confirmed <= Cardinality(flushed \ RowsIn(truncate))
    /\ RowsIn(truncate) \subseteq flushed
    /\ \A i, j \in DOMAIN truncate : i # j => truncate[i] \cap truncate[j] = {}
    /\ \A segment \in segments : segment.seq < nextSeq

RankInv ==
    /\ cumulative + written = Cardinality(logged)
    /\ \A segment \in segments, file \in sealed :
          file.seq = segment.seq =>
              \A r \in file.rows \cap logged : Rank(r, logged) <= segment.cumulative

\* Numbers and ranks mean something only in a log that every start could count.
CountedInv == ~misread => NumberInv /\ RankInv

(***************************************************************************)
(* Flushed rows are in chunk files                                         *)
(***************************************************************************)
ChunksInv ==
    /\ flushed \subseteq Stored \cup gone
    /\ RowsIn(taken) \ unwritten \subseteq Stored \cup gone

\* The invariant: nothing of it concerns the bounds of a model.
IInv ==
    /\ TypeOK
    /\ ControlInv
    /\ StagesInv
    /\ OrderInv
    /\ IncomingInv
    /\ DiskInv
    /\ CountInv
    /\ CountedInv
    /\ ChunksInv
    /\ AckedRowsSurvive

(***************************************************************************)
(* What the refinement of LogStore needs beside IInv: the store answers    *)
(* for every row the WAL worker has logged, acknowledged or only replayed, *)
(* and what a flush has yet to write is part of what it took.              *)
(***************************************************************************)
KnownInv ==
    /\ logged \subseteq Replayable \cup Stored \cup Excused
    /\ unwritten \subseteq RowsIn(taken)

-----------------------------------------------------------------------------
(***************************************************************************)
(* What DrainedIsStored needs beside IInv: once the rows that are left are *)
(* flushed for the last time, no row can follow them.                      *)
(***************************************************************************)
DrainInv ==
    /\ memPc = "done" => loop = "ended"
    /\ loop = "ended" => /\ walPc = "done" /\ handoff = <<>> /\ table = {}
                        /\ memPc \in {"flush", "signal", "done"}

(***************************************************************************)
(* What DuplicatesBounded needs beside IInv: a row that may still be       *)
(* written to a chunk has one copy less than the starts and errors so far  *)
(* allow.  A replay and a failed flush make a row pending again.           *)
(***************************************************************************)
Pending(r) ==
    \/ r \in unwritten \cup RowsIn(live) \cup table \cup RowsIn(handoff) \cup Delivering
    \/ r \in Incoming
    \/ r >= nextRow

CopiesInv ==
    \A r \in Row : Copies(r) + (IF Pending(r) THEN 1 ELSE 0) <= boots + faults
=============================================================================
