---------------------------- MODULE MemTableWorker ----------------------------
(***************************************************************************)
(* The MemTable worker of crates/engine/src/worker.rs: rows that are       *)
(* durable in the log are gathered in a MemTable, staged as batches in the *)
(* shared LiveBuffer and flushed to Parquet chunk files, one per partition *)
(* (service and day), each published by a rename.                          *)
(*                                                                         *)
(* recv_timeout and the clock are abstracted to choices: a receive times   *)
(* out only on an empty channel, and whether flush_interval has elapsed is *)
(* chosen at each check.                                                   *)
(***************************************************************************)
EXTENDS RowSets

CONSTANTS
    FlushRowLimit,  \* EngineConfig.flush_row_limit
    LiveCapFactor,  \* live_cap is this many flush limits (10 in the code)
    PartitionOf     \* the partition each row is stored in, a number

ASSUME MemTableAssumption ==
    /\ FlushRowLimit \in Nat \ {0}
    /\ LiveCapFactor \in Nat \ {0}

VARIABLES
    memPc,      \* where the loop is: recv, check, flush, signal or done
    loop,       \* "ended" when only the remainder is left to flush
    table,      \* the rows of the MemTable
    live,       \* the LiveBuffer: a sequence of batches
    taken,      \* the batches flush_live_buffer has taken out of it
    unwritten,  \* the rows of taken that are in no chunk file yet
    files,      \* the published chunk files, in order
    flushed,    \* history: rows of completed flushes since startup
    shed        \* history: rows dropped from memory by the cap, not replayed

memMemory == <<memPc, loop, table, live, taken, unwritten>>
memVars   == <<memMemory, files, flushed, shed>>

LiveCap == FlushRowLimit * LiveCapFactor

Stored == RowsIn(files)

\* How many chunk files hold the row: more than one is a duplicate on read.
Copies(r) == Cardinality({i \in DOMAIN files : r \in files[i]})

-----------------------------------------------------------------------------
\* finish_and_push: the table becomes one batch at the end of the buffer.
Push(rows, buffer) == IF rows = {} THEN buffer ELSE Append(buffer, rows)

\* One message from the handoff channel: append its rows to the table, and
\* push the table when it has reached the limit.
Receive(rows) ==
    LET grown == table \cup rows
        full  == Cardinality(grown) >= FlushRowLimit
    IN  /\ memPc = "recv"
        /\ table' = IF full THEN {} ELSE grown
        /\ live' = IF full THEN Push(grown, live) ELSE live
        /\ memPc' = "check"
        /\ UNCHANGED <<loop, taken, unwritten, files, flushed, shed>>

\* No message for 200 ms: the table is pushed.
ReceiveTimesOut ==
    /\ memPc = "recv"
    /\ table' = {}
    /\ live' = Push(table, live)
    /\ memPc' = "check"
    /\ UNCHANGED <<loop, taken, unwritten, files, flushed, shed>>

\* Mutant of Take: the buffer is cloned where mem::take empties it.
TakeClone(buffer) ==
    /\ taken' = buffer
    /\ unwritten' = RowsIn(buffer)
    /\ live' = buffer
    /\ memPc' = "flush"

\* flush_live_buffer takes the whole buffer; until the chunks are published
\* its rows are in neither tier.
Take(buffer) ==
    /\ taken' = buffer
    /\ unwritten' = RowsIn(buffer)
    /\ live' = <<>>
    /\ memPc' = "flush"

\* The end of a turn of the loop with nothing to flush.
CheckNotDue ==
    /\ memPc = "check"
    /\ Cardinality(RowsIn(live)) < FlushRowLimit
    /\ memPc' = "recv"
    /\ UNCHANGED <<loop, table, live, taken, unwritten, files, flushed, shed>>

\* The buffer has reached the limit.
CheckOverLimit ==
    /\ memPc = "check"
    /\ Cardinality(RowsIn(live)) >= FlushRowLimit
    /\ Take(live)
    /\ UNCHANGED <<loop, table, files, flushed, shed>>

\* Mutant of CheckIntervalDue: the interval and the limit must both be reached.
CheckIntervalAndLimit ==
    /\ memPc = "check"
    /\ table' = {}
    /\ IF Cardinality(RowsIn(Push(table, live))) < FlushRowLimit
          THEN /\ memPc' = "recv"
               /\ live' = Push(table, live)
               /\ UNCHANGED <<taken, unwritten>>
          ELSE Take(Push(table, live))
    /\ UNCHANGED <<loop, files, flushed, shed>>

\* flush_interval has elapsed: the table is pushed and the buffer flushed.
CheckIntervalDue ==
    /\ memPc = "check"
    /\ table' = {}
    /\ IF Push(table, live) = <<>>
          THEN memPc' = "recv" /\ UNCHANGED <<live, taken, unwritten>>
          ELSE Take(Push(table, live))
    /\ UNCHANGED <<loop, files, flushed, shed>>

\* Mutant of ReceiveDisconnected: the rows still in the table are forgotten.
DisconnectedForgetsTable ==
    /\ memPc = "recv"
    /\ loop' = "ended"
    /\ table' = {}
    /\ IF live = <<>>
          THEN memPc' = "done" /\ UNCHANGED <<live, taken, unwritten>>
          ELSE Take(live)
    /\ UNCHANGED <<files, flushed, shed>>

\* The handoff channel is empty and closed: what is left is flushed once.
ReceiveDisconnected ==
    /\ memPc = "recv"
    /\ loop' = "ended"
    /\ table' = {}
    /\ IF Push(table, live) = <<>>
          THEN memPc' = "done" /\ UNCHANGED <<live, taken, unwritten>>
          ELSE Take(Push(table, live))
    /\ UNCHANGED <<files, flushed, shed>>

-----------------------------------------------------------------------------
\* The rows of the next partition to write, in the order flush visits them.
NextChunk ==
    {r \in unwritten : \A s \in unwritten : PartitionOf[r] <= PartitionOf[s]}

\* write_chunk: a temporary file is written and renamed into view.
WriteChunk ==
    /\ memPc = "flush"
    /\ unwritten # {}
    /\ files' = Append(files, NextChunk)
    /\ unwritten' = unwritten \ NextChunk
    /\ memPc' = IF unwritten' = {} THEN "signal" ELSE "flush"
    /\ UNCHANGED <<loop, table, live, taken, flushed, shed>>

\* Mutant of Sheds: the cap is never applied.
ShedsNothing(n, batches) == n = 0 /\ Len(batches) > 0

\* return_to_live_buffer drops the n oldest batches: as many as it takes to
\* bring the rows that remain under the cap, and no more.
Sheds(n, batches) ==
    LET rowsAfter(m) == RowsIn(SubSeq(batches, m + 1, Len(batches)))
    IN  /\ Cardinality(rowsAfter(n)) <= LiveCap
        /\ n > 0 => Cardinality(rowsAfter(n - 1)) > LiveCap

\* A chunk cannot be written: the flush stops where it is, the batches go back
\* to the front of the buffer, and the oldest are shed while it is over the cap.
FlushFails ==
    LET batches == taken \o live
    IN  /\ memPc = "flush"
        /\ \E n \in 0..Len(batches) :
              /\ Sheds(n, batches)
              /\ live' = SubSeq(batches, n + 1, Len(batches))
        /\ shed' = shed \cup (RowsIn(batches) \ RowsIn(live'))
        /\ taken' = <<>>
        /\ unwritten' = {}
        /\ memPc' = IF loop = "ended" THEN "done" ELSE "recv"
        /\ UNCHANGED <<loop, table, files, flushed>>

\* The end of a flush, once its row count has been signalled (or the signal
\* was refused because the log's worker is gone).
FlushDone ==
    /\ memPc = "signal"
    /\ flushed' = flushed \cup RowsIn(taken)
    /\ taken' = <<>>
    /\ memPc' = IF loop = "ended" THEN "done" ELSE "recv"
    /\ UNCHANGED <<loop, table, live, unwritten, files, shed>>

-----------------------------------------------------------------------------
\* recover_wal_into: the replayed rows are one batch of the new LiveBuffer.
MemStart(replayed) ==
    /\ memPc' = "recv"
    /\ loop' = "running"
    /\ table' = {}
    /\ live' = Push(replayed, <<>>)
    /\ taken' = <<>>
    /\ unwritten' = {}
    /\ flushed' = {}
    /\ shed' = shed \ replayed

MemInit ==
    /\ memPc = "recv" /\ loop = "running"
    /\ table = {} /\ live = <<>> /\ taken = <<>> /\ unwritten = {}
    /\ files = <<>> /\ flushed = {} /\ shed = {}
=============================================================================
