------------------------------ MODULE WritePath ------------------------------
(***************************************************************************)
(* The write path of the engine: ingest handlers, the WAL worker and the   *)
(* MemTable worker, the three bounded channels between them, graceful      *)
(* shutdown, crashes and restarts.                                         *)
(*                                                                         *)
(*   handlers --ingest--> WAL worker --handoff--> MemTable worker          *)
(*                            ^                        |                   *)
(*                            +------- truncate -------+                   *)
(*                                                                         *)
(* The handlers get their 200 OK from the WAL worker once the rows are     *)
(* synced.  The MemTable worker sends back the number of rows it flushed   *)
(* to Parquet, and the WAL worker deletes the sealed segments that count   *)
(* covers.  In the model a message on truncate is the set of flushed rows, *)
(* of which the WAL worker uses only the size.                             *)
(***************************************************************************)
EXTENDS Wal, MemTableWorker

CONSTANTS
    BatchSizes,    \* the sizes of the batches posted
    MaxGroup,      \* MAX_GROUP_BATCH
    MpscCap,       \* mpsc_buffer_size, of the ingest and truncate channels
    HandoffCap,    \* crossbeam_buffer_size
    CrashKinds,    \* the crashes considered: "process" and "power"
    MaxBoots       \* how many times the server is started

ASSUME WritePathAssumption ==
    /\ BatchSizes \subseteq Nat
    /\ MaxGroup \in Nat \ {0}
    /\ MpscCap \in Nat \ {0}
    /\ HandoffCap \in Nat \ {0}
    /\ CrashKinds \subseteq {"process", "power"}
    /\ MaxBoots \in Nat \ {0}
    /\ PartitionOf \in [Row -> Nat]

VARIABLES
    server,    \* the server process is "up" or "down"
    intake,    \* "closed" when the last sender of the ingest channel is gone
    ingest,    \* WalCommand::Append batches waiting for the WAL worker
    truncate,  \* flushed rows waiting to be confirmed
    handoff,   \* durable batches waiting for the MemTable worker
    walPc,     \* select, commit, ack, send, count, rotate, reclaim or done
    group,     \* the batches of the group commit not yet handed off
    written,   \* the records of the group handled so far
    nextRow,   \* the number the next row posted gets
    boots,     \* how many times the server was started
    acked,     \* history: rows answered with 200 OK
    logged,    \* history: rows the WAL worker has counted since startup
    gone,      \* history: rows of chunk files a power loss took away
    misread,   \* history: a start has failed to read part of the log
    overrun    \* history: unstored rows that a misread log has deleted

channels == <<ingest, truncate, handoff>>
walLoop  == <<walPc, group, written>>
ghosts   == <<gone, misread, overrun>>
vars == <<walVars, memVars, server, intake, channels, walLoop,
          nextRow, boots, acked, logged, ghosts>>

BatchQueue == Seq(SUBSET Row)

Up == server = "up"

TypeOK ==
    /\ WalTypeOK
    /\ memPc \in {"recv", "check", "flush", "signal", "done"}
    /\ loop \in {"running", "ended"}
    /\ table \subseteq Row
    /\ live \in BatchQueue
    /\ taken \in BatchQueue
    /\ unwritten \subseteq Row
    /\ files \in BatchQueue
    /\ flushed \subseteq Row
    /\ shed \subseteq Row
    /\ server \in {"up", "down"}
    /\ intake \in {"open", "closed"}
    /\ ingest \in BatchQueue /\ Len(ingest) <= MpscCap
    /\ truncate \in BatchQueue /\ Len(truncate) <= MpscCap
    /\ handoff \in BatchQueue /\ Len(handoff) <= HandoffCap
    /\ walPc \in {"select", "commit", "ack", "send", "count",
                  "rotate", "reclaim", "done"}
    /\ group \in BatchQueue
    /\ written \in Nat
    /\ nextRow \in 1..(MaxRow + 1)
    /\ boots \in 1..MaxBoots
    /\ acked \subseteq Row
    /\ logged \subseteq Row
    /\ gone \subseteq Row
    /\ misread \in BOOLEAN
    /\ overrun \subseteq Row

-----------------------------------------------------------------------------
(***************************************************************************)
(* The ingest handlers                                                     *)
(***************************************************************************)
\* handle_ingest sends its batch; the send waits while the channel is full.
Post(size) ==
    /\ Up /\ intake = "open"
    /\ Len(ingest) < MpscCap
    /\ nextRow + size <= MaxRow + 1
    /\ ingest' = Append(ingest, nextRow..(nextRow + size - 1))
    /\ nextRow' = nextRow + size
    /\ UNCHANGED <<walVars, memVars, server, intake, truncate, handoff, walLoop,
                   boots, acked, logged, ghosts>>

\* The servers have drained and run_server drops the last wal_tx.
CloseIngest ==
    /\ Up /\ intake = "open"
    /\ intake' = "closed"
    /\ UNCHANGED <<walVars, memVars, server, channels, walLoop,
                   nextRow, boots, acked, logged, ghosts>>

-----------------------------------------------------------------------------
(***************************************************************************)
(* The WAL worker: select_commands and handle_append_group                 *)
(***************************************************************************)
walBeside == <<memVars, server, intake, nextRow, boots, gone, misread>>
walElsewhere == <<walBeside, overrun>>

\* One append, and with it every batch already waiting, up to MaxGroup.
TakeGroup ==
    LET size == IF Len(ingest) < MaxGroup THEN Len(ingest) ELSE MaxGroup
    IN  /\ Up /\ walPc = "select"
        /\ ingest # <<>>
        /\ group' = SubSeq(ingest, 1, size)
        /\ ingest' = SubSeq(ingest, size + 1, Len(ingest))
        /\ walPc' = "commit"
        /\ UNCHANGED <<walVars, walElsewhere, truncate, handoff, written,
                       acked, logged>>

\* The group is appended and synced once.
Commit ==
    /\ Up /\ walPc = "commit"
    /\ AppendSynced(RowsIn(group))
    /\ walPc' = "ack"
    /\ UNCHANGED <<walElsewhere, channels, group, written, acked, logged>>

\* The group cannot be made durable: every batch of it is answered with an
\* error, whatever part of it reached the file.
Refuse ==
    /\ Up /\ walPc = "commit"
    /\ \/ \E cut \in RowsIn(group) \cup {nextRow} :
             AppendFails({r \in RowsIn(group) : r < cut})
       \/ writer = "failed" /\ UNCHANGED walVars
    /\ walPc' = "select"
    /\ group' = <<>>
    /\ UNCHANGED <<walElsewhere, channels, written, acked, logged>>

\* The next batch of the group is counted and answered Ok ...
Ack ==
    /\ Up /\ walPc = "ack"
    /\ acked' = acked \cup Head(group)
    /\ logged' = logged \cup Head(group)
    /\ written' = written + Cardinality(Head(group))
    /\ walPc' = "send"
    /\ UNCHANGED <<walVars, walElsewhere, channels, group>>

\* ... and only then handed off, waiting while the channel is full.
HandOff ==
    /\ Up /\ walPc = "send"
    /\ Len(handoff) < HandoffCap
    /\ handoff' = Append(handoff, Head(group))
    /\ group' = Tail(group)
    /\ walPc' = IF Tail(group) = <<>> THEN "count" ELSE "ack"
    /\ UNCHANGED <<walVars, walElsewhere, ingest, truncate, written,
                   acked, logged>>

\* The records of the group are added to the cumulative count.
CountGroup ==
    /\ Up /\ walPc = "count"
    /\ RecordsWritten(written)
    /\ written' = 0
    /\ walPc' = "select"
    /\ UNCHANGED <<diskVars, writer, segments, confirmed, nextSeq, buried,
                   faults, walElsewhere, channels, group, acked, logged>>

\* A truncate signal: confirm counts its rows, then rotates, then reclaims.
TakeSignal ==
    /\ Up /\ walPc = "select"
    /\ truncate # <<>>
    /\ CountConfirmed(Cardinality(Head(truncate)))
    /\ truncate' = Tail(truncate)
    /\ walPc' = "rotate"
    /\ UNCHANGED <<walElsewhere, ingest, handoff, group, written, acked, logged>>

\* The rows a log that was misread deletes or overwrites and no chunk holds.
NoteOverrun ==
    overrun' = overrun \cup
        (IF misread THEN Replayable \ (Replayable' \cup Stored) ELSE {})

RotateLog ==
    /\ Up /\ walPc = "rotate"
    /\ Rotate
    /\ walPc' = "reclaim"
    /\ NoteOverrun
    /\ UNCHANGED <<walBeside, channels, group, written, acked, logged>>

ReclaimSegment ==
    /\ Up /\ walPc = "reclaim"
    /\ \E segment \in segments : Reclaim(segment)
    /\ NoteOverrun
    /\ UNCHANGED <<walBeside, channels, walLoop, acked, logged>>

ReclaimDone ==
    /\ Up /\ walPc = "reclaim"
    /\ \A segment \in segments : ~Reclaimable(segment)
    /\ walPc' = "select"
    /\ UNCHANGED <<walVars, walElsewhere, channels, group, written, acked, logged>>

\* Mutant of WalDone: the loop ends only once the truncate channel is closed too.
WalDoneAfterSignals ==
    /\ Up /\ walPc = "select"
    /\ intake = "closed" /\ ingest = <<>>
    /\ memPc = "done"
    /\ walPc' = "done"
    /\ UNCHANGED <<walVars, walElsewhere, channels, group, written, acked, logged>>

\* The ingest channel is closed and empty: the loop breaks, whatever is left
\* on the truncate channel, and drops the handoff sender.
WalDone ==
    /\ Up /\ walPc = "select"
    /\ intake = "closed" /\ ingest = <<>>
    /\ walPc' = "done"
    /\ UNCHANGED <<walVars, walElsewhere, channels, group, written, acked, logged>>

WalWorker ==
    \/ TakeGroup \/ Commit \/ Refuse \/ Ack \/ HandOff \/ CountGroup
    \/ TakeSignal \/ RotateLog \/ ReclaimSegment \/ ReclaimDone \/ WalDone

-----------------------------------------------------------------------------
(***************************************************************************)
(* The MemTable worker: run_memtable_loop                                  *)
(***************************************************************************)
memElsewhere == <<walVars, server, intake, ingest, walLoop,
                  nextRow, boots, acked, logged, ghosts>>

MemReceive ==
    /\ Up
    /\ handoff # <<>>
    /\ Receive(Head(handoff))
    /\ handoff' = Tail(handoff)
    /\ UNCHANGED <<memElsewhere, truncate>>

MemTimeout ==
    /\ Up
    /\ handoff = <<>> /\ walPc # "done"
    /\ ReceiveTimesOut
    /\ UNCHANGED <<memElsewhere, truncate, handoff>>

MemDisconnected ==
    /\ Up
    /\ handoff = <<>> /\ walPc = "done"
    /\ ReceiveDisconnected
    /\ UNCHANGED <<memElsewhere, truncate, handoff>>

MemIntervalDue ==
    /\ Up
    /\ CheckIntervalDue
    /\ UNCHANGED <<memElsewhere, truncate, handoff>>

MemCheck ==
    /\ Up
    /\ CheckNotDue \/ CheckOverLimit
    /\ UNCHANGED <<memElsewhere, truncate, handoff>>

MemWriteChunk ==
    /\ Up
    /\ WriteChunk
    /\ UNCHANGED <<memElsewhere, truncate, handoff>>

\* Mutant of MemFlushFails: the row count is sent for a failed flush as well.
MemFlushFailsSignalled ==
    /\ Up
    /\ Len(truncate) < MpscCap
    /\ truncate' = Append(truncate, RowsIn(taken))
    /\ FlushFails
    /\ Fault("flush")
    /\ UNCHANGED <<diskVars, walState, buried, server, intake, ingest, handoff,
                   walLoop, nextRow, boots, acked, logged, ghosts>>

MemFlushFails ==
    /\ Up
    /\ FlushFails
    /\ Fault("flush")
    /\ UNCHANGED <<diskVars, walState, buried, server, intake, channels, walLoop,
                   nextRow, boots, acked, logged, ghosts>>

\* truncate_tx.blocking_send: waits while the channel is full, and fails at
\* once when the WAL worker has gone.
MemSignal ==
    /\ Up
    /\ FlushDone
    /\ IF walPc = "done"
          THEN UNCHANGED truncate
          ELSE /\ Len(truncate) < MpscCap
               /\ truncate' = Append(truncate, RowsIn(taken))
    /\ UNCHANGED <<memElsewhere, handoff>>

MemWorker ==
    \/ MemReceive \/ MemTimeout \/ MemDisconnected \/ MemIntervalDue
    \/ MemCheck \/ MemWriteChunk \/ MemFlushFails \/ MemSignal

-----------------------------------------------------------------------------
(***************************************************************************)
(* Exit, crash and restart                                                 *)
(***************************************************************************)
\* Everything the process held in memory.
ForgetMemory ==
    /\ server' = "down"
    /\ intake' = "open"
    /\ ingest' = <<>> /\ truncate' = <<>> /\ handoff' = <<>>
    /\ walPc' = "select" /\ group' = <<>> /\ written' = 0
    /\ logged' = {}
    /\ ForgetWalState
    /\ memPc' = "recv" /\ loop' = "running"
    /\ table' = {} /\ live' = <<>> /\ taken' = <<>> /\ unwritten' = {}
    /\ flushed' = {}

\* drain_write_path has joined both workers and the process ends.
Exit ==
    /\ Up
    /\ walPc = "done" /\ memPc = "done"
    /\ ForgetMemory
    /\ UNCHANGED <<diskVars, buried, faults, files, shed,
                   nextRow, boots, acked, ghosts>>

\* What an interrupted group commit leaves in the file.
CommitCut ==
    IF walPc = "commit" /\ writer = "open"
       THEN \E cut \in RowsIn(group) \cup {nextRow} :
               AppendCut({r \in RowsIn(group) : r < cut})
       ELSE UNCHANGED <<active, tail, buried>>

\* The chunk files are never synced: a power loss may take any of them.
ChunksLost ==
    \E kept \in SUBSET DOMAIN files :
        /\ files' = [i \in DOMAIN files |-> IF i \in kept THEN files[i] ELSE {}]
        /\ gone' = gone \cup (Stored \ RowsIn(files'))

\* The process dies at any moment: killed, out of time while draining, or
\* interrupted a second time; or the machine loses power.  (A crash nobody
\* restarts from shows nothing more: the properties speak of the disk.)
Crash ==
    /\ Up /\ boots < MaxBoots
    /\ \/ "process" \in CrashKinds /\ UNCHANGED <<files, gone>>
       \/ "power" \in CrashKinds /\ ChunksLost
    /\ CommitCut
    /\ ForgetMemory
    /\ UNCHANGED <<sealed, faults, shed, nextRow, boots, acked, misread, overrun>>

\* run_server: replay the whole log into the LiveBuffer and start the workers.
\* (Unreadable bytes behind a torn record may also make replay fail, and then
\* the server does not start: that is a behaviour with no Boot step.)
Boot ==
    /\ ~Up /\ boots < MaxBoots
    /\ server' = "up"
    /\ boots' = boots + 1
    /\ \/ OpenWal /\ UNCHANGED misread
       \/ OpenWalMisread /\ misread' = TRUE
    /\ MemStart(Replayable)
    /\ logged' = Replayable
    /\ UNCHANGED <<files, intake, channels, walLoop, nextRow, acked, gone, overrun>>

-----------------------------------------------------------------------------
Init ==
    /\ WalInit /\ MemInit
    /\ server = "up" /\ intake = "open"
    /\ ingest = <<>> /\ truncate = <<>> /\ handoff = <<>>
    /\ walPc = "select" /\ group = <<>> /\ written = 0
    /\ nextRow = 1 /\ boots = 1
    /\ acked = {} /\ logged = {}
    /\ gone = {} /\ misread = FALSE /\ overrun = {}

Next ==
    \/ \E size \in BatchSizes : Post(size)
    \/ CloseIngest
    \/ WalWorker
    \/ MemWorker
    \/ Exit
    \/ Crash
    \/ Boot

Spec == Init /\ [][Next]_vars

-----------------------------------------------------------------------------
(***************************************************************************)
(* Safety                                                                  *)
(***************************************************************************)
\* Rows that the code gives up, and that only the ghosts remember: dropped by
\* the cap of the live buffer and not replayed since, written behind a torn
\* record, in a chunk file that a power loss took, or in a segment that was
\* deleted or overwritten after a start had failed to read part of the log.
Excused == shed \cup buried \cup gone \cup overrun

\* An acknowledged row can be replayed from the log or read from Parquet, in
\* every state and through every crash, unless it is excused.  Segments are
\* deleted by counting rows (confirm), so this is the claim that the count of
\* confirmed rows never runs ahead of the rows it should stand for, as long as
\* every start could count the log (WalState::open).
AckedRowsSurvive == acked \ Excused \subseteq Replayable \cup Stored

\* The same without excuses: what zero-loss-wal.md promises.
AckedRowsAlwaysSurvive == acked \subseteq Replayable \cup Stored

\* The same where a power loss is no excuse: storage-engine.md calls a chunk on disk
\* "durable beyond the WAL", and its log segment goes on the strength of it.
ChunksAreDurable ==
    acked \ (shed \cup buried \cup overrun) \subseteq Replayable \cup Stored

\* Unless a start failed to read part of the log, a step that deletes or
\* overwrites a segment file destroys no acknowledged row that this run of the
\* server has neither flushed nor shed (confirm and rotate, worker.rs).
ReclaimsOnlyFlushedRows ==
    [][\A file \in sealed \ sealed' :
          (file.rows \cap acked) \ shed \subseteq flushed \/ misread]_vars

\* The same without that proviso: what the head of wal.rs says of it.
DeletesOnlyFlushedRows ==
    [][\A file \in sealed \ sealed' :
          (file.rows \cap acked) \ shed \subseteq flushed]_vars

\* A row is stored twice only if a restart replayed it or a failed flush is
\* retried: without them every row is in one chunk file at most, however the
\* two workers interleave (flush_live_buffer, return_to_live_buffer).
DuplicatesBounded == \A r \in Row : Copies(r) <= boots + faults

\* Once both workers have ended after a graceful shutdown and the last flush
\* succeeded, every acknowledged row is in Parquet (run_server's last words:
\* "write path drained - every acknowledged row is on disk").
DrainedIsStored ==
    Up /\ walPc = "done" /\ memPc = "done" /\ live = <<>>
        => acked \ Excused \subseteq Stored

\* Between two turns of the MemTable worker the live buffer is within live_cap,
\* whatever failed, unless it is the one batch a restart replayed into it.
LiveBufferBounded ==
    memPc = "recv" =>
        \/ Cardinality(RowsIn(live)) <= LiveCap
        \/ flushed = {} /\ Len(live) = 1

\* The two workers never wait for each other: the WAL worker for room on the
\* handoff channel, the MemTable worker for room on the truncate channel.
NoCyclicWait ==
    ~ /\ walPc = "send" /\ Len(handoff) = HandoffCap
      /\ memPc = "signal" /\ Len(truncate) = MpscCap

\* The store that the write path implements: its log is what replay_all would
\* return, and the rows it gives up are the excused ones.
Store == INSTANCE LogStore WITH
    log <- Replayable, stored <- Stored, lost <- Excused, counted <- ~misread

\* Every step of the handlers, the workers, a crash or a restart is a step of
\* the store or none: rows are acknowledged once and after they are logged, no
\* row reaches Parquet that was not logged, a log that every start could count
\* forgets an acknowledged row only when a chunk holds it, and only a power loss
\* takes a row out of Parquet (handle_append_group, flush_live_buffer, confirm).
ImplementsStore == Store!Spec

-----------------------------------------------------------------------------
(***************************************************************************)
(* Liveness                                                                *)
(*                                                                         *)
(* Both workers are threads of their own that the operating system keeps   *)
(* running, and flush_interval elapses again and again while the loop      *)
(* turns.  A server that was stopped is started again.  Clients, shutdown, *)
(* faults and crashes owe nothing.                                         *)
(***************************************************************************)
WalSteps ==
    \/ TakeGroup \/ Commit \/ Ack \/ HandOff \/ CountGroup
    \/ RotateLog \/ ReclaimSegment \/ ReclaimDone \/ WalDone
    \/ (walPc = "commit" /\ writer = "failed" /\ Refuse)

MemSteps ==
    \/ MemReceive \/ MemTimeout \/ MemDisconnected
    \/ MemCheck \/ MemWriteChunk \/ MemSignal

Fairness ==
    /\ WF_vars(WalSteps)
    /\ SF_vars(TakeSignal)
    /\ WF_vars(MemSteps)
    /\ SF_vars(MemIntervalDue)
    /\ WF_vars(Boot)

FairSpec == Spec /\ Fairness

\* The last flush of a shutdown failed: its rows stay for the next replay.
LeftToReplay(r) == memPc = "done" /\ r \in Replayable \cup buried

\* Whatever fails or crashes on the way, every acknowledged row eventually leaves
\* memory: it is stored in Parquet, given up, or left to the next replay
\* (run_memtable_loop).
AckedRowsReachParquet ==
    \A r \in Row :
        (Up /\ r \in acked) ~> (r \in Stored \cup Excused \/ LeftToReplay(r))

\* A graceful shutdown ends, unless a crash ends it first: both workers exit
\* after the channel is closed (select_commands, run_memtable_loop).
ShutdownDrains ==
    intake = "closed" ~> (walPc = "done" /\ memPc = "done") \/ ~Up
=============================================================================
