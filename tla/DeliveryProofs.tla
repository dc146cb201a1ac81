---------------------------- MODULE DeliveryProofs ----------------------------
(***************************************************************************)
(* What WritePath delivers to Parquet, for every value of the constants:   *)
(* everything, once it has drained; no row more often than starts and      *)
(* errors account for; and with a buffer that stays bounded on the way.    *)
(*                                                                         *)
(* Three invariants beside IInv, each with one step to itself where the    *)
(* argument is: the last flush for DrainInv, the writing of a chunk for    *)
(* CopiesInv, the shedding of rows for LiveBufferBounded.                  *)
(***************************************************************************)
EXTENDS StoreProofs

USE DEF vars, walVars, diskVars, walState, memVars, memMemory, channels, walLoop,
        walElsewhere, walBeside, memElsewhere, ghosts, Up

-----------------------------------------------------------------------------
(***************************************************************************)
(* Draining                                                                *)
(***************************************************************************)
\* An action of the WAL worker, an append or a close leaves an ended loop alone,
\* for the worker has ended before.
LEMMA DrainWal ==
    ASSUME DrainInv, WalWorker \/ CloseIngest \/ \E size \in BatchSizes : Post(size)
    PROVE  DrainInv'
<1>1. UNCHANGED memVars
  BY DEF WalWorker, TakeGroup, Commit, Refuse, Ack, HandOff, CountGroup, TakeSignal,
         RotateLog, ReclaimSegment, ReclaimDone, WalDone, CloseIngest, Post
<1>2. walPc = "done" => walPc' = "done" /\ handoff' = handoff
  BY DEF WalWorker, TakeGroup, Commit, Refuse, Ack, HandOff, CountGroup, TakeSignal,
         RotateLog, ReclaimSegment, ReclaimDone, WalDone, CloseIngest, Post
<1>3. QED
  BY <1>1, <1>2 DEF DrainInv

\* The worker ends its loop when the channel is closed and empty, and pushes the
\* table as it does.
LEMMA DrainMem ==
    ASSUME IInv, DrainInv, MemWorker
    PROVE  DrainInv'
<1>1. UNCHANGED walPc /\ loop \in {"running", "ended"}
  BY DEF MemWorker, MemReceive, MemTimeout, MemDisconnected, MemIntervalDue, MemCheck,
         MemWriteChunk, MemFlushFails, MemSignal, IInv, TypeOK
<1>2. CASE MemReceive \/ MemTimeout \/ MemIntervalDue \/ MemCheck
  <2>1. memPc \in {"recv", "check"} /\ loop' = loop
    BY <1>2 DEF MemReceive, MemTimeout, MemIntervalDue, MemCheck, Receive,
       ReceiveTimesOut, CheckIntervalDue, CheckNotDue, CheckOverLimit
  <2>2. memPc' # "done"
    BY <1>2 DEF MemReceive, MemTimeout, MemIntervalDue, MemCheck, Receive,
       ReceiveTimesOut, CheckIntervalDue, CheckNotDue, CheckOverLimit, Take
  <2>3. QED
    BY <2>1, <2>2 DEF DrainInv
<1>3. CASE MemDisconnected
  BY <1>3 DEF MemDisconnected, ReceiveDisconnected, Take, DrainInv
<1>4. CASE MemWriteChunk
  BY <1>1, <1>4 DEF MemWriteChunk, WriteChunk, DrainInv
<1>5. CASE MemFlushFails
  BY <1>1, <1>5 DEF MemFlushFails, FlushFails, DrainInv
<1>6. CASE MemSignal
  BY <1>1, <1>6 DEF MemSignal, FlushDone, DrainInv
<1>7. QED
  BY <1>2, <1>3, <1>4, <1>5, <1>6 DEF MemWorker

\* Every step keeps what a drain promises.
LEMMA DrainStep ==
    ASSUME IInv, DrainInv, [Next]_vars
    PROVE  DrainInv'
<1>1. ASSUME Exit \/ Crash \/ Boot PROVE DrainInv'
  BY <1>1 DEF Exit, Crash, Boot, ForgetMemory, MemStart, DrainInv
<1>2. ASSUME UNCHANGED vars PROVE DrainInv'
  BY <1>2 DEF DrainInv
<1>3. QED
  BY <1>1, <1>2, DrainWal, DrainMem DEF Next

\* A logged row is flushed, shed, or in a stage, and the stages are empty.
LEMMA DrainedStages ==
    ASSUME IInv, DrainInv
    PROVE  DrainedIsStored
<1> SUFFICES ASSUME Up, walPc = "done", memPc = "done", live = <<>>,
                    NEW r \in acked \ Excused
             PROVE  r \in Stored
  BY DEF DrainedIsStored
<1>1. InMemory = {}
  <2>1. taken = <<>> /\ table = {} /\ handoff = <<>> /\ Delivering = {}
    BY DEF IInv, ControlInv, DrainInv, Delivering
  <2>2. QED
    BY <2>1, RowsInEmpty DEF InMemory, Staged
<1>2. r \in Replayable \cup Stored
  BY DEF IInv, AckedRowsSurvive
<1>3. r \in Replayable => r \in flushed \cup shed
  BY <1>1 DEF IInv, DiskInv, StagesInv
<1>4. QED
  BY <1>2, <1>3 DEF IInv, ChunksInv, Excused

\* After a graceful shutdown whose last flush succeeded every acknowledged row is
\* in Parquet, however the two workers interleaved before it and whatever failed
\* or crashed before (drain_write_path).
THEOREM DrainStores == Spec => []DrainedIsStored
<1>1. Init => IInv /\ DrainInv
  BY InitStep DEF Init, MemInit, DrainInv
<1>2. IInv /\ DrainInv /\ [Next]_vars => IInv' /\ DrainInv'
  BY InvariantStep, DrainStep
<1>3. IInv /\ DrainInv => DrainedIsStored
  BY DrainedStages
<1>4. QED
  BY <1>1, <1>2, <1>3, PTL DEF Spec

-----------------------------------------------------------------------------
(***************************************************************************)
(* The live buffer                                                         *)
(***************************************************************************)
LEMMA LiveCapIsLimit == FlushRowLimit \in Nat /\ LiveCap \in Nat /\ FlushRowLimit <= LiveCap
BY MemTableAssumption DEF LiveCap

\* What a loop finds that receives again without having flushed.
LEMMA LiveAfterCheck ==
    ASSUME IInv, MemIntervalDue \/ MemCheck, memPc' = "recv"
    PROVE  Cardinality(RowsIn(live')) <= LiveCap
<1>1. CASE MemIntervalDue
  <2>1. Push(table, live) = <<>> /\ live' = live
    BY <1>1 DEF MemIntervalDue, CheckIntervalDue, Take
  <2>2. live = <<>>
    <3>1. live \in Seq(SUBSET Row) /\ table \in SUBSET Row
      BY DEF IInv, TypeOK, BatchQueue
    <3>2. Append(live, table) # <<>>
      BY <3>1
    <3>3. QED
      BY <2>1, <3>2 DEF Push
  <2>3. QED
    BY <2>1, <2>2, RowsInEmpty, FS_EmptySet, LiveCapIsLimit
<1>2. CASE MemCheck
  <2>1. live' = live /\ Cardinality(RowsIn(live)) < FlushRowLimit
    BY <1>2 DEF MemCheck, CheckNotDue, CheckOverLimit, Take
  <2>2. RowsIn(live) \in SUBSET Row
    BY RowsInType DEF IInv, TypeOK
  <2>3. QED
    BY <2>1, <2>2, RowsFinite, LiveCapIsLimit
<1>3. QED
  BY <1>1, <1>2

\* What a flush leaves that has taken the whole buffer.
LEMMA LiveAfterFlush ==
    ASSUME IInv, MemFlushFails \/ MemSignal
    PROVE  Cardinality(RowsIn(live')) <= LiveCap
<1>1. CASE MemFlushFails
  BY <1>1 DEF MemFlushFails, FlushFails, Sheds
<1>2. CASE MemSignal
  <2>1. live = <<>> /\ live' = live
    BY <1>2 DEF MemSignal, FlushDone, IInv, ControlInv
  <2>2. QED
    BY <2>1, RowsInEmpty, FS_EmptySet, LiveCapIsLimit
<1>3. QED
  BY <1>1, <1>2

\* Every step keeps the bound of the live buffer.
LEMMA LiveStep ==
    ASSUME IInv, LiveBufferBounded, [Next]_vars
    PROVE  LiveBufferBounded'
<1> SUFFICES ASSUME memPc' = "recv"
             PROVE  \/ Cardinality(RowsIn(live')) <= LiveCap
                    \/ flushed' = {} /\ Len(live') = 1
  BY DEF LiveBufferBounded
<1>1. CASE UNCHANGED <<memPc, live, flushed>>
  BY <1>1 DEF LiveBufferBounded
<1>2. ASSUME live' = <<>> PROVE Cardinality(RowsIn(live')) <= LiveCap
  BY <1>2, RowsInEmpty, FS_EmptySet, LiveCapIsLimit
<1>3. CASE MemWorker
  <2>1. MemIntervalDue \/ MemCheck \/ MemFlushFails \/ MemSignal
    BY <1>3 DEF MemWorker, MemReceive, MemTimeout, MemDisconnected, MemWriteChunk,
       Receive, ReceiveTimesOut, ReceiveDisconnected, Take, WriteChunk
  <2>2. QED
    BY <2>1, LiveAfterCheck, LiveAfterFlush
<1>4. CASE Exit \/ Crash
  BY <1>2, <1>4 DEF Exit, Crash, ForgetMemory
<1>5. CASE Boot
  <2>1. flushed' = {} /\ live' = Push(Replayable, <<>>)
    BY <1>5 DEF Boot, MemStart
  <2>2. live' = <<>> \/ Len(live') = 1
    BY <2>1 DEF Push
  <2>3. QED
    BY <1>2, <2>1, <2>2
<1>6. ASSUME (\E size \in BatchSizes : Post(size)) \/ CloseIngest \/ WalWorker
      PROVE  UNCHANGED <<memPc, live, flushed>>
  BY <1>6 DEF Post, CloseIngest, WalWorker, TakeGroup, Commit, Refuse, Ack, HandOff,
     CountGroup, TakeSignal, RotateLog, ReclaimSegment, ReclaimDone, WalDone
<1>7. QED
  BY <1>1, <1>3, <1>4, <1>5, <1>6 DEF Next

\* Whatever fails and however often, the live buffer is within live_cap when the
\* worker waits for the next batch, unless it still is the one batch that a restart
\* replayed (return_to_live_buffer).
THEOREM LiveBufferStaysBounded == Spec => []LiveBufferBounded
<1>1. Init => IInv /\ LiveBufferBounded
  <2>1. Init => live = <<>>
    BY DEF Init, MemInit
  <2>2. QED
    BY <2>1, InitStep, RowsInEmpty, FS_EmptySet, LiveCapIsLimit DEF LiveBufferBounded
<1>2. IInv /\ LiveBufferBounded /\ [Next]_vars => IInv' /\ LiveBufferBounded'
  BY InvariantStep, LiveStep
<1>3. QED
  BY <1>1, <1>2, PTL DEF Spec

-----------------------------------------------------------------------------
(***************************************************************************)
(* Copies                                                                  *)
(***************************************************************************)
\* The chunks that hold a row are finitely many.
LEMMA CopiesType ==
    ASSUME IInv, NEW r
    PROVE  /\ IsFiniteSet({i \in DOMAIN files : r \in files[i]})
           /\ Copies(r) \in Nat
<1>1. files \in Seq(SUBSET Row)
  BY DEF IInv, TypeOK, BatchQueue
<1>2. Len(files) \in Nat /\ DOMAIN files = 1..Len(files)
  BY <1>1
<1>3. IsFiniteSet(DOMAIN files)
  BY <1>2, FS_Interval
<1>4. IsFiniteSet({i \in DOMAIN files : r \in files[i]})
  BY <1>3, FS_Subset
<1>5. QED
  BY <1>4, FS_CardinalityType DEF Copies

\* Steps that write no chunk and make no row pending.
LEMMA CopiesKept ==
    ASSUME CopiesInv, files' = files, boots' = boots, faults \in Nat, boots \in Nat,
           IInv, faults' \in Nat, faults <= faults',
           \A r \in Row : Pending(r)' => Pending(r)
    PROVE  CopiesInv'
<1> SUFFICES ASSUME NEW r \in Row
             PROVE  Copies(r)' + (IF Pending(r)' THEN 1 ELSE 0) <= boots' + faults'
  BY DEF CopiesInv
<1>1. Copies(r)' = Copies(r) /\ Copies(r) \in Nat
  BY CopiesType DEF Copies
<1>2. Copies(r) + (IF Pending(r) THEN 1 ELSE 0) <= boots + faults
  BY DEF CopiesInv
<1>3. Pending(r)' => Pending(r)
  OBVIOUS
<1>4. QED
  BY <1>1, <1>2, <1>3

\* Steps that allow one copy more than before, and write none.
LEMMA CopiesAllowed ==
    ASSUME IInv, CopiesInv, boots \in Nat, faults \in Nat, boots' \in Nat, faults' \in Nat,
           boots + faults + 1 <= boots' + faults', files' = files
    PROVE  CopiesInv'
<1> SUFFICES ASSUME NEW r \in Row
             PROVE  Copies(r)' + (IF Pending(r)' THEN 1 ELSE 0) <= boots' + faults'
  BY DEF CopiesInv
<1>1. Copies(r)' = Copies(r) /\ Copies(r) \in Nat
  BY CopiesType DEF Copies
<1>2. Copies(r) <= boots + faults
  <2>1. Copies(r) + (IF Pending(r) THEN 1 ELSE 0) <= boots + faults
    BY DEF CopiesInv
  <2>2. CASE Pending(r)
    BY <1>1, <2>1, <2>2
  <2>3. CASE ~ Pending(r)
    BY <1>1, <2>1, <2>3
  <2>4. QED
    BY <2>2, <2>3
<1>3. Copies(r)' + 1 <= boots' + faults'
  <2>1. \A n, a, b, c, d \in Nat :
            n <= a + b /\ a + b + 1 <= c + d => n + 1 <= c + d
    OBVIOUS
  <2>2. QED
    BY <1>1, <1>2, <2>1
<1>4. QED
  <2>1. CASE Pending(r)'
    BY <1>3, <2>1
  <2>2. CASE ~ Pending(r)'
    BY <1>1, <1>3, <2>2
  <2>3. QED
    BY <2>1, <2>2

\* The counts of starts and errors.
LEMMA CountTypes == ASSUME IInv PROVE boots \in Nat /\ faults \in Nat
BY WalAssumption, WritePathAssumption DEF IInv, TypeOK, WalTypeOK

\* A batch posted had rows that nobody had seen.
LEMMA CopiesPost ==
    ASSUME IInv, CopiesInv, NEW size \in BatchSizes, Post(size)
    PROVE  CopiesInv'
<1>1. /\ ingest \in Seq(SUBSET Row)
      /\ nextRow \in Nat /\ size \in Nat
      /\ nextRow..(nextRow + size - 1) \in SUBSET Row
  BY WalAssumption, WritePathAssumption DEF IInv, TypeOK, BatchQueue, Post, Row
<1>2. RowsIn(ingest') = RowsIn(ingest) \cup (nextRow..(nextRow + size - 1))
  BY <1>1, RowsInAppend DEF Post
<1>3. /\ nextRow' = nextRow + size
      /\ UNCHANGED <<memVars, handoff, group, walPc, boots, faults>>
  BY DEF Post
<1>4. ASSUME NEW r \in Row, Pending(r)' PROVE Pending(r)
  <2>1. r \in Nat
    BY DEF Row
  <2>2. r \in Incoming' => r \in Incoming \/ r >= nextRow
    BY <1>1, <1>2, <1>3, <2>1 DEF Incoming, Unanswered
  <2>3. r >= nextRow' => r >= nextRow
    BY <1>1, <1>3, <2>1
  <2>4. QED
    BY <1>3, <1>4, <2>2, <2>3 DEF Pending, Delivering
<1>5. QED
  BY <1>3, <1>4, CopiesKept, CountTypes

\* The WAL worker moves rows towards the MemTable, or refuses them.
LEMMA CopiesWal ==
    ASSUME IInv, CopiesInv, WalWorker
    PROVE  CopiesInv'
<1>1. /\ UNCHANGED <<memVars, boots, nextRow>>
      /\ faults' \in Nat /\ faults <= faults'
  <2>1. UNCHANGED <<memVars, boots, nextRow>>
    BY DEF WalWorker, TakeGroup, Commit, Refuse, Ack, HandOff, CountGroup, TakeSignal,
       RotateLog, ReclaimSegment, ReclaimDone, WalDone
  <2>2. faults' = faults \/ faults' = faults + 1
    BY DEF WalWorker, TakeGroup, Commit, AppendSynced, Refuse, AppendFails, Ack, HandOff,
       CountGroup, TakeSignal, CountConfirmed, RotateLog, Rotate, Seal, SealFails,
       CannotSeal, ReclaimSegment, Reclaim, ReclaimDone, WalDone, Fault, NoFault
  <2>3. QED
    BY <2>1, <2>2, CountTypes
<1>2. /\ ingest \in Seq(SUBSET Row) /\ group \in Seq(SUBSET Row)
      /\ handoff \in Seq(SUBSET Row)
  BY DEF IInv, TypeOK, BatchQueue
<1> DEFINE Moving == RowsIn(handoff) \cup Delivering \cup Incoming
<1>3. Moving' \subseteq Moving
  <2>1. CASE TakeGroup
    <3> DEFINE size == IF Len(ingest) < MaxGroup THEN Len(ingest) ELSE MaxGroup
    <3>1. size \in 0..Len(ingest)
      BY <1>2, WritePathAssumption
    <3>2. /\ walPc = "select" /\ walPc' = "commit" /\ handoff' = handoff
          /\ group' = SubSeq(ingest, 1, size)
          /\ ingest' = SubSeq(ingest, size + 1, Len(ingest))
      BY <2>1 DEF TakeGroup
    <3> HIDE DEF size
    <3>3. RowsIn(group') \cup RowsIn(ingest') = RowsIn(ingest)
      BY <1>2, <3>1, <3>2, RowsInSplit
    <3>4. QED
      BY <3>2, <3>3 DEF Delivering, Incoming, Unanswered
  <2>2. CASE Ack
    <3>1. /\ walPc = "ack" /\ walPc' = "send" /\ UNCHANGED <<handoff, ingest, group>>
      BY <2>2 DEF Ack
    <3>2. group # <<>>
      BY <3>1 DEF IInv, ControlInv
    <3>3. RowsIn(group) = Head(group) \cup RowsIn(Tail(group))
      BY <1>2, <3>2, RowsInTail
    <3>4. QED
      BY <3>1, <3>3 DEF Delivering, Incoming, Unanswered
  <2>3. CASE HandOff
    <3>1. /\ walPc = "send" /\ handoff' = Append(handoff, Head(group))
          /\ group' = Tail(group) /\ ingest' = ingest
          /\ walPc' \in {"count", "ack"}
      BY <2>3 DEF HandOff
    <3>2. group # <<>>
      BY <3>1 DEF IInv, ControlInv
    <3>3. Head(group) \in SUBSET Row
      BY <1>2, <3>2
    <3>4. RowsIn(handoff') = RowsIn(handoff) \cup Head(group)
      BY <1>2, <3>1, <3>3, RowsInAppend
    <3>5. QED
      BY <3>1, <3>4 DEF Delivering, Incoming, Unanswered
  <2>4. CASE Commit \/ Refuse
    BY <2>4 DEF Commit, Refuse, Delivering, Incoming, Unanswered
  <2>5. CASE CountGroup \/ TakeSignal \/ RotateLog \/ ReclaimSegment \/ ReclaimDone \/ WalDone
    BY <2>5 DEF CountGroup, TakeSignal, RotateLog, ReclaimSegment, ReclaimDone, WalDone,
       Delivering, Incoming, Unanswered
  <2>6. QED
    BY <2>1, <2>2, <2>3, <2>4, <2>5 DEF WalWorker
<1>4. \A r \in Row : Pending(r)' => Pending(r)
  BY <1>1, <1>3 DEF Pending
<1>5. QED
  BY <1>1, <1>4, CopiesKept, CountTypes

\* The MemTable worker moves rows towards the flush.
LEMMA CopiesStaging ==
    ASSUME IInv, CopiesInv, MemReceive \/ MemTimeout \/ MemDisconnected
                                \/ MemIntervalDue \/ MemCheck \/ MemSignal
    PROVE  CopiesInv'
<1>1. UNCHANGED <<files, boots, faults, nextRow, ingest, group, walPc>>
  BY DEF MemReceive, MemTimeout, MemDisconnected, MemIntervalDue, MemCheck, MemSignal,
     Receive, ReceiveTimesOut, ReceiveDisconnected, CheckIntervalDue, CheckNotDue,
     CheckOverLimit, FlushDone
<1>2. /\ live \in BatchQueue /\ table \in SUBSET Row /\ handoff \in Seq(SUBSET Row)
  BY DEF IInv, TypeOK, BatchQueue
<1>3. RowsIn(Push(table, live)) = RowsIn(live) \cup table
  BY <1>2, PushType
<1> DEFINE Waiting == unwritten \cup RowsIn(live) \cup table \cup RowsIn(handoff)
<1>4. Waiting' \subseteq Waiting
  <2>1. CASE MemReceive
    <3>1. handoff # <<>> /\ handoff' = Tail(handoff) /\ Receive(Head(handoff))
      BY <2>1 DEF MemReceive
    <3>2. /\ RowsIn(handoff) = Head(handoff) \cup RowsIn(Tail(handoff))
          /\ Head(handoff) \in SUBSET Row
      BY <1>2, <3>1, RowsInTail
    <3>3. RowsIn(Push(table \cup Head(handoff), live))
              = RowsIn(live) \cup table \cup Head(handoff)
      BY <1>2, <3>2, PushType
    <3>4. /\ unwritten' = unwritten
          /\ \/ table' = {} /\ live' = Push(table \cup Head(handoff), live)
             \/ table' = table \cup Head(handoff) /\ live' = live
      BY <3>1 DEF Receive
    <3>5. QED
      BY <3>1, <3>2, <3>3, <3>4
  <2>2. CASE MemTimeout
    BY <1>3, <2>2 DEF MemTimeout, ReceiveTimesOut
  <2>3. CASE MemDisconnected
    BY <1>3, <2>3, RowsInEmpty DEF MemDisconnected, ReceiveDisconnected, Take
  <2>4. CASE MemIntervalDue
    BY <1>3, <2>4, RowsInEmpty DEF MemIntervalDue, CheckIntervalDue, Take
  <2>5. CASE MemCheck
    BY <2>5, RowsInEmpty DEF MemCheck, CheckNotDue, CheckOverLimit, Take
  <2>6. CASE MemSignal
    BY <2>6 DEF MemSignal, FlushDone
  <2>7. QED
    BY <2>1, <2>2, <2>3, <2>4, <2>5, <2>6
<1>5. Delivering' = Delivering /\ Incoming' = Incoming
  BY <1>1 DEF Delivering, Incoming, Unanswered
<1>6. \A r \in Row : Pending(r)' => Pending(r)
  BY <1>1, <1>4, <1>5 DEF Pending
<1>7. QED
  BY <1>1, <1>6, CopiesKept, CountTypes

\* A row that is written was pending, and no longer is: it was in the flush, which
\* is older than every other stage and than the rows still to come.
LEMMA CopiesWritten ==
    ASSUME IInv, KnownInv, CopiesInv, MemWriteChunk
    PROVE  CopiesInv'
<1>1. /\ memPc = "flush"
      /\ files' = Append(files, NextChunk) /\ unwritten' = unwritten \ NextChunk
      /\ UNCHANGED <<live, table, handoff, ingest, group, walPc, nextRow, boots, faults>>
  BY DEF MemWriteChunk, WriteChunk
<1>2. /\ NextChunk \subseteq unwritten /\ unwritten \subseteq RowsIn(taken)
      /\ unwritten \subseteq Row
  BY DEF NextChunk, KnownInv, IInv, TypeOK
<1>3. /\ files \in Seq(SUBSET Row) /\ nextRow \in Nat /\ live = <<>>
  BY <1>1 DEF IInv, TypeOK, BatchQueue, ControlInv
<1>4. Delivering' = Delivering /\ Incoming' = Incoming
  BY <1>1 DEF Delivering, Incoming, Unanswered
<1> SUFFICES ASSUME NEW r \in Row
             PROVE  Copies(r)' + (IF Pending(r)' THEN 1 ELSE 0) <= boots' + faults'
  BY DEF CopiesInv
<1>5. Pending(r)' => Pending(r)
  BY <1>1, <1>4 DEF Pending
<1>6. Copies(r) \in Nat /\ Copies(r) + (IF Pending(r) THEN 1 ELSE 0) <= boots + faults
  BY CopiesType DEF CopiesInv
<1> DEFINE held == {i \in DOMAIN files : r \in files[i]}
<1>7. CASE r \in NextChunk
  <2>1. r \in unwritten /\ r \in RowsIn(taken) /\ r \in Nat
    BY <1>2, <1>7 DEF Row
  <2>2. Pending(r)
    BY <2>1 DEF Pending
  <2>3. ~ Pending(r)'
    <3>1. r \notin table \cup RowsIn(handoff) \cup Delivering
      <4>1. Before(Staged, table \cup RowsIn(handoff) \cup Delivering) /\ r \in Staged
        BY <2>1 DEF IInv, OrderInv, Staged
      <4>2. QED
        BY <2>1, <4>1 DEF Before
    <3>2. r \in logged
      BY <2>1 DEF IInv, StagesInv, InMemory, Staged
    <3>3. r \notin Incoming /\ r < nextRow
      <4>1. Before(logged \cup acked, Incoming)
        BY DEF IInv, IncomingInv
      <4>2. r < nextRow
        BY <3>2 DEF IInv, IncomingInv
      <4>3. QED
        BY <2>1, <3>2, <4>1, <4>2 DEF Before
    <3>4. r \notin unwritten' /\ r \notin RowsIn(live)
      BY <1>1, <1>3, <1>7, RowsInEmpty
    <3>5. ~ (r >= nextRow)
      BY <1>3, <2>1, <3>3
    <3>6. QED
      BY <1>1, <1>4, <3>1, <3>3, <3>4, <3>5 DEF Pending
  <2>4. Copies(r)' = Copies(r) + 1
    <3>1. NextChunk \in SUBSET Row
      BY <1>2
    <3>2. /\ DOMAIN files' = DOMAIN files \cup {Len(files) + 1}
          /\ Len(files) + 1 \notin DOMAIN files
          /\ \A i \in DOMAIN files : files'[i] = files[i]
          /\ files'[Len(files) + 1] = NextChunk
      BY <1>1, <1>3, <3>1
    <3>3. {i \in DOMAIN files' : r \in files'[i]} = held \cup {Len(files) + 1}
      BY <1>7, <3>2
    <3>4. IsFiniteSet(held) /\ Len(files) + 1 \notin held
      BY <3>2, CopiesType
    <3>5. Cardinality(held \cup {Len(files) + 1}) = Cardinality(held) + 1
      BY <3>4, FS_AddElement
    <3>6. QED
      BY <3>3, <3>5 DEF Copies
  <2>5. QED
    BY <1>1, <1>6, <2>2, <2>3, <2>4
<1>8. CASE r \notin NextChunk
  <2>1. NextChunk \in SUBSET Row
    BY <1>2
  <2>2. /\ DOMAIN files' = DOMAIN files \cup {Len(files) + 1}
        /\ \A i \in DOMAIN files : files'[i] = files[i]
        /\ files'[Len(files) + 1] = NextChunk
    BY <1>1, <1>3, <2>1
  <2>3. {i \in DOMAIN files' : r \in files'[i]} = held
    BY <1>8, <2>2
  <2>4. Copies(r)' = Copies(r)
    BY <2>3 DEF Copies
  <2>5. QED
    BY <1>1, <1>5, <1>6, <2>4, CountTypes
<1>9. QED
  BY <1>7, <1>8

\* The end of the process leaves nothing pending but what was never posted.
LEMMA CopiesDown ==
    ASSUME IInv, CopiesInv, Exit \/ Crash
    PROVE  CopiesInv'
<1>1. /\ ForgetMemory /\ UNCHANGED <<boots, faults, nextRow>>
      /\ files' = files \/ ChunksLost
  BY DEF Exit, Crash
<1> SUFFICES ASSUME NEW r \in Row
             PROVE  Copies(r)' + (IF Pending(r)' THEN 1 ELSE 0) <= boots' + faults'
  BY DEF CopiesInv
<1>2. Pending(r)' => Pending(r)
  <2>1. /\ unwritten' = {} /\ live' = <<>> /\ table' = {} /\ handoff' = <<>>
        /\ ingest' = <<>> /\ walPc' = "select"
    BY <1>1 DEF ForgetMemory
  <2>2. Incoming' = {} /\ Delivering' = {} /\ RowsIn(live') = {} /\ RowsIn(handoff') = {}
    BY <2>1, RowsInEmpty DEF Incoming, Unanswered, Delivering
  <2>3. QED
    BY <1>1, <2>1, <2>2 DEF Pending
<1>3. /\ Copies(r) \in Nat /\ Copies(r) + (IF Pending(r) THEN 1 ELSE 0) <= boots + faults
      /\ IsFiniteSet({i \in DOMAIN files : r \in files[i]})
  BY CopiesType DEF CopiesInv
<1>4. Copies(r)' \in Nat /\ Copies(r)' <= Copies(r)
  <2>1. {i \in DOMAIN files' : r \in files'[i]} \subseteq {i \in DOMAIN files : r \in files[i]}
    BY <1>1 DEF ChunksLost
  <2>2. QED
    BY <1>3, <2>1, FS_Subset, FS_CardinalityType DEF Copies
<1>5. QED
  BY <1>1, <1>2, <1>3, <1>4, CountTypes

\* Every step keeps the bound on copies.
LEMMA CopiesStep ==
    ASSUME IInv, KnownInv, CopiesInv, [Next]_vars
    PROVE  CopiesInv'
<1>1. CASE UNCHANGED vars \/ CloseIngest
  <2>1. UNCHANGED <<memVars, handoff, ingest, group, walPc, nextRow, boots, faults>>
    BY <1>1 DEF CloseIngest
  <2>2. \A r \in Row : Pending(r)' => Pending(r)
    BY <2>1 DEF Pending, Delivering, Incoming, Unanswered
  <2>3. QED
    BY <2>1, <2>2, CopiesKept, CountTypes
<1>2. CASE MemFlushFails
  <2>1. UNCHANGED <<files, boots>> /\ faults' = faults + 1
    BY <1>2 DEF MemFlushFails, FlushFails, Fault
  <2>2. QED
    BY <2>1, CopiesAllowed, CountTypes
<1>3. CASE Boot
  <2>1. /\ boots' = boots + 1 /\ files' = files
        /\ faults' = faults \/ faults' = faults + 1
    BY <1>3 DEF Boot, OpenWal, OpenWalMisread, OpenWriter, NoFault, Fault
  <2>2. QED
    BY <2>1, CopiesAllowed, CountTypes
<1>4. QED
  BY <1>1, <1>2, <1>3, CopiesPost, CopiesWal, CopiesStaging, CopiesWritten, CopiesDown
     DEF Next, MemWorker

\* A row is in as many chunks as the server was started and errors happened, at most:
\* nothing but a replay or a failed flush makes the two workers store it again
\* (flush_live_buffer, return_to_live_buffer).
THEOREM DuplicatesAreCounted == Spec => []DuplicatesBounded
<1>1. Init => IInv /\ KnownInv /\ CopiesInv
  <2>1. ASSUME Init PROVE CopiesInv
    <3>1. files = <<>> /\ boots = 1 /\ faults = 0
      BY <2>1 DEF Init, WalInit, MemInit
    <3>2. \A r : Copies(r) = 0
      BY <3>1, FS_EmptySet DEF Copies
    <3>3. QED
      BY <3>1, <3>2 DEF CopiesInv
  <2>2. QED
    BY <2>1, InitStep, StoreInit
<1>2. IInv /\ KnownInv /\ CopiesInv /\ [Next]_vars => IInv' /\ KnownInv' /\ CopiesInv'
  BY InvariantStep, StoreStep, CopiesStep
<1>3. IInv /\ CopiesInv => DuplicatesBounded
  <2> SUFFICES ASSUME IInv, CopiesInv, NEW r \in Row
               PROVE  Copies(r) <= boots + faults
    BY DEF DuplicatesBounded
  <2>1. Copies(r) \in Nat /\ Copies(r) + (IF Pending(r) THEN 1 ELSE 0) <= boots + faults
    BY CopiesType DEF CopiesInv
  <2>2. QED
    BY <2>1, CountTypes
<1>4. QED
  BY <1>1, <1>2, <1>3, PTL DEF Spec
=============================================================================
