--------------------------- MODULE WritePathProofs ---------------------------
(***************************************************************************)
(* Proofs about WritePath, for every value of its constants.               *)
(*                                                                         *)
(* IInv of WritePathInvariant holds in the first state and is kept by each *)
(* action, one lemma to an action.  What a step leaves alone is kept by    *)
(* the ...Kept lemmas; what it changes is argued stage by stage.  The two  *)
(* steps that carry the argument are SealStep, where the cumulative count  *)
(* of the log is the rank of the last row sealed, and                      *)
(* CountedRowsAreFlushed, where a count of confirmed rows at least that    *)
(* large leaves no row of the segment in memory.                           *)
(***************************************************************************)
EXTENDS WritePathInvariant, RowSetsTheorems, FiniteSetTheorems, TLAPS

\* The tuples that only name groups of variables.
USE DEF vars, walVars, diskVars, walState, memVars, memMemory, channels, walLoop,
        walElsewhere, walBeside, memElsewhere, ghosts, Up

-----------------------------------------------------------------------------
\* Sets of rows are finite.
LEMMA RowsFinite ==
    ASSUME NEW rows \in SUBSET Row
    PROVE  IsFiniteSet(rows) /\ Cardinality(rows) \in Nat
<1>1. IsFiniteSet(Row)
  BY WalAssumption, FS_Interval DEF Row
<1>2. IsFiniteSet(rows)
  BY <1>1, FS_Subset
<1>3. QED  BY <1>2, FS_CardinalityType

\* The rows of a queue of batches are rows.
LEMMA RowsInType ==
    ASSUME NEW queue \in BatchQueue
    PROVE  RowsIn(queue) \in SUBSET Row
BY DEF BatchQueue, RowsIn

\* The rows of sealed files are rows.
LEMMA ReplayableType ==
    ASSUME TypeOK
    PROVE  /\ Replayable \in SUBSET Row
           /\ \A files_ \in SUBSET sealed : RowsOfFiles(files_) \in SUBSET Row
           /\ \A files_ \in SUBSET sealed : \A n : CountThrough(files_, n) \in Nat
           /\ \A file \in sealed : file.seq \in Nat /\ file.rows \subseteq Row
<1>1. \A files_ \in SUBSET sealed : RowsOfFiles(files_) \in SUBSET Row
  BY DEF TypeOK, WalTypeOK, SealedFile, RowsOfFiles
<1>2. ASSUME NEW files_ \in SUBSET sealed, NEW n PROVE CountThrough(files_, n) \in Nat
  <2>1. {file \in files_ : file.seq <= n} \in SUBSET sealed
    OBVIOUS
  <2>2. QED  BY <1>1, <2>1, RowsFinite DEF CountThrough
<1>3. QED
  BY <1>1, <1>2 DEF TypeOK, WalTypeOK, SealedFile, Replayable

-----------------------------------------------------------------------------
(***************************************************************************)
(* Type correctness                                                        *)
(***************************************************************************)
\* The first start has the types.
LEMMA TypeInit == ASSUME Init PROVE TypeOK
<1> USE DEF Init, WalInit, MemInit
<1>1. WalTypeOK
  BY WalAssumption DEF WalTypeOK
<1>2. <<>> \in BatchQueue /\ Len(<<>>) = 0
  BY EmptySeq DEF BatchQueue
<1>3. nextRow \in 1..(MaxRow + 1) /\ boots \in 1..MaxBoots
  BY WalAssumption, WritePathAssumption
<1>4. 0 <= MpscCap /\ 0 <= HandoffCap
  BY WritePathAssumption
<1>5. QED
  BY <1>1, <1>2, <1>3, <1>4 DEF TypeOK

\* A batch posted keeps them.
LEMMA TypePost ==
    ASSUME TypeOK, NEW size \in BatchSizes, Post(size)
    PROVE  TypeOK'
<1> USE DEF Post, TypeOK, WalTypeOK, BatchQueue
<1>1. nextRow..(nextRow + size - 1) \in SUBSET Row
  BY WalAssumption, WritePathAssumption DEF Row
<1>2. ingest' \in Seq(SUBSET Row) /\ Len(ingest') <= MpscCap
  BY <1>1, WritePathAssumption
<1>3. nextRow' \in 1..(MaxRow + 1)
  BY WalAssumption, WritePathAssumption
<1>4. QED  BY <1>2, <1>3

\* So does the closing of the ingest channel.
LEMMA TypeClose == ASSUME TypeOK, CloseIngest PROVE TypeOK'
BY DEF CloseIngest, TypeOK, WalTypeOK

\* So does every step of the WAL worker.
LEMMA TypeWalWorker ==
    ASSUME TypeOK, ControlInv, WalWorker
    PROVE  TypeOK'
<1> USE DEF TypeOK, WalTypeOK
<1>1. ASSUME TakeGroup PROVE TypeOK'
  <2>1. group' \in BatchQueue /\ ingest' \in BatchQueue /\ Len(ingest') <= MpscCap
    <3> DEFINE size == IF Len(ingest) < MaxGroup THEN Len(ingest) ELSE MaxGroup
    <3>1. size \in 0..Len(ingest)
      BY WritePathAssumption DEF BatchQueue
    <3>2. group' = SubSeq(ingest, 1, size) /\ ingest' = SubSeq(ingest, size + 1, Len(ingest))
      BY <1>1 DEF TakeGroup
    <3> HIDE DEF size
    <3>3. /\ SubSeq(ingest, 1, size) \in BatchQueue
          /\ SubSeq(ingest, size + 1, Len(ingest)) \in BatchQueue
          /\ Len(SubSeq(ingest, size + 1, Len(ingest))) = Len(ingest) - size
      BY <3>1, SplitType DEF BatchQueue
    <3>4. Len(ingest) \in Nat /\ Len(ingest) <= MpscCap /\ MpscCap \in Nat
      BY WritePathAssumption DEF BatchQueue
    <3>5. Len(ingest) - size <= MpscCap
      BY <3>1, <3>4
    <3>6. QED
      BY <3>2, <3>3, <3>5
  <2>2. QED  BY <1>1, <2>1 DEF TakeGroup
<1>2. ASSUME Commit PROVE TypeOK'
  BY <1>2, RowsInType DEF Commit, AppendSynced, NoFault
<1>3. ASSUME Refuse PROVE TypeOK'
  <2>1. <<>> \in BatchQueue
    BY EmptySeq DEF BatchQueue
  <2>2. QED
    BY <1>3, <2>1, RowsInType, WalAssumption
       DEF Refuse, AppendFails, AppendCut, Fault
<1>4. ASSUME Ack PROVE TypeOK'
  <2>1. group # <<>>
    BY <1>4 DEF Ack, ControlInv
  <2>2. Head(group) \in SUBSET Row
    BY <2>1 DEF BatchQueue
  <2>3. QED
    BY <1>4, <2>2, RowsFinite DEF Ack
<1>5. ASSUME HandOff PROVE TypeOK'
  <2>1. group # <<>>
    BY <1>5 DEF HandOff, ControlInv
  <2>2. group \in Seq(SUBSET Row) /\ handoff \in Seq(SUBSET Row)
    BY DEF BatchQueue
  <2>3. Head(group) \in SUBSET Row /\ Tail(group) \in Seq(SUBSET Row)
    BY <2>1, <2>2
  <2>4. /\ Len(handoff) < HandoffCap
        /\ handoff' = Append(handoff, Head(group)) /\ group' = Tail(group)
    BY <1>5 DEF HandOff
  <2>5. handoff' \in BatchQueue /\ Len(handoff') <= HandoffCap
    BY <2>2, <2>3, <2>4, WritePathAssumption DEF BatchQueue
  <2>6. group' \in BatchQueue
    BY <2>3, <2>4 DEF BatchQueue
  <2>7. QED
    BY <1>5, <2>5, <2>6 DEF HandOff
<1>6. ASSUME CountGroup PROVE TypeOK'
  BY <1>6 DEF CountGroup, RecordsWritten
<1>7. ASSUME TakeSignal PROVE TypeOK'
  <2>1. Head(truncate) \in SUBSET Row
    BY <1>7 DEF TakeSignal, BatchQueue
  <2>2. truncate' \in BatchQueue /\ Len(truncate') <= MpscCap
    BY <1>7, WritePathAssumption DEF TakeSignal, BatchQueue
  <2>3. QED
    BY <1>7, <2>1, <2>2, RowsFinite DEF TakeSignal, CountConfirmed
<1>8. ASSUME RotateLog PROVE TypeOK'
  <2>1. WalTypeOK'
    BY <1>8, WalAssumption
       DEF RotateLog, Rotate, Seal, SealFails, CannotSeal, Fault, NoFault,
           SealedFile, Segment
  <2>2. overrun' \in SUBSET Row
    BY <1>8, ReplayableType DEF RotateLog, NoteOverrun
  <2>3. walPc' = "reclaim"
        /\ UNCHANGED <<walBeside, channels, group, written, acked, logged>>
    BY <1>8 DEF RotateLog
  <2>4. QED  BY <2>1, <2>2, <2>3
<1>9. ASSUME ReclaimSegment PROVE TypeOK'
  BY <1>9, WalAssumption, ReplayableType
     DEF ReclaimSegment, Reclaim, Fault, NoFault, NoteOverrun
<1>10. ASSUME ReclaimDone PROVE TypeOK'
  BY <1>10 DEF ReclaimDone
<1>11. ASSUME WalDone PROVE TypeOK'
  BY <1>11 DEF WalDone
<1>12. QED
  BY <1>1, <1>2, <1>3, <1>4, <1>5, <1>6, <1>7, <1>8, <1>9, <1>10, <1>11
     DEF WalWorker

\* Pushing a set of rows, which may be empty, onto a queue.
LEMMA PushType ==
    ASSUME NEW rows \in SUBSET Row, NEW buffer \in BatchQueue
    PROVE  /\ Push(rows, buffer) \in BatchQueue
           /\ RowsIn(Push(rows, buffer)) = RowsIn(buffer) \cup rows
<1>1. CASE rows = {}
  BY <1>1 DEF Push
<1>2. CASE rows # {}
  BY <1>2, RowsInAppend DEF Push, BatchQueue
<1>3. QED  BY <1>1, <1>2

\* So does every step of the MemTable worker.
LEMMA TypeMemWorker ==
    ASSUME TypeOK, ControlInv, MemWorker
    PROVE  TypeOK'
<1> USE DEF TypeOK, WalTypeOK
<1>0. <<>> \in BatchQueue /\ Push(table, live) \in BatchQueue
  BY EmptySeq, PushType DEF BatchQueue
<1>1. ASSUME MemReceive PROVE TypeOK'
  <2>1. /\ Head(handoff) \in SUBSET Row
        /\ handoff' \in BatchQueue /\ Len(handoff') <= HandoffCap
    BY <1>1, WritePathAssumption DEF MemReceive, BatchQueue
  <2>2. Push(table \cup Head(handoff), live) \in BatchQueue
    BY <2>1, PushType
  <2>3. QED
    BY <1>1, <2>1, <2>2 DEF MemReceive, Receive
<1>2. ASSUME MemTimeout PROVE TypeOK'
  BY <1>0, <1>2 DEF MemTimeout, ReceiveTimesOut
<1>3. ASSUME MemDisconnected PROVE TypeOK'
  BY <1>0, <1>3, RowsInType DEF MemDisconnected, ReceiveDisconnected, Take
<1>4. ASSUME MemIntervalDue PROVE TypeOK'
  BY <1>0, <1>4, RowsInType DEF MemIntervalDue, CheckIntervalDue, Take
<1>5. ASSUME MemCheck PROVE TypeOK'
  BY <1>0, <1>5, RowsInType DEF MemCheck, CheckNotDue, CheckOverLimit, Take
<1>6. ASSUME MemWriteChunk PROVE TypeOK'
  <2>1. NextChunk \in SUBSET Row
    BY DEF NextChunk
  <2>2. files' \in BatchQueue
    BY <1>6, <2>1 DEF MemWriteChunk, WriteChunk, BatchQueue
  <2>3. QED
    BY <1>6, <2>2 DEF MemWriteChunk, WriteChunk
<1>7. ASSUME MemFlushFails PROVE TypeOK'
  <2> DEFINE batches == taken \o live
  <2>1. PICK n \in 0..Len(batches) : live' = SubSeq(batches, n + 1, Len(batches))
    BY <1>7 DEF MemFlushFails, FlushFails
  <2>2. batches \in Seq(SUBSET Row)
    BY DEF BatchQueue
  <2> HIDE DEF batches
  <2>3. live' \in BatchQueue
    BY <2>1, <2>2 DEF BatchQueue
  <2>4. RowsIn(batches) \in SUBSET Row
    BY <2>2, RowsInType DEF BatchQueue
  <2>5. shed' \in SUBSET Row
    BY <1>7, <2>4 DEF MemFlushFails, FlushFails, batches
  <2>6. QED
    BY <1>0, <1>7, <2>3, <2>5, WalAssumption DEF MemFlushFails, FlushFails, Fault
<1>8. ASSUME MemSignal PROVE TypeOK'
  <2>1. RowsIn(taken) \in SUBSET Row
    BY RowsInType
  <2>2. truncate' \in BatchQueue /\ Len(truncate') <= MpscCap
    <3>1. CASE walPc = "done"
      BY <1>8, <3>1 DEF MemSignal
    <3>2. CASE walPc # "done"
      <4>1. Len(truncate) < MpscCap /\ truncate' = Append(truncate, RowsIn(taken))
        BY <1>8, <3>2 DEF MemSignal
      <4>2. QED  BY <2>1, <4>1, WritePathAssumption DEF BatchQueue
    <3>3. QED  BY <3>1, <3>2
  <2>3. /\ memPc' \in {"recv", "done"} /\ flushed' \subseteq Row /\ taken' \in BatchQueue
        /\ UNCHANGED <<loop, table, live, unwritten, files, shed, memElsewhere, handoff>>
    BY <1>0, <1>8, <2>1 DEF MemSignal, FlushDone
  <2>4. QED
    BY <2>2, <2>3
<1>9. QED
  BY <1>1, <1>2, <1>3, <1>4, <1>5, <1>6, <1>7, <1>8 DEF MemWorker

\* So do an exit, a crash and a restart.
LEMMA TypeRestart ==
    ASSUME TypeOK, Exit \/ Crash \/ Boot
    PROVE  TypeOK'
<1> USE DEF TypeOK, WalTypeOK
<1>0. <<>> \in BatchQueue /\ Len(<<>>) = 0
  BY EmptySeq DEF BatchQueue
<1>1. ASSUME Exit PROVE TypeOK'
  BY <1>0, <1>1, WritePathAssumption DEF Exit, ForgetMemory, ForgetWalState
<1>2. ASSUME Crash PROVE TypeOK'
  <2>1. active' \subseteq Row /\ tail' \in {"whole", "torn"} /\ buried' \subseteq Row
    BY <1>2, RowsInType DEF Crash, CommitCut, AppendCut
  <2>2. files' \in BatchQueue /\ gone' \subseteq Row
    <3>1. CASE UNCHANGED <<files, gone>>
      BY <3>1
    <3>2. ASSUME ChunksLost PROVE files' \in BatchQueue /\ gone' \subseteq Row
      <4>1. files' \in Seq(SUBSET Row)
        <5>1. \A i \in 1..Len(files) : files[i] \in SUBSET Row
          BY DEF BatchQueue
        <5>2. PICK kept \in SUBSET DOMAIN files :
                 files' = [i \in DOMAIN files |-> IF i \in kept THEN files[i] ELSE {}]
          BY <3>2 DEF ChunksLost
        <5>3. DOMAIN files = 1..Len(files) /\ Len(files) \in Nat
          BY DEF BatchQueue
        <5>4. files' \in [1..Len(files) -> SUBSET Row]
          BY <5>1, <5>2, <5>3
        <5>5. QED  BY <5>3, <5>4, SeqDef
      <4>2. RowsIn(files) \in SUBSET Row
        BY RowsInType
      <4>3. QED  BY <3>2, <4>1, <4>2 DEF ChunksLost, Stored, BatchQueue
    <3>3. QED  BY <1>2, <3>1, <3>2 DEF Crash
  <2>3. QED
    BY <1>0, <1>2, <2>1, <2>2, WritePathAssumption
       DEF Crash, ForgetMemory, ForgetWalState
<1>3. ASSUME Boot PROVE TypeOK'
  <2>0. PICK read \in SUBSET sealed, current \in {{}, active} :
           /\ CountLog(read, current)
           /\ NumberBehind(sealed) \/ NumberBehind({})
    BY <1>3 DEF Boot, OpenWal, OpenWalMisread
  <2>1. Replayable \in SUBSET Row /\ cumulative' \in Nat
    <3>1. RowsOfFiles(read) \cup current \in SUBSET Row
      BY ReplayableType
    <3>2. QED  BY <2>0, <3>1, ReplayableType, RowsFinite DEF CountLog
  <2>2. segments' \subseteq Segment
    BY <2>0, ReplayableType DEF CountLog, Segment
  <2>3. nextSeq' \in Nat
    BY <2>0, ReplayableType DEF NumberBehind
  <2>4. Push(Replayable, <<>>) \in BatchQueue
    BY <1>0, <2>1, PushType
  <2>5. boots' \in 1..MaxBoots
    BY <1>3, WritePathAssumption DEF Boot
  <2>6. faults' \in 0..MaxFaults /\ writer' \in {"open", "failed"}
    BY <1>3, WalAssumption DEF Boot, OpenWal, OpenWalMisread, OpenWriter, NoFault, Fault
  <2>7. /\ UNCHANGED <<diskVars, buried>> /\ confirmed' = 0
        /\ misread' \in BOOLEAN
    BY <1>3, <2>0 DEF Boot, OpenWal, OpenWalMisread, CountLog
  <2>8. QED
    BY <1>0, <1>3, <2>1, <2>2, <2>3, <2>4, <2>5, <2>6, <2>7
       DEF Boot, MemStart
<1>4. QED  BY <1>1, <1>2, <1>3

\* Every step keeps the types, stuttering included.
LEMMA TypeNext ==
    ASSUME TypeOK, ControlInv, Next
    PROVE  TypeOK'
BY TypePost, TypeClose, TypeWalWorker, TypeMemWorker, TypeRestart DEF Next

-----------------------------------------------------------------------------
(***************************************************************************)
(* A part of the invariant holds after a step that leaves its variables.   *)
(***************************************************************************)
\* The logged rows stay where they are.
LEMMA StagesKept ==
    ASSUME StagesInv,
           UNCHANGED <<logged, flushed, shed, taken, live, table, handoff, walPc, group>>
    PROVE  StagesInv'
BY DEF StagesInv, InMemory, Staged, Delivering

\* The stages keep their order.
LEMMA OrderKept ==
    ASSUME OrderInv,
           UNCHANGED <<flushed, taken, live, table, handoff, walPc, group>>
    PROVE  OrderInv'
BY DEF OrderInv, InMemory, Staged, Delivering

\* The rows not yet logged stay the same.
LEMMA IncomingKept ==
    ASSUME IncomingInv,
           UNCHANGED <<logged, acked, walPc, group, ingest, Replayable, nextRow>>
    PROVE  IncomingInv'
BY DEF IncomingInv, Incoming, Unanswered

\* The files of the log keep their order and their acknowledged rows.
LEMMA DiskKept ==
    ASSUME DiskInv,
           UNCHANGED <<sealed, active, buried, server, ingest, walPc, group, acked, logged>>
    PROVE  DiskInv'
BY DEF DiskInv, Replayable, Incoming, Unanswered, Up

\* The counts still stand for the same rows.
LEMMA CountKept ==
    ASSUME CountInv,
           UNCHANGED <<confirmed, flushed, truncate, segments, nextSeq>>
    PROVE  CountInv'
BY DEF CountInv

\* So do the numbers of the segments and the ranks.
LEMMA CountedKept ==
    ASSUME CountedInv,
           UNCHANGED <<misread, server, cumulative, written, logged, segments, sealed,
                       nextSeq>>
    PROVE  CountedInv'
BY DEF CountedInv, NumberInv, RankInv, Up

\* Flushed rows stay in their chunk files.
LEMMA ChunksKept ==
    ASSUME ChunksInv,
           UNCHANGED <<flushed, taken, unwritten, files, gone>>
    PROVE  ChunksInv'
BY DEF ChunksInv, Stored

\* Acknowledged rows stay where they survive.
LEMMA AckedKept ==
    ASSUME AckedRowsSurvive,
           UNCHANGED <<acked, shed, buried, gone, overrun, sealed, active, files>>
    PROVE  AckedRowsSurvive'
BY DEF AckedRowsSurvive, Excused, Replayable, Stored

\* The log replays the same rows while its files do not change.
LEMMA ReplayableKept ==
    ASSUME UNCHANGED <<sealed, active>>
    PROVE  Replayable' = Replayable
BY DEF Replayable

-----------------------------------------------------------------------------
(***************************************************************************)
(* The MemTable worker                                                     *)
(***************************************************************************)
\* The table joins the live buffer, or the live buffer is taken: the logged
\* rows in memory are the same, and keep their order.
LEMMA StagingStep ==
    ASSUME IInv, MemTimeout \/ MemDisconnected \/ MemIntervalDue \/ MemCheck
    PROVE  IInv'
<1> DEFINE pushed == Push(table, live)
<1>0. /\ pushed \in BatchQueue
      /\ RowsIn(pushed) = RowsIn(live) \cup table
      /\ RowsIn(<<>>) = {}
  BY PushType, RowsInEmpty DEF IInv, TypeOK
<1>1. TypeOK'
  BY TypeMemWorker DEF MemWorker, IInv
<1>2. /\ taken = <<>>
      /\ memPc \in {"recv", "check"}
      /\ UNCHANGED <<files, flushed, shed, memElsewhere, truncate, handoff>>
  BY DEF IInv, ControlInv, MemTimeout, MemDisconnected, MemIntervalDue, MemCheck,
         ReceiveTimesOut, ReceiveDisconnected, CheckIntervalDue, CheckNotDue,
         CheckOverLimit
<1>3. \/ table' = {} /\ Staged' = Staged \cup table
      \/ table' = table /\ Staged' = Staged
  <2> USE <1>0, <1>2 DEF Staged
  <2> HIDE DEF pushed
  <2>1. CASE MemTimeout
    BY <2>1 DEF MemTimeout, ReceiveTimesOut, pushed
  <2>2. CASE MemDisconnected
    BY <2>2 DEF MemDisconnected, ReceiveDisconnected, Take, pushed
  <2>3. CASE MemIntervalDue
    BY <2>3 DEF MemIntervalDue, CheckIntervalDue, Take, pushed
  <2>4. CASE MemCheck
    BY <2>4 DEF MemCheck, CheckNotDue, CheckOverLimit, Take
  <2>5. QED  BY <2>1, <2>2, <2>3, <2>4
<1>4. ControlInv'
  BY <1>2
     DEF IInv, ControlInv, MemTimeout, MemDisconnected, MemIntervalDue, MemCheck,
         ReceiveTimesOut, ReceiveDisconnected, CheckIntervalDue, CheckNotDue,
         CheckOverLimit, Take
<1>5. StagesInv' /\ OrderInv'
  BY <1>2, <1>3 DEF IInv, StagesInv, OrderInv, InMemory, Delivering, Before
<1>6. RowsIn(taken') \ unwritten' = {}
  BY <1>0, <1>2
     DEF MemTimeout, MemDisconnected, MemIntervalDue, MemCheck,
         ReceiveTimesOut, ReceiveDisconnected, CheckIntervalDue, CheckNotDue,
         CheckOverLimit, Take
<1>7. ChunksInv'
  BY <1>2, <1>6 DEF IInv, ChunksInv, Stored
<1>8. IncomingInv' /\ DiskInv' /\ CountInv' /\ CountedInv' /\ AckedRowsSurvive'
  BY <1>2, IncomingKept, DiskKept, CountKept, CountedKept, AckedKept,
     ReplayableKept DEF IInv
<1>9. QED
  BY <1>1, <1>4, <1>5, <1>7, <1>8 DEF IInv

\* The oldest handed-off batch joins the table, which may then be pushed.
LEMMA ReceiveStep == ASSUME IInv, MemReceive PROVE IInv'
<1> DEFINE batch == Head(handoff)
           pushed == Push(table \cup batch, live)
<1>0. /\ handoff # <<>> /\ handoff' = Tail(handoff)
      /\ handoff \in Seq(SUBSET Row) /\ InOrder(handoff)
      /\ batch \in SUBSET Row /\ table \cup batch \in SUBSET Row
  BY DEF MemReceive, IInv, TypeOK, BatchQueue, OrderInv
<1>1. TypeOK'
  BY TypeMemWorker DEF MemWorker, IInv
<1>2. /\ RowsIn(handoff) = batch \cup RowsIn(handoff')
      /\ Before(batch, RowsIn(handoff')) /\ InOrder(handoff')
  BY <1>0, RowsInTail, InOrderTail
<1>3. RowsIn(pushed) = RowsIn(live) \cup table \cup batch
  BY <1>0, PushType DEF IInv, TypeOK
<1>4. /\ UNCHANGED <<taken, unwritten, files, flushed, shed, memElsewhere, truncate>>
      /\ memPc = "recv" /\ memPc' = "check"
      /\ \/ table' = {} /\ live' = pushed
         \/ table' = table \cup batch /\ live' = live
  BY DEF MemReceive, Receive
<1> HIDE DEF pushed
<1>5. \/ table' = {} /\ Staged' = Staged \cup table \cup batch
      \/ table' = table \cup batch /\ Staged' = Staged
  BY <1>3, <1>4 DEF Staged
<1> HIDE DEF batch
<1>6. ControlInv'
  BY <1>4, <1>0 DEF IInv, ControlInv, MemReceive
<1>7. StagesInv' /\ OrderInv'
  BY <1>2, <1>4, <1>5
     DEF IInv, StagesInv, OrderInv, InMemory, Delivering, Before
<1>8. IncomingInv' /\ DiskInv' /\ CountInv' /\ CountedInv' /\ AckedRowsSurvive' /\ ChunksInv'
  BY <1>4, IncomingKept, DiskKept, CountKept, CountedKept, AckedKept, ChunksKept,
     ReplayableKept
     DEF IInv
<1>9. QED
  BY <1>1, <1>6, <1>7, <1>8 DEF IInv

\* The rows of the chunk file written are stored.
LEMMA WriteChunkStep == ASSUME IInv, MemWriteChunk PROVE IInv'
<1>1. TypeOK'
  BY TypeMemWorker DEF MemWorker, IInv
<1>2. /\ UNCHANGED <<loop, table, live, taken, flushed, shed, memElsewhere,
                    truncate, handoff>>
      /\ memPc = "flush" /\ memPc' = IF unwritten' = {} THEN "signal" ELSE "flush"
      /\ files' = Append(files, NextChunk)
      /\ unwritten' = unwritten \ NextChunk
      /\ Up
  BY DEF MemWriteChunk, WriteChunk
<1>3. NextChunk \in SUBSET Row /\ files \in Seq(SUBSET Row)
  BY DEF NextChunk, IInv, TypeOK, BatchQueue
<1>4. Stored' = Stored \cup NextChunk
  BY <1>2, <1>3, RowsInAppend DEF Stored
<1>5. ControlInv'
  BY <1>2 DEF IInv, ControlInv
<1>6. ChunksInv'
  BY <1>2, <1>4 DEF IInv, ChunksInv
<1>7. AckedRowsSurvive'
  BY <1>2, <1>4 DEF IInv, AckedRowsSurvive, Excused, Replayable
<1>8. StagesInv' /\ OrderInv' /\ IncomingInv' /\ DiskInv' /\ CountInv' /\ CountedInv'
  BY <1>2, StagesKept, OrderKept, IncomingKept, DiskKept, CountKept, CountedKept,
     ReplayableKept
     DEF IInv
<1>9. QED
  BY <1>1, <1>5, <1>6, <1>7, <1>8 DEF IInv

\* The batches return to the live buffer, and what the cap drops is shed.
LEMMA FlushFailsStep == ASSUME IInv, MemFlushFails PROVE IInv'
<1> DEFINE batches == taken \o live
<1>1. TypeOK'
  BY TypeMemWorker DEF MemWorker, IInv
<1>2. /\ UNCHANGED <<loop, table, files, flushed, diskVars, walState, buried, server,
                    intake, channels, walLoop, nextRow, boots, acked, logged, ghosts>>
      /\ memPc = "flush" /\ memPc' \in {"recv", "done"}
      /\ taken' = <<>> /\ unwritten' = {} /\ Up
      /\ shed' = shed \cup (RowsIn(batches) \ RowsIn(live'))
  BY DEF MemFlushFails, FlushFails
<1>3. PICK n \in 0..Len(batches) : live' = SubSeq(batches, n + 1, Len(batches))
  BY DEF MemFlushFails, FlushFails
<1>4. /\ batches \in Seq(SUBSET Row)
      /\ RowsIn(batches) = Staged
  BY RowsInConcat DEF IInv, TypeOK, BatchQueue, Staged
<1>5. RowsIn(live') \subseteq RowsIn(batches)
  <2> HIDE DEF batches
  <2>1. Len(batches) \in Nat /\ n + 1 \in 1..(Len(batches) + 1)
    BY <1>3, <1>4
  <2>2. QED
    BY <1>3, <1>4, <2>1, RowsInSubSeq
<1>6. /\ Staged' = RowsIn(live')
      /\ Staged' \subseteq Staged
      /\ shed' = shed \cup (Staged \ Staged')
  BY <1>2, <1>4, <1>5, RowsInEmpty DEF Staged
<1>7. ControlInv'
  BY <1>2 DEF IInv, ControlInv
<1>8. StagesInv' /\ OrderInv'
  BY <1>2, <1>6 DEF IInv, StagesInv, OrderInv, InMemory, Delivering, Before
<1>9. ChunksInv'
  BY <1>2, RowsInEmpty DEF IInv, ChunksInv, Stored
<1>10. AckedRowsSurvive'
  BY <1>2, <1>6 DEF IInv, AckedRowsSurvive, Excused, Replayable, Stored
<1>11. IncomingInv' /\ DiskInv' /\ CountInv' /\ CountedInv'
  BY <1>2, IncomingKept, DiskKept, CountKept, CountedKept, ReplayableKept DEF IInv
<1>12. QED
  BY <1>1, <1>7, <1>8, <1>9, <1>10, <1>11 DEF IInv

\* A completed flush: its rows are the next to be confirmed.
LEMMA SignalStep == ASSUME IInv, MemSignal PROVE IInv'
<1> DEFINE rows == RowsIn(taken)
<1>1. TypeOK'
  BY TypeMemWorker DEF MemWorker, IInv
<1>2. /\ UNCHANGED <<loop, table, live, unwritten, files, shed, memElsewhere, handoff>>
      /\ memPc = "signal" /\ memPc' \in {"recv", "done"}
      /\ taken' = <<>> /\ flushed' = flushed \cup rows /\ Up
      /\ truncate' = truncate \/ truncate' = Append(truncate, rows)
  BY DEF MemSignal, FlushDone
<1>3. /\ Staged = rows /\ Staged' = {}
      /\ rows \in SUBSET Row
      /\ truncate \in Seq(SUBSET Row)
  BY <1>2, RowsInEmpty, RowsInType
     DEF Staged, IInv, TypeOK, ControlInv, BatchQueue
<1>4. rows \cap flushed = {}
  BY <1>3 DEF IInv, OrderInv, InMemory, Before, TypeOK, Row
<1>5. ControlInv'
  BY <1>2 DEF IInv, ControlInv
<1>6. StagesInv' /\ OrderInv'
  BY <1>2, <1>3 DEF IInv, StagesInv, OrderInv, InMemory, Delivering, Before
<1>7. ChunksInv'
  BY <1>2, RowsInEmpty DEF IInv, ControlInv, ChunksInv, Stored
<1>8. CountInv'
  <2>1. /\ RowsIn(truncate') \subseteq flushed'
        /\ \/ flushed' \ RowsIn(truncate') = flushed \ RowsIn(truncate)
           \/ flushed' \ RowsIn(truncate') = flushed' \ RowsIn(truncate)
    <3> RowsIn(truncate) \subseteq flushed
      BY DEF IInv, CountInv
    <3>1. CASE truncate' = truncate
      BY <1>2, <3>1
    <3>2. CASE truncate' = Append(truncate, rows)
      <4>1. RowsIn(truncate') = RowsIn(truncate) \cup rows
        BY <1>3, <3>2, RowsInAppend
      <4>2. QED  BY <1>2, <1>4, <4>1
    <3>3. QED  BY <1>2, <3>1, <3>2
  <2>2. Cardinality(flushed \ RowsIn(truncate)) <= Cardinality(flushed' \ RowsIn(truncate))
    <3>1. IsFiniteSet(flushed' \ RowsIn(truncate))
      BY <1>1, RowsFinite DEF TypeOK
    <3>2. flushed \ RowsIn(truncate) \in SUBSET (flushed' \ RowsIn(truncate))
      BY <1>2
    <3>3. QED  BY <3>1, <3>2, FS_Subset
  <2>3. confirmed' <= Cardinality(flushed' \ RowsIn(truncate'))
    <3>1. /\ Cardinality(flushed \ RowsIn(truncate)) \in Nat
          /\ Cardinality(flushed' \ RowsIn(truncate)) \in Nat
      BY <1>1, RowsFinite DEF TypeOK, IInv
    <3>2. /\ confirmed \in Nat /\ confirmed' = confirmed
          /\ confirmed <= Cardinality(flushed \ RowsIn(truncate))
      BY <1>2 DEF IInv, CountInv, TypeOK, WalTypeOK
    <3>3. QED
      BY <2>1, <2>2, <3>1, <3>2
  <2>4. \A i, j \in DOMAIN truncate' : i # j => truncate'[i] \cap truncate'[j] = {}
    <3>1. \A i \in DOMAIN truncate : truncate[i] \cap rows = {}
      BY <1>4 DEF IInv, CountInv, RowsIn
    <3>2. CASE truncate' = truncate
      BY <3>2 DEF IInv, CountInv
    <3>3. CASE truncate' = Append(truncate, rows)
      <4>1. /\ Len(truncate) \in Nat
            /\ DOMAIN truncate = 1..Len(truncate)
            /\ DOMAIN truncate' = 1..(Len(truncate) + 1)
            /\ \A i \in 1..Len(truncate) : truncate'[i] = truncate[i]
            /\ truncate'[Len(truncate) + 1] = rows
        BY <1>3, <3>3
      <4>2. QED
        BY <3>1, <4>1 DEF IInv, CountInv
    <3>4. QED  BY <1>2, <3>2, <3>3
  <2>5. QED
    BY <1>2, <2>1, <2>3, <2>4 DEF IInv, CountInv
<1>9. IncomingInv' /\ DiskInv' /\ CountedInv' /\ AckedRowsSurvive'
  BY <1>2, IncomingKept, DiskKept, CountedKept, AckedKept, ReplayableKept DEF IInv
<1>10. QED
  BY <1>1, <1>5, <1>6, <1>7, <1>8, <1>9 DEF IInv

\* Every step of the MemTable worker keeps the invariant.
LEMMA MemWorkerStep == ASSUME IInv, MemWorker PROVE IInv'
BY StagingStep, ReceiveStep, WriteChunkStep, FlushFailsStep, SignalStep DEF MemWorker

-----------------------------------------------------------------------------
(***************************************************************************)
(* The handlers                                                            *)
(***************************************************************************)
\* A posted batch is newer than everything else.
LEMMA PostStep ==
    ASSUME IInv, NEW size \in BatchSizes, Post(size)
    PROVE  IInv'
<1> DEFINE batch == nextRow..(nextRow + size - 1)
<1>1. TypeOK'
  BY TypePost DEF IInv
<1>2. /\ ingest' = Append(ingest, batch) /\ nextRow' = nextRow + size
      /\ Up /\ intake = "open" /\ size \in Nat /\ nextRow \in Nat
      /\ UNCHANGED <<walVars, memVars, server, intake, truncate, handoff, walLoop,
                    boots, acked, logged, ghosts>>
  BY WritePathAssumption DEF Post, IInv, TypeOK
<1>3. \A r \in batch : r \in Nat /\ nextRow <= r /\ r < nextRow'
  BY <1>2
<1>4. \A r \in Replayable \cup acked \cup logged \cup Incoming :
         r \in Nat /\ r < nextRow /\ r < nextRow'
  <2>1. Replayable \cup acked \cup logged \cup Incoming \subseteq Nat
    <3>1. group \in Seq(SUBSET Row) /\ ingest \in Seq(SUBSET Row)
      BY DEF IInv, TypeOK, BatchQueue
    <3>2. RowsIn(group) \subseteq Row /\ RowsIn(ingest) \subseteq Row
      BY RowsInType DEF IInv, TypeOK
    <3>3. walPc = "send" => RowsIn(Tail(group)) \subseteq Row
      <4>1. ASSUME group # <<>> PROVE RowsIn(Tail(group)) \subseteq Row
        BY <3>1, <3>2, <4>1, RowsInTail
      <4>2. walPc = "send" => group # <<>>
        BY DEF IInv, ControlInv
      <4>3. QED  BY <4>1, <4>2
    <3>4. Incoming \subseteq Row
      BY <3>2, <3>3 DEF Incoming, Unanswered
    <3>5. Replayable \subseteq Row
      BY ReplayableType DEF IInv
    <3>6. acked \subseteq Row /\ logged \subseteq Row
      BY DEF IInv, TypeOK
    <3>7. QED  BY <3>4, <3>5, <3>6 DEF Row
  <2>2. QED
    BY <1>2, <2>1 DEF IInv, IncomingInv
<1>5. Before(Replayable \cup acked \cup logged \cup Incoming, batch)
  <2> HIDE DEF batch
  <2>1. \A r \in Replayable \cup acked \cup logged \cup Incoming, s \in batch : r < s
    BY <1>2, <1>3, <1>4
  <2>2. QED  BY <2>1 DEF Before
<1>6. batch \in SUBSET Row
  <2>1. 1 <= nextRow /\ nextRow + size <= MaxRow + 1 /\ MaxRow \in Nat
    BY WalAssumption DEF Post, IInv, TypeOK
  <2>2. QED  BY <1>2, <2>1 DEF Row
<1>7. ingest \in Seq(SUBSET Row) /\ InOrder(ingest)
  BY DEF IInv, TypeOK, BatchQueue, IncomingInv
<1> HIDE DEF batch
<1>8. /\ RowsIn(ingest') = RowsIn(ingest) \cup batch
      /\ Incoming' = Incoming \cup batch /\ Unanswered' = Unanswered
  BY <1>2, <1>6, <1>7, RowsInAppend DEF Incoming, Unanswered
<1>9. InOrder(ingest')
  <2>1. Before(RowsIn(ingest), batch)
    BY <1>5 DEF Before, Incoming
  <2>2. QED  BY <1>2, <1>6, <1>7, <2>1, InOrderAppend
<1>10. ControlInv'
  BY <1>2 DEF IInv, ControlInv
<1>11. IncomingInv'
  <2>1. Before(Unanswered, RowsIn(ingest'))
    BY <1>5, <1>8 DEF Before, Incoming, IInv, IncomingInv
  <2>2. Before(logged \cup acked, Incoming')
    BY <1>5, <1>8 DEF Before, IInv, IncomingInv
  <2>3. \A r \in Replayable' \cup acked' \cup logged' \cup Incoming' : r < nextRow'
    BY <1>2, <1>3, <1>4, <1>8, ReplayableKept
  <2>4. QED
    BY <1>2, <1>8, <1>9, <2>1, <2>2, <2>3 DEF IInv, IncomingInv
<1>12. DiskInv'
  <2>1. \A file \in sealed : Before(file.rows, active \cup Incoming')
    BY <1>5, <1>8 DEF IInv, DiskInv, Before, Replayable, RowsOfFiles
  <2>2. Before(active, RowsIn(ingest'))
    BY <1>5, <1>8 DEF IInv, DiskInv, Before, Replayable
  <2>3. QED
    BY <1>2, <2>1, <2>2, ReplayableKept DEF IInv, DiskInv
<1>13. StagesInv' /\ OrderInv' /\ CountInv' /\ CountedInv' /\ ChunksInv' /\ AckedRowsSurvive'
  BY <1>2, StagesKept, OrderKept, CountKept, CountedKept, ChunksKept, AckedKept DEF IInv
<1>14. QED
  BY <1>1, <1>10, <1>11, <1>12, <1>13 DEF IInv

\* Closing the ingest channel moves no row.
LEMMA CloseStep == ASSUME IInv, CloseIngest PROVE IInv'
<1>1. /\ Up
      /\ UNCHANGED <<walVars, memVars, server, channels, walLoop, nextRow, boots,
                    acked, logged, ghosts>>
  BY DEF CloseIngest
<1>2. TypeOK' /\ ControlInv'
  BY <1>1, TypeClose DEF IInv, ControlInv
<1>3. QED
  BY <1>1, <1>2, StagesKept, OrderKept, IncomingKept, DiskKept, CountKept, CountedKept,
     ChunksKept, AckedKept, ReplayableKept DEF IInv

-----------------------------------------------------------------------------
(***************************************************************************)
(* The WAL worker: group commit                                            *)
(***************************************************************************)
\* The queues of the worker, and the rows they carry.
LEMMA QueueTypes ==
    ASSUME IInv
    PROVE  /\ group \in Seq(SUBSET Row) /\ ingest \in Seq(SUBSET Row)
           /\ handoff \in Seq(SUBSET Row) /\ truncate \in Seq(SUBSET Row)
           /\ RowsIn(group) \in SUBSET Row /\ RowsIn(ingest) \in SUBSET Row
           /\ Replayable \in SUBSET Row
BY RowsInType, ReplayableType DEF IInv, TypeOK, BatchQueue

\* The rows still to be answered were not answered or logged before.
LEMMA IncomingIsNew == ASSUME IInv PROVE (logged \cup acked) \cap Incoming = {}
<1>1. logged \cup acked \subseteq Nat
  BY DEF IInv, TypeOK, Row
<1>2. \A r \in logged \cup acked, s \in Incoming : r < s
  BY DEF IInv, IncomingInv, Before
<1>3. \A r \in Nat : ~(r < r)
  OBVIOUS
<1>4. QED  BY <1>1, <1>2, <1>3

\* The oldest waiting batches become the group.
LEMMA TakeGroupStep == ASSUME IInv, TakeGroup PROVE IInv'
<1>1. TypeOK'
  BY TypeWalWorker DEF WalWorker, IInv
<1>2. PICK size \in 1..Len(ingest) :
         /\ group' = SubSeq(ingest, 1, size)
         /\ ingest' = SubSeq(ingest, size + 1, Len(ingest))
  <2>1. Len(ingest) \in Nat \ {0}
    BY QueueTypes, EmptySeq DEF TakeGroup
  <2>2. (IF Len(ingest) < MaxGroup THEN Len(ingest) ELSE MaxGroup) \in 1..Len(ingest)
    BY <2>1, WritePathAssumption
  <2>3. QED  BY <2>2 DEF TakeGroup
<1>3. /\ walPc = "select" /\ walPc' = "commit" /\ Up
      /\ UNCHANGED <<walVars, walElsewhere, truncate, handoff, written, acked, logged>>
  BY DEF TakeGroup
<1>4. /\ ingest \in Seq(SUBSET Row) /\ InOrder(ingest)
      /\ size \in 0..Len(ingest)
  BY <1>2, QueueTypes DEF IInv, IncomingInv
<1>5. /\ RowsIn(ingest) = RowsIn(group') \cup RowsIn(ingest')
      /\ InOrder(group') /\ InOrder(ingest')
      /\ Before(RowsIn(group'), RowsIn(ingest'))
  BY <1>2, <1>4, RowsInSplit, InOrderSplit
<1>6. group' # <<>>
  <2>1. Len(group') = size
    BY <1>2, <1>4
  <2>2. QED  BY <1>2, <2>1, EmptySeq
<1>7. /\ Unanswered = {} /\ Unanswered' = RowsIn(group')
      /\ Incoming' = Incoming
      /\ Delivering = {} /\ Delivering' = {}
  BY <1>3, <1>5 DEF Unanswered, Incoming, Delivering
<1>8. ControlInv'
  BY <1>3, <1>6 DEF IInv, ControlInv
<1>9. StagesInv' /\ OrderInv'
  BY <1>3, <1>7 DEF IInv, StagesInv, OrderInv, InMemory, Staged
<1>10. IncomingInv'
  BY <1>3, <1>5, <1>7, ReplayableKept DEF IInv, IncomingInv
<1>11. DiskInv'
  <2>1. /\ Before(active, RowsIn(ingest')) /\ Before(active, RowsIn(group'))
    BY <1>5 DEF IInv, DiskInv, Before
  <2>2. QED
    BY <1>3, <1>7, <2>1, ReplayableKept DEF IInv, DiskInv
<1>12. CountInv' /\ CountedInv' /\ ChunksInv' /\ AckedRowsSurvive'
  BY <1>3, CountKept, CountedKept, ChunksKept, AckedKept DEF IInv
<1>13. QED
  BY <1>1, <1>8, <1>9, <1>10, <1>11, <1>12 DEF IInv

\* The group is in the file, readable unless it lies behind a torn record.
LEMMA CommitStep == ASSUME IInv, Commit PROVE IInv'
<1> DEFINE rows == RowsIn(group)
<1>1. TypeOK'
  BY TypeWalWorker DEF WalWorker, IInv
<1>2. /\ walPc = "commit" /\ walPc' = "ack" /\ Up
      /\ \/ active' = active /\ buried' = buried \cup rows
         \/ active' = active \cup rows /\ buried' = buried
      /\ UNCHANGED <<sealed, walState, walElsewhere, channels, group, written,
                    acked, logged>>
  BY DEF Commit, AppendSynced
<1>3. /\ Unanswered = rows /\ Unanswered' = rows /\ Incoming' = Incoming
      /\ Delivering = {} /\ Delivering' = {}
  BY <1>2 DEF Unanswered, Incoming, Delivering
<1>4. /\ Replayable \subseteq Replayable' /\ Replayable' \subseteq Replayable \cup rows
      /\ active' \subseteq active \cup rows
  BY <1>2 DEF Replayable
<1>5. acked \cap rows = {}
  BY <1>3, IncomingIsNew DEF Incoming
<1>6. ControlInv'
  BY <1>2 DEF IInv, ControlInv
<1>7. StagesInv' /\ OrderInv'
  BY <1>2, <1>3 DEF IInv, StagesInv, OrderInv, InMemory, Staged
<1>8. IncomingInv'
  BY <1>2, <1>3, <1>4 DEF IInv, IncomingInv, Incoming
<1>9. DiskInv'
  <2>1. \A file \in sealed : Before(file.rows, active' \cup Incoming')
    BY <1>3, <1>4 DEF IInv, DiskInv, Before, Incoming
  <2>2. Before(active', RowsIn(ingest))
    BY <1>3, <1>4 DEF IInv, DiskInv, IncomingInv, Before
  <2>3. rows \subseteq active' \cup buried'
    BY <1>2
  <2>4. Replayable' \cap acked \subseteq logged
    BY <1>2, <1>4, <1>5 DEF IInv, DiskInv
  <2>5. QED
    BY <1>2, <2>1, <2>2, <2>3, <2>4 DEF IInv, DiskInv
<1>10. AckedRowsSurvive'
  BY <1>2, <1>4 DEF IInv, AckedRowsSurvive, Excused, Stored
<1>11. CountInv' /\ CountedInv' /\ ChunksInv'
  BY <1>2, CountKept, CountedKept, ChunksKept DEF IInv
<1>12. QED
  BY <1>1, <1>6, <1>7, <1>8, <1>9, <1>10, <1>11 DEF IInv

\* A refused group leaves a part of it in the file, which nobody was promised.
LEMMA RefuseStep == ASSUME IInv, Refuse PROVE IInv'
<1> DEFINE rows == RowsIn(group)
<1>1. TypeOK'
  BY TypeWalWorker DEF WalWorker, IInv
<1>2. /\ walPc = "commit" /\ walPc' = "select" /\ group' = <<>> /\ Up
      /\ active \subseteq active' /\ active' \subseteq active \cup rows
      /\ UNCHANGED <<sealed, buried, walState, walElsewhere, channels, written,
                    acked, logged>>
  BY DEF Refuse, AppendFails, AppendCut
<1>3. /\ Unanswered = rows /\ Unanswered' = {}
      /\ Incoming = rows \cup RowsIn(ingest) /\ Incoming' = RowsIn(ingest)
      /\ Delivering = {} /\ Delivering' = {}
  BY <1>2 DEF Unanswered, Incoming, Delivering
<1>4. Replayable \subseteq Replayable' /\ Replayable' \subseteq Replayable \cup rows
  BY <1>2 DEF Replayable
<1>5. acked \cap rows = {}
  BY <1>3, IncomingIsNew
<1>6. ControlInv'
  BY <1>2 DEF IInv, ControlInv
<1>7. StagesInv' /\ OrderInv'
  BY <1>2, <1>3 DEF IInv, StagesInv, OrderInv, InMemory, Staged
<1>8. IncomingInv'
  <2>1. InOrder(<<>>)
    BY DEF InOrder
  <2>2. QED
    BY <1>2, <1>3, <1>4, <2>1 DEF IInv, IncomingInv, Before
<1>9. DiskInv'
  <2>1. \A file \in sealed : Before(file.rows, active' \cup Incoming')
    BY <1>2, <1>3 DEF IInv, DiskInv, Before
  <2>2. Before(active', RowsIn(ingest))
    BY <1>2, <1>3 DEF IInv, DiskInv, IncomingInv, Before
  <2>3. Replayable' \cap acked \subseteq logged
    BY <1>2, <1>4, <1>5 DEF IInv, DiskInv
  <2>4. QED
    BY <1>2, <2>1, <2>2, <2>3 DEF IInv, DiskInv
<1>10. AckedRowsSurvive'
  BY <1>2, <1>4 DEF IInv, AckedRowsSurvive, Excused, Stored
<1>11. CountInv' /\ CountedInv' /\ ChunksInv'
  BY <1>2, CountKept, CountedKept, ChunksKept DEF IInv
<1>12. QED
  BY <1>1, <1>6, <1>7, <1>8, <1>9, <1>10, <1>11 DEF IInv

\* A batch is counted as logged when it is answered: it is younger than all
\* that was logged before, so the ranks of older rows do not move.
LEMMA AckStep == ASSUME IInv, Ack PROVE IInv'
<1> DEFINE batch == Head(group)
           rest  == RowsIn(Tail(group))
<1>1. TypeOK'
  BY TypeWalWorker DEF WalWorker, IInv
<1>2. /\ walPc = "ack" /\ walPc' = "send" /\ Up
      /\ acked' = acked \cup batch /\ logged' = logged \cup batch
      /\ written' = written + Cardinality(batch)
      /\ UNCHANGED <<walVars, walElsewhere, channels, group>>
  BY DEF Ack
<1>3. /\ group # <<>> /\ InOrder(group) /\ group \in Seq(SUBSET Row)
  BY <1>2, QueueTypes DEF IInv, ControlInv, IncomingInv
<1>4. /\ RowsIn(group) = batch \cup rest
      /\ Before(batch, rest) /\ batch \in SUBSET Row
  BY <1>3, RowsInTail, InOrderTail
<1>5. /\ Unanswered = batch \cup rest /\ Unanswered' = rest
      /\ Incoming = batch \cup Incoming'
      /\ Delivering = {} /\ Delivering' = batch
  BY <1>2, <1>4 DEF Unanswered, Incoming, Delivering
<1> HIDE DEF batch, rest
<1>6. batch \cap (logged \cup acked) = {}
  BY <1>5, IncomingIsNew
<1>7. Before(logged \cup acked, batch)
  BY <1>5 DEF IInv, IncomingInv, Before
<1>8. ControlInv'
  BY <1>2 DEF IInv, ControlInv
<1>9. InMemory' = InMemory \cup batch
  BY <1>2, <1>5 DEF InMemory, Staged
<1>10. StagesInv'
  BY <1>2, <1>9 DEF IInv, StagesInv
<1>11. OrderInv'
  <2>1. /\ flushed \subseteq logged /\ Staged \subseteq logged
        /\ table \subseteq logged /\ RowsIn(handoff) \subseteq logged
    BY DEF IInv, StagesInv, InMemory
  <2>2. QED
    BY <1>2, <1>5, <1>7, <1>9, <2>1 DEF IInv, OrderInv, Before, Staged
<1>12. IncomingInv'
  <2>1. Before(batch, Incoming')
    BY <1>2, <1>4, <1>5 DEF IInv, IncomingInv, Before, Incoming
  <2>2. Before(logged' \cup acked', Incoming')
    BY <1>2, <1>5, <2>1 DEF IInv, IncomingInv, Before
  <2>3. Before(Unanswered', RowsIn(ingest'))
    BY <1>2, <1>5 DEF IInv, IncomingInv, Before
  <2>4. \A r \in Replayable' \cup acked' \cup logged' \cup Incoming' : r < nextRow'
    BY <1>2, <1>5, ReplayableKept DEF IInv, IncomingInv
  <2>5. QED
    BY <1>2, <2>2, <2>3, <2>4 DEF IInv, IncomingInv
<1>13. DiskInv'
  <2>1. \A file \in sealed : Before(file.rows, active \cup Incoming')
    BY <1>5 DEF IInv, DiskInv, Before
  <2>2. Replayable \cap acked' \subseteq logged'
    BY <1>2 DEF IInv, DiskInv
  <2>3. QED
    BY <1>2, <2>1, <2>2, ReplayableKept DEF IInv, DiskInv
<1>14. CountInv' /\ CountedInv'
  <2>1. Cardinality(logged') = Cardinality(logged) + Cardinality(batch)
    <3>1. IsFiniteSet(logged) /\ IsFiniteSet(batch)
      BY <1>4, RowsFinite DEF IInv, TypeOK
    <3>2. Cardinality(logged \cap batch) = 0
      BY <1>6, FS_EmptySet
    <3>3. /\ Cardinality(logged \cup batch)
               = Cardinality(logged) + Cardinality(batch) - Cardinality(logged \cap batch)
          /\ Cardinality(logged) \in Nat /\ Cardinality(batch) \in Nat
      BY <3>1, FS_Union, FS_CardinalityType
    <3>4. QED  BY <1>2, <3>2, <3>3
  <2>2. ~misread => cumulative' + written' = Cardinality(logged')
    <3>1. /\ cumulative \in Nat /\ written \in Nat /\ cumulative' = cumulative
          /\ Cardinality(logged) \in Nat /\ Cardinality(batch) \in Nat
          /\ ~misread => cumulative + written = Cardinality(logged)
      BY <1>2, <1>4, RowsFinite DEF IInv, TypeOK, WalTypeOK, CountedInv, RankInv
    <3>2. QED  BY <1>2, <2>1, <3>1
  <2>3. \A file \in sealed : file.rows \cap logged' = file.rows \cap logged
    <3>1. \A file \in sealed : \A r \in file.rows, s \in batch : r < s /\ r \in Nat
      BY <1>5, ReplayableType DEF IInv, DiskInv, Before, Row
    <3>2. \A file \in sealed : file.rows \cap batch = {}
      BY <3>1
    <3>3. QED  BY <1>2, <3>2
  <2>4. \A r \in logged : Rank(r, logged') = Rank(r, logged)
    <3> SUFFICES ASSUME NEW r \in logged
                 PROVE  {s \in logged' : s <= r} = {s \in logged : s <= r}
      BY DEF Rank
    <3>1. r \in Nat /\ \A s \in batch : s \in Nat /\ r < s
      BY <1>4, <1>7 DEF IInv, TypeOK, Row, Before
    <3>2. QED  BY <1>2, <3>1
  <2>5. ASSUME ~misread, NEW segment \in segments, NEW file \in sealed,
               file.seq = segment.seq, NEW r \in file.rows \cap logged'
        PROVE  Rank(r, logged') <= segment.cumulative
    <3>1. r \in file.rows \cap logged
      BY <2>3, <2>5
    <3>2. Rank(r, logged) <= segment.cumulative
      BY <3>1, <2>5 DEF IInv, CountedInv, RankInv
    <3>3. QED  BY <2>4, <3>1, <3>2
  <2>6. CountedInv'
    BY <1>2, <2>2, <2>5 DEF IInv, CountedInv, NumberInv, RankInv
  <2>7. CountInv'
    BY <1>2, CountKept DEF IInv
  <2>8. QED
    BY <2>6, <2>7
<1>15. ChunksInv'
  BY <1>2, ChunksKept DEF IInv
<1>16. AckedRowsSurvive'
  <2>1. batch \subseteq active \cup buried
    BY <1>2, <1>4 DEF IInv, DiskInv
  <2>2. QED
    BY <1>2, <2>1, ReplayableKept
       DEF IInv, AckedRowsSurvive, Excused, Replayable, Stored
<1>17. QED
  BY <1>1, <1>8, <1>10, <1>11, <1>12, <1>13, <1>14, <1>15, <1>16 DEF IInv

\* The batch answered last joins the handoff channel.
LEMMA HandOffStep == ASSUME IInv, HandOff PROVE IInv'
<1> DEFINE batch == Head(group)
<1>1. TypeOK'
  BY TypeWalWorker DEF WalWorker, IInv
<1>2. /\ walPc = "send" /\ Up
      /\ handoff' = Append(handoff, batch) /\ group' = Tail(group)
      /\ walPc' = IF group' = <<>> THEN "count" ELSE "ack"
      /\ UNCHANGED <<walVars, walElsewhere, ingest, truncate, written, acked, logged>>
  BY DEF HandOff
<1>3. /\ group # <<>> /\ InOrder(group) /\ group \in Seq(SUBSET Row)
      /\ handoff \in Seq(SUBSET Row)
  BY <1>2, QueueTypes DEF IInv, ControlInv, IncomingInv
<1>4. /\ RowsIn(group) = batch \cup RowsIn(group')
      /\ InOrder(group') /\ batch \in SUBSET Row
  BY <1>2, <1>3, RowsInTail, InOrderTail
<1>5. RowsIn(handoff') = RowsIn(handoff) \cup batch
  BY <1>2, <1>3, <1>4, RowsInAppend
<1>6. Delivering = batch /\ Delivering' = {}
  BY <1>2 DEF Delivering
<1>7. Unanswered' = Unanswered /\ Incoming' = Incoming
  BY <1>2, RowsInEmpty DEF Unanswered, Incoming
<1> HIDE DEF batch
<1>8. ControlInv'
  BY <1>2 DEF IInv, ControlInv
<1>9. StagesInv'
  BY <1>2, <1>5, <1>6 DEF IInv, StagesInv, InMemory, Staged
<1>10. OrderInv'
  <2>1. InOrder(handoff')
    BY <1>2, <1>3, <1>4, <1>6, InOrderAppend DEF IInv, OrderInv
  <2>2. QED
    BY <1>2, <1>5, <1>6, <2>1 DEF IInv, OrderInv, InMemory, Staged, Before
<1>11. IncomingInv'
  BY <1>2, <1>4, <1>7, ReplayableKept DEF IInv, IncomingInv
<1>12. DiskInv'
  BY <1>2, <1>4, <1>7, ReplayableKept DEF IInv, DiskInv
<1>13. CountInv' /\ CountedInv' /\ ChunksInv' /\ AckedRowsSurvive'
  BY <1>2, CountKept, CountedKept, ChunksKept, AckedKept DEF IInv
<1>14. QED
  BY <1>1, <1>8, <1>9, <1>10, <1>11, <1>12, <1>13 DEF IInv

\* The count catches up with the rows logged.
LEMMA CountGroupStep == ASSUME IInv, CountGroup PROVE IInv'
<1>1. TypeOK'
  BY TypeWalWorker DEF WalWorker, IInv
<1>2. /\ walPc = "count" /\ walPc' = "select" /\ Up
      /\ cumulative' = cumulative + written /\ written' = 0
      /\ UNCHANGED <<diskVars, writer, segments, confirmed, nextSeq, buried, faults,
                    walElsewhere, channels, group, acked, logged>>
  BY DEF CountGroup, RecordsWritten
<1>3. /\ Unanswered = {} /\ Unanswered' = {} /\ Incoming' = Incoming
      /\ Delivering = {} /\ Delivering' = {}
  BY <1>2 DEF Unanswered, Incoming, Delivering
<1>4. ControlInv'
  BY <1>2 DEF IInv, ControlInv
<1>5. StagesInv' /\ OrderInv'
  BY <1>2, <1>3 DEF IInv, StagesInv, OrderInv, InMemory, Staged
<1>6. IncomingInv' /\ DiskInv'
  BY <1>2, <1>3, ReplayableKept DEF IInv, IncomingInv, DiskInv
<1>7. cumulative' + written' = cumulative + written
  BY <1>2 DEF IInv, TypeOK, WalTypeOK
<1>8. CountInv' /\ CountedInv'
  BY <1>2, <1>7, CountKept DEF IInv, CountedInv, NumberInv, RankInv
<1>9. ChunksInv' /\ AckedRowsSurvive'
  BY <1>2, ChunksKept, AckedKept DEF IInv
<1>10. QED
  BY <1>1, <1>4, <1>5, <1>6, <1>8, <1>9 DEF IInv

\* Counting a signal counts the rows of one flush, which are nobody else's.
LEMMA TakeSignalStep == ASSUME IInv, TakeSignal PROVE IInv'
<1> DEFINE rows == Head(truncate)
<1>1. TypeOK'
  BY TypeWalWorker DEF WalWorker, IInv
<1>2. /\ walPc = "select" /\ walPc' = "rotate" /\ Up
      /\ truncate # <<>> /\ truncate' = Tail(truncate)
      /\ confirmed' = confirmed + Cardinality(rows)
      /\ UNCHANGED <<diskVars, writer, segments, cumulative, nextSeq, buried, faults,
                    walElsewhere, ingest, handoff, group, written, acked, logged>>
  BY DEF TakeSignal, CountConfirmed
<1>3. /\ truncate \in Seq(SUBSET Row)
      /\ RowsIn(truncate) = rows \cup RowsIn(truncate')
      /\ rows \in SUBSET Row
  BY <1>2, QueueTypes, RowsInTail
<1>4. /\ \A i, j \in DOMAIN truncate' : i # j => truncate'[i] \cap truncate'[j] = {}
      /\ rows \cap RowsIn(truncate') = {}
  <2>1. /\ Len(truncate) \in Nat \ {0}
        /\ DOMAIN truncate = 1..Len(truncate)
        /\ DOMAIN truncate' = 1..(Len(truncate) - 1)
        /\ rows = truncate[1]
        /\ \A i \in 1..(Len(truncate) - 1) : truncate'[i] = truncate[i + 1]
    BY <1>2, <1>3, HeadTailProperties, EmptySeq
  <2>2. \A i, j \in DOMAIN truncate : i # j => truncate[i] \cap truncate[j] = {}
    BY DEF IInv, CountInv
  <2> HIDE DEF rows
  <2>3. \A i \in DOMAIN truncate' : rows \cap truncate'[i] = {}
    BY <2>1, <2>2
  <2>4. \A i, j \in DOMAIN truncate' : i # j => truncate'[i] \cap truncate'[j] = {}
    BY <2>1, <2>2
  <2>5. QED  BY <2>3, <2>4 DEF RowsIn
<1> HIDE DEF rows
<1>5. /\ Unanswered' = Unanswered /\ Incoming' = Incoming
      /\ Delivering = {} /\ Delivering' = {}
  BY <1>2 DEF Unanswered, Incoming, Delivering
<1>6. ControlInv'
  BY <1>2 DEF IInv, ControlInv
<1>7. StagesInv' /\ OrderInv'
  BY <1>2, <1>5 DEF IInv, StagesInv, OrderInv, InMemory, Staged
<1>8. IncomingInv' /\ DiskInv'
  BY <1>2, <1>5, ReplayableKept DEF IInv, IncomingInv, DiskInv
<1>9. CountInv'
  <2> DEFINE before == flushed \ RowsIn(truncate)
  <2>1. RowsIn(truncate) \subseteq flushed /\ confirmed <= Cardinality(before)
    BY DEF IInv, CountInv
  <2>2. /\ flushed' \ RowsIn(truncate') = before \cup rows
        /\ before \cap rows = {}
    BY <1>2, <1>3, <1>4, <2>1
  <2>3. before \in SUBSET Row
    BY DEF IInv, TypeOK
  <2> HIDE DEF before
  <2>4. /\ IsFiniteSet(before) /\ IsFiniteSet(rows)
        /\ Cardinality(before) \in Nat /\ Cardinality(rows) \in Nat
    BY <1>3, <2>3, RowsFinite
  <2>5. Cardinality(before \cup rows) = Cardinality(before) + Cardinality(rows)
    <3>1. Cardinality(before \cap rows) = 0
      BY <2>2, FS_EmptySet
    <3>2. Cardinality(before \cup rows)
             = Cardinality(before) + Cardinality(rows) - Cardinality(before \cap rows)
      BY <2>4, FS_Union
    <3>3. QED  BY <2>4, <3>1, <3>2
  <2>6. confirmed \in Nat
    BY DEF IInv, TypeOK, WalTypeOK
  <2>7. confirmed' <= Cardinality(flushed' \ RowsIn(truncate'))
    <3>1. confirmed' = confirmed + Cardinality(rows)
      BY <1>2
    <3>2. confirmed' <= Cardinality(before \cup rows)
      BY <2>1, <2>4, <2>5, <2>6, <3>1
    <3>3. QED  BY <2>2, <3>2
  <2>8. RowsIn(truncate') \subseteq flushed'
    BY <1>2, <1>3, <2>1
  <2>9. QED
    BY <1>2, <1>4, <2>7, <2>8 DEF IInv, CountInv
<1>10. CountedInv' /\ ChunksInv' /\ AckedRowsSurvive'
  BY <1>2, CountedKept, ChunksKept, AckedKept DEF IInv
<1>11. QED
  BY <1>1, <1>6, <1>7, <1>8, <1>9, <1>10 DEF IInv

-----------------------------------------------------------------------------
(***************************************************************************)
(* The WAL worker: rotating and reclaiming segments                        *)
(***************************************************************************)
\* The rank of a row is at most the size of the set.
LEMMA RankBound ==
    ASSUME NEW rows \in SUBSET Row, NEW r
    PROVE  Rank(r, rows) \in Nat /\ Rank(r, rows) <= Cardinality(rows)
<1>1. {s \in rows : s <= r} \in SUBSET rows /\ {s \in rows : s <= r} \in SUBSET Row
  OBVIOUS
<1>2. QED
  BY <1>1, RowsFinite, FS_Subset DEF Rank

\* Sealing current.wal: every row logged so far is within the segment's count,
\* for no group is half counted when the log is rotated.  A file of that name
\* is overwritten only where the numbers started again.
LEMMA SealStep == ASSUME IInv, RotateLog, Seal PROVE IInv'
<1> DEFINE file    == [seq |-> nextSeq, rows |-> active]
           segment == [seq |-> nextSeq, cumulative |-> cumulative]
           kept    == {other \in sealed : other.seq # nextSeq}
<1>1. TypeOK'
  BY TypeWalWorker DEF WalWorker, IInv
<1>2. /\ walPc = "rotate" /\ walPc' = "reclaim" /\ Up /\ written = 0
      /\ sealed' = kept \cup {file}
      /\ segments' = segments \cup {segment}
      /\ nextSeq' = nextSeq + 1 /\ active' = {}
      /\ overrun' = overrun \cup
            (IF misread THEN Replayable \ (Replayable' \cup Stored) ELSE {})
      /\ UNCHANGED <<confirmed, cumulative, buried, walBeside, channels, group,
                    written, acked, logged>>
  BY DEF RotateLog, Seal, NoteOverrun, IInv, ControlInv
<1>3. file.seq = nextSeq /\ file.rows = active
  OBVIOUS
<1>4. segment.seq = nextSeq /\ segment.cumulative = cumulative
  OBVIOUS
<1>5. kept \subseteq sealed
  OBVIOUS
<1>6. /\ nextSeq \in Nat /\ cumulative \in Nat
      /\ \A other \in sealed : other.seq \in Nat
      /\ ~misread => \A other \in sealed : other.seq < nextSeq
  BY <1>2, ReplayableType DEF IInv, TypeOK, WalTypeOK, CountedInv, NumberInv
<1>7. ~misread => kept = sealed
  BY <1>6
<1> HIDE DEF file, segment, kept
<1>8. Replayable' \subseteq Replayable /\ (~misread => Replayable' = Replayable)
  BY <1>2, <1>3, <1>5, <1>7 DEF Replayable, RowsOfFiles
<1>9. /\ Unanswered = {} /\ Unanswered' = {}
      /\ Incoming = RowsIn(ingest) /\ Incoming' = Incoming
      /\ Delivering = {} /\ Delivering' = {}
  BY <1>2 DEF Unanswered, Incoming, Delivering
<1>10. ControlInv'
  BY <1>2 DEF IInv, ControlInv
<1>11. StagesInv' /\ OrderInv'
  BY <1>2, <1>9 DEF IInv, StagesInv, OrderInv, InMemory, Staged
<1>12. IncomingInv'
  BY <1>2, <1>8, <1>9 DEF IInv, IncomingInv
<1>13. DiskInv'
  <2>1. \A other \in sealed' : Before(other.rows, active' \cup Incoming')
    BY <1>2, <1>3, <1>5, <1>9 DEF IInv, DiskInv, Before
  <2>2. Before(active', RowsIn(ingest'))
    BY <1>2 DEF Before
  <2>3. QED
    BY <1>2, <1>8, <2>1, <2>2 DEF IInv, DiskInv
<1>14. CountInv'
  <2>1. \A other \in segments : other.seq \in Nat /\ other.seq < nextSeq
    BY DEF IInv, CountInv, TypeOK, WalTypeOK, Segment
  <2>2. \A other \in segments' : other.seq < nextSeq'
    BY <1>2, <1>4, <1>6, <2>1
  <2>3. QED
    BY <1>2, <2>2 DEF IInv, CountInv
<1>15. CountedInv'
  <2> SUFFICES ASSUME ~misread PROVE NumberInv' /\ RankInv'
    BY <1>2 DEF CountedInv
  <2>1. \A other \in sealed' : other.seq < nextSeq'
    BY <1>2, <1>3, <1>6, <1>7
  <2>2. \A older, newer \in sealed' :
           older.seq < newer.seq => Before(older.rows, newer.rows)
    <3> SUFFICES ASSUME NEW older \in sealed', NEW newer \in sealed',
                        older.seq < newer.seq
                 PROVE  Before(older.rows, newer.rows)
      OBVIOUS
    <3>1. older \in sealed
      BY <1>2, <1>3, <1>6, <1>7
    <3>2. CASE newer \in sealed
      BY <3>1, <3>2 DEF IInv, CountedInv, NumberInv
    <3>3. CASE newer = file
      BY <1>3, <3>1, <3>3 DEF IInv, DiskInv, Before
    <3>4. QED  BY <1>2, <1>7, <3>2, <3>3
  <2>3. \A r \in logged : Rank(r, logged) <= cumulative
    <3>1. Cardinality(logged) = cumulative
      BY <1>2, <1>6 DEF IInv, CountedInv, RankInv
    <3>2. QED  BY <3>1, RankBound DEF IInv, TypeOK
  <2>4. ASSUME NEW other \in segments', NEW f \in sealed', f.seq = other.seq,
               NEW r \in f.rows \cap logged
        PROVE  Rank(r, logged) <= other.cumulative
    <3>1. CASE other = segment
      BY <1>4, <2>3, <3>1
    <3>2. CASE other \in segments
      <4>1. other.seq \in Nat /\ other.seq < nextSeq
        BY <3>2 DEF IInv, CountInv, TypeOK, WalTypeOK, Segment
      <4>2. f \in sealed
        BY <1>2, <1>3, <1>6, <1>7, <2>4, <4>1
      <4>3. QED
        BY <2>4, <3>2, <4>2 DEF IInv, CountedInv, RankInv
    <3>3. QED  BY <1>2, <3>1, <3>2
  <2>5. NumberInv'
    BY <2>1, <2>2 DEF NumberInv
  <2>6. RankInv'
    BY <1>2, <2>4 DEF IInv, CountedInv, RankInv
  <2>7. QED  BY <2>5, <2>6
<1>16. ChunksInv'
  BY <1>2, ChunksKept DEF IInv
<1>17. AckedRowsSurvive'
  BY <1>2, <1>8 DEF IInv, AckedRowsSurvive, Excused, Stored
<1>18. QED
  BY <1>1, <1>10, <1>11, <1>12, <1>13, <1>14, <1>15, <1>16, <1>17 DEF IInv

\* A failed rotation uses up a number at most.
LEMMA NoSealStep == ASSUME IInv, RotateLog, SealFails \/ CannotSeal PROVE IInv'
<1>1. TypeOK'
  BY TypeWalWorker DEF WalWorker, IInv
<1>2. /\ walPc = "rotate" /\ walPc' = "reclaim" /\ Up
      /\ nextSeq' = nextSeq \/ nextSeq' = nextSeq + 1
      /\ UNCHANGED <<diskVars, segments, confirmed, cumulative, buried,
                    walElsewhere, channels, group, written, acked, logged>>
  BY DEF RotateLog, SealFails, CannotSeal, NoteOverrun, Replayable
<1>3. /\ Unanswered' = Unanswered /\ Incoming' = Incoming
      /\ Delivering = {} /\ Delivering' = {}
  BY <1>2 DEF Unanswered, Incoming, Delivering
<1>4. ControlInv'
  BY <1>2 DEF IInv, ControlInv
<1>5. StagesInv' /\ OrderInv'
  BY <1>2, <1>3 DEF IInv, StagesInv, OrderInv, InMemory, Staged
<1>6. IncomingInv'
  BY <1>2, <1>3, ReplayableKept DEF IInv, IncomingInv
<1>7. /\ ~misread => \A file \in sealed : file.seq < nextSeq'
      /\ \A segment \in segments : segment.seq < nextSeq'
  <2>1. /\ nextSeq \in Nat
        /\ \A file \in sealed : file.seq \in Nat
        /\ ~misread => \A file \in sealed : file.seq < nextSeq
        /\ \A segment \in segments : segment.seq \in Nat /\ segment.seq < nextSeq
    BY <1>2, ReplayableType DEF IInv, TypeOK, WalTypeOK, Segment, CountedInv, NumberInv,
         CountInv
  <2>2. QED  BY <1>2, <2>1
<1>8. DiskInv'
  BY <1>2, <1>3, ReplayableKept DEF IInv, DiskInv
<1>9. CountInv' /\ CountedInv'
  BY <1>2, <1>7 DEF IInv, CountInv, CountedInv, NumberInv, RankInv
<1>10. ChunksInv' /\ AckedRowsSurvive'
  BY <1>2, ChunksKept, AckedKept DEF IInv
<1>11. QED
  BY <1>1, <1>4, <1>5, <1>6, <1>8, <1>9, <1>10 DEF IInv

\* The heart of the matter: when the count reaches a segment, its rows are
\* flushed or shed, if every start could count the log.  A row of it still in memory would be younger than every
\* flushed row, hence of a higher rank than there are flushed rows to count.
LEMMA CountedRowsAreFlushed ==
    ASSUME IInv, Up, ~misread, NEW segment \in segments, Reclaimable(segment),
           NEW file \in sealed, file.seq = segment.seq
    PROVE  (file.rows \cap logged) \ shed \subseteq flushed
<1> SUFFICES ASSUME NEW r \in file.rows, r \in logged, r \notin shed, r \notin flushed
             PROVE  FALSE
  OBVIOUS
<1>1. r \in logged
  OBVIOUS
<1>2. r \in InMemory /\ flushed \subseteq logged
  BY <1>1 DEF IInv, StagesInv
<1>3. /\ logged \in SUBSET Row /\ flushed \in SUBSET Row /\ r \in Nat
      /\ confirmed \in Nat /\ segment.cumulative \in Nat
  BY <1>1 DEF IInv, TypeOK, WalTypeOK, Segment, Row
<1>4. \A s \in flushed : s \in Nat /\ s < r
  BY <1>2, <1>3 DEF IInv, OrderInv, Before, Row
<1> DEFINE older == {s \in logged : s <= r}
<1>5. flushed \cup {r} \in SUBSET older
  <2>1. \A s \in flushed : s <= r
    BY <1>3, <1>4
  <2>2. r <= r
    BY <1>3
  <2>3. QED  BY <1>1, <1>2, <2>1, <2>2
<1>6. IsFiniteSet(older) /\ IsFiniteSet(flushed) /\ Cardinality(flushed) \in Nat
  BY <1>3, RowsFinite
<1>7. Cardinality(flushed \cup {r}) = Cardinality(flushed) + 1
  BY <1>6, FS_AddElement
<1>8. Cardinality(flushed \cup {r}) <= Rank(r, logged)
  BY <1>5, <1>6, FS_Subset DEF Rank
<1>9. Rank(r, logged) <= segment.cumulative
  BY <1>1 DEF IInv, CountedInv, RankInv
<1>10. segment.cumulative <= confirmed
  BY DEF Reclaimable
<1>11. confirmed <= Cardinality(flushed)
  <2>1. Cardinality(flushed \ RowsIn(truncate)) <= Cardinality(flushed)
    BY <1>6, FS_Subset
  <2>2. confirmed <= Cardinality(flushed \ RowsIn(truncate))
    BY DEF IInv, CountInv
  <2>3. Cardinality(flushed \ RowsIn(truncate)) \in Nat
    BY <1>3, RowsFinite
  <2>4. QED  BY <1>3, <1>6, <2>1, <2>2, <2>3
<1>12. Rank(r, logged) \in Nat
  BY <1>3, RankBound
<1>13. QED
  BY <1>3, <1>6, <1>7, <1>8, <1>9, <1>10, <1>11, <1>12

\* An acknowledged row of a file that can be replayed has been counted.
LEMMA ReclaimedRowsAreFlushed ==
    ASSUME IInv, Up, ~misread, NEW segment \in segments, Reclaimable(segment),
           NEW file \in sealed, file.seq = segment.seq
    PROVE  (file.rows \cap acked) \ shed \subseteq flushed
<1>1. file.rows \cap acked \subseteq logged
  BY DEF IInv, DiskInv, Replayable, RowsOfFiles
<1>2. QED  BY <1>1, CountedRowsAreFlushed

\* Deleting a segment loses nothing that is not in Parquet or excused.
LEMMA ReclaimStep == ASSUME IInv, ReclaimSegment PROVE IInv'
<1>1. TypeOK'
  BY TypeWalWorker DEF WalWorker, IInv
<1>2. PICK segment \in segments : Reclaim(segment)
  BY DEF ReclaimSegment
<1>3. /\ Up /\ Reclaimable(segment)
      /\ segments' = segments \ {segment}
      /\ sealed' \subseteq sealed
      /\ \A file \in sealed \ sealed' : file.seq = segment.seq
      /\ UNCHANGED <<active, tail, writer, confirmed, cumulative, nextSeq, buried,
                    walBeside, channels, walLoop, acked, logged>>
      /\ overrun' = overrun \cup
            (IF misread THEN Replayable \ (Replayable' \cup Stored) ELSE {})
  BY <1>2 DEF ReclaimSegment, Reclaim, NoteOverrun
<1>4. Replayable' \subseteq Replayable
  BY <1>3 DEF Replayable, RowsOfFiles
<1>5. /\ Unanswered' = Unanswered /\ Incoming' = Incoming /\ Delivering' = Delivering
  BY <1>3 DEF Unanswered, Incoming, Delivering
<1>6. ControlInv'
  BY <1>3 DEF IInv, ControlInv
<1>7. StagesInv' /\ OrderInv'
  BY <1>3, <1>5 DEF IInv, StagesInv, OrderInv, InMemory, Staged
<1>8. IncomingInv'
  BY <1>3, <1>4, <1>5 DEF IInv, IncomingInv
<1>9. DiskInv'
  BY <1>3, <1>4, <1>5 DEF IInv, DiskInv
<1>10. CountInv' /\ CountedInv'
  BY <1>3 DEF IInv, CountInv, CountedInv, NumberInv, RankInv
<1>11. ChunksInv'
  BY <1>3, ChunksKept DEF IInv
<1>12. AckedRowsSurvive'
  <2> SUFFICES ASSUME NEW r \in acked, r \notin Excused', r \notin Stored,
                      r \notin Replayable'
               PROVE  FALSE
    BY <1>3 DEF AckedRowsSurvive, Stored
  <2>0. r \notin Excused
    BY <1>3 DEF Excused
  <2>1. r \in Replayable /\ ~misread
    BY <1>3, <2>0 DEF IInv, AckedRowsSurvive, Excused
  <2>2. PICK file \in sealed \ sealed' : r \in file.rows
    BY <1>3, <2>1 DEF Replayable, RowsOfFiles
  <2>3. r \in flushed
    BY <1>3, <2>0, <2>1, <2>2, ReclaimedRowsAreFlushed DEF Excused
  <2>4. QED
    BY <2>0, <2>3 DEF IInv, ChunksInv, Excused
<1>13. QED
  BY <1>1, <1>6, <1>7, <1>8, <1>9, <1>10, <1>11, <1>12 DEF IInv

\* The worker returns to its select, or ends.
LEMMA IdleStep == ASSUME IInv, ReclaimDone \/ WalDone PROVE IInv'
<1>1. TypeOK'
  BY TypeWalWorker DEF WalWorker, IInv
<1>2. /\ walPc \in {"select", "reclaim"} /\ walPc' \in {"select", "done"} /\ Up
      /\ UNCHANGED <<walVars, walElsewhere, channels, group, written, acked, logged>>
  BY DEF ReclaimDone, WalDone
<1>3. /\ Unanswered' = Unanswered /\ Incoming' = Incoming
      /\ Delivering' = Delivering
  BY <1>2 DEF Unanswered, Incoming, Delivering
<1>4. ControlInv'
  BY <1>2 DEF IInv, ControlInv
<1>5. StagesInv' /\ OrderInv'
  BY <1>2, <1>3 DEF IInv, StagesInv, OrderInv, InMemory, Staged
<1>6. IncomingInv' /\ DiskInv'
  BY <1>2, <1>3, ReplayableKept DEF IInv, IncomingInv, DiskInv
<1>7. CountInv' /\ CountedInv' /\ ChunksInv' /\ AckedRowsSurvive'
  BY <1>2, CountKept, CountedKept, ChunksKept, AckedKept DEF IInv
<1>8. QED
  BY <1>1, <1>4, <1>5, <1>6, <1>7 DEF IInv

\* Every step of the WAL worker keeps the invariant.
LEMMA WalWorkerStep == ASSUME IInv, WalWorker PROVE IInv'
<1>1. RotateLog => Seal \/ SealFails \/ CannotSeal
  BY DEF RotateLog, Rotate
<1>2. QED
  BY <1>1, TakeGroupStep, CommitStep, RefuseStep, AckStep, HandOffStep,
     CountGroupStep, TakeSignalStep, SealStep, NoSealStep, ReclaimStep, IdleStep
     DEF WalWorker

-----------------------------------------------------------------------------
(***************************************************************************)
(* Exit, crash and restart                                                 *)
(***************************************************************************)
\* Once memory is forgotten, what remains to be said is about the files.  An
\* interrupted commit may have left rows of its group in current.wal.
LEMMA ForgetStep ==
    ASSUME IInv, TypeOK', ForgetMemory,
           UNCHANGED <<sealed, acked, nextRow, misread>>,
           active' \subseteq active \cup Unanswered
    PROVE  /\ ControlInv' /\ StagesInv' /\ OrderInv' /\ IncomingInv'
           /\ DiskInv' /\ CountInv' /\ CountedInv' /\ ChunksInv'
<1>1. /\ ~Up' /\ walPc' = "select" /\ memPc' = "recv"
      /\ ingest' = <<>> /\ truncate' = <<>> /\ handoff' = <<>>
      /\ group' = <<>> /\ written' = 0 /\ logged' = {} /\ segments' = {}
      /\ confirmed' = 0 /\ cumulative' = 0
      /\ table' = {} /\ live' = <<>> /\ taken' = <<>> /\ unwritten' = {}
      /\ flushed' = {}
  BY DEF ForgetMemory, ForgetWalState
<1>2. /\ Staged' = {} /\ Delivering' = {} /\ Unanswered' = {}
      /\ InMemory' = {} /\ Incoming' = {}
      /\ RowsIn(handoff') = {} /\ RowsIn(ingest') = {} /\ RowsIn(truncate') = {}
      /\ RowsIn(taken') = {}
  BY <1>1, RowsInEmpty DEF Staged, Delivering, Unanswered, InMemory, Incoming
<1>3. InOrder(<<>>)
  BY DEF InOrder
<1>4. ControlInv'
  BY <1>1 DEF ControlInv
<1>5. StagesInv' /\ OrderInv' /\ ChunksInv'
  BY <1>1, <1>2, <1>3 DEF StagesInv, OrderInv, ChunksInv, Before
<1>6. Replayable' \subseteq Replayable \cup Unanswered
  BY DEF Replayable
<1>7. IncomingInv'
  BY <1>1, <1>2, <1>3, <1>6 DEF IInv, IncomingInv, Incoming, Before
<1>8. DiskInv'
  BY <1>1, <1>2 DEF IInv, DiskInv, Incoming, Before
<1>9. CountInv'
  <2>1. \A i, j \in DOMAIN <<>> : i # j => <<>>[i] \cap <<>>[j] = {}
    OBVIOUS
  <2>2. Cardinality({}) = 0
    BY FS_EmptySet
  <2>3. flushed' \ RowsIn(truncate') = {}
    BY <1>1
  <2>4. QED
    BY <1>1, <1>2, <2>1, <2>2, <2>3 DEF CountInv
<1>10. CountedInv'
  BY <1>1, FS_EmptySet DEF IInv, CountedInv, NumberInv, RankInv
<1>11. QED
  BY <1>4, <1>5, <1>7, <1>8, <1>9, <1>10

\* The drained process ends.
LEMMA ExitStep == ASSUME IInv, Exit PROVE IInv'
<1>1. TypeOK'
  BY TypeRestart DEF IInv
<1>2. /\ ForgetMemory
      /\ UNCHANGED <<diskVars, buried, faults, files, shed, nextRow, boots, acked, ghosts>>
  BY DEF Exit
<1>3. /\ ControlInv' /\ StagesInv' /\ OrderInv' /\ IncomingInv'
      /\ DiskInv' /\ CountInv' /\ CountedInv' /\ ChunksInv'
  BY <1>1, <1>2, ForgetStep
<1>4. AckedRowsSurvive'
  BY <1>2, AckedKept DEF IInv
<1>5. QED
  BY <1>1, <1>3, <1>4 DEF IInv

\* A crash loses no file of the log, and of the chunk files only those whose
\* rows it adds to gone.
LEMMA CrashStep == ASSUME IInv, Crash PROVE IInv'
<1>1. TypeOK'
  BY TypeRestart DEF IInv
<1>2. /\ ForgetMemory /\ CommitCut
      /\ UNCHANGED <<sealed, faults, shed, nextRow, boots, acked, misread, overrun>>
      /\ UNCHANGED <<files, gone>> \/ ChunksLost
  BY DEF Crash
<1>3. /\ active \subseteq active' /\ active' \subseteq active \cup Unanswered
      /\ buried' = buried
  BY <1>2 DEF CommitCut, AppendCut, Unanswered
<1>4. /\ ControlInv' /\ StagesInv' /\ OrderInv' /\ IncomingInv'
      /\ DiskInv' /\ CountInv' /\ CountedInv' /\ ChunksInv'
  BY <1>1, <1>2, <1>3, ForgetStep
<1>5. gone \subseteq gone' /\ Stored \subseteq Stored' \cup gone'
  BY <1>2 DEF ChunksLost, Stored
<1>6. Replayable \subseteq Replayable'
  BY <1>2, <1>3 DEF Replayable
<1>7. AckedRowsSurvive'
  BY <1>2, <1>3, <1>5, <1>6 DEF IInv, AckedRowsSurvive, Excused
<1>8. QED
  BY <1>1, <1>4, <1>7 DEF IInv

\* A restart counts the rows of each segment and of the older ones, and stages
\* what it replays.
LEMMA BootStep == ASSUME IInv, Boot PROVE IInv'
<1>1. TypeOK'
  BY TypeRestart DEF IInv
<1>2. /\ ~Up /\ Up'
      /\ UNCHANGED <<diskVars, buried, files, intake, channels, walLoop, nextRow,
                    acked, gone, overrun>>
      /\ logged' = Replayable
      /\ confirmed' = 0 /\ memPc' = "recv"
      /\ table' = {} /\ live' = Push(Replayable, <<>>) /\ taken' = <<>>
      /\ unwritten' = {} /\ flushed' = {} /\ shed' = shed \ Replayable
  BY DEF Boot, OpenWal, OpenWalMisread, CountLog, MemStart
<1>3. /\ ~misread' => ~misread /\ OpenWal
      /\ \A segment \in segments' : segment.seq < nextSeq'
  <2>1. CASE OpenWal /\ UNCHANGED misread
    BY <2>1 DEF OpenWal, CountLog, NumberBehind
  <2>2. CASE OpenWalMisread /\ misread' = TRUE
    BY <2>2 DEF OpenWalMisread, CountLog, NumberBehind
  <2>3. QED  BY <2>1, <2>2 DEF Boot
<1>4. /\ walPc = "select" /\ group = <<>> /\ written = 0
      /\ ingest = <<>> /\ truncate = <<>> /\ handoff = <<>>
  BY <1>2 DEF IInv, ControlInv
<1>5. RowsIn(live') = Replayable
  <2>1. Replayable \in SUBSET Row /\ <<>> \in BatchQueue
    BY ReplayableType, EmptySeq DEF IInv, BatchQueue
  <2>2. RowsIn(Push(Replayable, <<>>)) = RowsIn(<<>>) \cup Replayable
    BY <2>1, PushType
  <2>3. QED  BY <1>2, <2>2, RowsInEmpty
<1>6. /\ Staged' = Replayable /\ Delivering' = {} /\ Unanswered' = {}
      /\ InMemory' = Replayable /\ Incoming' = {} /\ Incoming = {}
      /\ RowsIn(handoff') = {} /\ RowsIn(ingest') = {} /\ RowsIn(truncate') = {}
      /\ RowsIn(taken') = {}
  BY <1>2, <1>4, <1>5, RowsInEmpty
     DEF Staged, Delivering, Unanswered, InMemory, Incoming
<1>7. Replayable' = Replayable
  BY <1>2, ReplayableKept
<1>8. ControlInv'
  BY <1>2, <1>4 DEF ControlInv
<1>9. InOrder(<<>>)
  BY DEF InOrder
<1>10. StagesInv' /\ OrderInv' /\ ChunksInv'
  BY <1>2, <1>4, <1>6, <1>9 DEF StagesInv, OrderInv, ChunksInv, Before
<1>11. IncomingInv'
  BY <1>2, <1>4, <1>6, <1>7, <1>9 DEF IInv, IncomingInv, Before
<1>12. DiskInv'
  BY <1>2, <1>4, <1>6, <1>7 DEF IInv, DiskInv
<1>13. CountInv'
  <2>1. /\ confirmed' <= Cardinality(flushed' \ RowsIn(truncate'))
        /\ RowsIn(truncate') \subseteq flushed'
    <3>1. flushed' \ RowsIn(truncate') = {}
      BY <1>2
    <3>2. QED  BY <1>2, <1>6, <3>1, FS_EmptySet
  <2>2. \A i, j \in DOMAIN truncate' : i # j => truncate'[i] \cap truncate'[j] = {}
    BY <1>2, <1>4
  <2>3. QED
    BY <1>3, <2>1, <2>2 DEF CountInv
<1>14. CountedInv'
  <2> SUFFICES ASSUME ~misread, OpenWal PROVE NumberInv' /\ RankInv'
    BY <1>3 DEF CountedInv
  <2>0. /\ \A file \in sealed : file.seq < nextSeq'
        /\ segments' = {[seq |-> file.seq, cumulative |-> CountThrough(sealed, file.seq)] :
                           file \in sealed}
        /\ cumulative' = Cardinality(Replayable)
    BY DEF OpenWal, CountLog, NumberBehind, Replayable
  <2>1. ASSUME NEW file \in sealed, NEW r \in file.rows
        PROVE  Rank(r, Replayable) <= CountThrough(sealed, file.seq)
    <3> DEFINE older  == {s \in Replayable : s <= r}
               counted == RowsOfFiles({g \in sealed : g.seq <= file.seq})
    <3>1. /\ file.seq \in Nat /\ r \in Nat /\ Replayable \subseteq Nat
          /\ \A g \in sealed : g.seq \in Nat
      BY <2>1, ReplayableType DEF IInv, Row
    <3>2. \A s \in older : s \notin active
      BY <2>1, <3>1 DEF IInv, DiskInv, Before
    <3>3. \A g \in sealed : ~(g.seq <= file.seq) => Before(file.rows, g.rows)
      BY <3>1 DEF IInv, CountedInv, NumberInv
    <3>4. ASSUME NEW g \in sealed, NEW s \in g.rows, s \in older
          PROVE  g.seq <= file.seq
      <4>1. s \in Nat /\ s <= r
        BY <3>1, <3>4
      <4>2. Before(file.rows, g.rows) => r < s
        BY <2>1, <3>4 DEF Before
      <4>3. QED  BY <3>1, <3>3, <4>1, <4>2
    <3>5. older \in SUBSET counted
      BY <3>2, <3>4 DEF Replayable, RowsOfFiles
    <3>6. IsFiniteSet(counted)
      <4>1. counted \in SUBSET Row
        BY ReplayableType DEF IInv, Replayable, RowsOfFiles
      <4>2. QED  BY <4>1, RowsFinite
    <3> HIDE DEF counted
    <3>7. Cardinality(older) <= Cardinality(counted)
      BY <3>5, <3>6, FS_Subset
    <3>8. QED  BY <3>7 DEF Rank, CountThrough, counted
  <2>2. ASSUME NEW segment \in segments', NEW file \in sealed, file.seq = segment.seq,
               NEW r \in file.rows
        PROVE  Rank(r, Replayable) <= segment.cumulative
    <3>1. PICK other \in sealed :
             segment = [seq |-> other.seq, cumulative |-> CountThrough(sealed, other.seq)]
      BY <2>0
    <3>2. segment.cumulative = CountThrough(sealed, file.seq)
      BY <2>2, <3>1
    <3>3. QED
      BY <2>1, <3>2
  <2>3. cumulative' + written' = Cardinality(logged')
    <3>1. Cardinality(Replayable) \in Nat
      BY ReplayableType, RowsFinite DEF IInv
    <3>2. QED  BY <1>2, <1>4, <2>0, <3>1
  <2>4. NumberInv'
    BY <1>2, <2>0 DEF IInv, CountedInv, NumberInv
  <2>5. RankInv'
    BY <1>2, <2>2, <2>3 DEF RankInv
  <2>6. QED  BY <2>4, <2>5
<1>15. AckedRowsSurvive'
  BY <1>2, <1>7 DEF IInv, AckedRowsSurvive, Excused, Stored
<1>16. QED
  BY <1>1, <1>8, <1>10, <1>11, <1>12, <1>13, <1>14, <1>15 DEF IInv

-----------------------------------------------------------------------------
(***************************************************************************)
(* The theorems                                                            *)
(***************************************************************************)
\* An empty data directory satisfies the invariant.
LEMMA InitStep == ASSUME Init PROVE IInv
<1>1. TypeOK
  BY TypeInit
<1>2. /\ active = {} /\ sealed = {} /\ segments = {} /\ buried = {}
      /\ confirmed = 0 /\ cumulative = 0 /\ nextSeq = 1
      /\ memPc = "recv" /\ table = {} /\ live = <<>> /\ taken = <<>>
      /\ unwritten = {} /\ files = <<>> /\ flushed = {} /\ shed = {}
      /\ server = "up" /\ ingest = <<>> /\ truncate = <<>> /\ handoff = <<>>
      /\ walPc = "select" /\ group = <<>> /\ written = 0
      /\ acked = {} /\ logged = {} /\ gone = {} /\ overrun = {}
  BY DEF Init, WalInit, MemInit
<1>3. /\ Staged = {} /\ Delivering = {} /\ Unanswered = {}
      /\ InMemory = {} /\ Incoming = {} /\ Replayable = {}
      /\ RowsIn(handoff) = {} /\ RowsIn(ingest) = {} /\ RowsIn(truncate) = {}
      /\ RowsIn(taken) = {}
  BY <1>2, RowsInEmpty
     DEF Staged, Delivering, Unanswered, InMemory, Incoming, Replayable, RowsOfFiles
<1>4. InOrder(<<>>)
  BY DEF InOrder
<1>5. ControlInv /\ StagesInv /\ OrderInv /\ ChunksInv
  BY <1>2, <1>3, <1>4 DEF ControlInv, StagesInv, OrderInv, ChunksInv, Before
<1>6. IncomingInv /\ DiskInv
  BY <1>2, <1>3, <1>4 DEF IncomingInv, DiskInv, Before
<1>7. CountInv /\ CountedInv
  <2>1. Cardinality({}) = 0 /\ flushed \ RowsIn(truncate) = {}
    BY <1>2, FS_EmptySet
  <2>2. QED  BY <1>2, <1>3, <2>1 DEF CountInv, CountedInv, NumberInv, RankInv
<1>8. AckedRowsSurvive
  BY <1>2 DEF AckedRowsSurvive
<1>9. QED
  BY <1>1, <1>5, <1>6, <1>7, <1>8 DEF IInv

\* A step that changes nothing keeps the invariant.
LEMMA StutterStep == ASSUME IInv, UNCHANGED vars PROVE IInv'
<1>1. TypeOK' /\ ControlInv'
  BY DEF IInv, TypeOK, WalTypeOK, ControlInv
<1>2. QED
  BY <1>1, StagesKept, OrderKept, IncomingKept, DiskKept, CountKept, CountedKept,
     ChunksKept,
     AckedKept, ReplayableKept DEF IInv

\* Every step of the system keeps the invariant.
LEMMA InvariantStep == ASSUME IInv, [Next]_vars PROVE IInv'
BY PostStep, CloseStep, WalWorkerStep, MemWorkerStep, ExitStep, CrashStep, BootStep,
   StutterStep DEF Next

\* The invariant holds in every reachable state, for every number of rows,
\* every capacity, limit and partitioning, and every combination of faults and
\* crashes; the errors that WalState::open keeps to itself are among them.
THEOREM Invariance == Spec => []IInv
<1>1. Init => IInv
  BY InitStep
<1>2. IInv /\ [Next]_vars => IInv'
  BY InvariantStep
<1>3. QED  BY <1>1, <1>2, PTL DEF Spec

\* Type correctness: every variable keeps the shape the code declares for it.
THEOREM TypeCorrect == Spec => []TypeOK
<1>1. IInv => TypeOK
  BY DEF IInv
<1>2. QED  BY <1>1, Invariance, PTL

\* No interleaving, crash or I/O error makes an acknowledged row vanish from
\* both the log and Parquet, except the four ways Excused names.  The fourth
\* needs a start that failed to read the log: in a log that every start could
\* count, the counting of WalState::confirm stands for the right rows.
THEOREM AckedSurvive == Spec => []AckedRowsSurvive
<1>1. IInv => AckedRowsSurvive
  BY DEF IInv
<1>2. QED  BY <1>1, Invariance, PTL

\* As long as every start could count the log, WalState::confirm deletes a segment
\* only when every acknowledged row of it has been flushed by this run of the
\* server, or shed, and WalState::rotate overwrites none.
THEOREM ReclaimSafe == Spec => ReclaimsOnlyFlushedRows
<1> DEFINE Safe(file) == (file.rows \cap acked) \ shed \subseteq flushed \/ misread
<1>1. IInv /\ [Next]_vars => \A file \in sealed \ sealed' : Safe(file)
  <2> SUFFICES ASSUME IInv, [Next]_vars, NEW file \in sealed \ sealed', ~misread
               PROVE  (file.rows \cap acked) \ shed \subseteq flushed
    OBVIOUS
  <2>1. ReclaimSegment
    <3>1. ~ UNCHANGED sealed
      OBVIOUS
    <3>2. WalWorker
      BY <3>1 DEF Next, Post, CloseIngest, MemWorker, MemReceive, MemTimeout,
            MemDisconnected, MemIntervalDue, MemCheck, MemWriteChunk,
            MemFlushFails, MemSignal, Exit, Crash, Boot, OpenWal, OpenWalMisread
    <3>3. ~ (RotateLog /\ Seal)
      <4>1. RotateLog => file.seq \in Nat /\ file.seq < nextSeq
        BY ReplayableType DEF IInv, CountedInv, NumberInv, RotateLog
      <4>2. nextSeq \in Nat
        BY DEF IInv, TypeOK, WalTypeOK
      <4>3. RotateLog => file.seq # nextSeq
        BY <4>1, <4>2
      <4>4. QED
        BY <4>3 DEF Seal
    <3>4. QED
      BY <3>1, <3>2, <3>3
         DEF WalWorker, TakeGroup, Commit, AppendSynced, Refuse, AppendFails, Ack,
             HandOff, CountGroup, TakeSignal, CountConfirmed, RotateLog, Rotate,
             SealFails, CannotSeal, ReclaimDone, WalDone
  <2>2. PICK segment \in segments : Reclaim(segment)
    BY <2>1 DEF ReclaimSegment
  <2>3. Up /\ Reclaimable(segment) /\ file.seq = segment.seq
    BY <2>1, <2>2 DEF ReclaimSegment, Reclaim
  <2>4. QED
    BY <2>3, ReclaimedRowsAreFlushed
<1>2. QED
  BY <1>1, Invariance, PTL DEF Spec, ReclaimsOnlyFlushedRows
=============================================================================
