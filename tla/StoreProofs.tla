------------------------------ MODULE StoreProofs ------------------------------
(***************************************************************************)
(* WritePath implements LogStore, for every value of the constants.        *)
(*                                                                         *)
(* The mapping is Store of WritePath: the log is what a restart would      *)
(* replay, and the rows given up are the excused ones.  Every action is a  *)
(* step of the store or leaves it alone; each lemma below names the store  *)
(* step and shows its guard, and keeps KnownInv on the way.  The guards    *)
(* that carry the argument are those of Acknowledge, where a batch must be *)
(* new and in the log, and of Reclaim, where CountedRowsAreFlushed says    *)
(* that Parquet has what the log forgets.  Where a start failed to count   *)
(* the log it says nothing, and the store step is Forget.                  *)
(***************************************************************************)
EXTENDS WritePathProofs

USE DEF vars, walVars, diskVars, walState, memVars, memMemory, channels, walLoop,
        walElsewhere, walBeside, memElsewhere, ghosts, Up

-----------------------------------------------------------------------------
\* What the store sees: nothing else matters to a step of it.
LEMMA StoreUnmoved ==
    ASSUME UNCHANGED <<acked, sealed, active, files, shed, buried, ghosts>>
    PROVE  /\ Replayable' = Replayable /\ Stored' = Stored /\ Excused' = Excused
           /\ UNCHANGED Store!storeVars
BY DEF Replayable, Stored, Excused, Store!storeVars

\* Rows already logged stay known while nothing known is forgotten.
LEMMA KnownKept ==
    ASSUME KnownInv, logged' = logged, unwritten' \subseteq RowsIn(taken'),
           Replayable \cup Stored \cup Excused
               \subseteq Replayable' \cup Stored' \cup Excused'
    PROVE  KnownInv'
BY DEF KnownInv

\* The types of what the store sees.
LEMMA StoreTypes ==
    ASSUME IInv
    PROVE  /\ Replayable \in SUBSET Row /\ Stored \in SUBSET Row
           /\ Excused \in SUBSET Row /\ acked \in SUBSET Row
BY ReplayableType, RowsInType DEF IInv, TypeOK, WalTypeOK, Stored, Excused

\* Nothing has been posted, logged or stored.
LEMMA StoreInit == ASSUME Init PROVE KnownInv /\ Store!Init
<1>1. RowsIn(<<>>) = {}
  BY RowsInEmpty
<1>2. /\ acked = {} /\ sealed = {} /\ active = {} /\ logged = {}
      /\ files = <<>> /\ taken = <<>> /\ unwritten = {}
      /\ shed = {} /\ buried = {} /\ gone = {} /\ overrun = {} /\ misread = FALSE
  BY DEF Init, WalInit, MemInit
<1>3. QED
  BY <1>1, <1>2 DEF KnownInv, Store!Init, Replayable, RowsOfFiles, Stored, Excused

-----------------------------------------------------------------------------
(***************************************************************************)
(* The WAL worker                                                          *)
(***************************************************************************)
\* The rows of a group that is not yet answered are in no file of the log.
LEMMA GroupIsNew ==
    ASSUME IInv, walPc = "commit"
    PROVE  RowsIn(group) \cap (acked \cup Replayable) = {}
<1>1. RowsIn(group) \subseteq Incoming
  BY DEF Incoming, Unanswered
<1>2. RowsIn(group) \cap acked = {}
  BY <1>1, IncomingIsNew
<1>3. \A s \in Replayable, r \in RowsIn(group) : s < r
  <2>1. \A s \in active, r \in RowsIn(group) : s < r
    BY DEF IInv, DiskInv, Before
  <2>2. \A file \in sealed : \A s \in file.rows, r \in RowsIn(group) : s < r
    BY <1>1 DEF IInv, DiskInv, Before
  <2>3. QED
    BY <2>1, <2>2 DEF Replayable, RowsOfFiles
<1>4. \A r \in Replayable : r \in Nat
  BY StoreTypes DEF Row
<1>5. QED
  BY <1>2, <1>3, <1>4

\* The group enters the log, or is buried in it.
LEMMA CommitMaps == ASSUME IInv, KnownInv, Commit PROVE KnownInv' /\ Store!Next
<1> DEFINE rows == RowsIn(group)
<1>1. /\ walPc = "commit" /\ UNCHANGED <<sealed, memVars, ghosts, acked, logged>>
      /\ \/ active' = active /\ buried' = buried \cup rows
         \/ active' = active \cup rows /\ buried' = buried
  BY DEF Commit, AppendSynced
<1>2. rows \in SUBSET Row
  BY QueueTypes
<1>3. rows \cap (acked \cup Replayable) = {}
  BY <1>1, GroupIsNew
<1>4. Stored' = Stored
  BY <1>1 DEF Stored
<1>5. KnownInv'
  BY <1>1, <1>4, KnownKept DEF KnownInv, Replayable, Excused
<1>6. Store!Append(rows) \/ Store!Bury(rows)
  BY <1>1, <1>3, <1>4 DEF Store!Append, Store!Bury, Replayable, Excused
<1>7. QED
  BY <1>2, <1>5, <1>6 DEF Store!Next

\* Part of a refused group may be in the log.
LEMMA RefuseMaps == ASSUME IInv, KnownInv, Refuse PROVE KnownInv' /\ Store!Next
<1> DEFINE kept == Replayable' \ Replayable
<1>1. /\ walPc = "commit"
      /\ UNCHANGED <<sealed, buried, memVars, ghosts, acked, logged>>
      /\ active \subseteq active' /\ active' \subseteq active \cup RowsIn(group)
  BY DEF Refuse, AppendFails, AppendCut
<1>2. /\ kept \subseteq RowsIn(group) /\ Replayable' = Replayable \cup kept
      /\ Stored' = Stored /\ Excused' = Excused
  BY <1>1 DEF Replayable, Stored, Excused
<1>3. kept \in SUBSET Row /\ kept \cap (acked \cup Replayable) = {}
  BY <1>1, <1>2, GroupIsNew, QueueTypes
<1>4. KnownInv'
  BY <1>1, <1>2, KnownKept DEF KnownInv
<1>5. Store!Append(kept)
  BY <1>1, <1>2, <1>3 DEF Store!Append
<1>6. QED
  BY <1>3, <1>4, <1>5 DEF Store!Next

\* A batch is acknowledged when it is in the log, and for the first time.
LEMMA AckMaps == ASSUME IInv, KnownInv, Ack PROVE KnownInv' /\ Store!Next
<1> DEFINE rows == Head(group)
<1>1. /\ walPc = "ack" /\ UNCHANGED <<walVars, memVars, ghosts>>
      /\ acked' = acked \cup rows /\ logged' = logged \cup rows
  BY DEF Ack
<1>2. /\ Replayable' = Replayable /\ Stored' = Stored /\ Excused' = Excused
  BY <1>1 DEF Replayable, Stored, Excused
<1>3. rows \subseteq RowsIn(group) /\ rows \in SUBSET Row
  <2>1. group # <<>>
    BY <1>1 DEF IInv, ControlInv
  <2>2. group \in Seq(SUBSET Row)
    BY QueueTypes
  <2>3. QED
    BY <2>1, <2>2 DEF RowsIn
<1>4. rows \cap acked = {}
  BY <1>1, <1>3, IncomingIsNew DEF Incoming, Unanswered
<1>5. rows \subseteq Replayable \cup Excused
  BY <1>1, <1>3 DEF IInv, DiskInv, Replayable, Excused
<1>6. KnownInv'
  BY <1>1, <1>2, <1>5 DEF KnownInv
<1>7. Store!Acknowledge(rows)
  BY <1>1, <1>2, <1>4, <1>5 DEF Store!Acknowledge
<1>8. QED
  BY <1>3, <1>6, <1>7 DEF Store!Next

\* The log forgets a segment: Parquet has its rows, or they were given up.
LEMMA ReclaimMaps ==
    ASSUME IInv, KnownInv, ReclaimSegment, ~misread PROVE KnownInv' /\ Store!Next
<1> DEFINE rows == Replayable \ Replayable'
<1>1. PICK segment \in segments : Reclaim(segment)
  BY DEF ReclaimSegment
<1>2. /\ Up /\ Reclaimable(segment) /\ sealed' \subseteq sealed
      /\ \A file \in sealed \ sealed' : file.seq = segment.seq
      /\ UNCHANGED <<active, buried, memVars, ghosts, acked, logged>>
  BY <1>1 DEF ReclaimSegment, Reclaim, NoteOverrun
<1>3. /\ Replayable' \subseteq Replayable
      /\ Stored' = Stored /\ Excused' = Excused
  BY <1>2 DEF Replayable, RowsOfFiles, Stored, Excused
<1>4. rows \cap logged \subseteq Stored \cup Excused
  <2> SUFFICES ASSUME NEW r \in rows, r \in logged, r \notin shed
               PROVE  r \in Stored \cup gone
    BY DEF Excused
  <2>1. PICK file \in sealed \ sealed' : r \in file.rows
    BY <1>2 DEF Replayable, RowsOfFiles
  <2>2. r \in flushed
    BY <1>2, <2>1, CountedRowsAreFlushed
  <2>3. QED
    BY <2>2 DEF IInv, ChunksInv
<1>5. rows \cap acked \subseteq logged
  BY <1>2 DEF IInv, DiskInv
<1>6. KnownInv'
  BY <1>2, <1>3, <1>4 DEF KnownInv
<1>7. Store!Reclaim(rows)
  BY <1>2, <1>3, <1>4, <1>5 DEF Store!Reclaim
<1>8. QED
  BY <1>6, <1>7, StoreTypes DEF Store!Next

\* A sealed file is replayed like the active one it was.
LEMMA RotateMaps ==
    ASSUME IInv, KnownInv, RotateLog, ~misread
    PROVE  KnownInv' /\ UNCHANGED Store!storeVars
<1>1. UNCHANGED <<buried, memVars, ghosts, acked, logged>>
  BY DEF RotateLog, Rotate, Seal, SealFails, CannotSeal, NoteOverrun
<1>2. Replayable' = Replayable
  <2>1. CASE Seal
    <3> DEFINE file == [seq |-> nextSeq, rows |-> active]
               kept == {other \in sealed : other.seq # nextSeq}
    <3>1. sealed' = kept \cup {file} /\ active' = {} /\ file.rows = active
      BY <2>1 DEF Seal
    <3>2. kept = sealed
      <4>1. nextSeq \in Nat /\ \A other \in sealed : other.seq \in Nat
        BY ReplayableType DEF IInv, TypeOK, WalTypeOK
      <4>2. \A other \in sealed : other.seq < nextSeq
        BY DEF IInv, CountedInv, NumberInv, RotateLog
      <4>3. QED  BY <4>1, <4>2
    <3> HIDE DEF file, kept
    <3>3. QED  BY <3>1, <3>2 DEF Replayable, RowsOfFiles
  <2>2. CASE SealFails \/ CannotSeal
    BY <2>2, ReplayableKept DEF SealFails, CannotSeal
  <2>3. QED
    BY <2>1, <2>2 DEF RotateLog, Rotate
<1>3. Stored' = Stored /\ Excused' = Excused
  BY <1>1 DEF Stored, Excused
<1>4. KnownInv'
  BY <1>1, <1>2, <1>3, KnownKept DEF KnownInv
<1>5. QED
  BY <1>1, <1>2, <1>3, <1>4 DEF Store!storeVars

\* A log that was not counted in full may forget any of its segments; what no
\* chunk holds of them is given up.
LEMMA MisreadMaps ==
    ASSUME IInv, KnownInv, ReclaimSegment \/ RotateLog, misread
    PROVE  KnownInv' /\ Store!Next
<1> DEFINE rows == Replayable \ Replayable'
<1>1. /\ UNCHANGED <<buried, memVars, gone, misread, acked, logged>>
      /\ overrun' = overrun \cup (Replayable \ (Replayable' \cup Stored))
  BY DEF ReclaimSegment, Reclaim, RotateLog, Rotate, Seal, SealFails, CannotSeal,
         NoteOverrun
<1>2. Replayable' \subseteq Replayable
  <2>1. CASE ReclaimSegment
    BY <2>1 DEF ReclaimSegment, Reclaim, Replayable, RowsOfFiles
  <2>2. CASE RotateLog /\ Seal
    <3> DEFINE file == [seq |-> nextSeq, rows |-> active]
               kept == {other \in sealed : other.seq # nextSeq}
    <3>1. /\ sealed' = kept \cup {file} /\ active' = {} /\ file.rows = active
          /\ kept \subseteq sealed
      BY <2>2 DEF Seal
    <3> HIDE DEF file, kept
    <3>2. QED  BY <3>1 DEF Replayable, RowsOfFiles
  <2>3. CASE SealFails \/ CannotSeal
    BY <2>3, ReplayableKept DEF SealFails, CannotSeal
  <2>4. QED
    BY <2>1, <2>2, <2>3 DEF RotateLog, Rotate
<1>3. Stored' = Stored /\ Excused' = Excused \cup (rows \ Stored)
  BY <1>1 DEF Stored, Excused
<1>4. KnownInv'
  BY <1>1, <1>2, <1>3, KnownKept DEF KnownInv
<1>5. Store!Forget(rows)
  BY <1>1, <1>2, <1>3 DEF Store!Forget
<1>6. QED
  BY <1>4, <1>5, StoreTypes DEF Store!Next

\* The other steps of the worker touch neither files nor promises.
LEMMA WalWorkerMaps ==
    ASSUME IInv, KnownInv, WalWorker
    PROVE  KnownInv' /\ [Store!Next]_(Store!storeVars)
<1>1. ASSUME TakeGroup \/ HandOff \/ CountGroup \/ TakeSignal \/ ReclaimDone \/ WalDone
      PROVE  KnownInv' /\ UNCHANGED Store!storeVars
  <2>1. /\ UNCHANGED <<acked, sealed, active, files, shed, buried, ghosts>>
        /\ UNCHANGED <<logged, unwritten, taken>>
    BY <1>1 DEF TakeGroup, HandOff, CountGroup, TakeSignal, CountConfirmed, ReclaimDone,
                WalDone
  <2>2. QED
    BY <2>1, StoreUnmoved, KnownKept DEF KnownInv
<1>2. QED
  BY <1>1, CommitMaps, RefuseMaps, AckMaps, RotateMaps, ReclaimMaps, MisreadMaps
     DEF WalWorker

-----------------------------------------------------------------------------
(***************************************************************************)
(* The MemTable worker                                                     *)
(***************************************************************************)
\* The rows of a chunk are logged, hence known.
LEMMA WriteChunkMaps ==
    ASSUME IInv, KnownInv, MemWriteChunk PROVE KnownInv' /\ Store!Next
<1>1. /\ UNCHANGED <<taken, shed, walVars, ghosts, acked, logged>>
      /\ files' = Append(files, NextChunk) /\ unwritten' = unwritten \ NextChunk
  BY DEF MemWriteChunk, WriteChunk
<1>2. /\ NextChunk \in SUBSET Row /\ NextChunk \subseteq unwritten
      /\ files \in Seq(SUBSET Row)
  BY DEF NextChunk, IInv, TypeOK, BatchQueue
<1>3. /\ Stored' = Stored \cup NextChunk
      /\ Replayable' = Replayable /\ Excused' = Excused
  BY <1>1, <1>2, RowsInAppend DEF Stored, Replayable, Excused
<1>4. NextChunk \subseteq Store!Known
  BY <1>2 DEF KnownInv, IInv, StagesInv, InMemory, Staged, Store!Known
<1>5. KnownInv'
  BY <1>1, <1>3, KnownKept DEF KnownInv
<1>6. Store!Publish(NextChunk)
  BY <1>1, <1>3, <1>4 DEF Store!Publish
<1>7. QED
  BY <1>2, <1>5, <1>6 DEF Store!Next

\* What a failed flush sheds was staged, hence logged.
LEMMA FlushFailsMaps ==
    ASSUME IInv, KnownInv, MemFlushFails PROVE KnownInv' /\ Store!Next
<1> DEFINE rows == RowsIn(taken \o live) \ RowsIn(live')
<1>1. /\ UNCHANGED <<files, sealed, active, buried, ghosts, acked, logged>>
      /\ unwritten' = {} /\ shed' = shed \cup rows
  BY DEF MemFlushFails, FlushFails
<1>2. RowsIn(taken \o live) = Staged
  BY RowsInConcat DEF IInv, TypeOK, BatchQueue, Staged
<1>3. rows \subseteq logged /\ rows \in SUBSET Row
  BY <1>2 DEF IInv, StagesInv, InMemory, TypeOK
<1>4. /\ Excused' = Excused \cup rows
      /\ Replayable' = Replayable /\ Stored' = Stored
  BY <1>1 DEF Excused, Replayable, Stored
<1> HIDE DEF rows
<1>5. KnownInv'
  BY <1>1, <1>4, KnownKept
<1>6. Store!Shed(rows)
  BY <1>1, <1>3, <1>4 DEF Store!Shed, Store!Known, KnownInv
<1>7. QED
  BY <1>3, <1>5, <1>6 DEF Store!Next

\* The other steps move rows within memory.
LEMMA MemWorkerMaps ==
    ASSUME IInv, KnownInv, MemWorker
    PROVE  KnownInv' /\ [Store!Next]_(Store!storeVars)
<1>1. ASSUME MemReceive \/ MemTimeout \/ MemDisconnected \/ MemIntervalDue \/ MemCheck
      PROVE  /\ UNCHANGED <<acked, sealed, active, files, shed, buried, ghosts, logged>>
             /\ unwritten' \subseteq RowsIn(taken')
  BY <1>1 DEF KnownInv, MemReceive, MemTimeout, MemDisconnected, MemIntervalDue, MemCheck,
              Receive, ReceiveTimesOut, ReceiveDisconnected, CheckIntervalDue, CheckNotDue,
              CheckOverLimit, Take
<1>2. ASSUME MemSignal
      PROVE  /\ UNCHANGED <<acked, sealed, active, files, shed, buried, ghosts, logged>>
             /\ unwritten' \subseteq RowsIn(taken')
  BY <1>2 DEF MemSignal, FlushDone, IInv, ControlInv
<1>3. ASSUME /\ UNCHANGED <<acked, sealed, active, files, shed, buried, ghosts, logged>>
             /\ unwritten' \subseteq RowsIn(taken')
      PROVE  KnownInv' /\ UNCHANGED Store!storeVars
  BY <1>3, StoreUnmoved, KnownKept
<1>4. QED
  BY <1>1, <1>2, <1>3, WriteChunkMaps, FlushFailsMaps DEF MemWorker

-----------------------------------------------------------------------------
(***************************************************************************)
(* Exit, crash and restart                                                 *)
(***************************************************************************)
\* The end of the process leaves the disk alone.
LEMMA ExitMaps == ASSUME KnownInv, Exit PROVE KnownInv' /\ UNCHANGED Store!storeVars
<1>1. /\ UNCHANGED <<acked, sealed, active, files, shed, buried, ghosts>>
      /\ logged' = {} /\ unwritten' = {}
  BY DEF Exit, ForgetMemory
<1>2. QED
  BY <1>1, StoreUnmoved DEF KnownInv

\* A crash may leave part of a group in the log, and a power loss takes chunks.
LEMMA CrashMaps == ASSUME IInv, KnownInv, Crash PROVE KnownInv' /\ Store!Next
<1> DEFINE kept   == Replayable' \ Replayable
           chunks == Stored \ Stored'
<1>1. /\ ForgetMemory /\ CommitCut
      /\ UNCHANGED <<sealed, shed, acked, misread, overrun>>
      /\ UNCHANGED <<files, gone>> \/ ChunksLost
  BY DEF Crash
<1>2. /\ active \subseteq active' /\ buried' = buried
      /\ active' # active =>
             walPc = "commit" /\ active' \subseteq active \cup RowsIn(group)
  BY <1>1 DEF CommitCut, AppendCut
<1>3. /\ Replayable' = Replayable \cup kept
      /\ kept \in SUBSET Row /\ kept \cap (acked \cup Replayable) = {}
  <2>1. CASE active' = active
    BY <1>1, <2>1, ReplayableKept
  <2>2. CASE active' # active
    BY <1>1, <1>2, <2>2, GroupIsNew, QueueTypes DEF Replayable
  <2>3. QED  BY <2>1, <2>2
<1>4. Stored' = Stored \ chunks /\ gone' = gone \cup chunks
  <2>1. CASE UNCHANGED <<files, gone>>
    BY <2>1 DEF Stored
  <2>2. CASE ChunksLost
    <3>1. PICK keep \in SUBSET DOMAIN files :
             /\ files' = [i \in DOMAIN files |-> IF i \in keep THEN files[i] ELSE {}]
             /\ gone' = gone \cup (Stored \ RowsIn(files'))
      BY <2>2 DEF ChunksLost
    <3>2. Stored' \subseteq Stored /\ Stored' = RowsIn(files')
      BY <3>1 DEF Stored, RowsIn
    <3>3. QED  BY <3>1, <3>2
  <2>3. QED  BY <1>1, <2>1, <2>2
<1>5. Excused' = Excused \cup chunks
  BY <1>1, <1>2, <1>4 DEF Excused
<1>6. KnownInv'
  BY <1>1 DEF KnownInv, ForgetMemory
<1>7. Store!Crash(kept, chunks)
  BY <1>1, <1>3, <1>4, <1>5 DEF Store!Crash
<1>8. chunks \in SUBSET Stored
  OBVIOUS
<1>9. QED
  BY <1>3, <1>6, <1>7, <1>8 DEF Store!Next

\* A restart answers again for the rows it replays.
LEMMA BootMaps == ASSUME IInv, KnownInv, Boot PROVE KnownInv' /\ Store!Next
<1> DEFINE rows == Excused \ Excused'
<1>1. /\ UNCHANGED <<sealed, active, buried, files, acked, gone, overrun>>
      /\ UNCHANGED misread \/ misread' = TRUE
      /\ logged' = Replayable /\ unwritten' = {} /\ shed' = shed \ Replayable
  BY DEF Boot, OpenWal, OpenWalMisread, MemStart
<1>2. Replayable' = Replayable /\ Stored' = Stored
  BY <1>1, ReplayableKept DEF Stored
<1>3. rows \subseteq Replayable /\ Excused' = Excused \ rows
  BY <1>1 DEF Excused
<1>4. KnownInv'
  BY <1>1, <1>2 DEF KnownInv
<1>5. Store!Recover(rows)
  <2>1. (~misread)' = (~misread) \/ ~((~misread)')
    <3>1. ASSUME misread' = misread PROVE (~misread)' = (~misread)
      BY <3>1
    <3>2. ASSUME misread' = TRUE PROVE ~((~misread)')
      BY <3>2
    <3>3. QED
      BY <1>1, <3>1, <3>2
  <2>2. QED
    BY <1>1, <1>2, <1>3, <2>1 DEF Store!Recover
<1>6. QED
  BY <1>4, <1>5, StoreTypes DEF Store!Next

-----------------------------------------------------------------------------
\* Every step of the write path is a step of the store, or none.
LEMMA StoreStep ==
    ASSUME IInv, KnownInv, [Next]_vars
    PROVE  KnownInv' /\ [Store!Next]_(Store!storeVars)
<1>1. ASSUME (\E size \in BatchSizes : Post(size)) \/ CloseIngest \/ UNCHANGED vars
      PROVE  KnownInv' /\ UNCHANGED Store!storeVars
  <2>1. /\ UNCHANGED <<acked, sealed, active, files, shed, buried, ghosts>>
        /\ UNCHANGED <<logged, unwritten, taken>>
    BY <1>1 DEF Post, CloseIngest
  <2>2. QED
    BY <2>1, StoreUnmoved, KnownKept DEF KnownInv
<1>2. QED
  BY <1>1, WalWorkerMaps, MemWorkerMaps, ExitMaps, CrashMaps, BootMaps DEF Next

\* The write path keeps the promise of LogStore: a row is acknowledged once and
\* only when it is logged, only logged rows reach Parquet, and a log that every
\* start could count forgets an acknowledged row only when a chunk holds it or it
\* was given up, through every interleaving, I/O error, crash and restart.
THEOREM StoreRefined == Spec => ImplementsStore
<1>1. Init => IInv /\ KnownInv /\ Store!Init
  BY InitStep, StoreInit
<1>2. IInv /\ KnownInv /\ [Next]_vars =>
          IInv' /\ KnownInv' /\ [Store!Next]_(Store!storeVars)
  BY InvariantStep, StoreStep
<1>3. QED
  BY <1>1, <1>2, PTL DEF Spec, ImplementsStore, Store!Spec
=============================================================================
