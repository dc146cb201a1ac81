--------------------------------- MODULE Wal ---------------------------------
(***************************************************************************)
(* The write-ahead log: the files of crates/engine/src/wal.rs and the      *)
(* WalState of crates/engine/src/worker.rs that rotates and reclaims them. *)
(*                                                                         *)
(* The log is one active file, current.wal, and the sealed segments that   *)
(* confirm() rotated out of it.  WalState numbers records cumulatively     *)
(* since startup: a segment is deleted when the count of confirmed rows    *)
(* reaches the cumulative count at which the segment was sealed.  Rows are *)
(* confirmed by number, never by identity; everything the properties of    *)
(* WritePath ask is whether that count stands for the right rows.  It does *)
(* not when a start failed to read part of the log: see OpenWalMisread.    *)
(*                                                                         *)
(* A file is abstracted to the set of rows that replay_wal can read back.  *)
(* A record cut short by a failed or interrupted append leaves the file    *)
(* torn: replay stops there, and what is appended later is unreadable.     *)
(***************************************************************************)
EXTENDS RowSets

CONSTANTS
    MaxRow,      \* rows are numbered 1..MaxRow
    FaultKinds,  \* the I/O errors considered, a subset of AllFaultKinds
    MaxFaults    \* how many I/O errors may happen in a behaviour

AllFaultKinds == {"append", "rename", "open", "read", "remove", "flush"}

ASSUME WalAssumption ==
    /\ MaxRow \in Nat
    /\ FaultKinds \subseteq AllFaultKinds
    /\ MaxFaults \in Nat

Row == 1..MaxRow

VARIABLES
    active,      \* the readable rows of current.wal
    tail,        \* "torn" when current.wal ends in a record cut short
    sealed,      \* the sealed segment files: records [seq, rows]
    writer,      \* WalState.wal: "open", or "failed" when it holds an Err
    segments,    \* WalState.sealed: records [seq, cumulative]
    confirmed,   \* WalState.confirmed
    cumulative,  \* WalState.cumulative
    nextSeq,     \* WalState.next_seq
    buried,      \* history: rows whose bytes lie behind a torn record
    faults       \* I/O errors so far

diskVars == <<active, tail, sealed>>
walState == <<writer, segments, confirmed, cumulative, nextSeq>>
walVars  == <<diskVars, walState, buried, faults>>

SealedFile == [seq : Nat, rows : SUBSET Row]
Segment    == [seq : Nat, cumulative : Nat]

WalTypeOK ==
    /\ active \subseteq Row
    /\ tail \in {"whole", "torn"}
    /\ sealed \subseteq SealedFile
    /\ writer \in {"open", "failed"}
    /\ segments \subseteq Segment
    /\ confirmed \in Nat
    /\ cumulative \in Nat
    /\ nextSeq \in Nat
    /\ buried \subseteq Row
    /\ faults \in 0..MaxFaults

-----------------------------------------------------------------------------
\* The rows of the sealed segments of a set of files.
RowsOfFiles(files) == UNION {file.rows : file \in files}

\* What replay_all returns: every sealed segment, then the active file.
Replayable == RowsOfFiles(sealed) \cup active

\* The records WalState::open has counted when it reaches sequence number n,
\* if these are the sealed segments it could read.
CountThrough(files, n) == Cardinality(RowsOfFiles({file \in files : file.seq <= n}))

\* An I/O error of one of the kinds considered.
Fault(kind) ==
    /\ kind \in FaultKinds
    /\ faults < MaxFaults
    /\ faults' = faults + 1

NoFault == UNCHANGED faults

-----------------------------------------------------------------------------
(***************************************************************************)
(* WalWriter                                                               *)
(***************************************************************************)
\* append_batch_no_sync for every batch of the group, then sync_data: the
\* rows are on disk.  Behind a torn record they are there but unreadable.
AppendSynced(rows) ==
    /\ writer = "open"
    /\ IF tail = "torn"
          THEN /\ buried' = buried \cup rows
               /\ UNCHANGED active
          ELSE /\ active' = active \cup rows
               /\ UNCHANGED buried
    /\ NoFault
    /\ UNCHANGED <<tail, sealed, walState>>

\* An append stops part of the way through the group: the complete records
\* before the cut stay in the file, and the next one may be cut short.
AppendCut(kept) ==
    \/ /\ tail = "torn"
       /\ UNCHANGED <<active, tail, buried>>
    \/ /\ tail = "whole"
       /\ active' = active \cup kept
       /\ tail' \in {"whole", "torn"}
       /\ UNCHANGED buried

\* Serialising or syncing the group returns an error.
AppendFails(kept) ==
    /\ writer = "open"
    /\ Fault("append")
    /\ AppendCut(kept)
    /\ UNCHANGED <<sealed, walState>>

\* Mutant of RecordsWritten: the records of a group are never counted.
RecordsForgotten(n) == cumulative' = cumulative + 0 * n

\* WalState::records_written.
RecordsWritten(n) == cumulative' = cumulative + n

-----------------------------------------------------------------------------
(***************************************************************************)
(* WalState::confirm and WalState::rotate                                  *)
(***************************************************************************)
\* Mutant of CountConfirmed: a signal confirms all that was ever logged, the
\* wholesale truncation that wal.rs says the segments replaced.
ConfirmAll(n) ==
    /\ confirmed' = IF n > 0 THEN cumulative ELSE confirmed
    /\ UNCHANGED <<diskVars, writer, segments, cumulative, nextSeq, buried, faults>>

\* The first line of confirm: count the rows, whichever they were.
CountConfirmed(n) ==
    /\ confirmed' = confirmed + n
    /\ UNCHANGED <<diskVars, writer, segments, cumulative, nextSeq, buried, faults>>

\* rotate with a writer at hand and a rename that succeeds: current.wal becomes
\* a sealed file, in the place of one that has its name; a new one is opened,
\* and confirm records the segment.
Seal ==
    /\ writer = "open"
    /\ sealed' = {file \in sealed : file.seq # nextSeq}
                    \cup {[seq |-> nextSeq, rows |-> active]}
    /\ segments' = segments \cup {[seq |-> nextSeq, cumulative |-> cumulative]}
    /\ nextSeq' = nextSeq + 1
    /\ active' = {}
    /\ tail' = "whole"
    /\ \/ writer' = "open" /\ NoFault
       \/ writer' = "failed" /\ Fault("open")
    /\ UNCHANGED <<confirmed, cumulative, buried>>

\* rotate when the rename fails: the number is used up and the file reopened,
\* which the same trouble may prevent.
SealFails ==
    /\ writer = "open"
    /\ Fault("rename")
    /\ nextSeq' = nextSeq + 1
    /\ writer' \in {"open", "failed"}
    /\ UNCHANGED <<diskVars, segments, confirmed, cumulative, buried>>

\* rotate returns None at once when the writer is an Err.  Nothing ever opens
\* it again before the process restarts.
CannotSeal ==
    /\ writer = "failed"
    /\ UNCHANGED walVars

Rotate == Seal \/ SealFails \/ CannotSeal

\* The first segment of WalState.sealed: sealed_segments lists them in the order
\* of their numbers, and later ones are pushed behind.
IsOldest(segment) == \A other \in segments : segment.seq <= other.seq

\* confirm deletes the longest prefix of segments its count covers.
Reclaimable(segment) ==
    /\ segment \in segments
    /\ IsOldest(segment)
    /\ segment.cumulative <= confirmed

\* One turn of the deleting loop.  A remove_file that fails is only logged:
\* the segment leaves memory and its file stays for the next replay.
Reclaim(segment) ==
    /\ Reclaimable(segment)
    /\ segments' = segments \ {segment}
    /\ \/ /\ sealed' = {file \in sealed : file.seq # segment.seq}
          /\ NoFault
       \/ /\ Fault("remove")
          /\ UNCHANGED sealed
    /\ UNCHANGED <<active, tail, writer, confirmed, cumulative, nextSeq, buried>>

-----------------------------------------------------------------------------
\* WalState::open counts the records of the sealed segments and of current.wal.
CountLog(files, current) ==
    /\ segments' = {[seq |-> file.seq, cumulative |-> CountThrough(files, file.seq)] :
                       file \in files}
    /\ cumulative' = Cardinality(RowsOfFiles(files) \cup current)
    /\ confirmed' = 0

\* The next segment is numbered behind all those that were listed.
NumberBehind(files) ==
    nextSeq' \in {n \in {1} \cup {file.seq + 1 : file \in files} :
                     \A file \in files : file.seq < n}

\* current.wal is opened in append mode.  A torn tail is left where it is.
OpenWriter ==
    \/ writer' = "open" /\ NoFault
    \/ writer' = "failed" /\ Fault("open")

\* Mutant of OpenWal: the log is opened with truncate in the place of append.
OpenWalTruncates ==
    /\ CountLog(sealed, active)
    /\ NumberBehind(sealed)
    /\ OpenWriter
    /\ active' = {} /\ tail' = "whole"
    /\ UNCHANGED <<sealed, buried>>

\* WalState::open when everything can be read.
OpenWal ==
    /\ CountLog(sealed, active)
    /\ NumberBehind(sealed)
    /\ OpenWriter
    /\ UNCHANGED <<diskVars, buried>>

\* WalState::open when the disk is in trouble: it keeps every error to itself.
\* A sealed segment that cannot be counted is left out, and so are the records
\* of current.wal; if the directory cannot be listed there are no segments and
\* the numbers start again.  One trouble may hit several of these reads, and
\* the writer's open as well.
OpenWalMisread ==
    /\ Fault("read")
    /\ \E files \in SUBSET sealed, current \in {{}, active} :
          /\ CountLog(files, current)
          /\ \/ NumberBehind(sealed)
             \/ files = {} /\ NumberBehind({})
    /\ writer' \in {"open", "failed"}
    /\ UNCHANGED <<diskVars, buried>>

\* The worker's memory is gone; the files and the history stay.
ForgetWalState ==
    /\ writer' = "failed"
    /\ segments' = {}
    /\ confirmed' = 0
    /\ cumulative' = 0
    /\ nextSeq' = 1

\* An empty data directory, opened for the first time.
WalInit ==
    /\ active = {} /\ tail = "whole" /\ sealed = {}
    /\ writer = "open" /\ segments = {}
    /\ confirmed = 0 /\ cumulative = 0 /\ nextSeq = 1
    /\ buried = {} /\ faults = 0
=============================================================================
