------------------------------ MODULE Compactor ------------------------------
(***************************************************************************)
(* The background compactor of crates/engine/src/compactor.rs and the      *)
(* flusher of storage.rs at work in one partition directory.               *)
(*                                                                         *)
(* A file is known by its name and its form: "part" while it is written,   *)
(* "parquet" once a rename has published it, "superseded" while a merge    *)
(* hides it.  Queries see the parquet files only.  The compactor merges    *)
(* the files below the target size into one,                               *)
(*                                                                         *)
(*   write the output as a part    hide every source                       *)
(*   publish the output            delete the hidden sources               *)
(*                                                                         *)
(* and before it looks for files to merge, it recovers the directory from  *)
(* what an earlier merge may have left: with a part in sight it discards   *)
(* the parts and restores the hidden sources, without one it deletes them. *)
(*                                                                         *)
(* Rows are flushed one to a chunk, and a file's size is its row count.    *)
(***************************************************************************)
EXTENDS Naturals, FiniteSets

CONSTANTS
    MaxRow,       \* how many rows are flushed
    MaxFiles,     \* max_files_before_compaction
    TargetSize,   \* compaction_target_bytes, in rows
    MaxCrashes,   \* how many times the process dies
    MaxFaults     \* how many I/O errors may happen

\* config.rs tests that its defaults for both limits are positive.
ASSUME CompactorAssumption ==
    /\ MaxRow \in Nat
    /\ MaxFiles \in Nat \ {0}
    /\ TargetSize \in Nat \ {0}
    /\ MaxCrashes \in Nat
    /\ MaxFaults \in Nat

Row == 1..MaxRow

VARIABLES
    dir,         \* the files of the partition: [name, form, rows, writes]
    flusher,     \* "idle", or "writing" the chunk of the next row
    chunk,       \* the name of that chunk
    nextRow,     \* the next row to flush
    compPc,      \* idle, recover, rollback, finish, select, merge, hide or clean
    parts,       \* the names of parts still to be discarded
    hidden,      \* the names of superseded files still to be dealt with
    sources,     \* the names of files still to be hidden
    output,      \* the name of the merged file
    published,   \* history: rows that were in a published file
    cutShort,    \* history: "yes" once a rollback with sources to restore was cut
    confused,    \* history: "yes" once a rollback met a merge already published
    crashes,     \* how often the process died
    faults       \* I/O errors so far

flusherVars   == <<flusher, chunk, nextRow, published>>
compactorVars == <<compPc, parts, hidden, sources, output>>
history       == <<cutShort, confused>>
vars == <<dir, flusherVars, compactorVars, history, crashes, faults>>

Form == {"part", "parquet", "superseded"}

-----------------------------------------------------------------------------
(***************************************************************************)
(* The directory                                                           *)
(***************************************************************************)
WithForm(form) == {file \in dir : file.form = form}

Names(files) == {file.name : file \in files}

RowsOf(files) == UNION {file.rows : file \in files}

\* A chunk is named by the nanosecond, a merged file by a UUID: a new name is
\* none that a file or the memory of either task holds.
FreshName ==
    LET used == Names(dir) \cup parts \cup hidden \cup sources \cup {chunk, output}
    IN  CHOOSE n \in 1..(Cardinality(used) + 1) : n \notin used

\* What a query scans.
Visible == RowsOf(WithForm("parquet"))

\* A file of that name and form is there to be renamed or removed.
Exists(name, form) == \E file \in WithForm(form) : file.name = name

Renamed(name, from, to) ==
    {IF file.name = name /\ file.form = from THEN [file EXCEPT !.form = to] ELSE file :
        file \in dir}

Removed(name, form) == {file \in dir : ~(file.name = name /\ file.form = form)}

\* Mutant of Mergeable: files at or above the target are merged again.
MergeableAtAnySize == WithForm("parquet")

\* The files a merge takes: published and below the target size.
Mergeable == {file \in WithForm("parquet") : Cardinality(file.rows) < TargetSize}

\* How often the most rewritten row of a set of files has been written.
MostWrites(files) ==
    CHOOSE n \in {file.writes : file \in files} : \A file \in files : file.writes <= n

Fault == faults < MaxFaults /\ faults' = faults + 1

-----------------------------------------------------------------------------
(***************************************************************************)
(* ParquetFlusher::write_chunk                                             *)
(***************************************************************************)
StartChunk ==
    /\ flusher = "idle"
    /\ nextRow <= MaxRow
    /\ dir' = dir \cup {[name |-> FreshName, form |-> "part", rows |-> {nextRow},
                         writes |-> 1]}
    /\ flusher' = "writing"
    /\ chunk' = FreshName
    /\ UNCHANGED <<nextRow, published, compactorVars, history, crashes, faults>>

\* The rename makes the chunk visible.
PublishChunk ==
    /\ flusher = "writing"
    /\ Exists(chunk, "part")
    /\ dir' = Renamed(chunk, "part", "parquet")
    /\ published' = published \cup {nextRow}
    /\ nextRow' = nextRow + 1
    /\ flusher' = "idle" /\ chunk' = 0
    /\ UNCHANGED <<compactorVars, history, crashes, faults>>

\* The rename finds no part, or writing fails and leaves the part behind: the
\* row returns to the live buffer and is flushed again under another name.
ChunkFails ==
    /\ flusher = "writing"
    /\ \/ ~Exists(chunk, "part") /\ UNCHANGED faults
       \/ Fault
    /\ flusher' = "idle" /\ chunk' = 0
    /\ UNCHANGED <<dir, nextRow, published, compactorVars, history,
                   crashes>>

-----------------------------------------------------------------------------
(***************************************************************************)
(* The sweep and recover_partition                                         *)
(***************************************************************************)
\* compact_partition has returned, with or without an error.
Idle ==
    /\ compPc' = "idle"
    /\ parts' = {} /\ hidden' = {} /\ sources' = {} /\ output' = 0

\* Mutant of Leftovers: the walk looks for files to merge only.
NoLeftovers == {}

\* The files walk_for_partitions takes for traces of an interrupted merge.
Leftovers == WithForm("part") \cup WithForm("superseded")

\* The walk finds the partition in need of recovery or of a merge.
Sweep ==
    /\ compPc = "idle"
    /\ Leftovers # {} \/ Cardinality(Mergeable) > MaxFiles
    /\ compPc' = "recover"
    /\ UNCHANGED <<dir, flusherVars, parts, hidden, sources, output, history,
                   crashes, faults>>

\* One listing decides: with any part in it the merge is rolled back.  The part
\* may also be the chunk that the flusher is writing.
ListLeftovers ==
    /\ compPc = "recover"
    /\ parts' = Names(WithForm("part"))
    /\ hidden' = Names(WithForm("superseded"))
    /\ compPc' = IF parts' # {} THEN "rollback"
                 ELSE IF hidden' # {} THEN "finish" ELSE "select"
    /\ confused' = IF /\ parts' # {}
                      /\ \E file \in WithForm("superseded") : file.rows \cap Visible # {}
                   THEN "yes" ELSE confused
    /\ UNCHANGED <<dir, flusherVars, sources, output, cutShort, crashes, faults>>

DiscardPart(name) ==
    /\ compPc = "rollback"
    /\ name \in parts /\ Exists(name, "part")
    /\ dir' = Removed(name, "part")
    /\ parts' = parts \ {name}
    /\ UNCHANGED <<flusherVars, compPc, hidden, sources, output, history,
                   crashes, faults>>

\* Once every part is gone the hidden sources get their names back.
RestoreSource(name) ==
    /\ compPc = "rollback" /\ parts = {}
    /\ name \in hidden
    /\ dir' = Renamed(name, "superseded", "parquet")
    /\ hidden' = hidden \ {name}
    /\ UNCHANGED <<flusherVars, compPc, parts, sources, output, history,
                   crashes, faults>>

\* Without a part the merge was published: its sources are deleted.
FinishCleanup(name) ==
    /\ compPc = "finish"
    /\ name \in hidden
    /\ dir' = Removed(name, "superseded")
    /\ hidden' = hidden \ {name}
    /\ UNCHANGED <<flusherVars, compPc, parts, sources, output, history,
                   crashes, faults>>

RecoverDone ==
    /\ compPc \in {"rollback", "finish"}
    /\ parts = {} /\ hidden = {}
    /\ compPc' = "select"
    /\ UNCHANGED <<dir, flusherVars, parts, hidden, sources, output, history,
                   crashes, faults>>

-----------------------------------------------------------------------------
(***************************************************************************)
(* compact_partition, write_merged and publish_merged                      *)
(***************************************************************************)
\* Mutant of SelectSources: one file more than the walk allows is let be.
SelectOneMore ==
    /\ compPc = "select"
    /\ IF Cardinality(Mergeable) <= MaxFiles + 1
          THEN Idle
          ELSE /\ sources' = Names(Mergeable)
               /\ compPc' = "merge"
               /\ UNCHANGED <<parts, hidden, output>>
    /\ UNCHANGED <<dir, flusherVars, history, crashes, faults>>

SelectSources ==
    /\ compPc = "select"
    /\ IF Cardinality(Mergeable) <= MaxFiles
          THEN Idle
          ELSE /\ sources' = Names(Mergeable)
               /\ compPc' = "merge"
               /\ UNCHANGED <<parts, hidden, output>>
    /\ UNCHANGED <<dir, flusherVars, history, crashes, faults>>

\* Mutant of WriteMerged: the loop over files[1..] without the file before it.
WriteMergedSkipsFirst ==
    LET merged == {file \in WithForm("parquet") :
                      file.name \in sources \ {CHOOSE name \in sources : TRUE}}
    IN  /\ compPc = "merge"
        /\ dir' = dir \cup {[name |-> FreshName, form |-> "part", rows |-> RowsOf(merged),
                             writes |-> MostWrites(merged) + 1]}
        /\ output' = FreshName
        /\ compPc' = "hide"
        /\ UNCHANGED <<flusherVars, parts, hidden, sources, history, crashes, faults>>

\* The merged rows are written to a part of their own and synced.
WriteMerged ==
    LET merged == {file \in WithForm("parquet") : file.name \in sources}
    IN  /\ compPc = "merge"
        /\ dir' = dir \cup {[name |-> FreshName, form |-> "part", rows |-> RowsOf(merged),
                             writes |-> MostWrites(merged) + 1]}
        /\ output' = FreshName
        /\ compPc' = "hide"
        /\ UNCHANGED <<flusherVars, parts, hidden, sources, history, crashes, faults>>

\* Mutant of HideSource: a source is deleted where it should be renamed.
DeleteSource(name) ==
    /\ compPc = "hide"
    /\ name \in sources
    /\ dir' = Removed(name, "parquet")
    /\ sources' = sources \ {name}
    /\ UNCHANGED <<flusherVars, compPc, parts, hidden, output, history,
                   crashes, faults>>

HideSource(name) ==
    /\ compPc = "hide"
    /\ name \in sources
    /\ dir' = Renamed(name, "parquet", "superseded")
    /\ sources' = sources \ {name}
    /\ hidden' = hidden \cup {name}
    /\ UNCHANGED <<flusherVars, compPc, parts, output, history, crashes, faults>>

\* Mutant of PublishMerged: the output is published while a source is visible.
PublishMergedFirst ==
    /\ compPc = "hide" /\ Exists(output, "part")
    /\ dir' = Renamed(output, "part", "parquet")
    /\ compPc' = IF sources = {} THEN "clean" ELSE "hide"
    /\ UNCHANGED <<flusherVars, parts, hidden, sources, output, history,
                   crashes, faults>>

\* Every source is hidden: the output takes its final name.
PublishMerged ==
    /\ compPc = "hide" /\ sources = {}
    /\ dir' = Renamed(output, "part", "parquet")
    /\ compPc' = "clean"
    /\ UNCHANGED <<flusherVars, parts, hidden, sources, output, history,
                   crashes, faults>>

\* A hidden source is deleted, or left to the next sweep if that fails.
CleanSource(name) ==
    /\ compPc = "clean"
    /\ name \in hidden
    /\ hidden' = hidden \ {name}
    /\ \/ dir' = Removed(name, "superseded") /\ UNCHANGED faults
       \/ Fault /\ UNCHANGED dir
    /\ UNCHANGED <<flusherVars, compPc, parts, sources, output, history, crashes>>

CleanDone ==
    /\ compPc = "clean" /\ hidden = {}
    /\ Idle
    /\ UNCHANGED <<dir, flusherVars, history, crashes, faults>>

\* What is remembered when a rollback stops with sources still hidden.
NoteCutShort ==
    cutShort' = IF compPc = "rollback" /\ hidden # {} THEN "yes" ELSE cutShort

\* An I/O error ends compact_partition wherever it is, and one that ends
\* write_merged may leave a part of no use.  So does a part that is gone when it
\* is to be discarded: the flusher has published it since the listing.
CompactionFails ==
    /\ \/ /\ compPc \in {"recover", "rollback", "finish", "select", "hide"}
          /\ Fault
          /\ UNCHANGED dir
       \/ /\ compPc = "merge"
          /\ Fault
          /\ dir' = dir \cup {[name |-> FreshName, form |-> "part", rows |-> {},
                               writes |-> 1]}
       \/ /\ compPc = "rollback"
          /\ \E name \in parts : ~Exists(name, "part")
          /\ UNCHANGED <<dir, faults>>
    /\ NoteCutShort
    /\ Idle
    /\ UNCHANGED <<flusherVars, confused, crashes>>

-----------------------------------------------------------------------------
\* The process dies and is started again; the directory is as it was left.
Crash ==
    /\ crashes < MaxCrashes
    /\ crashes' = crashes + 1
    /\ NoteCutShort
    /\ Idle
    /\ flusher' = "idle" /\ chunk' = 0
    /\ UNCHANGED <<dir, nextRow, published, confused, faults>>

Init ==
    /\ dir = {}
    /\ flusher = "idle" /\ chunk = 0 /\ nextRow = 1 /\ published = {}
    /\ compPc = "idle" /\ parts = {} /\ hidden = {} /\ sources = {} /\ output = 0
    /\ cutShort = "no" /\ confused = "no"
    /\ crashes = 0 /\ faults = 0

FlusherStep == StartChunk \/ PublishChunk \/ ChunkFails

CompactorStep ==
    \/ Sweep \/ ListLeftovers \/ RecoverDone \/ SelectSources \/ WriteMerged
    \/ PublishMerged \/ CleanDone \/ CompactionFails
    \/ \E name \in parts : DiscardPart(name)
    \/ \E name \in hidden :
          RestoreSource(name) \/ FinishCleanup(name) \/ CleanSource(name)
    \/ \E name \in sources : HideSource(name)

Next == FlusherStep \/ CompactorStep \/ Crash

Spec == Init /\ [][Next]_vars

\* The flusher and the sweep keep running: a thread and an interval timer.  A
\* sweep that meets the chunk being written makes its flush fail; the interval
\* between sweeps is far longer than a flush, so not every retry meets one.
Fairness == WF_vars(FlusherStep) /\ WF_vars(CompactorStep) /\ SF_vars(PublishChunk)

FairSpec == Spec /\ Fairness

-----------------------------------------------------------------------------
(***************************************************************************)
(* Properties                                                              *)
(***************************************************************************)
File == [name : Nat \ {0}, form : Form, rows : SUBSET Row, writes : Nat \ {0}]

\* The superseded files of a set of names.
Superseded(names) == {file \in WithForm("superseded") : file.name \in names}

TypeOK ==
    /\ \A file \in dir : file \in File
    /\ flusher \in {"idle", "writing"} /\ chunk \in Nat
    /\ nextRow \in 1..(MaxRow + 1) /\ published = 1..(nextRow - 1)
    /\ compPc \in {"idle", "recover", "rollback", "finish", "select", "merge", "hide", "clean"}
    /\ parts \subseteq Nat /\ hidden \subseteq Nat /\ sources \subseteq Nat
    /\ output \in Nat
    /\ cutShort \in {"no", "yes"} /\ confused \in {"no", "yes"}
    /\ crashes \in 0..MaxCrashes /\ faults \in 0..MaxFaults

(***************************************************************************)
(* Types, one file to a name, and what makes a hidden file dispensable:    *)
(* while write_merged's output is unpublished it holds every row of the    *)
(* sources that publish_merged has hidden and is still to hide, and once   *)
(* it is published, or recover_partition deletes what it takes for the     *)
(* sources of a published merge, their rows are visible.                   *)
(***************************************************************************)
CompactorInv ==
    /\ TypeOK
    /\ \A f, g \in dir : f.name = g.name => f = g
    /\ compPc = "hide" =>
          \E merged \in WithForm("part") :
             /\ merged.name = output
             /\ RowsOf(Superseded(hidden)) \subseteq merged.rows
             /\ \A name \in sources :
                   \E file \in WithForm("parquet") :
                      file.name = name /\ file.rows \subseteq merged.rows
    /\ compPc = "clean" => RowsOf(Superseded(hidden)) \subseteq Visible
    /\ compPc = "finish" /\ cutShort = "no" => RowsOf(Superseded(hidden)) \subseteq Visible

(***************************************************************************)
(* However often a merge, its recovery or the process is interrupted, each *)
(* row a flush has published stays in a published file or in a source that *)
(* the next recovery restores, unless a rollback was itself interrupted.   *)
(***************************************************************************)
RowsSurvive ==
    cutShort = "no" => published \subseteq Visible \cup RowsOf(WithForm("superseded"))

(***************************************************************************)
(* A merge is published without a visible-duplicate window: no query finds *)
(* a row in two files, unless a rollback took a part for the output of a   *)
(* merge that was published already.                                       *)
(***************************************************************************)
NoVisibleDuplicates ==
    confused = "no" =>
        \A f, g \in WithForm("parquet") : f # g => f.rows \cap g.rows = {}

(***************************************************************************)
(* Every row is written a bounded number of times: a merge that takes more *)
(* than MaxFiles files below the target yields one with MaxFiles more rows *)
(* than the largest of them, and one at the target is not merged again.    *)
(***************************************************************************)
RewritesBounded ==
    confused = "no" =>
        \A file \in dir : file.writes <= (TargetSize - 2) \div MaxFiles + 2

(***************************************************************************)
(* Rows that a merge has hidden come back: again and again, however merges *)
(* and recoveries follow each other, every published row is visible.       *)
(***************************************************************************)
HiddenRowsReturn == []<>(published \subseteq Visible \/ cutShort = "yes")

(***************************************************************************)
(* Sweeps tidy up: in the end the partition holds no part and no hidden    *)
(* source, and at most max_files_before_compaction files below the target. *)
(***************************************************************************)
Converges == <>[](Leftovers = {} /\ Cardinality(Mergeable) <= MaxFiles)

(***************************************************************************)
(* "every crash point is recoverable" (compactor.rs), for the points of a  *)
(* rollback too: no published row is lost.                                 *)
(***************************************************************************)
EveryCrashRecoverable == published \subseteq Visible \cup RowsOf(WithForm("superseded"))

(***************************************************************************)
(* "published without a visible-duplicate window" (compactor.rs), whatever *)
(* recover_partition finds in the directory.                               *)
(***************************************************************************)
NoDuplicateWindow ==
    \A f, g \in WithForm("parquet") : f # g => f.rows \cap g.rows = {}
=============================================================================
