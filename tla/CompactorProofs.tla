--------------------------- MODULE CompactorProofs ---------------------------
(***************************************************************************)
(* Proofs about Compactor, for every value of its constants.               *)
(*                                                                         *)
(* A row can be lost only where a superseded file is deleted, and seen     *)
(* twice only where a file becomes visible.  So the invariant says, for    *)
(* every place a merge or its recovery can be cut at, which files cover    *)
(* the rows of the superseded ones: MergeInv for a merge under way,        *)
(* LeftoverInv for what an interrupted one leaves to the next sweep,       *)
(* ApartInv for the files that may be visible together, and GrowthInv for  *)
(* how many rows a file must hold to have been rewritten so often.         *)
(***************************************************************************)
EXTENDS Compactor, RowSetsTheorems, FiniteSetTheorems, TLAPS

USE DEF vars, flusherVars, compactorVars, history

-----------------------------------------------------------------------------
\* A file that queries see, or that recovery may make visible again.
Merged(file) == file.form # "part"

\* The rows of every superseded file can be read elsewhere.
Covered ==
    \A file \in dir : file.form = "superseded" =>
        \A r \in file.rows :
            \E other \in dir : other.form = "parquet" /\ r \in other.rows

\* The directory holds finitely many files, one to a name, and what has been
\* published holds rows that were flushed.
FilesInv ==
    /\ IsFiniteSet(dir)
    /\ \A f, g \in dir : f.name = g.name => f = g
    /\ \A file \in dir : Merged(file) => file.rows # {} /\ file.rows \subseteq published

\* The chunk being written is a part of its own with the next row, if no
\* rollback has discarded it.
ChunkInv ==
    /\ flusher = "idle" => chunk = 0
    /\ flusher = "writing" =>
          /\ chunk # 0 /\ nextRow <= MaxRow
          /\ \A file \in dir :
                file.name = chunk =>
                    file.form = "part" /\ file.rows = {nextRow} /\ file.writes = 1

\* What the compactor remembers of the directory between its listings.
MemoryInv ==
    /\ IsFiniteSet(parts) /\ IsFiniteSet(hidden) /\ IsFiniteSet(sources)
    /\ compPc \in {"rollback", "finish", "hide", "clean"} =>
          \A name \in hidden :
              \E file \in dir : file.name = name /\ file.form = "superseded"
    /\ compPc \in {"rollback", "finish", "hide"} =>
          \A file \in dir : file.form = "superseded" => file.name \in hidden
    /\ compPc \in {"select", "merge"} =>
          hidden = {} /\ \A file \in dir : file.form # "superseded"
    /\ compPc \in {"merge", "hide"} =>
          \A name \in sources : \E file \in Mergeable : file.name = name
    /\ compPc = "merge" => Cardinality(sources) > MaxFiles

\* The output of a merge is a part of its own, with the rows of the sources it
\* has hidden and is still to hide and with no other.
MergeInv ==
    compPc = "hide" =>
        /\ output # chunk
        /\ \E merged \in dir :
              /\ merged.name = output /\ merged.form = "part" /\ merged.rows # {}
              /\ \A r \in Row :
                    r \in merged.rows <=>
                        \E file \in dir :
                           r \in file.rows /\ (\/ file.form = "superseded"
                                               \/ file.form = "parquet" /\ file.name \in sources)

\* What a merge leaves to the next sweep: its sources are covered, or there is a
\* part that tells the sweep to restore them.
LeftoverInv ==
    /\ compPc = "clean" => Covered
    /\ compPc = "finish" /\ cutShort = "no" => Covered
    /\ compPc \in {"idle", "recover"} /\ cutShort = "no" =>
          \/ Covered
          \/ \E file \in dir : file.form = "part" /\ file.name # chunk

\* Files that are, or may together become, visible hold different rows.
ApartInv ==
    confused = "no" =>
        \A f, g \in dir :
            /\ f # g /\ Merged(f) /\ Merged(g)
            /\ f.form = g.form \/ compPc \in {"rollback", "hide"}
            => f.rows \cap g.rows = {}

\* A file has MaxFiles rows and one more for each time its rows were rewritten.
Grown(file) == (file.writes - 1) * MaxFiles + 1 <= Cardinality(file.rows)

GrowthInv ==
    confused = "no" =>
        \A file \in dir :
            /\ file.writes <= (TargetSize - 2) \div MaxFiles + 2
            /\ Merged(file) \/ (compPc = "hide" /\ file.name = output) => Grown(file)

IInv ==
    /\ TypeOK /\ FilesInv /\ ChunkInv /\ MemoryInv /\ MergeInv /\ LeftoverInv
    /\ ApartInv /\ GrowthInv /\ RowsSurvive

-----------------------------------------------------------------------------
(***************************************************************************)
(* Finite sets and the operators of the directory                          *)
(***************************************************************************)
\* The names of finitely many files are finitely many.
LEMMA NamesFinite ==
    ASSUME NEW files, IsFiniteSet(files)
    PROVE  IsFiniteSet(Names(files))
<1> DEFINE name == [file \in files |-> file.name]
<1>1. name \in Surjection(files, Names(files))
  BY DEF Surjection, Names
<1>2. QED
  BY <1>1, FS_Surjection

\* There is a name that no file and no memory holds, and FreshName is one.
LEMMA FreshNameIsNew ==
    ASSUME FilesInv, MemoryInv
    PROVE  /\ FreshName \in Nat \ {0}
           /\ FreshName \notin parts \cup hidden \cup sources \cup {chunk, output}
           /\ \A file \in dir : file.name # FreshName
<1> DEFINE used == Names(dir) \cup parts \cup hidden \cup sources \cup {chunk, output}
<1>1. IsFiniteSet(used)
  <2>1. IsFiniteSet(Names(dir) \cup parts)
    BY NamesFinite, FS_Union DEF FilesInv, MemoryInv
  <2>2. IsFiniteSet(Names(dir) \cup parts \cup hidden)
    BY <2>1, FS_Union DEF MemoryInv
  <2>3. IsFiniteSet(Names(dir) \cup parts \cup hidden \cup sources)
    BY <2>2, FS_Union DEF MemoryInv
  <2>4. IsFiniteSet({chunk, output})
    <3>1. IsFiniteSet({chunk} \cup {output})
      BY FS_Singleton, FS_AddElement
    <3>2. {chunk} \cup {output} = {chunk, output}
      OBVIOUS
    <3>3. QED
      BY <3>1, <3>2
  <2>5. QED
    BY <2>3, <2>4, FS_Union
<1> HIDE DEF used
<1>2. Cardinality(used) \in Nat
  BY <1>1, FS_CardinalityType
<1>3. \E n \in 1..(Cardinality(used) + 1) : n \notin used
  BY <1>1, FreshNumberExists
<1>4. FreshName = CHOOSE n \in 1..(Cardinality(used) + 1) : n \notin used
  BY DEF FreshName, used
<1>5. FreshName \in 1..(Cardinality(used) + 1) /\ FreshName \notin used
  BY <1>3, <1>4
<1>6. FreshName \in Nat \ {0}
  BY <1>2, <1>5
<1>7. QED
  BY <1>5, <1>6 DEF used, Names

\* MostWrites is the number of writes of a file, and of none fewer.
LEMMA MostWritesIsMost ==
    ASSUME NEW files, IsFiniteSet(files), files # {}, files \subseteq File
    PROVE  /\ MostWrites(files) \in Nat \ {0}
           /\ \E file \in files : file.writes = MostWrites(files)
           /\ \A file \in files : file.writes <= MostWrites(files)
<1> DEFINE writes == {file.writes : file \in files}
<1>1. IsFiniteSet(writes)
  <2> DEFINE count == [file \in files |-> file.writes]
  <2>1. count \in Surjection(files, writes)
    BY DEF Surjection
  <2>2. QED
    BY <2>1, FS_Surjection
<1>2. writes \in SUBSET Nat /\ writes # {} /\ 0 \notin writes
  BY DEF File
<1>3. \E n \in writes : \A m \in writes : m <= n
  <2> HIDE DEF writes
  <2> QED
    BY <1>1, <1>2, LargestExists
<1>4. \E n \in writes : \A file \in files : file.writes <= n
  BY <1>3
<1>5. /\ MostWrites(files) \in writes
      /\ \A file \in files : file.writes <= MostWrites(files)
  BY <1>4 DEF MostWrites
<1>6. QED
  BY <1>2, <1>5

\* Rows are finitely many.
LEMMA RowsAreFinite == ASSUME NEW rows \in SUBSET Row PROVE IsFiniteSet(rows)
<1>1. IsFiniteSet(1..MaxRow)
  BY CompactorAssumption, FS_Interval
<1>2. QED
  BY <1>1, FS_Subset DEF Row

\* Files with rows of their own hold at least one row each beside the rows of
\* any one of them.
LEMMA RowsAddUp ==
    ASSUME NEW files, IsFiniteSet(files), files \subseteq File,
           \A f \in files : f.rows # {},
           \A f, g \in files : f # g => f.rows \cap g.rows = {},
           NEW file \in files
    PROVE  /\ Cardinality(file.rows) \in Nat /\ Cardinality(files) \in Nat
           /\ Cardinality(RowsOf(files)) \in Nat
           /\ Cardinality(file.rows) + Cardinality(files) - 1 <= Cardinality(RowsOf(files))
<1> DEFINE others == files \ {file}
           pick == [f \in others |-> CHOOSE r \in f.rows : TRUE]
           picked == {pick[f] : f \in others}
<1>1. IsFiniteSet(others) /\ Cardinality(others) = Cardinality(files) - 1
  BY FS_RemoveElement
<1>2. \A f \in others : pick[f] \in f.rows
  OBVIOUS
<1>3. pick \in Bijection(others, picked)
  <2>1. \A f, g \in others : pick[f] = pick[g] => f = g
    BY <1>2
  <2>2. pick \in [others -> picked]
    OBVIOUS
  <2>3. \A r \in picked : \E f \in others : pick[f] = r
    OBVIOUS
  <2> HIDE DEF pick, picked, others
  <2>4. QED
    BY <2>1, <2>2, <2>3 DEF Bijection, Injection, Surjection, IsInjective
<1>4. IsFiniteSet(picked) /\ Cardinality(picked) = Cardinality(others)
  <2> HIDE DEF picked, pick, others
  <2> QED
    BY <1>1, <1>3, FS_Bijection DEF ExistsBijection
<1>5. picked \cap file.rows = {}
  BY <1>2
<1>6. IsFiniteSet(file.rows) /\ IsFiniteSet(RowsOf(files)) /\ RowsOf(files) \in SUBSET Row
  <2>1. file.rows \in SUBSET Row /\ RowsOf(files) \in SUBSET Row
    BY DEF File, RowsOf
  <2>2. QED
    BY <2>1, RowsAreFinite
<1>7. picked \cup file.rows \in SUBSET RowsOf(files)
  BY <1>2 DEF RowsOf
<1>8. Cardinality(picked \cup file.rows) = Cardinality(picked) + Cardinality(file.rows)
  <2> HIDE DEF picked, pick, others
  <2>1. Cardinality(picked \cap file.rows) = 0
    BY <1>5, FS_EmptySet
  <2>2. Cardinality(picked) \in Nat /\ Cardinality(file.rows) \in Nat
    BY <1>4, <1>6, FS_CardinalityType
  <2>3. Cardinality(picked \cup file.rows)
          = Cardinality(picked) + Cardinality(file.rows) - Cardinality(picked \cap file.rows)
    BY <1>4, <1>6, FS_Union
  <2>4. QED
    BY <2>1, <2>2, <2>3
<1>9. Cardinality(picked \cup file.rows) <= Cardinality(RowsOf(files))
  <2> HIDE DEF picked, pick, others
  <2> QED
    BY <1>6, <1>7, FS_Subset
<1>10. /\ Cardinality(file.rows) \in Nat /\ Cardinality(files) \in Nat
       /\ Cardinality(RowsOf(files)) \in Nat
  BY <1>6, FS_CardinalityType
<1>11. QED
  BY <1>1, <1>4, <1>8, <1>9, <1>10

-----------------------------------------------------------------------------
(***************************************************************************)
(* What a step does to the directory                                       *)
(***************************************************************************)
\* A rename of a file that is there replaces it by one that differs in form.
LEMMA RenameStep ==
    ASSUME TypeOK, FilesInv, NEW f \in dir, NEW to \in Form,
           dir' = Renamed(f.name, f.form, to)
    PROVE  \E g \in File :
              /\ g.name = f.name /\ g.form = to /\ g.rows = f.rows /\ g.writes = f.writes
              /\ dir' = (dir \ {f}) \cup {g}
<1> DEFINE g == [f EXCEPT !.form = to]
<1>1. f \in File
  BY DEF TypeOK
<1>2. g \in File /\ g.name = f.name /\ g.form = to /\ g.rows = f.rows /\ g.writes = f.writes
  BY <1>1 DEF File
<1>3. \A file \in dir : file.name = f.name /\ file.form = f.form <=> file = f
  BY DEF FilesInv
<1>4. dir' = {IF file = f THEN [file EXCEPT !.form = to] ELSE file : file \in dir}
  BY <1>3 DEF Renamed
<1>5. dir' = (dir \ {f}) \cup {g}
  BY <1>4
<1>6. QED
  BY <1>2, <1>5

\* A removal of a file that is there takes that file and no other.
LEMMA RemoveStep ==
    ASSUME FilesInv, NEW f \in dir, dir' = Removed(f.name, f.form)
    PROVE  dir' = dir \ {f}
BY DEF FilesInv, Removed

\* The directory stays in order when a file is renamed...
LEMMA FilesRenamed ==
    ASSUME FilesInv, NEW f \in dir, NEW g, g.name = f.name,
           dir' = (dir \ {f}) \cup {g}, published \subseteq published',
           Merged(g) => g.rows # {} /\ g.rows \subseteq published'
    PROVE  FilesInv'
<1>1. IsFiniteSet(dir')
  BY FS_RemoveElement, FS_AddElement DEF FilesInv
<1>2. QED
  BY <1>1 DEF FilesInv, Merged

\* ...removed...
LEMMA FilesRemoved ==
    ASSUME FilesInv, NEW f \in dir, dir' = dir \ {f}, published' = published
    PROVE  FilesInv'
<1>1. IsFiniteSet(dir')
  BY FS_RemoveElement DEF FilesInv
<1>2. QED
  BY <1>1 DEF FilesInv, Merged

\* ...or added under a new name as a part.
LEMMA FilesAdded ==
    ASSUME FilesInv, NEW g, g.form = "part", \A file \in dir : file.name # g.name,
           dir' = dir \cup {g}, published' = published
    PROVE  FilesInv'
<1>1. IsFiniteSet(dir')
  BY FS_AddElement DEF FilesInv
<1>2. QED
  BY <1>1 DEF FilesInv, Merged

\* Covering is lost only with the files that cover.
LEMMA StillCovered ==
    ASSUME Covered,
           \A file \in dir' : file.form = "superseded" => file \in dir,
           \A file \in dir : file.form = "parquet" => file \in dir'
    PROVE  Covered'
BY DEF Covered

\* Rows survive while every file that holds one is replaced by one that does.
LEMMA StillThere ==
    ASSUME RowsSurvive, published' = published, cutShort' = "no" => cutShort = "no",
           cutShort = "no" =>
             \A file \in dir : Merged(file) =>
               \A r \in file.rows : \E other \in dir' : other.form # "part" /\ r \in other.rows,
           \A file \in dir \cup dir' : file \in File
    PROVE  RowsSurvive'
<1> SUFFICES ASSUME cutShort' = "no", NEW r \in published'
             PROVE  r \in (Visible \cup RowsOf(WithForm("superseded")))'
  BY DEF RowsSurvive
<1>1. PICK file \in dir : Merged(file) /\ r \in file.rows
  BY DEF RowsSurvive, Visible, RowsOf, WithForm, Merged
<1>2. PICK other \in dir' : other.form # "part" /\ r \in other.rows
  BY <1>1
<1>3. other.form \in {"parquet", "superseded"}
  BY <1>2 DEF File, Form
<1>4. QED
  BY <1>2, <1>3 DEF Visible, RowsOf, WithForm

-----------------------------------------------------------------------------
(***************************************************************************)
(* The flusher                                                             *)
(***************************************************************************)
\* A chunk is started as a part with the next row under a new name.
LEMMA StartChunkKeeps == ASSUME IInv, StartChunk PROVE IInv'
<1> USE DEF IInv
<1> DEFINE g == [name |-> FreshName, form |-> "part", rows |-> {nextRow}, writes |-> 1]
<1>1. /\ flusher = "idle" /\ nextRow <= MaxRow /\ dir' = dir \cup {g}
      /\ flusher' = "writing" /\ chunk' = FreshName
      /\ UNCHANGED <<nextRow, published, compactorVars, history, crashes, faults>>
  BY DEF StartChunk
<1>2. /\ FreshName \in Nat \ {0} /\ \A file \in dir : file.name # FreshName
      /\ FreshName # output
  BY FreshNameIsNew
<1> HIDE DEF IInv
<1>3. g \in File /\ g.name = FreshName /\ g.form = "part" /\ g.rows = {nextRow} /\ g.writes = 1
  BY <1>1, <1>2, CompactorAssumption DEF IInv, TypeOK, File, Form, Row
<1> HIDE DEF g
<1>4. TypeOK'
  BY <1>1, <1>2, <1>3 DEF IInv, TypeOK
<1>5. FilesInv'
  BY <1>1, <1>2, <1>3, FilesAdded DEF IInv
<1>6. ChunkInv'
  BY <1>1, <1>2, <1>3 DEF ChunkInv
<1>7. MemoryInv'
  BY <1>1, <1>3 DEF IInv, MemoryInv, Merged, Mergeable, WithForm
<1>8. MergeInv'
  BY <1>1, <1>2, <1>3 DEF IInv, MergeInv
<1>9. LeftoverInv'
  BY <1>1, <1>2, <1>3 DEF IInv, LeftoverInv, Covered
<1>10. ApartInv'
  BY <1>1, <1>3 DEF IInv, ApartInv, Merged
<1>11. GrowthInv'
  <2>1. g.writes <= (TargetSize - 2) \div MaxFiles + 2
    <3>1. \A t, m \in Nat \ {0} : 1 <= (t - 2) \div m + 2
      OBVIOUS
    <3>2. QED
      BY <1>3, <3>1, CompactorAssumption
  <2>2. compPc' = "hide" => g.name # output'
    BY <1>1, <1>2, <1>3
  <2>3. QED
    BY <1>1, <1>3, <2>1, <2>2 DEF IInv, GrowthInv, Merged, Grown
<1>12. RowsSurvive'
  BY <1>1, <1>3, StillThere DEF IInv, TypeOK, Merged
<1>13. QED
  BY <1>4, <1>5, <1>6, <1>7, <1>8, <1>9, <1>10, <1>11, <1>12 DEF IInv

\* A chunk is published: its row is in no other published file.
LEMMA PublishChunkKeeps == ASSUME IInv, PublishChunk PROVE IInv'
<1>1. /\ flusher = "writing" /\ Exists(chunk, "part")
      /\ dir' = Renamed(chunk, "part", "parquet")
      /\ published' = published \cup {nextRow} /\ nextRow' = nextRow + 1
      /\ flusher' = "idle" /\ chunk' = 0
      /\ UNCHANGED <<compactorVars, history, crashes, faults>>
  BY DEF PublishChunk
<1>2. PICK f \in dir : f.name = chunk /\ f.form = "part"
  BY <1>1 DEF Exists, WithForm
<1>3. f.rows = {nextRow} /\ f.writes = 1 /\ chunk # 0 /\ nextRow \in Row /\ f \in File
  BY <1>1, <1>2, CompactorAssumption DEF IInv, TypeOK, ChunkInv, Row
<1>4. PICK g \in File :
        /\ g.name = chunk /\ g.form = "parquet" /\ g.rows = {nextRow} /\ g.writes = 1
        /\ dir' = (dir \ {f}) \cup {g}
  BY <1>1, <1>2, <1>3, RenameStep DEF IInv, Form
<1>5. published' = 1..(nextRow' - 1) /\ nextRow' \in 1..(MaxRow + 1) /\ nextRow \notin published
  BY <1>1, <1>3, CompactorAssumption DEF IInv, TypeOK, Row
<1>6. TypeOK'
  BY <1>1, <1>4, <1>5 DEF IInv, TypeOK
<1>7. FilesInv'
  BY <1>1, <1>2, <1>4, FilesRenamed DEF IInv
<1>8. ChunkInv'
  BY <1>1 DEF ChunkInv
<1>9. MemoryInv'
  <2>1. \A file \in Mergeable : file \in Mergeable'
    BY <1>2, <1>4 DEF Mergeable, WithForm
  <2>2. \A file \in dir : file.form = "superseded" <=> file \in dir' /\ file.form = "superseded"
    BY <1>2, <1>4
  <2>3. QED
    BY <1>1, <1>4, <2>1, <2>2 DEF IInv, MemoryInv
<1>10. MergeInv'
  <2> SUFFICES ASSUME compPc = "hide" PROVE MergeInv'
    BY <1>1 DEF MergeInv
  <2>1. chunk \notin sources
    BY <1>2 DEF IInv, FilesInv, MemoryInv, Mergeable, WithForm
  <2>2. PICK merged \in dir :
          /\ merged.name = output /\ merged.form = "part" /\ merged.rows # {}
          /\ \A r \in Row :
                r \in merged.rows <=>
                    \E file \in dir :
                       r \in file.rows /\ (\/ file.form = "superseded"
                                           \/ file.form = "parquet" /\ file.name \in sources)
    BY DEF IInv, MergeInv
  <2>3. merged \in dir' /\ output' # chunk'
    BY <1>1, <1>2, <1>3, <1>4, <2>2 DEF IInv, MergeInv, TypeOK, File
  <2>4. \A file :
           (file \in dir /\ (\/ file.form = "superseded"
                             \/ file.form = "parquet" /\ file.name \in sources))
           <=> (file \in dir' /\ (\/ file.form = "superseded"
                                  \/ file.form = "parquet" /\ file.name \in sources))
    BY <1>2, <1>4, <2>1
  <2>5. QED
    BY <1>1, <2>2, <2>3, <2>4 DEF MergeInv
<1>11. LeftoverInv'
  BY <1>1, <1>2, <1>3, <1>4 DEF IInv, LeftoverInv, Covered, TypeOK, File
<1>12. ApartInv'
  BY <1>1, <1>2, <1>4, <1>5 DEF IInv, ApartInv, FilesInv, Merged
<1>13. GrowthInv'
  <2>1. Grown(g)
    <3>1. Cardinality({nextRow}) = 1
      BY FS_Singleton
    <3>2. QED
      BY <1>4, <3>1, CompactorAssumption DEF Grown
  <2>2. g.writes <= (TargetSize - 2) \div MaxFiles + 2 \/ confused # "no"
    BY <1>2, <1>3, <1>4 DEF IInv, GrowthInv
  <2>3. QED
    BY <1>1, <1>2, <1>4, <2>1, <2>2 DEF IInv, GrowthInv, Merged, Grown
<1>14. RowsSurvive'
  <2> SUFFICES ASSUME cutShort = "no", NEW r \in published'
               PROVE  r \in (Visible \cup RowsOf(WithForm("superseded")))'
    BY <1>1 DEF RowsSurvive
  <2>1. CASE r = nextRow
    BY <1>4, <2>1 DEF Visible, RowsOf, WithForm
  <2>2. CASE r \in published
    BY <1>2, <1>4, <2>2 DEF IInv, RowsSurvive, Visible, RowsOf, WithForm
  <2>3. QED
    BY <1>1, <2>1, <2>2
<1>15. QED
  BY <1>6, <1>7, <1>8, <1>9, <1>10, <1>11, <1>12, <1>13, <1>14 DEF IInv

\* A chunk that fails leaves the directory as it is.
LEMMA ChunkFailsKeeps == ASSUME IInv, ChunkFails PROVE IInv'
<1>1. /\ flusher = "writing" /\ flusher' = "idle" /\ chunk' = 0
      /\ faults' \in 0..MaxFaults
      /\ UNCHANGED <<dir, nextRow, published, compactorVars, history, crashes>>
  BY CompactorAssumption DEF ChunkFails, Fault, IInv, TypeOK
<1>2. TypeOK'
  BY <1>1 DEF IInv, TypeOK
<1>3. \A file \in dir : file.name # 0
  BY DEF IInv, TypeOK, File
<1>4. FilesInv' /\ ChunkInv' /\ MemoryInv' /\ ApartInv' /\ GrowthInv' /\ RowsSurvive'
  BY <1>1 DEF IInv, FilesInv, ChunkInv, MemoryInv, ApartInv, GrowthInv, Merged, Grown,
              Mergeable, WithForm, RowsSurvive, Visible, RowsOf
<1>5. MergeInv'
  BY <1>1, <1>3 DEF IInv, MergeInv
<1>6. LeftoverInv'
  BY <1>1, <1>3 DEF IInv, LeftoverInv, Covered
<1>7. QED
  BY <1>2, <1>4, <1>5, <1>6 DEF IInv

-----------------------------------------------------------------------------
(***************************************************************************)
(* The sweep and recover_partition                                         *)
(***************************************************************************)
\* compact_partition returns, or the process dies: what is left is covered, or
\* a part tells the next sweep of it, or a rollback was cut short.
LEMMA GoIdle ==
    ASSUME IInv, Idle, NoteCutShort, UNCHANGED <<nextRow, published, confused>>,
           dir' = dir \/ compPc = "merge",
           TypeOK', FilesInv', ChunkInv', RowsSurvive',
           compPc = "merge" => \A file \in dir' : file.form # "superseded",
           \/ UNCHANGED <<flusher, chunk>>
           \/ chunk' = 0,
           confused = "no" => \A file \in dir' \ dir :
               file.form = "part" /\ file.writes = 1,
           dir \subseteq dir'
    PROVE  IInv'
<1>1. /\ compPc' = "idle" /\ parts' = {} /\ hidden' = {} /\ sources' = {} /\ output' = 0
      /\ cutShort' = IF compPc = "rollback" /\ hidden # {} THEN "yes" ELSE cutShort
  BY DEF Idle, NoteCutShort
<1>2. MemoryInv'
  BY <1>1, FS_EmptySet DEF MemoryInv
<1>3. MergeInv'
  BY <1>1 DEF MergeInv
<1>4. LeftoverInv'
  <2> SUFFICES ASSUME cutShort' = "no"
               PROVE  (Covered \/ \E file \in dir : file.form = "part" /\ file.name # chunk)'
    BY <1>1 DEF LeftoverInv
  <2>1. cutShort = "no" /\ ~(compPc = "rollback" /\ hidden # {})
    BY <1>1
  <2>2. CASE compPc \in {"idle", "recover", "clean", "finish"}
    BY <2>1, <2>2 DEF IInv, LeftoverInv, Covered, TypeOK, File
  <2>3. CASE compPc \in {"select", "merge"} \/ (compPc = "rollback" /\ hidden = {})
    BY <2>3 DEF IInv, MemoryInv, Covered
  <2>4. CASE compPc = "hide"
    BY <2>4 DEF IInv, MergeInv, TypeOK, File
  <2>5. QED
    BY <2>1, <2>2, <2>3, <2>4 DEF IInv, TypeOK
<1>5. ApartInv'
  BY <1>1 DEF IInv, ApartInv, Merged
<1>6. GrowthInv'
  <2>1. \A t, m \in Nat \ {0} : 1 <= (t - 2) \div m + 2
    OBVIOUS
  <2>2. QED
    BY <1>1, <2>1, CompactorAssumption DEF IInv, GrowthInv, Merged, Grown
<1>7. QED
  BY <1>2, <1>3, <1>4, <1>5, <1>6 DEF IInv

\* A crash leaves the directory to recovery (run_server, start_background_loop).
LEMMA CrashKeeps == ASSUME IInv, Crash PROVE IInv'
<1>1. /\ Idle /\ NoteCutShort /\ flusher' = "idle" /\ chunk' = 0
      /\ crashes' \in 0..MaxCrashes
      /\ UNCHANGED <<dir, nextRow, published, confused, faults>>
  BY CompactorAssumption DEF Crash, IInv, TypeOK
<1>2. TypeOK' /\ FilesInv' /\ ChunkInv' /\ RowsSurvive'
  BY <1>1 DEF IInv, TypeOK, FilesInv, ChunkInv, RowsSurvive, Idle, NoteCutShort, Merged,
              Visible, RowsOf, WithForm
<1>3. compPc = "merge" => \A file \in dir' : file.form # "superseded"
  BY <1>1 DEF IInv, MemoryInv
<1>4. QED
  BY <1>1, <1>2, <1>3, GoIdle

\* An error ends compact_partition, and leaves at most a part of no use.
LEMMA CompactionFailsKeeps == ASSUME IInv, CompactionFails PROVE IInv'
<1> DEFINE g == [name |-> FreshName, form |-> "part", rows |-> {}, writes |-> 1]
<1>1. /\ Idle /\ NoteCutShort /\ faults' \in 0..MaxFaults
      /\ dir' = dir \/ (compPc = "merge" /\ dir' = dir \cup {g})
      /\ UNCHANGED <<flusherVars, confused, crashes>>
  BY CompactorAssumption DEF CompactionFails, Fault, IInv, TypeOK
<1>2. FreshName \in Nat \ {0} /\ FreshName # chunk /\ \A file \in dir : file.name # FreshName
  BY FreshNameIsNew DEF IInv
<1>3. g \in File /\ g.name = FreshName /\ g.form = "part" /\ g.writes = 1
  BY <1>2 DEF File, Form
<1> HIDE DEF g
<1>4. TypeOK'
  BY <1>1, <1>3 DEF IInv, TypeOK, Idle, NoteCutShort
<1>5. FilesInv'
  <2>1. CASE dir' = dir
    BY <1>1, <2>1 DEF IInv, FilesInv, Merged
  <2>2. CASE dir' = dir \cup {g}
    BY <1>1, <1>2, <1>3, <2>2, FilesAdded DEF IInv
  <2>3. QED
    BY <1>1, <2>1, <2>2
<1>6. ChunkInv'
  BY <1>1, <1>2, <1>3 DEF IInv, ChunkInv
<1>7. RowsSurvive'
  BY <1>1, <1>3 DEF IInv, RowsSurvive, NoteCutShort, Visible, RowsOf, WithForm
<1>8. compPc = "merge" => \A file \in dir' : file.form # "superseded"
  BY <1>1, <1>3 DEF IInv, MemoryInv
<1>9. QED
  BY <1>1, <1>3, <1>4, <1>5, <1>6, <1>7, <1>8, GoIdle

\* The walk finds the partition.
LEMMA SweepKeeps == ASSUME IInv, Sweep PROVE IInv'
<1>1. /\ compPc = "idle" /\ compPc' = "recover"
      /\ UNCHANGED <<dir, flusherVars, parts, hidden, sources, output, history,
                     crashes, faults>>
  BY DEF Sweep
<1>2. QED
  BY SMTT(30), <1>1 DEF IInv, TypeOK, FilesInv, ChunkInv, MemoryInv, MergeInv, LeftoverInv, Covered,
              ApartInv, GrowthInv, Merged, Grown, RowsSurvive, Visible, RowsOf, WithForm

\* The listing tells a merge to be rolled back from one to be finished.
LEMMA ListLeftoversKeeps == ASSUME IInv, ListLeftovers PROVE IInv'
<1>1. /\ compPc = "recover"
      /\ parts' = Names(WithForm("part")) /\ hidden' = Names(WithForm("superseded"))
      /\ compPc' = IF parts' # {} THEN "rollback"
                   ELSE IF hidden' # {} THEN "finish" ELSE "select"
      /\ confused' = IF /\ parts' # {}
                        /\ \E file \in WithForm("superseded") : file.rows \cap Visible # {}
                     THEN "yes" ELSE confused
      /\ UNCHANGED <<dir, flusherVars, sources, output, cutShort, crashes, faults>>
  BY DEF ListLeftovers
<1>2. /\ \A name : name \in parts' <=> \E file \in dir : file.name = name /\ file.form = "part"
      /\ \A name : name \in hidden' <=>
             \E file \in dir : file.name = name /\ file.form = "superseded"
  BY <1>1 DEF Names, WithForm
<1>3. TypeOK'
  BY <1>1, <1>2 DEF IInv, TypeOK, File
<1>4. FilesInv' /\ ChunkInv' /\ MergeInv' /\ RowsSurvive'
  BY <1>1 DEF IInv, FilesInv, ChunkInv, MergeInv, RowsSurvive, Merged, Visible, RowsOf, WithForm
<1>5. MemoryInv'
  <2>1. IsFiniteSet(WithForm("part")) /\ IsFiniteSet(WithForm("superseded"))
    BY FS_Subset DEF IInv, FilesInv, WithForm
  <2>2. IsFiniteSet(parts') /\ IsFiniteSet(hidden') /\ IsFiniteSet(sources')
    BY <1>1, <2>1, NamesFinite DEF IInv, MemoryInv
  <2>3. QED
    BY <1>1, <1>2, <2>2 DEF MemoryInv
<1>6. LeftoverInv'
  BY <1>1, <1>2 DEF IInv, LeftoverInv, Covered
<1>7. ApartInv'
  <2> SUFFICES ASSUME confused' = "no", NEW f \in dir, NEW g \in dir,
                      f # g, Merged(f), Merged(g),
                      f.form = g.form \/ compPc' \in {"rollback", "hide"}
               PROVE  f.rows \cap g.rows = {}
    BY <1>1 DEF ApartInv, Merged
  <2>1. confused = "no"
    BY <1>1
  <2>2. CASE f.form = g.form
    BY <2>1, <2>2 DEF IInv, ApartInv
  <2>3. CASE f.form # g.form
    <3>1. parts' # {}
      BY <1>1, <2>3
    <3>2. \A file \in WithForm("superseded") : file.rows \cap Visible = {}
      BY <1>1, <3>1
    <3>3. \/ f.form = "superseded" /\ g.form = "parquet"
          \/ g.form = "superseded" /\ f.form = "parquet"
      BY <2>3 DEF IInv, TypeOK, File, Form, Merged
    <3>4. QED
      BY <3>2, <3>3 DEF Visible, RowsOf, WithForm
  <2>4. QED
    BY <2>2, <2>3
<1>8. GrowthInv'
  BY <1>1 DEF IInv, GrowthInv, Merged, Grown
<1>9. QED
  BY <1>3, <1>4, <1>5, <1>6, <1>7, <1>8 DEF IInv

\* A part is discarded: no merge is under way that could need it.
LEMMA DiscardPartKeeps == ASSUME IInv, NEW name, DiscardPart(name) PROVE IInv'
<1>1. /\ compPc = "rollback" /\ name \in parts /\ Exists(name, "part")
      /\ dir' = Removed(name, "part") /\ parts' = parts \ {name}
      /\ UNCHANGED <<flusherVars, compPc, hidden, sources, output, history, crashes, faults>>
  BY DEF DiscardPart
<1>2. PICK f \in dir : f.name = name /\ f.form = "part"
  BY <1>1 DEF Exists, WithForm
<1>3. dir' = dir \ {f}
  BY <1>1, <1>2, RemoveStep DEF IInv
<1>4. TypeOK'
  BY <1>1, <1>3 DEF IInv, TypeOK
<1>5. FilesInv'
  BY <1>1, <1>3, FilesRemoved DEF IInv
<1>6. ChunkInv' /\ MergeInv' /\ LeftoverInv' /\ ApartInv' /\ GrowthInv'
  BY <1>1, <1>3 DEF IInv, ChunkInv, MergeInv, LeftoverInv, ApartInv, GrowthInv, Merged, Grown
<1>7. MemoryInv'
  <2>1. IsFiniteSet(parts')
    BY <1>1, FS_RemoveElement DEF IInv, MemoryInv
  <2>2. QED
    BY <1>1, <1>2, <1>3, <2>1 DEF IInv, MemoryInv
<1>8. RowsSurvive'
  BY <1>1, <1>2, <1>3 DEF IInv, RowsSurvive, Visible, RowsOf, WithForm
<1>9. QED
  BY <1>4, <1>5, <1>6, <1>7, <1>8 DEF IInv

\* A hidden source is visible again: its rows are in no other visible file.
LEMMA RestoreSourceKeeps == ASSUME IInv, NEW name, RestoreSource(name) PROVE IInv'
<1>1. /\ compPc = "rollback" /\ parts = {} /\ name \in hidden
      /\ dir' = Renamed(name, "superseded", "parquet") /\ hidden' = hidden \ {name}
      /\ UNCHANGED <<flusherVars, compPc, parts, sources, output, history, crashes, faults>>
  BY DEF RestoreSource
<1>2. PICK f \in dir : f.name = name /\ f.form = "superseded"
  BY <1>1 DEF IInv, MemoryInv
<1>3. PICK g \in File :
        /\ g.name = name /\ g.form = "parquet" /\ g.rows = f.rows /\ g.writes = f.writes
        /\ dir' = (dir \ {f}) \cup {g}
  BY <1>1, <1>2, RenameStep DEF IInv, Form
<1>4. TypeOK'
  BY <1>1, <1>3 DEF IInv, TypeOK
<1>5. FilesInv'
  BY <1>1, <1>2, <1>3, FilesRenamed DEF IInv, FilesInv, Merged
<1>6. ChunkInv'
  BY <1>1, <1>2, <1>3 DEF IInv, ChunkInv
<1>7. MergeInv' /\ LeftoverInv'
  BY <1>1 DEF MergeInv, LeftoverInv
<1>8. MemoryInv'
  <2>1. IsFiniteSet(hidden')
    BY <1>1, FS_RemoveElement DEF IInv, MemoryInv
  <2>2. QED
    BY <1>1, <1>2, <1>3, <2>1 DEF IInv, MemoryInv, FilesInv
<1>9. ApartInv'
  BY <1>1, <1>2, <1>3 DEF IInv, ApartInv, Merged
<1>10. GrowthInv'
  BY <1>1, <1>2, <1>3 DEF IInv, GrowthInv, Merged, Grown
<1>11. RowsSurvive'
  BY <1>1, <1>2, <1>3 DEF IInv, RowsSurvive, Visible, RowsOf, WithForm
<1>12. QED
  BY <1>4, <1>5, <1>6, <1>7, <1>8, <1>9, <1>10, <1>11 DEF IInv

\* A superseded file whose rows can be read elsewhere is deleted.
LEMMA DeleteHidden ==
    ASSUME IInv, NEW name \in hidden, compPc \in {"finish", "clean"},
           dir' = Removed(name, "superseded"), hidden' = hidden \ {name},
           UNCHANGED <<flusherVars, compPc, parts, sources, output, history, crashes, faults>>
    PROVE  IInv'
<1>1. PICK f \in dir : f.name = name /\ f.form = "superseded"
  BY DEF IInv, MemoryInv
<1>2. dir' = dir \ {f}
  BY <1>1, RemoveStep DEF IInv
<1>3. TypeOK'
  BY <1>2 DEF IInv, TypeOK
<1>4. FilesInv'
  BY <1>2, FilesRemoved DEF IInv
<1>5. ChunkInv' /\ MergeInv' /\ ApartInv' /\ GrowthInv'
  BY <1>2 DEF IInv, ChunkInv, MergeInv, ApartInv, GrowthInv, Merged, Grown
<1>6. MemoryInv'
  <2>1. IsFiniteSet(hidden')
    BY FS_RemoveElement DEF IInv, MemoryInv
  <2>2. QED
    BY <1>1, <1>2, <2>1 DEF IInv, MemoryInv, FilesInv
<1>7. LeftoverInv'
  BY <1>1, <1>2 DEF IInv, LeftoverInv, Covered
<1>8. cutShort = "no" => Covered
  BY DEF IInv, LeftoverInv
<1>9. RowsSurvive'
  <2>1. cutShort = "no" =>
          \A file \in dir : Merged(file) =>
             \A r \in file.rows : \E other \in dir' : other.form # "part" /\ r \in other.rows
    BY <1>1, <1>2, <1>8 DEF Covered, Merged
  <2>2. \A file \in dir \cup dir' : file \in File
    BY <1>2 DEF IInv, TypeOK
  <2>3. QED
    BY <2>1, <2>2, StillThere DEF IInv
<1>10. QED
  BY <1>3, <1>4, <1>5, <1>6, <1>7, <1>9 DEF IInv

\* What the recovery takes for the sources of a published merge is deleted.
LEMMA FinishCleanupKeeps == ASSUME IInv, NEW name, FinishCleanup(name) PROVE IInv'
BY DeleteHidden DEF FinishCleanup

\* The partition is recovered: no file in it is superseded.
LEMMA RecoverDoneKeeps == ASSUME IInv, RecoverDone PROVE IInv'
<1>1. /\ compPc \in {"rollback", "finish"} /\ parts = {} /\ hidden = {} /\ compPc' = "select"
      /\ UNCHANGED <<dir, flusherVars, parts, hidden, sources, output, history,
                     crashes, faults>>
  BY DEF RecoverDone
<1>2. MemoryInv'
  BY <1>1 DEF IInv, MemoryInv
<1>3. QED
  BY <1>1, <1>2 DEF IInv, TypeOK, FilesInv, ChunkInv, MergeInv, LeftoverInv,
              ApartInv, GrowthInv, Merged, Grown, RowsSurvive, Visible, RowsOf, WithForm

-----------------------------------------------------------------------------
(***************************************************************************)
(* compact_partition, write_merged and publish_merged                      *)
(***************************************************************************)
\* Files of different names are as many as their names.
LEMMA NamesAreAsMany ==
    ASSUME FilesInv, NEW files \in SUBSET dir
    PROVE  Cardinality(Names(files)) = Cardinality(files)
<1> DEFINE name == [file \in files |-> file.name]
<1>1. name \in Bijection(files, Names(files))
  BY DEF Bijection, Injection, Surjection, IsInjective, Names, FilesInv
<1>2. IsFiniteSet(files)
  BY FS_Subset DEF FilesInv
<1>3. QED
  <2> HIDE DEF name
  <2> QED
    BY <1>1, <1>2, FS_Bijection DEF ExistsBijection

\* A merge takes the files below the target, or there are too few of them.
LEMMA SelectSourcesKeeps == ASSUME IInv, SelectSources PROVE IInv'
<1>1. /\ compPc = "select" /\ UNCHANGED <<dir, flusherVars, history, crashes, faults>>
      /\ \/ Idle
         \/ /\ ~(Cardinality(Mergeable) <= MaxFiles)
            /\ sources' = Names(Mergeable) /\ compPc' = "merge"
            /\ UNCHANGED <<parts, hidden, output>>
  BY DEF SelectSources
<1>2. CASE Idle
  <2>1. TypeOK' /\ FilesInv' /\ ChunkInv' /\ RowsSurvive'
    BY <1>1, <1>2 DEF IInv, TypeOK, FilesInv, ChunkInv, RowsSurvive, Idle, Merged,
                Visible, RowsOf, WithForm
  <2>2. NoteCutShort
    BY <1>1 DEF NoteCutShort
  <2>3. QED
    BY <1>1, <1>2, <2>1, <2>2, GoIdle
<1>3. CASE ~(Cardinality(Mergeable) <= MaxFiles) /\ sources' = Names(Mergeable)
           /\ compPc' = "merge" /\ UNCHANGED <<parts, hidden, output>>
  <2>1. Mergeable \in SUBSET dir
    BY DEF Mergeable, WithForm
  <2>2. IsFiniteSet(Mergeable)
    BY <2>1, FS_Subset DEF IInv, FilesInv
  <2>3. IsFiniteSet(sources') /\ Cardinality(sources') = Cardinality(Mergeable)
    BY <1>3, <2>1, <2>2, NamesFinite, NamesAreAsMany DEF IInv
  <2>4. Cardinality(sources') > MaxFiles
    <3>1. Cardinality(Mergeable) \in Nat
      BY <2>2, FS_CardinalityType
    <3>2. QED
      BY <1>3, <2>3, <3>1, CompactorAssumption
  <2>5. \A name \in sources' : \E file \in Mergeable : file.name = name
    BY <1>3 DEF Names
  <2>6. sources' \subseteq Nat
    BY <2>1, <2>5 DEF IInv, TypeOK, File
  <2>7. TypeOK'
    BY <1>1, <1>3, <2>6 DEF IInv, TypeOK
  <2>8. MemoryInv'
    BY <1>1, <1>3, <2>3, <2>4, <2>5 DEF IInv, MemoryInv, Mergeable, WithForm
  <2>9. QED
    BY <1>1, <1>3, <2>7, <2>8 DEF IInv, FilesInv, ChunkInv, MergeInv, LeftoverInv,
              ApartInv, GrowthInv, Merged, Grown, RowsSurvive, Visible, RowsOf, WithForm
<1>4. QED
  BY <1>1, <1>2, <1>3

\* The sources of a merge are published and below the target.
LEMMA SourcesOfMerge ==
    ASSUME IInv, compPc = "merge",
           NEW merged, merged = {file \in WithForm("parquet") : file.name \in sources}
    PROVE  /\ merged \subseteq Mergeable /\ merged \subseteq dir /\ merged \subseteq File
           /\ IsFiniteSet(merged) /\ Names(merged) = sources
           /\ Cardinality(merged) \in Nat /\ Cardinality(merged) > MaxFiles /\ merged # {}
<1>1. merged \subseteq Mergeable /\ merged \in SUBSET dir /\ Names(merged) = sources
  BY DEF IInv, MemoryInv, FilesInv, Mergeable, WithForm, Names
<1>2. IsFiniteSet(merged)
  BY <1>1, FS_Subset DEF IInv, FilesInv
<1>3. Cardinality(merged) = Cardinality(sources) /\ Cardinality(merged) \in Nat
  BY <1>1, <1>2, NamesAreAsMany, FS_CardinalityType DEF IInv
<1>4. Cardinality(merged) > MaxFiles
  BY <1>3 DEF IInv, MemoryInv
<1>5. merged # {}
  BY <1>4, FS_EmptySet, CompactorAssumption
<1>6. QED
  BY <1>1, <1>2, <1>3, <1>4, <1>5 DEF IInv, TypeOK

\* What fits below the target fits the quotient of the target.
LEMMA QuotientBound ==
    ASSUME NEW w \in Nat, NEW m \in Nat \ {0}, NEW t \in Int, w * m <= t
    PROVE  w <= t \div m
<1> DEFINE q == t \div m
<1>1. q \in Int /\ t < (q + 1) * m
  OBVIOUS
<1> HIDE DEF q
<1>2. w * m < (q + 1) * m
  BY <1>1
<1>3. ~(q + 1 <= w)
  <2> SUFFICES ASSUME q + 1 <= w PROVE FALSE
    OBVIOUS
  <2>1. (w - (q + 1)) * m >= 0
    BY <1>1
  <2>2. (w - (q + 1)) * m = w * m - (q + 1) * m
    BY <1>1
  <2>3. QED
    BY <1>1, <1>2, <2>1, <2>2
<1>4. w <= q
  BY <1>1, <1>3
<1>5. QED
  BY <1>4 DEF q

\* The output of a merge has rows enough for one more rewriting.
LEMMA OutputIsGrown ==
    ASSUME IInv, compPc = "merge", confused = "no",
           NEW merged, merged = {file \in WithForm("parquet") : file.name \in sources}
    PROVE  /\ MostWrites(merged) * MaxFiles + 1 <= Cardinality(RowsOf(merged))
           /\ MostWrites(merged) + 1 <= (TargetSize - 2) \div MaxFiles + 2
<1> DEFINE most == MostWrites(merged)
<1>1. /\ merged \subseteq Mergeable /\ merged \subseteq dir /\ merged \subseteq File
      /\ IsFiniteSet(merged) /\ Cardinality(merged) \in Nat
      /\ Cardinality(merged) > MaxFiles /\ merged # {}
  BY SourcesOfMerge
<1>2. most \in Nat \ {0} /\ \E file \in merged : file.writes = most
  BY <1>1, MostWritesIsMost
<1>3. PICK file \in merged : file.writes = most
  BY <1>2
<1> HIDE DEF most
<1>4. \A f \in merged : f.rows # {} /\ f \in dir /\ f.form = "parquet" /\ Merged(f)
  BY <1>1 DEF IInv, FilesInv, Mergeable, WithForm, Merged
<1>5. \A f, g \in merged : f # g => f.rows \cap g.rows = {}
  BY <1>4 DEF IInv, ApartInv
<1>6. /\ Cardinality(file.rows) \in Nat /\ Cardinality(RowsOf(merged)) \in Nat
      /\ Cardinality(file.rows) + Cardinality(merged) - 1 <= Cardinality(RowsOf(merged))
  BY <1>1, <1>4, <1>5, RowsAddUp
<1>7. (most - 1) * MaxFiles + 1 <= Cardinality(file.rows)
  BY <1>3, <1>4 DEF IInv, GrowthInv, Grown
<1>8. Cardinality(file.rows) < TargetSize
  BY <1>1, <1>3 DEF Mergeable
<1>9. (most - 1) * MaxFiles = most * MaxFiles - MaxFiles
  BY <1>2, CompactorAssumption
<1>10. most * MaxFiles \in Nat
  BY <1>2, CompactorAssumption
<1>11. most * MaxFiles + 1 <= Cardinality(RowsOf(merged))
  BY <1>1, <1>6, <1>7, <1>9, <1>10, CompactorAssumption
<1>12. most - 1 <= (TargetSize - 2) \div MaxFiles
  <2>1. (most - 1) * MaxFiles <= TargetSize - 2
    BY <1>6, <1>7, <1>8, <1>9, <1>10, CompactorAssumption
  <2>2. most - 1 \in Nat
    BY <1>2
  <2>3. QED
    BY <2>1, <2>2, QuotientBound, CompactorAssumption
<1>13. most + 1 <= (TargetSize - 2) \div MaxFiles + 2
  <2>1. (TargetSize - 2) \div MaxFiles \in Int
    BY CompactorAssumption
  <2>2. QED
    BY <1>2, <1>12, <2>1
<1>14. QED
  BY <1>11, <1>13 DEF most

\* The merged rows are written to a part of their own.
LEMMA WriteMergedKeeps == ASSUME IInv, WriteMerged PROVE IInv'
<1> DEFINE merged == {file \in WithForm("parquet") : file.name \in sources}
           g == [name |-> FreshName, form |-> "part", rows |-> RowsOf(merged),
                 writes |-> MostWrites(merged) + 1]
<1>1. /\ compPc = "merge" /\ compPc' = "hide" /\ dir' = dir \cup {g} /\ output' = FreshName
      /\ UNCHANGED <<flusherVars, parts, hidden, sources, history, crashes, faults>>
  BY DEF WriteMerged
<1>2. /\ FreshName \in Nat \ {0} /\ FreshName # chunk /\ FreshName \notin sources
      /\ \A file \in dir : file.name # FreshName
  BY FreshNameIsNew DEF IInv
<1>3. /\ merged \subseteq Mergeable /\ merged \subseteq dir /\ merged \subseteq File
      /\ IsFiniteSet(merged) /\ merged # {}
  BY <1>1, SourcesOfMerge
<1>4. MostWrites(merged) \in Nat \ {0}
  BY <1>3, MostWritesIsMost
<1>5. RowsOf(merged) \in SUBSET Row
  BY <1>3 DEF RowsOf, File
<1>6. /\ g \in File /\ g.name = FreshName /\ g.form = "part" /\ g.rows = RowsOf(merged)
      /\ g.writes = MostWrites(merged) + 1
  BY <1>2, <1>4, <1>5 DEF File, Form
<1>7. \A r : r \in g.rows <=>
              \E file \in dir : r \in file.rows /\ file.form = "parquet" /\ file.name \in sources
  BY <1>6 DEF RowsOf, WithForm
<1>8. g.rows # {}
  BY <1>3, <1>6 DEF RowsOf, IInv, FilesInv, Mergeable, WithForm, Merged
<1>9. confused = "no" =>
         Grown(g) /\ g.writes <= (TargetSize - 2) \div MaxFiles + 2
  <2> SUFFICES ASSUME confused = "no"
               PROVE  Grown(g) /\ g.writes <= (TargetSize - 2) \div MaxFiles + 2
    OBVIOUS
  <2>1. /\ MostWrites(merged) * MaxFiles + 1 <= Cardinality(RowsOf(merged))
        /\ MostWrites(merged) + 1 <= (TargetSize - 2) \div MaxFiles + 2
    BY <1>1, OutputIsGrown
  <2>2. g.writes - 1 = MostWrites(merged)
    BY <1>4, <1>6
  <2>3. QED
    BY <1>6, <2>1, <2>2 DEF Grown
<1> HIDE DEF g, merged
<1>10. TypeOK'
  BY <1>1, <1>2, <1>6 DEF IInv, TypeOK
<1>11. FilesInv'
  BY <1>1, <1>2, <1>6, FilesAdded DEF IInv
<1>12. ChunkInv'
  BY <1>1, <1>2, <1>6 DEF IInv, ChunkInv
<1>13. \A file \in dir : file.form # "superseded"
  BY <1>1 DEF IInv, MemoryInv
<1>14. MemoryInv'
  BY <1>1, <1>6, <1>13 DEF IInv, MemoryInv, Mergeable, WithForm
<1>15. MergeInv'
  BY <1>1, <1>2, <1>6, <1>7, <1>8, <1>13 DEF MergeInv
<1>16. LeftoverInv'
  BY <1>1 DEF LeftoverInv
<1>17. ApartInv'
  <2>1. \A f \in dir' : Merged(f) => f \in dir /\ f.form = "parquet"
    BY <1>1, <1>6, <1>13 DEF IInv, TypeOK, File, Form, Merged
  <2>2. QED
    BY <1>1, <2>1 DEF IInv, ApartInv, Merged
<1>18. GrowthInv'
  BY <1>1, <1>2, <1>6, <1>9 DEF IInv, GrowthInv, Merged, Grown
<1>19. RowsSurvive'
  BY <1>1 DEF IInv, RowsSurvive, Visible, RowsOf, WithForm
<1>20. QED
  BY <1>10, <1>11, <1>12, <1>14, <1>15, <1>16, <1>17, <1>18, <1>19 DEF IInv

\* A source is hidden: the output has its rows.
LEMMA HideSourceKeeps == ASSUME IInv, NEW name, HideSource(name) PROVE IInv'
<1>1. /\ compPc = "hide" /\ name \in sources
      /\ dir' = Renamed(name, "parquet", "superseded")
      /\ sources' = sources \ {name} /\ hidden' = hidden \cup {name}
      /\ UNCHANGED <<flusherVars, compPc, parts, output, history, crashes, faults>>
  BY DEF HideSource
<1>2. PICK f \in dir : f.name = name /\ f.form = "parquet"
  BY <1>1 DEF IInv, MemoryInv, Mergeable, WithForm
<1>3. PICK g \in File :
        /\ g.name = name /\ g.form = "superseded" /\ g.rows = f.rows /\ g.writes = f.writes
        /\ dir' = (dir \ {f}) \cup {g}
  BY <1>1, <1>2, RenameStep DEF IInv, Form
<1>4. TypeOK'
  BY <1>1, <1>3 DEF IInv, TypeOK, File
<1>5. FilesInv'
  BY <1>1, <1>2, <1>3, FilesRenamed DEF IInv, FilesInv, Merged
<1>6. ChunkInv'
  BY <1>1, <1>2, <1>3 DEF IInv, ChunkInv
<1>7. LeftoverInv'
  BY <1>1 DEF LeftoverInv
<1>8. MemoryInv'
  <2>1. IsFiniteSet(hidden') /\ IsFiniteSet(sources')
    BY <1>1, FS_AddElement, FS_RemoveElement DEF IInv, MemoryInv
  <2>2. \A other \in sources' : \E file \in Mergeable' : file.name = other
    BY <1>1, <1>2, <1>3 DEF IInv, MemoryInv, Mergeable, WithForm
  <2>3. QED
    BY <1>1, <1>2, <1>3, <2>1, <2>2 DEF IInv, MemoryInv
<1>9. MergeInv'
  <2>1. PICK merged \in dir :
          /\ merged.name = output /\ merged.form = "part" /\ merged.rows # {}
          /\ \A r \in Row :
                r \in merged.rows <=>
                    \E file \in dir :
                       r \in file.rows /\ (\/ file.form = "superseded"
                                           \/ file.form = "parquet" /\ file.name \in sources)
    BY <1>1 DEF IInv, MergeInv
  <2>2. merged \in dir'
    BY <1>2, <1>3, <2>1
  <2>3. \A r : (\E file \in dir :
                  r \in file.rows /\ (\/ file.form = "superseded"
                                      \/ file.form = "parquet" /\ file.name \in sources))
            <=> (\E file \in dir' :
                  r \in file.rows /\ (\/ file.form = "superseded"
                                      \/ file.form = "parquet" /\ file.name \in sources'))
    BY <1>1, <1>2, <1>3 DEF IInv, FilesInv
  <2>4. QED
    BY <1>1, <2>1, <2>2, <2>3 DEF IInv, MergeInv
<1>10. ApartInv'
  BY <1>1, <1>2, <1>3 DEF IInv, ApartInv, Merged
<1>11. GrowthInv'
  BY <1>1, <1>2, <1>3 DEF IInv, GrowthInv, Merged, Grown
<1>12. RowsSurvive'
  BY <1>1, <1>2, <1>3 DEF IInv, RowsSurvive, Visible, RowsOf, WithForm
<1>13. QED
  BY <1>4, <1>5, <1>6, <1>7, <1>8, <1>9, <1>10, <1>11, <1>12 DEF IInv

\* The output is published when its sources are hidden: it covers them, and it
\* has no row that is still visible.
LEMMA PublishMergedKeeps == ASSUME IInv, PublishMerged PROVE IInv'
<1>1. /\ compPc = "hide" /\ sources = {} /\ compPc' = "clean"
      /\ dir' = Renamed(output, "part", "parquet")
      /\ UNCHANGED <<flusherVars, parts, hidden, sources, output, history, crashes, faults>>
  BY DEF PublishMerged
<1>2. PICK f \in dir :
        /\ f.name = output /\ f.form = "part" /\ f.rows # {}
        /\ \A r \in Row :
              r \in f.rows <=> \E file \in dir : r \in file.rows /\ file.form = "superseded"
  BY <1>1 DEF IInv, MergeInv
<1>3. PICK g \in File :
        /\ g.name = output /\ g.form = "parquet" /\ g.rows = f.rows /\ g.writes = f.writes
        /\ dir' = (dir \ {f}) \cup {g}
  BY <1>1, <1>2, RenameStep DEF IInv, Form
<1>4. \A file \in dir : file.rows \subseteq Row
  BY DEF IInv, TypeOK, File
<1>5. TypeOK'
  BY <1>1, <1>3 DEF IInv, TypeOK
<1>6. FilesInv'
  <2>1. g.rows \subseteq published
    BY <1>2, <1>3, <1>4 DEF IInv, FilesInv, Merged
  <2>2. QED
    BY <1>1, <1>2, <1>3, <2>1, FilesRenamed DEF IInv
<1>7. ChunkInv'
  BY <1>1, <1>2, <1>3 DEF IInv, ChunkInv, MergeInv
<1>8. MemoryInv'
  BY <1>1, <1>2, <1>3 DEF IInv, MemoryInv
<1>9. MergeInv'
  BY <1>1 DEF MergeInv
<1>10. LeftoverInv'
  BY <1>1, <1>2, <1>3, <1>4 DEF LeftoverInv, Covered
<1>11. ApartInv'
  BY <1>1, <1>2, <1>3, <1>4 DEF IInv, ApartInv, Merged
<1>12. GrowthInv'
  BY <1>1, <1>2, <1>3 DEF IInv, GrowthInv, Merged, Grown
<1>13. RowsSurvive'
  BY <1>1, <1>2, <1>3 DEF IInv, RowsSurvive, Visible, RowsOf, WithForm
<1>14. QED
  BY <1>5, <1>6, <1>7, <1>8, <1>9, <1>10, <1>11, <1>12, <1>13 DEF IInv

\* A hidden source is deleted, or left to the next sweep.
LEMMA CleanSourceKeeps == ASSUME IInv, NEW name, CleanSource(name) PROVE IInv'
<1>1. /\ compPc = "clean" /\ name \in hidden /\ hidden' = hidden \ {name}
      /\ UNCHANGED <<flusherVars, compPc, parts, sources, output, history, crashes>>
      /\ \/ dir' = Removed(name, "superseded") /\ UNCHANGED faults
         \/ Fault /\ UNCHANGED dir
  BY DEF CleanSource
<1>2. CASE dir' = Removed(name, "superseded") /\ UNCHANGED faults
  BY <1>1, <1>2, DeleteHidden
<1>3. CASE Fault /\ UNCHANGED dir
  <2>1. TypeOK'
    BY <1>1, <1>3, CompactorAssumption DEF IInv, TypeOK, Fault
  <2>2. MemoryInv'
    <3>1. IsFiniteSet(hidden')
      BY <1>1, FS_RemoveElement DEF IInv, MemoryInv
    <3>2. QED
      BY <1>1, <1>3, <3>1 DEF IInv, MemoryInv
  <2>3. QED
    BY <1>1, <1>3, <2>1, <2>2 DEF IInv, FilesInv, ChunkInv, MergeInv, LeftoverInv, Covered,
              ApartInv, GrowthInv, Merged, Grown, RowsSurvive, Visible, RowsOf, WithForm
<1>4. QED
  BY <1>1, <1>2, <1>3

\* A cleanup that is done leaves no superseded file (delete_superseded).
LEMMA CleanDoneKeeps == ASSUME IInv, CleanDone PROVE IInv'
<1>1. /\ compPc = "clean" /\ Idle
      /\ UNCHANGED <<dir, flusherVars, history, crashes, faults>>
  BY DEF CleanDone
<1>2. TypeOK' /\ FilesInv' /\ ChunkInv' /\ RowsSurvive'
  BY <1>1 DEF IInv, TypeOK, FilesInv, ChunkInv, RowsSurvive, Idle, Merged,
              Visible, RowsOf, WithForm
<1>3. NoteCutShort
  BY <1>1 DEF NoteCutShort
<1>4. QED
  BY <1>1, <1>2, <1>3, GoIdle

-----------------------------------------------------------------------------
(***************************************************************************)
(* The theorems                                                            *)
(***************************************************************************)
LEMMA CompactorInit == ASSUME Init PROVE IInv
<1>1. /\ dir = {} /\ flusher = "idle" /\ chunk = 0 /\ nextRow = 1 /\ published = {}
      /\ compPc = "idle" /\ parts = {} /\ hidden = {} /\ sources = {} /\ output = 0
      /\ cutShort = "no" /\ confused = "no" /\ crashes = 0 /\ faults = 0
  BY DEF Init
<1>2. TypeOK
  BY <1>1, CompactorAssumption DEF TypeOK
<1>3. FilesInv /\ MemoryInv
  BY <1>1, FS_EmptySet DEF FilesInv, MemoryInv
<1>4. QED
  BY <1>1, <1>2, <1>3 DEF IInv, ChunkInv, MergeInv, LeftoverInv, Covered, ApartInv,
              GrowthInv, RowsSurvive

\* Every step of the compactor's thread keeps the invariant.
LEMMA CompactorStepKeeps == ASSUME IInv, [Next]_vars PROVE IInv'
<1>1. CASE FlusherStep
  BY <1>1, StartChunkKeeps, PublishChunkKeeps, ChunkFailsKeeps DEF FlusherStep
<1>2. CASE CompactorStep
  BY <1>2, SweepKeeps, ListLeftoversKeeps, RecoverDoneKeeps, SelectSourcesKeeps,
     WriteMergedKeeps, PublishMergedKeeps, CleanDoneKeeps, CompactionFailsKeeps,
     DiscardPartKeeps, RestoreSourceKeeps, FinishCleanupKeeps, CleanSourceKeeps,
     HideSourceKeeps
  DEF CompactorStep
<1>3. CASE Crash
  BY <1>3, CrashKeeps
<1>4. CASE UNCHANGED vars
  BY <1>4 DEF IInv, TypeOK, FilesInv, ChunkInv, MemoryInv, MergeInv, LeftoverInv, Covered,
              Mergeable, ApartInv, GrowthInv, Merged, Grown, RowsSurvive, Visible, RowsOf,
              WithForm
<1>5. QED
  BY <1>1, <1>2, <1>3, <1>4 DEF Next

\* What the invariant says of a merge is what CompactorInv asks for.
LEMMA MergeIsCovered == ASSUME IInv PROVE CompactorInv
<1>1. compPc = "hide" =>
          \E merged \in WithForm("part") :
             /\ merged.name = output
             /\ RowsOf(Superseded(hidden)) \subseteq merged.rows
             /\ \A name \in sources :
                   \E file \in WithForm("parquet") :
                      file.name = name /\ file.rows \subseteq merged.rows
  <2> SUFFICES ASSUME compPc = "hide"
               PROVE  \E merged \in WithForm("part") :
                         /\ merged.name = output
                         /\ RowsOf(Superseded(hidden)) \subseteq merged.rows
                         /\ \A name \in sources :
                               \E file \in WithForm("parquet") :
                                  file.name = name /\ file.rows \subseteq merged.rows
    OBVIOUS
  <2>1. PICK merged \in dir :
          /\ merged.name = output /\ merged.form = "part"
          /\ \A r \in Row :
                r \in merged.rows <=>
                    \E file \in dir :
                       r \in file.rows /\ (\/ file.form = "superseded"
                                           \/ file.form = "parquet" /\ file.name \in sources)
    BY DEF IInv, MergeInv
  <2>2. \A file \in dir : file.rows \subseteq Row
    BY DEF IInv, TypeOK, File
  <2>3. RowsOf(Superseded(hidden)) \subseteq merged.rows
    BY <2>1, <2>2 DEF RowsOf, Superseded, WithForm
  <2>4. \A name \in sources :
            \E file \in WithForm("parquet") : file.name = name /\ file.rows \subseteq merged.rows
    BY <2>1, <2>2 DEF IInv, MemoryInv, Mergeable, WithForm
  <2>5. QED
    BY <2>1, <2>3, <2>4 DEF WithForm
<1>2. Covered => RowsOf(Superseded(hidden)) \subseteq Visible
  BY DEF Covered, RowsOf, Superseded, Visible, WithForm
<1>3. QED
  BY <1>1, <1>2 DEF IInv, CompactorInv, FilesInv, LeftoverInv

\* The invariant holds in every reachable state.
THEOREM CompactorInvariance == Spec => []IInv
<1>1. Init => IInv
  BY CompactorInit
<1>2. IInv /\ [Next]_vars => IInv'
  BY CompactorStepKeeps
<1>3. QED
  BY <1>1, <1>2, PTL DEF Spec

\* Types, one file to a name, and at every point of a merge or of its recovery
\* the rows of the hidden files are in the output or visible.
THEOREM MergeStaysCovered == Spec => []CompactorInv
<1>1. IInv => CompactorInv
  BY MergeIsCovered
<1>2. QED
  BY <1>1, CompactorInvariance, PTL

\* However often merges, recoveries and the process are interrupted, no
\* published row is lost, unless a rollback was itself cut short.
THEOREM PublishedRowsSurvive == Spec => []RowsSurvive
<1>1. IInv => RowsSurvive
  BY DEF IInv
<1>2. QED
  BY <1>1, CompactorInvariance, PTL

\* No query sees a row twice, unless a rollback met a published merge.
THEOREM NoRowSeenTwice == Spec => []NoVisibleDuplicates
<1>1. IInv => NoVisibleDuplicates
  BY DEF IInv, ApartInv, NoVisibleDuplicates, WithForm, Merged
<1>2. QED
  BY <1>1, CompactorInvariance, PTL

\* No row is written more often than the target and the limit on files allow.
THEOREM RewritesStayBounded == Spec => []RewritesBounded
<1>1. IInv => RewritesBounded
  BY DEF IInv, GrowthInv, RewritesBounded
<1>2. QED
  BY <1>1, CompactorInvariance, PTL
=============================================================================
