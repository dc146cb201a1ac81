----------------------------- MODULE QueryProofs -----------------------------
(***************************************************************************)
(* Proofs about QueryEngine, for every value of its constants.             *)
(*                                                                         *)
(* Two arguments run side by side.  A runtime has one owner, a request, the*)
(* slot or a thread that retires it, and there are no more of them in use  *)
(* than requests have been served: RuntimeInv.  A row moves one way, from  *)
(* the live buffer through a flush into a file, and no name of a file a    *)
(* query has listed is given to another: PlaceInv and NamesInv.  From the  *)
(* second follow what a request reads twice (ReadInv), what it cannot miss *)
(* (SteadyInv), and what may leave the tiers (LossInv).                    *)
(*                                                                         *)
(* The last two sections are about the operators of SearchPlan: aggregates *)
(* of two tiers, and pages cut from the newest entries of both.            *)
(***************************************************************************)
EXTENDS QueryEngine, RowSetsTheorems, FiniteSetTheorems, TLAPS

USE DEF vars, tiers, runtimes

-----------------------------------------------------------------------------
File == [name : Nat \ {0}, day : Nat, form : {"parquet", "hidden"}, rows : SUBSET Nat]

Entry == [row : Nat, source : Nat, stamp : Nat]

Request == [kind : {"none", "sql", "search"},
            pc : {"idle", "build", "list", "live", "open", "park", "wait", "answered", "over"},
            began : Nat, range : Nat, runtime : Runtime \cup {None},
            must : SUBSET Nat, listed : SUBSET File, snapped : BOOLEAN,
            parquet : SUBSET Entry, found : SUBSET Entry, steady : SUBSET Nat]

TypeInv ==
    /\ now \in StartTime..MaxTime /\ stamp \in Seq(Stamps) /\ faults \in 0..MaxFaults
    /\ {live, taken, doubled} \subseteq SUBSET Arrived /\ written \subseteq Nat
    /\ {files, merge} \subseteq SUBSET File /\ purging \subseteq Nat
    /\ query \in [Query -> Request]
    /\ slot \in Runtime \cup {None} /\ tasks \subseteq Runtime \X Query
    /\ {tearing, asyncDrop} \subseteq SUBSET Runtime

\* What a request has and has not, by its kind and by how far it is.
Staged(q) ==
    /\ query[q].kind = "none" <=> query[q].pc \in {"idle", "build", "over"}
    /\ query[q].kind = "none" =>
          /\ query[q].must = {} /\ query[q].listed = {} /\ query[q].steady = {}
          /\ query[q].parquet = {} /\ query[q].found = {}
    /\ query[q].runtime # None <=>
          query[q].kind = "sql" /\ query[q].pc \in {"list", "live", "open", "park", "wait"}
    /\ query[q].kind = "search" =>
          /\ query[q].pc \notin {"park", "wait"} /\ (query[q].snapped <=> query[q].pc = "answered")
          /\ query[q].pc = "live" => query[q].listed = {}
    /\ query[q].kind = "sql" =>
          /\ query[q].pc = "live" => ~query[q].snapped
          /\ query[q].pc \in {"open", "park", "wait", "answered"} => query[q].snapped
    /\ query[q].pc = "list" => query[q].parquet = {}
    /\ query[q].pc \in {"park", "wait", "answered"} => query[q].listed = {}
    /\ ~query[q].snapped => query[q].found = {}

StageInv ==
    /\ \E n \in 0..MaxQuery : Asked = 1..n
    /\ \A q \in Query : Staged(q)

\* Runtimes in somebody's hands.
InUse == ({query[q].runtime : q \in Query} \cup {slot} \cup tearing \cup asyncDrop) \ {None}

\* Requests that have what they need to go on, or had it.
Served == {q \in Query : query[q].pc \notin {"idle", "build"}}

RuntimeInv ==
    /\ RuntimesAreExclusive
    /\ \A q \in Query : query[q].pc \in {"park", "wait"} => <<query[q].runtime, q>> \notin tasks
    /\ Cardinality(InUse) <= Cardinality(Served)

\* A file is known by its name: to the directory, to the merge...
FilesNamed ==
    /\ IsFiniteSet(files) /\ IsFiniteSet(merge)
    /\ \A f, g \in files : f.name = g.name => f = g
    /\ \A f, g \in merge : f.name = g.name => f = g
    /\ \A f, g \in merge : f.day = g.day
    /\ \A f \in merge : f.form = "parquet"
    /\ \A f \in files, g \in merge : f.name = g.name => f.rows = g.rows /\ f.day = g.day
    /\ \A f \in files : f.form = "hidden" => f.name \in Names(merge)

\* ...and to every query that has listed it.
ListedNamed(q) ==
    /\ IsFiniteSet(query[q].listed)
    /\ \A f \in query[q].listed :
        /\ f.form = "parquet"
        /\ \A g \in query[q].listed : f.name = g.name => f = g
        /\ \A g \in files : f.name = g.name => f.rows = g.rows /\ f.day = g.day

NamesInv == FilesNamed /\ \A q \in Query : ListedNamed(q)

\* Rows have arrived wherever they are, and lie in the file of their day.
RowsPlaced ==
    /\ \A f \in files \cup merge :
          f.rows \subseteq Arrived /\ \A row \in f.rows : Day(row) = f.day
    /\ taken = {} => written = {}
    /\ taken # {} => Unwritten # {}
    /\ live \cap taken = {}

RowsKnown(q) ==
    /\ IsFiniteSet(query[q].parquet) /\ IsFiniteSet(query[q].found)
    /\ \A f \in query[q].listed : f.rows \subseteq Arrived
    /\ \A a \in query[q].parquet \cup query[q].found :
          a.row \in Arrived /\ a.stamp = stamp[a.row]
    /\ \A a \in query[q].parquet : a.source # 0
    /\ \A a \in query[q].found : a.source = 0
    /\ query[q].steady \subseteq Arrived

RowsInv == RowsPlaced /\ \A q \in Query : RowsKnown(q)

\* A query has listed or read a file with the row.
Knows(q, row) ==
    \/ \E f \in query[q].listed : row \in f.rows
    \/ \E a \in query[q].parquet : a.row = row

\* The row is in a file, or a query knows it to have been in one.
Filed(row) ==
    \/ \E f \in files \cup merge : row \in f.rows
    \/ \E q \in Query : Knows(q, row)

\* A row in a file is in no other and does not come back to the buffer, unless
\* a flush stored it and failed afterwards.
PlaceInv ==
    /\ \A f, g \in files \cup merge : f.name # g.name => f.rows \cap g.rows \subseteq doubled
    /\ \A row \in live : Filed(row) => row \in doubled
    /\ \A row \in taken : Filed(row) => Day(row) \in written \/ row \in doubled

\* What leaves the tiers, or will, is of an expired day.
LossInv ==
    /\ \A day \in purging : Expired(day)
    /\ \A row \in taken : Day(row) \in written => row \in RowsOf(files) \/ Expired(Day(row))
    /\ \A row \in Arrived : row \in live \cup taken \cup RowsOf(files) \/ Expired(Day(row))

\* What a query has read of the Parquet tier it reads no second time.
ReadOnce(q) ==
    /\ \A a, b \in query[q].parquet : a.row = b.row => a = b \/ a.row \in doubled
    /\ \A a \in query[q].parquet, f \in query[q].listed :
          f.name \in Names(files) /\ a.row \in f.rows => a.row \in doubled
    /\ query[q].kind = "search" =>
          \A a \in query[q].parquet, b \in query[q].found :
             a.row = b.row => a.row \in doubled

ReadInv == \A q \in Query : ReadOnce(q)

\* A wanted row that has not moved is read already, in a file that is listed or
\* must be, or in the buffer and the buffer not snapped.
Reaches(q, row) ==
    \/ \E a \in query[q].parquet \cup query[q].found : a.row = row
    \/ row \in live /\ ~query[q].snapped
    \/ \E f \in Parquet :
          /\ row \in f.rows
          /\ f \in query[q].listed \/ (query[q].pc = "list" /\ f.name \in query[q].must)

SteadyMet(q) ==
    \A row \in query[q].steady :
        Wanted(q, row) /\ Day(row) <= Date(query[q].began) => Reaches(q, row)

SteadyInv == \A q \in Query : SteadyMet(q)

IInv ==
    /\ TypeInv /\ StageInv /\ RuntimeInv /\ NamesInv /\ RowsInv
    /\ PlaceInv /\ LossInv /\ ReadInv /\ SteadyInv

-----------------------------------------------------------------------------
(***************************************************************************)
(* Dates                                                                   *)
(***************************************************************************)
\* A day begins at a multiple of its length and ends before the next.
LEMMA DateSpan ==
    ASSUME NEW t \in Int
    PROVE  /\ Date(t) \in Int /\ Date(t) * DayLength <= t /\ t < (Date(t) + 1) * DayLength
           /\ t \in Nat => Date(t) \in Nat
<1>1. DayLength \in Nat \ {0}
  BY SearchPlanAssumption
<1>2. \A d \in Nat \ {0} : /\ t \div d \in Int /\ (t \div d) * d <= t
                           /\ t < ((t \div d) + 1) * d
  OBVIOUS
<1>3. \A d \in Nat \ {0} : t \in Nat => t \div d \in Nat
  OBVIOUS
<1>4. QED
  BY <1>1, <1>2, <1>3 DEF Date

\* A product by the length of a day keeps the order.
LEMMA DaysInOrder ==
    ASSUME NEW a \in Int, NEW b \in Int, a <= b
    PROVE  a * DayLength <= b * DayLength
<1>1. DayLength \in Nat
  BY SearchPlanAssumption
<1>2. (b - a) * DayLength >= 0
  BY <1>1
<1>3. (b - a) * DayLength = b * DayLength - a * DayLength
  BY <1>1
<1>4. QED
  BY <1>1, <1>2, <1>3

\* A later time is not of an earlier day.
LEMMA DateMonotone ==
    ASSUME NEW s \in Int, NEW t \in Int, s <= t
    PROVE  Date(s) <= Date(t)
<1>1. /\ Date(s) \in Int /\ Date(t) \in Int
      /\ Date(s) * DayLength <= s /\ t < (Date(t) + 1) * DayLength
  BY DateSpan
<1>2. ~(Date(t) + 1 <= Date(s))
  <2> SUFFICES ASSUME Date(t) + 1 <= Date(s) PROVE FALSE
    OBVIOUS
  <2>1. (Date(t) + 1) * DayLength <= Date(s) * DayLength
    BY <1>1, DaysInOrder
  <2>2. (Date(t) + 1) * DayLength \in Int /\ Date(s) * DayLength \in Int
    BY <1>1, SearchPlanAssumption
  <2>3. QED
    BY <1>1, <2>1, <2>2
<1>3. QED
  BY <1>1, <1>2

\* A row of an expired day is older than the retention.
LEMMA ExpiredIsOld ==
    ASSUME NEW s \in Int, now \in Int, Expired(Date(s))
    PROVE  s + RetentionDays * DayLength < now
<1> DEFINE last == Date(now) - RetentionDays
<1>1. RetentionDays \in Nat /\ DayLength \in Nat
  BY QueryAssumption, SearchPlanAssumption
<1>2. /\ Date(s) \in Int /\ Date(now) \in Int
      /\ s < (Date(s) + 1) * DayLength /\ Date(now) * DayLength <= now
  BY DateSpan
<1>3. Date(s) + 1 <= last /\ last \in Int
  BY <1>1, <1>2 DEF Expired
<1>4. (Date(s) + 1) * DayLength <= last * DayLength
  BY <1>2, <1>3, DaysInOrder
<1>5. last * DayLength = Date(now) * DayLength - RetentionDays * DayLength
  BY <1>1, <1>2
<1>6. /\ (Date(s) + 1) * DayLength \in Int /\ Date(now) * DayLength \in Int
      /\ RetentionDays * DayLength \in Int
  BY <1>1, <1>2
<1>7. QED
  BY <1>2, <1>4, <1>5, <1>6

\* What has expired stays expired.
LEMMA ExpiredStays ==
    ASSUME now \in Int, now' \in Int, now <= now', NEW day \in Int, Expired(day)
    PROVE  Expired(day)'
<1>1. Date(now) <= Date(now') /\ Date(now) \in Int /\ Date(now') \in Int
  BY DateMonotone, DateSpan
<1>2. RetentionDays \in Nat
  BY QueryAssumption
<1>3. \A a, b, r, d \in Int : a <= b /\ d < a - r => d < b - r
  OBVIOUS
<1>4. Expired(day)' = (day < Date(now') - RetentionDays)
  BY DEF Expired
<1>5. QED
  BY <1>1, <1>2, <1>3, <1>4 DEF Expired

\* The days of a search's window keep every partition that may hold a row of
\* it, whichever column the predicate names.
LEMMA WindowIsAdmitted ==
    ASSUME NEW began \in Nat, NEW range \in Nat, NEW s \in Nat,
           InRange(s, began, range), Date(s) <= Date(began)
    PROVE  partition_predicate(partition_days(began, range), Date(s))
<1> DEFINE days == partition_days(began, range)
           first == Date(began - range - PARTITION_PAD_DAYS * DayLength)
<1>1. DayLength \in Nat \ {0} /\ ShortSpan \in Nat /\ LongSpan \in Nat
  BY SearchPlanAssumption
<1>2. began - range - PARTITION_PAD_DAYS * DayLength \in Int
  BY <1>1 DEF PARTITION_PAD_DAYS
<1>3. began - range - PARTITION_PAD_DAYS * DayLength <= s
  BY <1>1 DEF PARTITION_PAD_DAYS, InRange
<1>4. first <= Date(s) /\ first \in Int /\ Date(s) \in Int /\ Date(began) \in Int
  BY <1>2, <1>3, DateMonotone, DateSpan
<1>5. Date(s) \in days
  BY <1>4 DEF partition_days
<1>6. IsFiniteSet(days)
  BY <1>4, FS_Interval DEF partition_days
<1>7. Cardinality(days) \in Nat
  BY <1>6, FS_CardinalityType
<1> HIDE DEF days
<1>8. \/ Cardinality(days) <= ShortSpan
      \/ Cardinality(days) \in (ShortSpan + 1) .. LongSpan
      \/ Cardinality(days) > LongSpan
  BY <1>1, <1>7
<1>9. QED
  BY <1>5, <1>8 DEF partition_predicate, days

-----------------------------------------------------------------------------
(***************************************************************************)
(* Names and runtimes                                                      *)
(***************************************************************************)
\* The names of finitely many files are finitely many.
LEMMA NamesFinite ==
    ASSUME NEW fs, IsFiniteSet(fs)
    PROVE  IsFiniteSet(Names(fs))
<1> DEFINE name == [f \in fs |-> f.name]
<1>1. name \in Surjection(fs, Names(fs))
  BY DEF Surjection, Names
<1>2. QED
  BY <1>1, FS_Surjection

\* Requests and runtimes are as many as MaxQuery says.
LEMMA QueryFinite == IsFiniteSet(Query) /\ Cardinality(Runtime) = MaxQuery /\ MaxQuery \in Nat
<1>1. MaxQuery \in Nat
  BY QueryAssumption
<1>2. QED
  BY <1>1, FS_Interval DEF Query, Runtime

\* The name of a new file is the name of no other, present or listed.
LEMMA FreshNameIsNew ==
    ASSUME NamesInv
    PROVE  /\ FreshName \in Nat \ {0}
           /\ \A f \in files \cup merge : f.name # FreshName
           /\ \A q \in Query : \A f \in query[q].listed : f.name # FreshName
<1> DEFINE remembered == {Names(query[q].listed) : q \in Query}
           used == Names(files \cup merge) \cup UNION remembered
<1>1. IsFiniteSet(remembered)
  <2> DEFINE names == [q \in Query |-> Names(query[q].listed)]
  <2>1. names \in Surjection(Query, remembered)
    BY DEF Surjection
  <2>2. QED
    BY <2>1, QueryFinite, FS_Surjection
<1>2. IsFiniteSet(UNION remembered)
  <2>1. \A names \in remembered : IsFiniteSet(names)
    BY NamesFinite DEF NamesInv, ListedNamed
  <2>2. QED
    BY <1>1, <2>1, FS_UNION
<1>3. IsFiniteSet(used)
  BY <1>2, NamesFinite, FS_Union DEF NamesInv, FilesNamed
<1>4. Cardinality(used) \in Nat /\ \E n \in 1..(Cardinality(used) + 1) : n \notin used
  <2> HIDE DEF used
  <2> QED
    BY <1>3, FS_CardinalityType, FreshNumberExists
<1>5. FreshName = CHOOSE n \in 1..(Cardinality(used) + 1) : n \notin used
  BY DEF FreshName
<1>6. FreshName \in 1..(Cardinality(used) + 1) /\ FreshName \notin used
  <2> HIDE DEF used
  <2> QED
    BY <1>4, <1>5
<1>7. FreshName \in Nat \ {0}
  <2> HIDE DEF used
  <2> QED
    BY <1>4, <1>6
<1>8. QED
  BY <1>6, <1>7 DEF Names

\* The requests that have been asked are the first ones.
LEMMA NextRequest ==
    ASSUME StageInv, NEW q \in Query, MayBegin(q)
    PROVE  /\ Asked = 1..(q - 1) /\ Cardinality(Asked) = q - 1 /\ q \in 1..MaxQuery
           /\ query[q].pc = "idle"
<1>1. PICK n \in 0..MaxQuery : Asked = 1..n
  BY DEF StageInv
<1>2. n \in Nat /\ Cardinality(Asked) = n
  BY <1>1, QueryAssumption, FS_Interval
<1>3. q = n + 1
  BY <1>2 DEF MayBegin
<1>4. QED
  BY <1>1, <1>2, <1>3 DEF Query, Asked

\* Runtimes in use are finitely many.
LEMMA InUseType == ASSUME TypeInv PROVE InUse \subseteq Runtime /\ IsFiniteSet(InUse)
<1>1. InUse \in SUBSET Runtime
  BY DEF TypeInv, InUse, Request
<1>2. IsFiniteSet(Runtime)
  BY QueryFinite DEF Query, Runtime
<1>3. QED
  BY <1>1, <1>2, FS_Subset

\* The requests that are served are finitely many.
LEMMA ServedFinite == IsFiniteSet(Served) /\ Cardinality(Served) \in Nat
BY QueryFinite, FS_Subset, FS_CardinalityType DEF Served

\* A request that finds the slot empty finds a runtime to build.
LEMMA UnusedRuntimeExists ==
    ASSUME IInv, NEW q \in Query, query[q].pc = "build"
    PROVE  UnusedRuntime \in Runtime /\ UnusedRuntime \notin InUse
<1>1. InUse \subseteq Runtime /\ IsFiniteSet(InUse) /\ Cardinality(InUse) \in Nat
  BY InUseType, FS_CardinalityType DEF IInv
<1>2. Cardinality(InUse) < Cardinality(Runtime)
  <2>1. Served \in SUBSET Query /\ Served # Query
    BY DEF Served
  <2>2. Cardinality(Served) < Cardinality(Query)
    <3>1. Cardinality(Served) <= Cardinality(Query)
          /\ (Cardinality(Served) = Cardinality(Query) => Served = Query)
      BY <2>1, QueryFinite, FS_Subset
    <3>2. Cardinality(Served) \in Nat /\ Cardinality(Query) \in Nat
      BY ServedFinite, QueryFinite DEF Query, Runtime
    <3>3. QED
      BY <2>1, <3>1, <3>2
  <2>3. Cardinality(Query) = Cardinality(Runtime) /\ Cardinality(Query) \in Nat
    BY QueryFinite DEF Query, Runtime
  <2>4. QED
    BY <1>1, <2>2, <2>3, ServedFinite DEF IInv, RuntimeInv
<1>3. InUse # Runtime
  BY <1>1, <1>2, QueryFinite
<1>4. PICK rt \in Runtime : rt \notin InUse
  BY <1>1, <1>3
<1>5. \A r \in Runtime : r \notin InUse <=>
          r \notin {slot} \cup tearing \cup asyncDrop /\ \A p \in Query : query[p].runtime # r
  BY DEF InUse, Runtime, None
<1>6. UnusedRuntime = CHOOSE r \in Runtime : r \notin InUse
  BY <1>5 DEF UnusedRuntime
<1>7. QED
  BY <1>4, <1>6

-----------------------------------------------------------------------------
(***************************************************************************)
(* What a step of the tiers leaves of the requests                         *)
(***************************************************************************)
\* A request is at most relieved of rows and files.
Undisturbed ==
    /\ query' \in [Query -> Request]
    /\ \A q \in Query :
        /\ query'[q].kind = query[q].kind /\ query'[q].pc = query[q].pc
        /\ query'[q].began = query[q].began /\ query'[q].range = query[q].range
        /\ query'[q].runtime = query[q].runtime /\ query'[q].listed = query[q].listed
        /\ query'[q].snapped = query[q].snapped /\ query'[q].parquet = query[q].parquet
        /\ query'[q].found = query[q].found
        /\ query'[q].steady \subseteq query[q].steady /\ query'[q].must \subseteq query[q].must

\* Rows or files that leave their place change what requests need meet, and nothing else.
LEMMA DisturbStep ==
    ASSUME TypeInv, NEW rows, NEW names, Disturb(rows, names)
    PROVE  /\ Undisturbed
           /\ \A q \in Query : /\ query'[q].steady = query[q].steady \ rows
                               /\ query'[q].must = query[q].must \ names
<1>1. \A q \in Query :
        query'[q] = [query[q] EXCEPT !.steady = @ \ rows, !.must = @ \ names]
  BY DEF Disturb
<1>2. \A q \in Query : query[q] \in Request
  BY DEF TypeInv
<1>3. \A q \in Query :
        /\ query'[q] \in Request
        /\ query'[q].kind = query[q].kind /\ query'[q].pc = query[q].pc
        /\ query'[q].began = query[q].began /\ query'[q].range = query[q].range
        /\ query'[q].runtime = query[q].runtime /\ query'[q].listed = query[q].listed
        /\ query'[q].snapped = query[q].snapped /\ query'[q].parquet = query[q].parquet
        /\ query'[q].found = query[q].found
        /\ query'[q].steady = query[q].steady \ rows
        /\ query'[q].must = query[q].must \ names
  <2> TAKE q \in Query
  <2> DEFINE r == query[q]
  <2>1. r \in Request
    BY <1>2
  <2>2. query'[q] = [r EXCEPT !.steady = r.steady \ rows, !.must = r.must \ names]
    BY <1>1
  <2> HIDE DEF r
  <2>3. r.steady \ rows \in SUBSET Nat /\ r.must \ names \in SUBSET Nat
    BY <2>1 DEF Request
  <2>4. QED
    BY <2>1, <2>2, <2>3 DEF Request, r
<1>4. query' = [q \in Query |-> query'[q]]
  BY DEF Disturb
<1>5. query' \in [Query -> Request]
  BY <1>3, <1>4
<1>6. QED
  BY <1>3, <1>5 DEF Undisturbed

\* An action that leaves the requests alone disturbs none.
LEMMA SameRequests == ASSUME TypeInv, UNCHANGED query PROVE Undisturbed
BY DEF TypeInv, Undisturbed

\* Stages and runtimes do not depend on the tiers.
LEMMA TierStage ==
    ASSUME IInv, Undisturbed, UNCHANGED runtimes
    PROVE  StageInv' /\ RuntimeInv'
<1>1. Asked' = Asked /\ Served' = Served
  BY DEF Undisturbed, Asked, Served
<1>2. \A q \in Query : Staged(q)'
  <2> TAKE q \in Query
  <2>1. Staged(q)
    BY DEF IInv, StageInv
  <2>2. QED
    BY <2>1 DEF Staged, Undisturbed
<1>3. StageInv'
  BY <1>1, <1>2 DEF IInv, StageInv
<1>4. {query'[q].runtime : q \in Query} = {query[q].runtime : q \in Query}
  BY DEF Undisturbed
<1>5. InUse' = InUse
  BY <1>4 DEF InUse
<1>6. RuntimesAreExclusive'
  BY <1>4 DEF IInv, RuntimeInv, RuntimesAreExclusive, Undisturbed, TypeInv
<1>7. RuntimeInv'
  BY <1>1, <1>5, <1>6 DEF IInv, RuntimeInv, Undisturbed
<1>8. QED
  BY <1>3, <1>7

\* Reading twice takes a listed file that comes back.
LEMMA TierRead ==
    ASSUME IInv, Undisturbed, doubled \subseteq doubled',
           \A q \in Query : \A f \in query[q].listed :
               f.name \in Names(files') => f.name \in Names(files)
    PROVE  ReadInv'
<1> SUFFICES ASSUME NEW q \in Query PROVE ReadOnce(q)'
  BY DEF ReadInv
<1>1. ReadOnce(q)
  BY DEF IInv, ReadInv
<1>2. QED
  BY <1>1 DEF ReadOnce, Undisturbed

\* A steady row is missed only if it leaves its place and stays steady.
LEMMA TierSteady ==
    ASSUME IInv, Undisturbed, \A row \in Arrived : stamp'[row] = stamp[row],
           \A q \in Query : \A row \in query'[q].steady :
              /\ row \in live => row \in live'
              /\ \A f \in Parquet : row \in f.rows =>
                    /\ f \in Parquet'
                    /\ f.name \in query[q].must => f.name \in query'[q].must
    PROVE  SteadyInv'
<1> SUFFICES ASSUME NEW q \in Query, NEW row \in query'[q].steady,
                    Wanted(q, row)', Day(row)' <= Date(query'[q].began)
             PROVE  Reaches(q, row)'
  BY DEF SteadyInv, SteadyMet
<1>1. row \in query[q].steady /\ row \in Arrived
  BY DEF Undisturbed, IInv, RowsInv, RowsKnown
<1>2. stamp'[row] = stamp[row]
  BY <1>1
<1>3. Wanted(q, row) /\ Day(row) <= Date(query[q].began)
  BY <1>2 DEF Undisturbed, Wanted, Day
<1>4. Reaches(q, row)
  BY <1>1, <1>3 DEF IInv, SteadyInv, SteadyMet
<1>5. QED
  BY <1>4 DEF Reaches, Undisturbed

-----------------------------------------------------------------------------
(***************************************************************************)
(* Rows arrive and are flushed                                             *)
(***************************************************************************)
\* A row that has arrived has a stamp and a day.
LEMMA StampType ==
    ASSUME TypeInv, NEW row \in Arrived
    PROVE  row \in Nat /\ stamp[row] \in Stamps /\ stamp[row] \in Nat /\ Day(row) \in Nat
<1>1. row \in 1..Len(stamp) /\ stamp \in Seq(Stamps)
  BY DEF TypeInv, Arrived
<1>2. stamp[row] \in Stamps /\ row \in Nat
  BY <1>1
<1>3. stamp[row] \in Nat
  BY <1>2, QueryAssumption
<1>4. QED
  BY <1>2, <1>3, DateSpan DEF Day

\* Time passes, and days expire.
LEMMA TickKeeps == ASSUME IInv, Tick PROVE IInv'
<1>1. now < MaxTime /\ now' = now + 1 /\ UNCHANGED <<tiers, query, runtimes, faults>>
  BY DEF Tick
<1>2. now \in Int /\ now' \in Int /\ now <= now' /\ now' \in StartTime..MaxTime
  BY <1>1, QueryAssumption DEF IInv, TypeInv
<1>3. TypeInv'
  BY <1>1, <1>2 DEF IInv, TypeInv, Arrived
<1>4. Undisturbed
  BY <1>1, SameRequests DEF IInv
<1>5. StageInv' /\ RuntimeInv'
  BY <1>1, <1>4, TierStage
<1>6. NamesInv'
  BY <1>1 DEF IInv, NamesInv, FilesNamed, ListedNamed
<1>7. RowsInv'
  BY <1>1 DEF IInv, RowsInv, RowsPlaced, RowsKnown, Arrived, Unwritten, Day
<1>8. PlaceInv'
  BY <1>1 DEF IInv, PlaceInv, Filed, Knows, Day
<1>9. LossInv'
  <2>1. \A day \in purging : Expired(day)'
    BY <1>1, <1>2, ExpiredStays DEF IInv, LossInv, TypeInv
  <2>2. \A row \in Arrived : Expired(Day(row)) => Expired(Day(row))'
    BY <1>1, <1>2, StampType, ExpiredStays DEF IInv, Day, Expired
  <2>3. \A row \in taken : row \in Arrived
    BY DEF IInv, TypeInv
  <2>4. \A row : Day(row)' = Day(row)
    BY <1>1 DEF Day
  <2>5. Arrived' = Arrived /\ RowsOf(files)' = RowsOf(files)
    BY <1>1 DEF Arrived, RowsOf
  <2>6. QED
    BY <1>1, <2>1, <2>2, <2>3, <2>4, <2>5 DEF IInv, LossInv
<1>10. ReadInv'
  BY <1>1, <1>4, TierRead
<1>11. SteadyInv'
  BY <1>1, <1>4, TierSteady DEF Parquet
<1>12. QED
  BY <1>3, <1>5, <1>6, <1>7, <1>8, <1>9, <1>10, <1>11 DEF IInv

\* A row that arrives is new to every file and every query.
LEMMA ArriveKeeps == ASSUME IInv, Arrive PROVE IInv'
<1> DEFINE new == Len(stamp) + 1
<1>1. PICK s \in Stamps : stamp' = Append(stamp, s)
  BY DEF Arrive
<1>2. /\ live' = live \cup {new}
      /\ UNCHANGED <<now, taken, written, files, merge, purging, doubled, query, runtimes, faults>>
  BY DEF Arrive
<1>3. /\ stamp' \in Seq(Stamps) /\ Len(stamp') = new /\ Len(stamp) \in Nat
      /\ \A row \in Arrived : stamp'[row] = stamp[row]
      /\ Arrived' = Arrived \cup {new} /\ new \notin Arrived /\ new \in Nat
  BY <1>1 DEF IInv, TypeInv, Arrived
<1> HIDE DEF new
<1>4. TypeInv'
  BY <1>2, <1>3 DEF IInv, TypeInv
<1>5. Undisturbed
  BY <1>2, SameRequests DEF IInv
<1>6. StageInv' /\ RuntimeInv'
  BY <1>2, <1>5, TierStage
<1>7. NamesInv'
  BY <1>2 DEF IInv, NamesInv, FilesNamed, ListedNamed
<1>8. \A row \in Arrived : Day(row)' = Day(row)
  BY <1>3 DEF Day
<1>9. taken \subseteq Arrived /\ live \subseteq Arrived
  BY DEF IInv, TypeInv
<1>10. RowsInv'
  <2>1. Unwritten' = Unwritten
    BY <1>2, <1>8, <1>9 DEF Unwritten
  <2>2. RowsPlaced'
    BY <1>2, <1>3, <1>8, <1>9, <2>1 DEF IInv, RowsInv, RowsPlaced
  <2>3. \A q \in Query : RowsKnown(q)'
    BY <1>2, <1>3 DEF IInv, RowsInv, RowsKnown
  <2>4. QED
    BY <2>2, <2>3 DEF RowsInv
<1>11. PlaceInv'
  <2>1. ~Filed(new)
    BY <1>3 DEF IInv, RowsInv, RowsPlaced, RowsKnown, Filed, Knows
  <2>2. \A row : Filed(row)' <=> Filed(row)
    BY <1>2 DEF Filed, Knows
  <2>3. QED
    BY <1>2, <1>8, <1>9, <2>1, <2>2 DEF IInv, PlaceInv
<1>12. LossInv'
  <2>1. \A row \in Arrived : Expired(Day(row))' <=> Expired(Day(row))
    BY <1>2, <1>8 DEF Expired
  <2>2. QED
    BY <1>2, <1>3, <1>8, <1>9, <2>1 DEF IInv, LossInv, RowsOf, Expired
<1>13. ReadInv'
  BY <1>2, <1>5, TierRead
<1>14. SteadyInv'
  BY <1>2, <1>3, <1>5, TierSteady DEF Parquet
<1>15. QED
  BY <1>4, <1>6, <1>7, <1>10, <1>11, <1>12, <1>13, <1>14 DEF IInv

\* The rows of the buffer are on their way: they are steady no more.
LEMMA TakeLiveKeeps == ASSUME IInv, TakeLive PROVE IInv'
<1>1. /\ taken = {} /\ live # {} /\ taken' = live /\ live' = {} /\ Disturb(live, {})
      /\ UNCHANGED <<now, stamp, written, files, merge, purging, doubled, runtimes, faults>>
  BY DEF TakeLive
<1>2. /\ Undisturbed
      /\ \A q \in Query : /\ query'[q].steady = query[q].steady \ live
                          /\ query'[q].must = query[q].must
  <2>1. \A S : S \ {} = S
    OBVIOUS
  <2>2. /\ Undisturbed
        /\ \A q \in Query : /\ query'[q].steady = query[q].steady \ live
                            /\ query'[q].must = query[q].must \ {}
    BY <1>1, DisturbStep DEF IInv
  <2>3. \A q \in Query : query'[q].must = query[q].must
    BY <2>1, <2>2
  <2>4. QED
    BY <2>2, <2>3
<1>3. written = {}
  BY <1>1 DEF IInv, RowsInv, RowsPlaced
<1>4. TypeInv'
  BY <1>1, <1>2 DEF IInv, TypeInv, Undisturbed, Arrived
<1>5. StageInv' /\ RuntimeInv'
  BY <1>1, <1>2, TierStage
<1>6. NamesInv'
  BY <1>1, <1>2 DEF IInv, NamesInv, FilesNamed, ListedNamed, Undisturbed
<1>7. RowsInv'
  <2>1. RowsPlaced'
    BY <1>1, <1>3 DEF IInv, RowsInv, RowsPlaced, Arrived, Unwritten, Day
  <2>2. \A q \in Query : RowsKnown(q)'
    BY <1>1, <1>2 DEF IInv, RowsInv, RowsKnown, Arrived, Undisturbed
  <2>3. QED
    BY <2>1, <2>2 DEF RowsInv
<1>8. PlaceInv'
  <2>1. \A row : Filed(row)' <=> Filed(row)
    BY <1>1, <1>2 DEF Filed, Knows, Undisturbed
  <2>2. QED
    BY <1>1, <2>1 DEF IInv, PlaceInv
<1>9. LossInv'
  BY <1>1, <1>3 DEF IInv, LossInv, Arrived, RowsOf, Expired, Day
<1>10. ReadInv'
  BY <1>1, <1>2, TierRead
<1>11. SteadyInv'
  BY <1>1, <1>2, TierSteady DEF Parquet
<1>12. QED
  BY <1>4, <1>5, <1>6, <1>7, <1>8, <1>9, <1>10, <1>11 DEF IInv

\* A flush that is under way has a first day to write.
LEMMA NextDayIsUnwritten ==
    ASSUME IInv, taken # {}
    PROVE  NextDay \in Unwritten /\ NextDay \in Nat /\ NextDay \notin written
<1> DEFINE day == [row \in taken |-> Day(row)]
<1>1. taken \subseteq Arrived
  BY DEF IInv, TypeInv
<1>2. IsFiniteSet(taken)
  <2>1. Arrived = 1..Len(stamp) /\ Len(stamp) \in Nat
    BY DEF Arrived, IInv, TypeInv
  <2>2. IsFiniteSet(1..Len(stamp))
    BY <2>1, FS_Interval
  <2>3. taken \in SUBSET (1..Len(stamp))
    BY <1>1, <2>1
  <2>4. QED
    BY <2>2, <2>3, FS_Subset
<1>3. IsFiniteSet({Day(row) : row \in taken})
  <2>1. day \in Surjection(taken, {Day(row) : row \in taken})
    BY DEF Surjection
  <2>2. QED
    BY <1>2, <2>1, FS_Surjection
<1>4. Unwritten \in SUBSET Nat /\ IsFiniteSet(Unwritten) /\ Unwritten # {}
  <2>1. Unwritten \in SUBSET {Day(row) : row \in taken}
    BY DEF Unwritten
  <2>2. \A row \in taken : Day(row) \in Nat
    BY <1>1, StampType DEF IInv
  <2>3. QED
    BY <1>3, <2>1, <2>2, FS_Subset DEF IInv, RowsInv, RowsPlaced
<1>5. \E d \in Unwritten : \A e \in Unwritten : d <= e
  BY <1>4, SmallestExists
<1>6. NextDay \in Unwritten
  BY <1>5 DEF NextDay
<1>7. QED
  BY <1>4, <1>6 DEF Unwritten

\* A chunk is published: its rows are in no file that a flush that fails later
\* does not count among the stored ones.
LEMMA PublishChunkKeeps == ASSUME IInv, PublishChunk PROVE IInv'
<1> DEFINE day == NextDay
           g == [name |-> FreshName, day |-> day, form |-> "parquet",
                 rows |-> {row \in taken : Day(row) = day}]
<1>1. /\ taken # {} /\ files' = files \cup {g}
      /\ \/ Unwritten = {day} /\ taken' = {} /\ written' = {}
         \/ Unwritten # {day} /\ taken' = taken /\ written' = written \cup {day}
      /\ UNCHANGED <<now, stamp, live, merge, purging, doubled, query, runtimes, faults>>
  BY DEF PublishChunk
<1>2. day \in Unwritten /\ day \in Nat /\ day \notin written
  BY <1>1, NextDayIsUnwritten
<1>3. /\ FreshName \in Nat \ {0}
      /\ \A f \in files \cup merge : f.name # FreshName
      /\ \A q \in Query : \A f \in query[q].listed : f.name # FreshName
  BY FreshNameIsNew DEF IInv
<1>4. taken \subseteq Arrived /\ Arrived \subseteq Nat /\ written \subseteq Nat
  BY DEF IInv, TypeInv, Arrived
<1>5. /\ g \in File /\ g.name = FreshName /\ g.day = day /\ g.form = "parquet"
      /\ \A row : row \in g.rows <=> row \in taken /\ Day(row) = day
  BY <1>2, <1>3, <1>4 DEF File
<1> HIDE DEF g, day
<1>6. TypeInv'
  BY ZenonT(40), <1>1, <1>2, <1>4, <1>5 DEF IInv, TypeInv, Arrived
<1>7. Undisturbed
  BY <1>1, SameRequests DEF IInv
<1>8. StageInv' /\ RuntimeInv'
  BY <1>1, <1>7, TierStage
<1>9. NamesInv'
  <2>1. IsFiniteSet(files')
    BY <1>1, FS_AddElement DEF IInv, NamesInv, FilesNamed
  <2>2. FilesNamed'
    BY <1>1, <1>3, <1>5, <2>1 DEF IInv, NamesInv, FilesNamed
  <2>3. \A q \in Query : ListedNamed(q)'
    BY <1>1, <1>3, <1>5 DEF IInv, NamesInv, ListedNamed
  <2>4. QED
    BY <2>2, <2>3 DEF NamesInv
<1>10. RowsInv'
  <2>1. /\ taken' = {} => written' = {}
        /\ taken' # {} => Unwritten' # {}
    BY <1>1, <1>2 DEF Unwritten, Day
  <2>2. RowsPlaced'
    BY <1>1, <1>4, <1>5, <2>1 DEF IInv, RowsInv, RowsPlaced, Arrived, Day
  <2>3. \A q \in Query : RowsKnown(q)'
    BY <1>1 DEF IInv, RowsInv, RowsKnown, Arrived
  <2>4. QED
    BY <2>2, <2>3 DEF RowsInv
<1>11. PlaceInv'
  <2>1. \A row : Filed(row)' <=> Filed(row) \/ row \in g.rows
    BY <1>1 DEF Filed, Knows
  <2>2. \A f \in files \cup merge : f.rows \cap g.rows \subseteq doubled
    BY <1>2, <1>5 DEF IInv, PlaceInv, Filed, Knows
  <2>3. \A e, f \in files' \cup merge' : e.name # f.name => e.rows \cap f.rows \subseteq doubled'
    BY <1>1, <2>2 DEF IInv, PlaceInv
  <2>4. \A row \in live' : Filed(row)' => row \in doubled'
    BY <1>1, <1>5, <2>1 DEF IInv, PlaceInv, RowsInv, RowsPlaced
  <2>5. \A row \in taken' : Filed(row)' => Day(row)' \in written' \/ row \in doubled'
    BY <1>1, <1>5, <2>1 DEF IInv, PlaceInv, Day
  <2>6. QED
    BY <2>3, <2>4, <2>5 DEF PlaceInv
<1>12. LossInv'
  <2>1. \A row : row \in RowsOf(files') <=> row \in RowsOf(files) \/ row \in g.rows
    BY <1>1 DEF RowsOf
  <2>2. \A row : Day(row)' = Day(row)
    BY <1>1 DEF Day
  <2>3. \A d : Expired(d)' <=> Expired(d)
    BY <1>1 DEF Expired
  <2>4. \A row \in taken' :
           Day(row) \in written' => row \in RowsOf(files') \/ Expired(Day(row))
    BY <1>1, <1>5, <2>1 DEF IInv, LossInv
  <2>5. \A row \in taken :
           row \in taken' \/ row \in RowsOf(files') \/ Expired(Day(row))
    BY <1>1, <1>5, <2>1 DEF IInv, LossInv, Unwritten
  <2>6. \A row \in Arrived :
           row \in live \cup taken' \cup RowsOf(files') \/ Expired(Day(row))
    BY <2>1, <2>5 DEF IInv, LossInv
  <2>7. QED
    BY <1>1, <2>2, <2>3, <2>4, <2>6 DEF IInv, LossInv, Arrived
<1>13. ReadInv'
  BY <1>1, <1>3, <1>5, <1>7, TierRead DEF Names
<1>14. SteadyInv'
  BY <1>1, <1>7, TierSteady DEF Parquet
<1>15. QED
  BY <1>6, <1>8, <1>9, <1>10, <1>11, <1>12, <1>13, <1>14 DEF IInv

\* A flush fails: the rows it stored before are counted, and all rows return.
LEMMA FlushFailsKeeps == ASSUME IInv, FlushFails PROVE IInv'
<1>1. /\ taken # {} /\ live' = taken \cup live /\ taken' = {} /\ written' = {}
      /\ doubled' = doubled \cup {row \in taken : Day(row) \in written}
      /\ faults' \in 0..MaxFaults
      /\ UNCHANGED <<now, stamp, files, merge, purging, query, runtimes>>
  BY QueryAssumption DEF FlushFails, Fault, IInv, TypeInv
<1>2. TypeInv'
  BY <1>1 DEF IInv, TypeInv, Arrived
<1>3. Undisturbed
  BY <1>1, SameRequests DEF IInv
<1>4. StageInv' /\ RuntimeInv'
  BY <1>1, <1>3, TierStage
<1>5. NamesInv'
  BY <1>1 DEF IInv, NamesInv, FilesNamed, ListedNamed
<1>6. RowsInv'
  <2>1. RowsPlaced'
    BY <1>1 DEF IInv, RowsInv, RowsPlaced, Arrived, Day
  <2>2. \A q \in Query : RowsKnown(q)'
    BY <1>1 DEF IInv, RowsInv, RowsKnown, Arrived
  <2>3. QED
    BY <2>1, <2>2 DEF RowsInv
<1>7. PlaceInv'
  <2>1. \A row : Filed(row)' <=> Filed(row)
    BY <1>1 DEF Filed, Knows
  <2>2. QED
    BY <1>1, <2>1 DEF IInv, PlaceInv
<1>8. LossInv'
  BY <1>1 DEF IInv, LossInv, Arrived, RowsOf, Expired, Day
<1>9. ReadInv'
  BY <1>1, <1>3, TierRead
<1>10. SteadyInv'
  BY <1>1, <1>3, TierSteady DEF Parquet
<1>11. QED
  BY <1>2, <1>4, <1>5, <1>6, <1>7, <1>8, <1>9, <1>10 DEF IInv

-----------------------------------------------------------------------------
(***************************************************************************)
(* Files are merged                                                        *)
(***************************************************************************)
\* Sources of a merge are files, and without a merge none is hidden.
LEMMA StartMergeKeeps == ASSUME IInv, StartMerge PROVE IInv'
<1>1. PICK day \in {f.day : f \in Parquet} : merge' = {f \in Parquet : f.day = day}
  BY DEF StartMerge
<1>2. /\ merge = {}
      /\ UNCHANGED <<now, stamp, live, taken, written, files, purging, doubled, query,
                     runtimes, faults>>
  BY DEF StartMerge
<1>3. /\ merge' \in SUBSET files
      /\ \A f \in merge' : f.form = "parquet" /\ f.day = day
  BY <1>1 DEF Parquet
<1>4. TypeInv'
  BY <1>2, <1>3 DEF IInv, TypeInv, Arrived
<1>5. Undisturbed
  BY <1>2, SameRequests DEF IInv
<1>6. StageInv' /\ RuntimeInv'
  BY <1>2, <1>5, TierStage
<1>7. NamesInv'
  <2>1. IsFiniteSet(merge')
    BY <1>3, FS_Subset DEF IInv, NamesInv, FilesNamed
  <2>2. \A f \in files : f.form # "hidden"
    BY <1>2 DEF IInv, NamesInv, FilesNamed, Names
  <2>3. FilesNamed'
    BY <1>2, <1>3, <2>1, <2>2 DEF IInv, NamesInv, FilesNamed
  <2>4. \A q \in Query : ListedNamed(q)'
    BY <1>2 DEF IInv, NamesInv, ListedNamed
  <2>5. QED
    BY <2>3, <2>4 DEF NamesInv
<1>8. RowsInv'
  <2>1. RowsPlaced'
    BY <1>2, <1>3 DEF IInv, RowsInv, RowsPlaced, Arrived, Unwritten, Day
  <2>2. \A q \in Query : RowsKnown(q)'
    BY <1>2 DEF IInv, RowsInv, RowsKnown, Arrived
  <2>3. QED
    BY <2>1, <2>2 DEF RowsInv
<1>9. PlaceInv'
  <2>1. files' \cup merge' = files \cup merge
    BY <1>2, <1>3
  <2>2. \A row : Filed(row)' <=> Filed(row)
    BY <1>2, <2>1 DEF Filed, Knows
  <2>3. QED
    BY <1>2, <2>1, <2>2 DEF IInv, PlaceInv, Day
<1>10. LossInv'
  BY <1>2 DEF IInv, LossInv, Arrived, RowsOf, Expired, Day
<1>11. ReadInv'
  BY <1>2, <1>5, TierRead
<1>12. SteadyInv'
  BY <1>2, <1>5, TierSteady DEF Parquet
<1>13. QED
  BY <1>4, <1>6, <1>7, <1>8, <1>9, <1>10, <1>11, <1>12 DEF IInv

\* A hidden source keeps its name and its rows, and no row of it is steady.
LEMMA HideSourceKeeps == ASSUME IInv, HideSource PROVE IInv'
<1>1. PICK f \in merge \cap files :
        /\ files' = (files \ {f}) \cup {[f EXCEPT !.form = "hidden"]}
        /\ Disturb(f.rows, {f.name})
  BY DEF HideSource
<1>2. UNCHANGED <<now, stamp, live, taken, written, merge, purging, doubled, runtimes, faults>>
  BY DEF HideSource
<1> DEFINE g == [f EXCEPT !.form = "hidden"]
<1>3. /\ g \in File /\ g.name = f.name /\ g.rows = f.rows /\ g.day = f.day
      /\ g.form = "hidden" /\ f \in File
  BY DEF IInv, TypeInv, File
<1>4. files' = (files \ {f}) \cup {g}
  BY <1>1
<1> HIDE DEF g
<1>5. /\ Undisturbed
      /\ \A q \in Query : /\ query'[q].steady = query[q].steady \ f.rows
                          /\ query'[q].must = query[q].must \ {f.name}
  BY <1>1, DisturbStep DEF IInv
<1>6. TypeInv'
  BY <1>2, <1>3, <1>4, <1>5 DEF IInv, TypeInv, Undisturbed, Arrived
<1>7. StageInv' /\ RuntimeInv'
  BY <1>2, <1>5, TierStage
<1>8. NamesInv'
  <2>1. IsFiniteSet(files')
    <3>1. IsFiniteSet(files \ {f})
      BY FS_RemoveElement DEF IInv, NamesInv, FilesNamed
    <3>2. QED
      BY <1>4, <3>1, FS_AddElement
  <2>2. FilesNamed'
    BY <1>2, <1>3, <1>4, <2>1 DEF IInv, NamesInv, FilesNamed, Names
  <2>3. \A q \in Query : ListedNamed(q)'
    BY <1>3, <1>4, <1>5 DEF IInv, NamesInv, ListedNamed, Undisturbed
  <2>4. QED
    BY <2>2, <2>3 DEF NamesInv
<1>9. RowsInv'
  <2>1. RowsPlaced'
    BY <1>2, <1>3, <1>4 DEF IInv, RowsInv, RowsPlaced, Arrived, Unwritten, Day
  <2>2. \A q \in Query : RowsKnown(q)'
    BY <1>2, <1>5 DEF IInv, RowsInv, RowsKnown, Arrived, Undisturbed
  <2>3. QED
    BY <2>1, <2>2 DEF RowsInv
<1>10. PlaceInv'
  <2>1. \A row : Filed(row)' => Filed(row)
    BY <1>2, <1>3, <1>4, <1>5 DEF Filed, Knows, Undisturbed
  <2>2. \A d, e \in files' \cup merge' : d.name # e.name => d.rows \cap e.rows \subseteq doubled
    BY <1>2, <1>3, <1>4 DEF IInv, PlaceInv
  <2>3. QED
    BY <1>2, <2>1, <2>2 DEF IInv, PlaceInv, Day
<1>11. LossInv'
  <2>1. RowsOf(files') = RowsOf(files)
    BY <1>3, <1>4 DEF RowsOf
  <2>2. QED
    BY <1>2, <2>1 DEF IInv, LossInv, Arrived, Expired, Day
<1>12. ReadInv'
  <2>1. Names(files') = Names(files)
    BY <1>3, <1>4 DEF Names
  <2>2. QED
    BY <1>2, <1>5, <2>1, TierRead
<1>13. SteadyInv'
  <2>1. \A q \in Query : \A row \in query'[q].steady :
          \A e \in Parquet : row \in e.rows =>
             e # f /\ e.name # f.name /\ e \in Parquet'
    BY <1>4, <1>5 DEF Parquet, IInv, NamesInv, FilesNamed
  <2>2. QED
    BY <1>2, <1>5, <2>1, TierSteady
<1>14. QED
  BY <1>6, <1>7, <1>8, <1>9, <1>10, <1>11, <1>12, <1>13 DEF IInv

\* The output of a merge has the rows of its sources, which no other file has.
LEMMA PublishMergeKeeps == ASSUME IInv, PublishMerge PROVE IInv'
<1> DEFINE day == (CHOOSE f \in merge : TRUE).day
           g == [name |-> FreshName, day |-> day, form |-> "parquet", rows |-> RowsOf(merge)]
           kept == {f \in files : f.name \notin Names(merge) \/ f.form = "parquet"}
<1>1. /\ merge # {} /\ merge \cap files = {}
      /\ files' = kept \cup {g} /\ merge' = {}
      /\ UNCHANGED <<now, stamp, live, taken, written, purging, doubled, query, runtimes, faults>>
  BY DEF PublishMerge
<1>2. /\ \A f \in merge : f.day = day /\ f \in File
      /\ day \in Nat
  BY <1>1 DEF IInv, TypeInv, NamesInv, FilesNamed, File
<1>3. /\ FreshName \in Nat \ {0}
      /\ \A f \in files \cup merge : f.name # FreshName
      /\ \A q \in Query : \A f \in query[q].listed : f.name # FreshName
  BY FreshNameIsNew DEF IInv
<1>4. /\ g \in File /\ g.name = FreshName /\ g.day = day /\ g.form = "parquet"
      /\ g.rows = RowsOf(merge)
  BY <1>2, <1>3 DEF File, RowsOf
<1>5. /\ kept \in SUBSET files
      /\ \A f \in kept : f.name \notin Names(merge) /\ f.form = "parquet"
      /\ \A f \in files : f.form = "parquet" => f \in kept
      /\ \A f \in files : f \notin kept => f.rows \subseteq RowsOf(merge)
  <2>1. \A f \in files, e \in merge :
          f.name = e.name => f.form # "parquet" /\ f.rows = e.rows
    <3> SUFFICES ASSUME NEW f \in files, NEW e \in merge, f.name = e.name
                 PROVE  f.form # "parquet" /\ f.rows = e.rows
      OBVIOUS
    <3>1. f.rows = e.rows /\ f.day = e.day /\ e.form = "parquet"
      BY DEF IInv, NamesInv, FilesNamed
    <3>2. f \in File /\ e \in File /\ f # e
      BY <1>1 DEF IInv, TypeInv
    <3>3. QED
      BY <3>1, <3>2 DEF File
  <2>2. \A f \in files : f.form = "parquet" \/ (f.form = "hidden" /\ f.name \in Names(merge))
    BY DEF IInv, TypeInv, File, NamesInv, FilesNamed
  <2>3. \A f \in files : f.form = "parquet" => f.name \notin Names(merge)
    BY <2>1 DEF Names
  <2>4. \A f \in files : f.name \in Names(merge) => f.rows \subseteq RowsOf(merge)
    BY <2>1 DEF Names, RowsOf
  <2>5. QED
    BY <2>2, <2>3, <2>4
<1> HIDE DEF g, kept, day
<1>6. TypeInv'
  BY <1>1, <1>4, <1>5 DEF IInv, TypeInv, Arrived
<1>7. Undisturbed
  BY <1>1, SameRequests DEF IInv
<1>8. StageInv' /\ RuntimeInv'
  BY <1>1, <1>7, TierStage
<1>9. NamesInv'
  <2>1. IsFiniteSet(files') /\ IsFiniteSet(merge')
    <3>1. IsFiniteSet(kept)
      BY <1>5, FS_Subset DEF IInv, NamesInv, FilesNamed
    <3>2. QED
      BY <1>1, <3>1, FS_AddElement, FS_EmptySet
  <2>2. FilesNamed'
    BY <1>1, <1>3, <1>4, <1>5, <2>1 DEF IInv, NamesInv, FilesNamed
  <2>3. \A q \in Query : ListedNamed(q)'
    BY <1>1, <1>3, <1>4, <1>5 DEF IInv, NamesInv, ListedNamed
  <2>4. QED
    BY <2>2, <2>3 DEF NamesInv
<1>10. RowsInv'
  <2>1. g.rows \subseteq Arrived /\ \A row \in g.rows : Day(row) = g.day
    BY <1>2, <1>4 DEF RowsOf, IInv, RowsInv, RowsPlaced
  <2>2. RowsPlaced'
    BY <1>1, <1>5, <2>1 DEF IInv, RowsInv, RowsPlaced, Arrived, Unwritten, Day
  <2>3. \A q \in Query : RowsKnown(q)'
    BY <1>1 DEF IInv, RowsInv, RowsKnown, Arrived
  <2>4. QED
    BY <2>2, <2>3 DEF RowsInv
<1>11. PlaceInv'
  <2>1. \A row : Filed(row)' => Filed(row)
    BY <1>1, <1>4, <1>5 DEF Filed, Knows, RowsOf
  <2>2. \A f \in kept : f.rows \cap g.rows \subseteq doubled
    BY <1>4, <1>5 DEF IInv, PlaceInv, RowsOf, Names
  <2>3. \A d, e \in files' \cup merge' : d.name # e.name => d.rows \cap e.rows \subseteq doubled
    BY <1>1, <1>5, <2>2 DEF IInv, PlaceInv
  <2>4. QED
    BY <1>1, <2>1, <2>3 DEF IInv, PlaceInv, Day
<1>12. LossInv'
  <2>1. RowsOf(files) \subseteq RowsOf(files')
    BY <1>1, <1>4, <1>5 DEF RowsOf
  <2>2. QED
    BY <1>1, <2>1 DEF IInv, LossInv, Arrived, Expired, Day
<1>13. ReadInv'
  <2>1. \A q \in Query : \A f \in query[q].listed :
          f.name \in Names(files') => f.name \in Names(files)
    BY <1>1, <1>3, <1>4, <1>5 DEF Names
  <2>2. QED
    BY <1>1, <1>7, <2>1, TierRead
<1>14. SteadyInv'
  BY <1>1, <1>5, <1>7, TierSteady DEF Parquet
<1>15. QED
  BY <1>6, <1>8, <1>9, <1>10, <1>11, <1>12, <1>13, <1>14 DEF IInv

\* A merge fails: every file is back under its name.
LEMMA MergeFailsKeeps == ASSUME IInv, MergeFails PROVE IInv'
<1> DEFINE Restored(f) == [f EXCEPT !.form = "parquet"]
<1>1. /\ files' = {Restored(f) : f \in files} /\ merge' = {}
      /\ faults' \in 0..MaxFaults
      /\ UNCHANGED <<now, stamp, live, taken, written, purging, doubled, query, runtimes>>
  BY QueryAssumption DEF MergeFails, Fault, IInv, TypeInv
<1>2. \A f \in files :
        /\ Restored(f) \in File /\ Restored(f).name = f.name /\ Restored(f).rows = f.rows
        /\ Restored(f).day = f.day /\ Restored(f).form = "parquet"
        /\ f.form = "parquet" => Restored(f) = f
  BY DEF IInv, TypeInv, File
<1> HIDE DEF Restored
<1>3. /\ \A f \in files : Restored(f) \in files'
      /\ \A e \in files' : \E f \in files : e = Restored(f)
  BY <1>1
<1>4. TypeInv'
  BY <1>1, <1>2, <1>3 DEF IInv, TypeInv, Arrived
<1>5. Undisturbed
  BY <1>1, SameRequests DEF IInv
<1>6. StageInv' /\ RuntimeInv'
  BY <1>1, <1>5, TierStage
<1>7. NamesInv'
  <2>1. IsFiniteSet(files') /\ IsFiniteSet(merge')
    <3>1. [f \in files |-> Restored(f)] \in Surjection(files, files')
      BY <1>3 DEF Surjection
    <3>2. QED
      BY <1>1, <3>1, FS_Surjection, FS_EmptySet DEF IInv, NamesInv, FilesNamed
  <2>2. FilesNamed'
    BY <1>1, <1>2, <1>3, <2>1 DEF IInv, NamesInv, FilesNamed
  <2>3. \A q \in Query : ListedNamed(q)'
    BY <1>1, <1>2, <1>3 DEF IInv, NamesInv, ListedNamed
  <2>4. QED
    BY <2>2, <2>3 DEF NamesInv
<1>8. RowsInv'
  <2>1. RowsPlaced'
    BY <1>1, <1>2, <1>3 DEF IInv, RowsInv, RowsPlaced, Arrived, Unwritten, Day
  <2>2. \A q \in Query : RowsKnown(q)'
    BY <1>1 DEF IInv, RowsInv, RowsKnown, Arrived
  <2>3. QED
    BY <2>1, <2>2 DEF RowsInv
<1>9. PlaceInv'
  <2>1. \A row : Filed(row)' => Filed(row)
    BY <1>1, <1>2, <1>3 DEF Filed, Knows
  <2>2. \A d, e \in files' \cup merge' : d.name # e.name => d.rows \cap e.rows \subseteq doubled
    BY <1>1, <1>2, <1>3 DEF IInv, PlaceInv
  <2>3. QED
    BY <1>1, <2>1, <2>2 DEF IInv, PlaceInv, Day
<1>10. LossInv'
  <2>1. RowsOf(files') = RowsOf(files)
    BY <1>2, <1>3 DEF RowsOf
  <2>2. QED
    BY <1>1, <2>1 DEF IInv, LossInv, Arrived, Expired, Day
<1>11. ReadInv'
  <2>1. Names(files') \subseteq Names(files)
    BY <1>2, <1>3 DEF Names
  <2>2. QED
    BY <1>1, <1>5, <2>1, TierRead
<1>12. SteadyInv'
  <2>1. \A f \in Parquet : f \in Parquet'
    BY <1>2, <1>3 DEF Parquet
  <2>2. QED
    BY <1>1, <1>5, <2>1, TierSteady
<1>13. QED
  BY <1>4, <1>6, <1>7, <1>8, <1>9, <1>10, <1>11, <1>12 DEF IInv

-----------------------------------------------------------------------------
(***************************************************************************)
(* Days are purged                                                         *)
(***************************************************************************)
\* A sweep names expired days only.
LEMMA FindExpiredKeeps == ASSUME IInv, FindExpired PROVE IInv'
<1>1. /\ purging' = {f.day : f \in {g \in files : Expired(g.day)}}
      /\ UNCHANGED <<now, stamp, live, taken, written, files, merge, doubled, query, runtimes,
                     faults>>
  BY DEF FindExpired
<1>2. TypeInv'
  BY <1>1 DEF IInv, TypeInv, Arrived, File
<1>3. Undisturbed
  BY <1>1, SameRequests DEF IInv
<1>4. StageInv' /\ RuntimeInv'
  BY <1>1, <1>3, TierStage
<1>5. NamesInv'
  BY <1>1 DEF IInv, NamesInv, FilesNamed, ListedNamed
<1>6. RowsInv'
  BY <1>1 DEF IInv, RowsInv, RowsPlaced, RowsKnown, Arrived, Unwritten, Day
<1>7. PlaceInv'
  BY <1>1 DEF IInv, PlaceInv, Filed, Knows, Day
<1>8. LossInv'
  BY <1>1 DEF IInv, LossInv, Arrived, RowsOf, Expired, Day
<1>9. ReadInv'
  BY <1>1, <1>3, TierRead
<1>10. SteadyInv'
  BY <1>1, <1>3, TierSteady DEF Parquet
<1>11. QED
  BY <1>2, <1>4, <1>5, <1>6, <1>7, <1>8, <1>9, <1>10 DEF IInv

\* A file that goes has rows of an expired day only, and none of them is steady.
LEMMA PurgeFileKeeps == ASSUME IInv, PurgeFile PROVE IInv'
<1>1. PICK f \in files :
        f.day \in purging /\ files' = files \ {f} /\ Disturb(f.rows, {f.name})
  BY DEF PurgeFile
<1>2. UNCHANGED <<now, stamp, live, taken, written, merge, purging, doubled, runtimes, faults>>
  BY DEF PurgeFile
<1>3. /\ Undisturbed
      /\ \A q \in Query : /\ query'[q].steady = query[q].steady \ f.rows
                          /\ query'[q].must = query[q].must \ {f.name}
  BY <1>1, DisturbStep DEF IInv
<1>4. TypeInv'
  BY <1>1, <1>2, <1>3 DEF IInv, TypeInv, Undisturbed, Arrived
<1>5. StageInv' /\ RuntimeInv'
  BY <1>2, <1>3, TierStage
<1>6. NamesInv'
  <2>1. IsFiniteSet(files')
    BY <1>1, FS_RemoveElement DEF IInv, NamesInv, FilesNamed
  <2>2. FilesNamed'
    BY <1>1, <1>2, <2>1 DEF IInv, NamesInv, FilesNamed
  <2>3. \A q \in Query : ListedNamed(q)'
    BY <1>1, <1>3 DEF IInv, NamesInv, ListedNamed, Undisturbed
  <2>4. QED
    BY <2>2, <2>3 DEF NamesInv
<1>7. RowsInv'
  <2>1. RowsPlaced'
    BY <1>1, <1>2 DEF IInv, RowsInv, RowsPlaced, Arrived, Unwritten, Day
  <2>2. \A q \in Query : RowsKnown(q)'
    BY <1>2, <1>3 DEF IInv, RowsInv, RowsKnown, Arrived, Undisturbed
  <2>3. QED
    BY <2>1, <2>2 DEF RowsInv
<1>8. PlaceInv'
  <2>1. \A row : Filed(row)' => Filed(row)
    BY <1>1, <1>2, <1>3 DEF Filed, Knows, Undisturbed
  <2>2. QED
    BY <1>1, <1>2, <2>1 DEF IInv, PlaceInv, Day
<1>9. LossInv'
  <2>1. \A row \in f.rows : Expired(Day(row))
    BY <1>1 DEF IInv, LossInv, RowsInv, RowsPlaced
  <2>2. \A row \in RowsOf(files) : row \in RowsOf(files') \/ Expired(Day(row))
    BY <1>1, <2>1 DEF RowsOf
  <2>3. QED
    BY <1>2, <2>2 DEF IInv, LossInv, Arrived, Expired, Day
<1>10. ReadInv'
  <2>1. Names(files') \subseteq Names(files)
    BY <1>1 DEF Names
  <2>2. QED
    BY <1>2, <1>3, <2>1, TierRead
<1>11. SteadyInv'
  <2>1. \A q \in Query : \A row \in query'[q].steady :
          \A e \in Parquet : row \in e.rows =>
             e # f /\ e.name # f.name /\ e \in Parquet'
    BY <1>1, <1>3 DEF Parquet, IInv, NamesInv, FilesNamed
  <2>2. QED
    BY <1>2, <1>3, <2>1, TierSteady
<1>12. QED
  BY <1>4, <1>5, <1>6, <1>7, <1>8, <1>9, <1>10, <1>11 DEF IInv

\* The end of a sweep moves nothing.
LEMMA EndPurgeKeeps == ASSUME IInv, EndPurge PROVE IInv'
<1>1. /\ purging' = {} /\ faults' \in 0..MaxFaults
      /\ UNCHANGED <<now, stamp, live, taken, written, files, merge, doubled, query, runtimes>>
  BY SMTT(30), QueryAssumption DEF EndPurge, Fault, IInv, TypeInv
<1>2. TypeInv'
  BY <1>1 DEF IInv, TypeInv, Arrived
<1>3. Undisturbed
  BY <1>1, SameRequests DEF IInv
<1>4. StageInv' /\ RuntimeInv'
  BY <1>1, <1>3, TierStage
<1>5. NamesInv'
  BY <1>1 DEF IInv, NamesInv, FilesNamed, ListedNamed
<1>6. RowsInv'
  BY <1>1 DEF IInv, RowsInv, RowsPlaced, RowsKnown, Arrived, Unwritten, Day
<1>7. PlaceInv'
  BY <1>1 DEF IInv, PlaceInv, Filed, Knows, Day
<1>8. LossInv'
  BY <1>1 DEF IInv, LossInv, Arrived, RowsOf, Expired, Day
<1>9. ReadInv'
  BY <1>1, <1>3, TierRead
<1>10. SteadyInv'
  BY <1>1, <1>3, TierSteady DEF Parquet
<1>11. QED
  BY <1>2, <1>4, <1>5, <1>6, <1>7, <1>8, <1>9, <1>10 DEF IInv

-----------------------------------------------------------------------------
(***************************************************************************)
(* What a step of one request leaves of the rest                           *)
(***************************************************************************)
OnlyRequest(q) ==
    /\ query' \in [Query -> Request]
    /\ \A p \in Query : p # q => query'[p] = query[p]
    /\ UNCHANGED <<now, tiers>>

\* The tiers are as they were; a file or a row the request knows now was known.
LEMMA RequestFrame ==
    ASSUME IInv, NEW q \in Query, OnlyRequest(q),
           ListedNamed(q)', RowsKnown(q)', ReadOnce(q)', SteadyMet(q)',
           \A row : Knows(q, row)' => Filed(row)
    PROVE  NamesInv' /\ RowsInv' /\ PlaceInv' /\ LossInv' /\ ReadInv' /\ SteadyInv'
<1>1. UNCHANGED <<now, stamp, live, taken, written, files, merge, purging, doubled>>
  BY DEF OnlyRequest
<1>2. \A p \in Query : p # q => query'[p] = query[p]
  BY DEF OnlyRequest
<1>3. Arrived' = Arrived /\ \A row : Day(row)' = Day(row)
  BY <1>1 DEF Arrived, Day
<1>4. NamesInv'
  <2>1. FilesNamed'
    BY <1>1 DEF IInv, NamesInv, FilesNamed
  <2>2. \A p \in Query : p # q => ListedNamed(p)'
    BY <1>1, <1>2 DEF IInv, NamesInv, ListedNamed
  <2>3. QED
    BY <2>1, <2>2 DEF NamesInv
<1>5. RowsInv'
  <2>1. RowsPlaced'
    BY <1>1, <1>3 DEF IInv, RowsInv, RowsPlaced, Unwritten
  <2>2. \A p \in Query : p # q => RowsKnown(p)'
    BY <1>1, <1>2, <1>3 DEF IInv, RowsInv, RowsKnown
  <2>3. QED
    BY <2>1, <2>2 DEF RowsInv
<1>6. PlaceInv'
  <2>1. \A row : Filed(row)' => Filed(row)
    <3> SUFFICES ASSUME NEW row, Filed(row)' PROVE Filed(row)
      OBVIOUS
    <3>1. CASE \E f \in files' \cup merge' : row \in f.rows
      BY <1>1, <3>1 DEF Filed
    <3>2. CASE \E p \in Query : Knows(p, row)'
      BY <1>2, <3>2 DEF Filed, Knows
    <3>3. QED
      BY <3>1, <3>2 DEF Filed
  <2>2. QED
    BY <1>1, <1>3, <2>1 DEF IInv, PlaceInv
<1>7. LossInv'
  BY <1>1, <1>3 DEF IInv, LossInv, RowsOf, Expired
<1>8. ReadInv'
  <2>1. \A p \in Query : p # q => ReadOnce(p)'
    BY <1>1, <1>2 DEF IInv, ReadInv, ReadOnce
  <2>2. QED
    BY <2>1 DEF ReadInv
<1>9. SteadyInv'
  <2>1. \A p \in Query : p # q => SteadyMet(p)'
    BY <1>1, <1>2, <1>3 DEF IInv, SteadyInv, SteadyMet, Reaches, Wanted, Parquet
  <2>2. QED
    BY <2>1 DEF SteadyInv
<1>10. QED
  BY <1>4, <1>5, <1>6, <1>7, <1>8, <1>9

\* A request is served, at most, that was not.
LEMMA ServedRemain ==
    ASSUME IInv, NEW q \in Query, OnlyRequest(q),
           query[q].pc \in {"idle", "build"} \/ query'[q].pc \notin {"idle", "build"}
    PROVE  Cardinality(InUse) <= Cardinality(Served')
<1>1. Served \in SUBSET Served'
  BY DEF OnlyRequest, Served
<1>2. IsFiniteSet(Served') /\ Cardinality(Served') \in Nat
  BY QueryFinite, FS_Subset, FS_CardinalityType DEF Served
<1>3. Cardinality(Served) <= Cardinality(Served') /\ Cardinality(Served) \in Nat
  BY <1>1, <1>2, ServedFinite, FS_Subset
<1>4. Cardinality(InUse) \in Nat /\ Cardinality(InUse) <= Cardinality(Served)
  BY InUseType, FS_CardinalityType DEF IInv, RuntimeInv
<1>5. QED
  BY <1>2, <1>3, <1>4

\* A request is served.
LEMMA ServedGrow ==
    ASSUME IInv, NEW q \in Query, OnlyRequest(q),
           query[q].pc \in {"idle", "build"}, query'[q].pc \notin {"idle", "build"}
    PROVE  Cardinality(Served') = Cardinality(Served) + 1
<1>1. Served' = Served \cup {q} /\ q \notin Served
  BY DEF OnlyRequest, Served
<1>2. QED
  BY <1>1, ServedFinite, FS_AddElement

\* A request that was asked is asked still.
LEMMA StageFrame ==
    ASSUME IInv, NEW q \in Query, OnlyRequest(q), Staged(q)',
           query[q].pc # "idle", query'[q].pc # "idle"
    PROVE  StageInv'
<1>1. \A p \in Query : p # q => query'[p] = query[p]
  BY DEF OnlyRequest
<1>2. Asked' = Asked
  BY <1>1 DEF Asked
<1>3. \A p \in Query : p # q => Staged(p)'
  BY <1>1 DEF IInv, StageInv, Staged
<1>4. QED
  BY <1>2, <1>3 DEF IInv, StageInv

\* The next request is asked.
LEMMA StageBegin ==
    ASSUME IInv, NEW q \in Query, OnlyRequest(q), Staged(q)', MayBegin(q), query'[q].pc # "idle"
    PROVE  StageInv'
<1>1. \A p \in Query : p # q => query'[p] = query[p]
  BY DEF OnlyRequest
<1>2. /\ Asked = 1..(q - 1) /\ Cardinality(Asked) = q - 1 /\ q \in 1..MaxQuery
      /\ MaxQuery \in Nat
  BY NextRequest, QueryAssumption DEF IInv
<1>3. Asked' = Asked \cup {q}
  BY <1>1 DEF Asked
<1>4. \A n \in Nat \ {0} : 1..(n - 1) \cup {n} = 1..n
  OBVIOUS
<1>5. q \in Nat \ {0} /\ q \in 0..MaxQuery
  BY <1>2
<1>6. Asked' = 1..q
  BY <1>2, <1>3, <1>4, <1>5
<1>7. \A p \in Query : p # q => Staged(p)'
  BY <1>1 DEF IInv, StageInv, Staged
<1>8. \E n \in 0..MaxQuery : Asked' = 1..n
  BY <1>5, <1>6
<1>9. QED
  BY <1>7, <1>8 DEF StageInv

\* No runtime changes hands.
LEMMA RuntimeKept ==
    ASSUME IInv, NEW q \in Query, OnlyRequest(q),
           query'[q].runtime = query[q].runtime,
           UNCHANGED <<slot, tearing, asyncDrop>>, tasks' \subseteq tasks,
           query'[q].pc \in {"park", "wait"} => <<query'[q].runtime, q>> \notin tasks',
           query[q].pc \in {"idle", "build"} \/ query'[q].pc \notin {"idle", "build"}
    PROVE  RuntimeInv'
<1>1. \A p \in Query : p # q => query'[p] = query[p]
  BY DEF OnlyRequest
<1>2. \A p \in Query : query'[p].runtime = query[p].runtime
  BY <1>1
<1>3. {query'[p].runtime : p \in Query} = {query[p].runtime : p \in Query}
  BY <1>2
<1>4. InUse' = InUse
  BY <1>3 DEF InUse
<1>5. RuntimesAreExclusive'
  <2>1. \A t \in tasks : t[1] \in tearing \/ query'[t[2]].runtime = t[1]
    BY <1>2 DEF IInv, RuntimeInv, RuntimesAreExclusive, TypeInv
  <2>2. QED
    BY <1>2, <1>3, <2>1 DEF IInv, RuntimeInv, RuntimesAreExclusive
<1>6. \A p \in Query : query'[p].pc \in {"park", "wait"} => <<query'[p].runtime, p>> \notin tasks'
  BY <1>1 DEF IInv, RuntimeInv
<1>7. Cardinality(InUse') <= Cardinality(Served')
  BY <1>4, ServedRemain
<1>8. QED
  BY <1>5, <1>6, <1>7 DEF RuntimeInv

\* A request gives its runtime to the slot, to a thread that tears it down, or
\* drops it.
LEMMA RuntimeGiven ==
    ASSUME IInv, NEW q \in Query, OnlyRequest(q), NEW rt \in Runtime,
           query[q].runtime = rt, query'[q].runtime = None,
           query'[q].pc \in {"answered", "over"}, UNCHANGED tasks,
           \/ /\ slot = None /\ slot' = rt /\ UNCHANGED <<tearing, asyncDrop>>
              /\ <<rt, q>> \notin tasks
           \/ tearing' = tearing \cup {rt} /\ UNCHANGED <<slot, asyncDrop>>
           \/ /\ asyncDrop' = asyncDrop \cup {rt} /\ UNCHANGED <<slot, tearing>>
              /\ <<rt, q>> \notin tasks
    PROVE  RuntimeInv'
<1> DEFINE held == {query[p].runtime : p \in Query} \ {None}
           heldNext == {query'[p].runtime : p \in Query} \ {None}
<1>1. \A p \in Query : p # q => query'[p] = query[p]
  BY DEF OnlyRequest
<1>2. rt # None
  BY QueryAssumption DEF Runtime, None
<1>3. \A p \in Query : p # q => query[p].runtime # rt
  BY <1>2 DEF IInv, RuntimeInv, RuntimesAreExclusive
<1>4. heldNext = held \ {rt} /\ rt \in held
  BY <1>1, <1>2, <1>3
<1>5. held \cap ({slot} \cup tearing \cup asyncDrop) = {}
  BY DEF IInv, RuntimeInv, RuntimesAreExclusive
<1>6. InUse' = InUse
  <2>1. InUse = held \cup (({slot} \cup tearing \cup asyncDrop) \ {None})
    BY DEF InUse
  <2>2. InUse' = heldNext \cup (({slot'} \cup tearing' \cup asyncDrop') \ {None})
    BY DEF InUse
  <2>3. ({slot'} \cup tearing' \cup asyncDrop') \ {None}
          = (({slot} \cup tearing \cup asyncDrop) \ {None}) \cup {rt}
    BY <1>2
  <2> HIDE DEF held, heldNext
  <2>4. QED
    BY <1>4, <2>1, <2>2, <2>3
<1>7. RuntimesAreExclusive'
  <2>1. \A p, r \in Query : query'[p].runtime = query'[r].runtime
                              => p = r \/ query'[p].runtime = None
    BY <1>1 DEF IInv, RuntimeInv, RuntimesAreExclusive
  <2>2. /\ heldNext \cap ({slot'} \cup tearing' \cup asyncDrop') = {}
        /\ slot' \notin tearing' \cup asyncDrop'
        /\ tearing' \cap asyncDrop' = {}
    <3>1. /\ slot \notin tearing \cup asyncDrop /\ tearing \cap asyncDrop = {}
          /\ rt # slot /\ rt \notin tearing /\ rt \notin asyncDrop
      BY <1>4, <1>5 DEF IInv, RuntimeInv, RuntimesAreExclusive
    <3> HIDE DEF held, heldNext
    <3>2. QED
      BY <1>4, <1>5, <3>1
  <2>3. \A t \in tasks : t[1] \in tearing' \/ query'[t[2]].runtime = t[1]
    <3> TAKE t \in tasks
    <3>1. t[1] \in Runtime /\ t[2] \in Query /\ t = <<t[1], t[2]>>
      BY DEF IInv, TypeInv
    <3>2. t[1] \in tearing \/ query[t[2]].runtime = t[1]
      BY DEF IInv, RuntimeInv, RuntimesAreExclusive
    <3>3. CASE t[1] \in tearing
      BY <3>3
    <3>4. CASE t[2] # q /\ query[t[2]].runtime = t[1]
      BY <1>1, <3>1, <3>4
    <3>5. CASE t[2] = q /\ query[t[2]].runtime = t[1]
      BY <3>1, <3>5
    <3>6. QED
      BY <3>2, <3>3, <3>4, <3>5
  <2>4. QED
    BY <2>1, <2>2, <2>3 DEF RuntimesAreExclusive
<1>8. \A p \in Query : query'[p].pc \in {"park", "wait"} => <<query'[p].runtime, p>> \notin tasks'
  BY <1>1 DEF IInv, RuntimeInv
<1>9. Cardinality(InUse') <= Cardinality(Served')
  BY <1>6, ServedRemain
<1>10. QED
  BY <1>7, <1>8, <1>9 DEF RuntimeInv

\* A request takes the runtime of the slot, or a new one.
LEMMA RuntimeTaken ==
    ASSUME IInv, NEW q \in Query, OnlyRequest(q), NEW rt \in Runtime,
           query[q].runtime = None, query'[q].runtime = rt,
           query[q].pc \in {"idle", "build"}, query'[q].pc = "list",
           \/ rt = slot /\ slot' = None
           \/ rt \notin InUse /\ slot' = slot,
           tasks' = tasks \cup {<<rt, q>>}, UNCHANGED <<tearing, asyncDrop>>
    PROVE  RuntimeInv'
<1> DEFINE held == {query[p].runtime : p \in Query} \ {None}
           heldNext == {query'[p].runtime : p \in Query} \ {None}
<1>1. \A p \in Query : p # q => query'[p] = query[p]
  BY DEF OnlyRequest
<1>2. rt # None /\ None \notin tearing \cup asyncDrop
  BY QueryAssumption DEF Runtime, None, IInv, TypeInv
<1>3. heldNext = held \cup {rt}
  BY <1>1, <1>2
<1>4. /\ held \cap ({slot} \cup tearing \cup asyncDrop) = {}
      /\ slot \notin tearing \cup asyncDrop /\ tearing \cap asyncDrop = {}
  BY DEF IInv, RuntimeInv, RuntimesAreExclusive
<1>5. InUse = held \cup (({slot} \cup tearing \cup asyncDrop) \ {None})
  BY DEF InUse
<1>6. InUse' = heldNext \cup (({slot'} \cup tearing' \cup asyncDrop') \ {None})
  BY DEF InUse
<1>7. rt \notin held /\ rt \notin tearing \cup asyncDrop /\ rt # slot'
  <2> HIDE DEF held
  <2> QED
    BY <1>2, <1>4, <1>5
<1>8. \A p \in Query : query[p].runtime # rt
  BY <1>2, <1>7
<1>9. InUse' = InUse \cup {rt}
  <2> HIDE DEF held, heldNext
  <2> QED
    BY <1>2, <1>3, <1>5, <1>6
<1>10. Cardinality(InUse') <= Cardinality(Served')
  <2>1. IsFiniteSet(InUse)
    BY InUseType DEF IInv
  <2>2. Cardinality(InUse') <= Cardinality(InUse) + 1 /\ Cardinality(InUse') \in Nat
    <3>1. /\ IsFiniteSet(InUse')
          /\ \/ Cardinality(InUse') = Cardinality(InUse)
             \/ Cardinality(InUse') = Cardinality(InUse) + 1
      BY <1>9, <2>1, FS_AddElement
    <3>2. Cardinality(InUse) \in Nat /\ Cardinality(InUse') \in Nat
      BY <2>1, <3>1, FS_CardinalityType
    <3>3. \A a, b \in Nat : a = b \/ a = b + 1 => a <= b + 1
      OBVIOUS
    <3>4. QED
      BY <3>1, <3>2, <3>3
  <2>3. /\ Cardinality(InUse) <= Cardinality(Served) /\ Cardinality(InUse) \in Nat
        /\ Cardinality(Served) \in Nat /\ Cardinality(Served') = Cardinality(Served) + 1
    BY <2>1, ServedFinite, ServedGrow, FS_CardinalityType DEF IInv, RuntimeInv
  <2>4. \A a, b, c \in Nat : a <= b + 1 /\ b <= c => a <= c + 1
    OBVIOUS
  <2>5. QED
    BY <2>2, <2>3, <2>4
<1>11. RuntimesAreExclusive'
  <2>1. \A p, r \in Query : query'[p].runtime = query'[r].runtime
                              => p = r \/ query'[p].runtime = None
    BY <1>1, <1>8 DEF IInv, RuntimeInv, RuntimesAreExclusive
  <2>2. heldNext \cap ({slot'} \cup tearing' \cup asyncDrop') = {}
    <3>1. None \notin heldNext
      OBVIOUS
    <3> HIDE DEF held, heldNext
    <3>2. QED
      BY <1>3, <1>4, <1>7, <3>1
  <2>3. slot' \notin tearing' \cup asyncDrop' /\ tearing' \cap asyncDrop' = {}
    BY <1>2, <1>4
  <2>4. \A t \in tasks' : t[1] \in tearing' \/ query'[t[2]].runtime = t[1]
    <3>1. \A t \in tasks : t[1] \in Runtime /\ t[2] \in Query
      BY DEF IInv, TypeInv
    <3>2. \A t \in tasks : t[1] \in tearing \/ query[t[2]].runtime = t[1]
      BY DEF IInv, RuntimeInv, RuntimesAreExclusive
    <3>3. None \notin Runtime
      BY DEF Runtime, None
    <3>4. \A t \in tasks : t[1] \in tearing \/ query'[t[2]].runtime = t[1]
      BY <1>1, <3>1, <3>2, <3>3
    <3>5. \A t \in tasks' : t \in tasks \/ (t[1] = rt /\ t[2] = q)
      OBVIOUS
    <3>6. QED
      BY <3>4, <3>5
  <2>5. QED
    BY <2>1, <2>2, <2>3, <2>4 DEF RuntimesAreExclusive
<1>12. \A p \in Query : query'[p].pc \in {"park", "wait"} => <<query'[p].runtime, p>> \notin tasks'
  BY <1>1 DEF IInv, RuntimeInv
<1>13. QED
  BY <1>10, <1>11, <1>12 DEF RuntimeInv

-----------------------------------------------------------------------------
(***************************************************************************)
(* A request begins and ends                                               *)
(***************************************************************************)
\* What an update of one request's record makes of the others.
LEMMA RequestUpdate ==
    ASSUME TypeInv, NEW q \in Query, NEW r \in Request,
           query' = [query EXCEPT ![q] = r], UNCHANGED <<now, tiers>>
    PROVE  OnlyRequest(q) /\ query'[q] = r
BY DEF TypeInv, OnlyRequest

\* An ended request remembers nothing.
LEMMA EndForgets ==
    ASSUME IInv, NEW q \in Query, End(q), UNCHANGED <<now, tiers>>
    PROVE  /\ OnlyRequest(q) /\ Staged(q)'
           /\ query'[q].pc = "over" /\ query'[q].runtime = None
           /\ NamesInv' /\ RowsInv' /\ PlaceInv' /\ LossInv' /\ ReadInv' /\ SteadyInv'
<1> DEFINE r == [Idle EXCEPT !.pc = "over"]
<1>1. /\ r \in Request /\ r.kind = "none" /\ r.pc = "over" /\ r.runtime = None
      /\ r.must = {} /\ r.listed = {} /\ r.steady = {} /\ r.parquet = {} /\ r.found = {}
      /\ r.snapped = FALSE
  BY DEF Idle, Request, None
<1>2. query' = [query EXCEPT ![q] = r]
  BY DEF End
<1> HIDE DEF r
<1>3. OnlyRequest(q) /\ query'[q] = r
  BY <1>1, <1>2, RequestUpdate DEF IInv
<1>4. Staged(q)'
  BY <1>1, <1>3 DEF Staged
<1>5. ListedNamed(q)'
  BY <1>1, <1>3, FS_EmptySet DEF ListedNamed
<1>6. RowsKnown(q)'
  BY <1>1, <1>3, FS_EmptySet DEF RowsKnown
<1>7. ReadOnce(q)' /\ SteadyMet(q)'
  BY <1>1, <1>3 DEF ReadOnce, SteadyMet
<1>8. \A row : ~Knows(q, row)'
  BY <1>1, <1>3 DEF Knows
<1>9. QED
  BY <1>1, <1>3, <1>4, <1>5, <1>6, <1>7, <1>8, RequestFrame

\* An idle request has no runtime.
LEMMA IdleHasNone ==
    ASSUME IInv, NEW q \in Query, MayBegin(q)
    PROVE  query[q].runtime = None /\ query[q].pc = "idle"
BY NextRequest DEF IInv, StageInv, Staged

\* What is steady for a request that begins lies in the buffer or in a file
\* that the request must list, or is not wanted.
LEMMA BeginRemembers ==
    ASSUME IInv, NEW q \in Query,
           NEW kind \in {"sql", "search"}, NEW range \in Nat, NEW rt \in Runtime \cup {None},
           kind = "sql" <=> rt # None,
           query' = [query EXCEPT ![q] = Begun(kind, range, rt)], UNCHANGED <<now, tiers>>
    PROVE  /\ OnlyRequest(q) /\ Staged(q)'
           /\ query'[q].pc = "list" /\ query'[q].runtime = rt
           /\ NamesInv' /\ RowsInv' /\ PlaceInv' /\ LossInv' /\ ReadInv' /\ SteadyInv'
<1> DEFINE r == Begun(kind, range, rt)
           must == Names({f \in Parquet : Admitted(kind, range, f.day)})
           steady == live \cup RowsOf(Parquet)
<1>1. now \in Nat
  BY QueryAssumption DEF IInv, TypeInv
<1>2. steady \in SUBSET Arrived /\ Arrived \in SUBSET Nat
  BY DEF RowsOf, Parquet, Arrived, IInv, TypeInv, RowsInv, RowsPlaced
<1>3. must \in SUBSET Nat
  BY DEF Names, Parquet, IInv, TypeInv, File
<1>4. r = [kind |-> kind, pc |-> "list", began |-> now, range |-> range, runtime |-> rt,
           must |-> must, listed |-> {}, snapped |-> FALSE, parquet |-> {}, found |-> {},
           steady |-> steady]
  <2>1. r = [Idle EXCEPT !.kind = kind, !.pc = "list", !.began = now, !.range = range,
                         !.runtime = rt, !.must = must, !.steady = steady]
    BY DEF Begun
  <2> HIDE DEF r, must, steady
  <2>2. QED
    BY <2>1, Zenon DEF Idle
<1> HIDE DEF must, steady
<1>5. /\ r \in Request /\ r.kind = kind /\ r.pc = "list" /\ r.runtime = rt
      /\ r.began = now /\ r.range = range /\ r.must = must /\ r.steady = steady
      /\ r.listed = {} /\ r.parquet = {} /\ r.found = {} /\ r.snapped = FALSE
  BY <1>1, <1>2, <1>3, <1>4 DEF Request
<1> HIDE DEF r
<1>6. OnlyRequest(q) /\ query'[q] = r
  BY <1>5, RequestUpdate DEF IInv, r
<1>7. Staged(q)'
  BY <1>5, <1>6 DEF Staged
<1>8. ListedNamed(q)'
  BY <1>5, <1>6, FS_EmptySet DEF ListedNamed
<1>9. RowsKnown(q)'
  BY <1>2, <1>5, <1>6, FS_EmptySet DEF RowsKnown, OnlyRequest, Arrived
<1>10. ReadOnce(q)'
  BY <1>5, <1>6 DEF ReadOnce
<1>11. \A row : ~Knows(q, row)'
  BY <1>5, <1>6 DEF Knows
<1>12. SteadyMet(q)'
  <2> SUFFICES ASSUME NEW row \in steady, Wanted(q, row)', Day(row)' <= Date(now)
               PROVE  Reaches(q, row)'
    BY <1>5, <1>6 DEF SteadyMet
  <2>1. UNCHANGED <<stamp, live, files>>
    BY <1>6 DEF OnlyRequest
  <2>2. CASE row \in live
    BY <1>5, <1>6, <2>1, <2>2 DEF Reaches
  <2>3. CASE row \in RowsOf(Parquet)
    <3>1. PICK f \in Parquet : row \in f.rows
      BY <2>3 DEF RowsOf
    <3>2. Day(row) = f.day /\ row \in Arrived
      BY <1>2, <3>1 DEF Parquet, IInv, RowsInv, RowsPlaced
    <3>3. Admitted(kind, range, f.day)
      <4>1. CASE kind = "sql"
        BY <4>1 DEF Admitted
      <4>2. CASE kind = "search"
        <5>1. InRange(stamp[row], now, range)
          BY <1>5, <1>6, <2>1, <4>2 DEF Wanted
        <5>2. stamp[row] \in Nat
          BY <3>2, StampType DEF IInv
        <5>3. Date(stamp[row]) <= Date(now)
          BY <2>1 DEF Day
        <5>4. partition_predicate(partition_days(now, range), Date(stamp[row]))
          BY <1>1, <5>1, <5>2, <5>3, WindowIsAdmitted
        <5>5. QED
          BY <3>2, <5>4 DEF Admitted, Day
      <4>3. QED
        BY <4>1, <4>2
    <3>4. f.name \in must
      BY <3>1, <3>3 DEF must, Names
    <3>5. f \in Parquet'
      BY <2>1, <3>1 DEF Parquet
    <3>6. QED
      BY <1>5, <1>6, <3>1, <3>4, <3>5 DEF Reaches
  <2>4. QED
    BY <2>2, <2>3 DEF steady
<1>13. QED
  BY <1>5, <1>6, <1>7, <1>8, <1>9, <1>10, <1>11, <1>12, RequestFrame

\* A row a request knows of is in a file or known.
LEMMA KnownIsFiled ==
    ASSUME NEW q \in Query, NEW row, Knows(q, row)
    PROVE  Filed(row)
BY DEF Filed

\* A request moves on: it has read what it must at its stage.
LEMMA MoveOn ==
    ASSUME IInv, NEW q \in Query, UNCHANGED <<now, tiers>>,
           NEW pc \in {"build", "live", "open", "park", "wait", "answered"}, Step(q, pc),
           query[q].pc = "list" => query[q].must = {}
    PROVE  /\ OnlyRequest(q) /\ query'[q] = [query[q] EXCEPT !.pc = pc]
           /\ query[q] \in Request
           /\ ListedNamed(q)' /\ RowsKnown(q)' /\ ReadOnce(q)' /\ SteadyMet(q)'
           /\ \A row : Knows(q, row)' => Filed(row)
<1> DEFINE r == query[q]
           s == [r EXCEPT !.pc = pc]
<1>1. r \in Request
  BY DEF IInv, TypeInv
<1>2. query' = [query EXCEPT ![q] = s]
  BY DEF Step
<1> HIDE DEF r
<1>3. /\ s \in Request /\ s.listed = r.listed /\ s.must = r.must /\ s.pc = pc
      /\ s.kind = r.kind /\ s.began = r.began /\ s.range = r.range
      /\ s.runtime = r.runtime /\ s.snapped = r.snapped /\ s.parquet = r.parquet
      /\ s.found = r.found /\ s.steady = r.steady
  BY <1>1 DEF Request
<1> HIDE DEF s
<1>4. OnlyRequest(q) /\ query'[q] = s
  BY <1>2, <1>3, RequestUpdate DEF IInv
<1>5. UNCHANGED <<stamp, live, files, doubled>>
  OBVIOUS
<1>6. ListedNamed(q)'
  BY <1>3, <1>4, <1>5 DEF IInv, NamesInv, ListedNamed, r
<1>7. RowsKnown(q)'
  BY <1>3, <1>4, <1>5 DEF IInv, RowsInv, RowsKnown, Arrived, r
<1>8. ReadOnce(q)'
  BY <1>3, <1>4, <1>5 DEF IInv, ReadInv, ReadOnce, r
<1>9. SteadyMet(q)'
  <2> SUFFICES ASSUME NEW row \in r.steady, Wanted(q, row)', Day(row)' <= Date(r.began)
               PROVE  Reaches(q, row)'
    BY <1>3, <1>4 DEF SteadyMet
  <2>1. Reaches(q, row)
    BY <1>3, <1>4, <1>5 DEF IInv, SteadyInv, SteadyMet, Wanted, Day, r
  <2>2. QED
    BY <1>3, <1>4, <1>5, <2>1 DEF Reaches, Parquet, r
<1>10. \A row : Knows(q, row)' => Filed(row)
  BY <1>3, <1>4, KnownIsFiled DEF Knows, r
<1>11. QED
  BY <1>1, <1>4, <1>6, <1>7, <1>8, <1>9, <1>10 DEF r, s

\* A new SQL query takes the idle runtime (execute_sql).
LEMMA BeginSqlKeeps == ASSUME IInv, NEW q \in Query, BeginSql(q) PROVE IInv'
<1> DEFINE rt == slot
<1>1. /\ MayBegin(q) /\ query' = [query EXCEPT ![q] = Begun("sql", 0, rt)]
      /\ tasks' = tasks \cup {<<rt, q>>} /\ slot' = None /\ rt # None /\ rt = slot
      /\ UNCHANGED <<now, tiers, tearing, asyncDrop, faults>>
  BY DEF BeginSql
<1>2. rt \in Runtime
  BY <1>1 DEF IInv, TypeInv
<1> HIDE DEF rt
<1>3. /\ OnlyRequest(q) /\ Staged(q)' /\ query'[q].pc = "list" /\ query'[q].runtime = rt
      /\ NamesInv' /\ RowsInv' /\ PlaceInv' /\ LossInv' /\ ReadInv' /\ SteadyInv'
  BY <1>1, <1>2, BeginRemembers
<1>4. TypeInv'
  BY <1>1, <1>2, <1>3 DEF IInv, TypeInv, OnlyRequest, Arrived
<1>5. StageInv'
  BY <1>1, <1>3, StageBegin
<1>6. RuntimeInv'
  BY <1>1, <1>2, <1>3, IdleHasNone, RuntimeTaken
<1>7. QED
  BY <1>3, <1>4, <1>5, <1>6 DEF IInv

\* A request that finds the slot empty holds its lock, and nothing else.
LEMMA FindEmptyKeeps == ASSUME IInv, NEW q \in Query, FindEmpty(q) PROVE IInv'
<1>1. MayBegin(q) /\ Step(q, "build") /\ UNCHANGED <<now, tiers, runtimes, faults>>
  BY DEF FindEmpty
<1>2. query[q].pc = "idle" /\ query[q].runtime = None
  BY <1>1, IdleHasNone
<1>3. /\ OnlyRequest(q) /\ query'[q] = [query[q] EXCEPT !.pc = "build"]
      /\ query[q] \in Request
      /\ ListedNamed(q)' /\ RowsKnown(q)' /\ ReadOnce(q)' /\ SteadyMet(q)'
      /\ \A row : Knows(q, row)' => Filed(row)
  BY <1>1, <1>2, MoveOn
<1>4. query'[q].pc = "build" /\ query'[q].runtime = None
  BY <1>2, <1>3 DEF Request
<1>5. Staged(q)'
  BY <1>2, <1>3 DEF IInv, StageInv, Staged, Request
<1>6. StageInv'
  BY <1>1, <1>3, <1>4, <1>5, StageBegin
<1>7. NamesInv' /\ RowsInv' /\ PlaceInv' /\ LossInv' /\ ReadInv' /\ SteadyInv'
  BY <1>3, RequestFrame
<1>8. TypeInv'
  BY <1>1, <1>3 DEF IInv, TypeInv, OnlyRequest, Arrived
<1>9. RuntimeInv'
  BY <1>1, <1>2, <1>3, <1>4, RuntimeKept
<1>10. QED
  BY <1>6, <1>7, <1>8, <1>9 DEF IInv

\* A runtime that is built is the query's own.
LEMMA BuildKeeps == ASSUME IInv, NEW q \in Query, Build(q) PROVE IInv'
<1> DEFINE rt == UnusedRuntime
<1>1. /\ query[q].pc = "build" /\ query' = [query EXCEPT ![q] = Begun("sql", 0, rt)]
      /\ tasks' = tasks \cup {<<rt, q>>}
      /\ UNCHANGED <<now, tiers, slot, tearing, asyncDrop, faults>>
  BY DEF Build
<1>2. rt \in Runtime /\ rt \notin InUse
  BY <1>1, UnusedRuntimeExists
<1> HIDE DEF rt
<1>3. rt # None /\ query[q].runtime = None
  BY <1>1, <1>2 DEF Runtime, None, IInv, StageInv, Staged
<1>4. /\ OnlyRequest(q) /\ Staged(q)' /\ query'[q].pc = "list" /\ query'[q].runtime = rt
      /\ NamesInv' /\ RowsInv' /\ PlaceInv' /\ LossInv' /\ ReadInv' /\ SteadyInv'
  <2>1. 0 \in Nat /\ rt \in Runtime \cup {None} /\ ("sql" = "sql" <=> rt # None)
    BY <1>2, <1>3
  <2>2. UNCHANGED <<now, tiers>>
    BY <1>1
  <2>3. QED
    BY ZenonT(40), <1>1, <2>1, <2>2, BeginRemembers
<1>5. TypeInv'
  BY <1>1, <1>2, <1>4 DEF IInv, TypeInv, OnlyRequest, Arrived
<1>6. StageInv'
  BY <1>1, <1>4, StageFrame
<1>7. RuntimeInv'
  BY <1>1, <1>2, <1>3, <1>4, RuntimeTaken
<1>8. QED
  BY <1>4, <1>5, <1>6, <1>7 DEF IInv

\* A new search has no runtime (search).
LEMMA BeginSearchKeeps == ASSUME IInv, NEW q \in Query, BeginSearch(q) PROVE IInv'
<1>1. PICK range \in Ranges : query' = [query EXCEPT ![q] = Begun("search", range, None)]
  BY DEF BeginSearch
<1>2. MayBegin(q) /\ UNCHANGED <<now, tiers, runtimes, faults>> /\ range \in Nat
  BY QueryAssumption DEF BeginSearch
<1>3. /\ OnlyRequest(q) /\ Staged(q)' /\ query'[q].pc = "list" /\ query'[q].runtime = None
      /\ NamesInv' /\ RowsInv' /\ PlaceInv' /\ LossInv' /\ ReadInv' /\ SteadyInv'
  BY <1>1, <1>2, BeginRemembers
<1>4. TypeInv'
  BY <1>2, <1>3 DEF IInv, TypeInv, OnlyRequest, Arrived
<1>5. StageInv'
  BY <1>2, <1>3, StageBegin
<1>6. RuntimeInv'
  BY <1>2, <1>3, IdleHasNone, RuntimeKept
<1>7. QED
  BY <1>3, <1>4, <1>5, <1>6 DEF IInv

\* A runtime that cannot be built ends its query.
LEMMA BuildFailsKeeps == ASSUME IInv, NEW q \in Query, BuildFails(q) PROVE IInv'
<1>1. /\ query[q].pc = "build" /\ End(q) /\ UNCHANGED <<now, tiers, runtimes>>
      /\ faults' \in 0..MaxFaults
  BY QueryAssumption DEF BuildFails, Fault, IInv, TypeInv
<1>2. /\ OnlyRequest(q) /\ Staged(q)'
      /\ query'[q].pc = "over" /\ query'[q].runtime = None
      /\ NamesInv' /\ RowsInv' /\ PlaceInv' /\ LossInv' /\ ReadInv' /\ SteadyInv'
  BY <1>1, EndForgets
<1>3. StageInv'
  BY <1>1, <1>2, StageFrame
<1>4. TypeInv'
  BY <1>1, <1>2 DEF IInv, TypeInv, OnlyRequest, Arrived
<1>5. query[q].runtime = None
  BY <1>1 DEF IInv, StageInv, Staged
<1>6. RuntimeInv'
  BY <1>1, <1>2, <1>5, RuntimeKept
<1>7. QED
  BY <1>2, <1>3, <1>4, <1>6 DEF IInv

\* A request that ends without a runtime of its own.
LEMMA EndBareKeeps ==
    ASSUME IInv, NEW q \in Query, End(q), query[q].pc # "idle", query[q].runtime = None,
           UNCHANGED <<now, tiers, runtimes, faults>>
    PROVE  IInv'
<1>1. /\ OnlyRequest(q) /\ Staged(q)'
      /\ query'[q].pc = "over" /\ query'[q].runtime = None
      /\ NamesInv' /\ RowsInv' /\ PlaceInv' /\ LossInv' /\ ReadInv' /\ SteadyInv'
  BY EndForgets
<1>2. StageInv'
  BY <1>1, StageFrame
<1>3. TypeInv'
  BY <1>1 DEF IInv, TypeInv, OnlyRequest, Arrived
<1>4. RuntimeInv'
  BY <1>1, RuntimeKept
<1>5. QED
  BY <1>1, <1>2, <1>3, <1>4 DEF IInv

\* A request that ends and gives its runtime away.
LEMMA EndGivesKeeps ==
    ASSUME IInv, NEW q \in Query, End(q), query[q].runtime # None,
           \/ tearing' = tearing \cup {query[q].runtime} /\ UNCHANGED asyncDrop
           \/ /\ asyncDrop' = asyncDrop \cup {query[q].runtime} /\ UNCHANGED tearing
              /\ query[q].pc = "wait",
           UNCHANGED <<now, tiers, slot, tasks, faults>>
    PROVE  IInv'
<1> DEFINE rt == query[q].runtime
<1>1. rt \in Runtime
  BY DEF IInv, TypeInv, Request
<1>2. /\ OnlyRequest(q) /\ Staged(q)'
      /\ query'[q].pc = "over" /\ query'[q].runtime = None
      /\ NamesInv' /\ RowsInv' /\ PlaceInv' /\ LossInv' /\ ReadInv' /\ SteadyInv'
  BY EndForgets
<1>3. query[q].pc # "idle"
  BY DEF IInv, StageInv, Staged
<1>4. StageInv'
  BY <1>2, <1>3, StageFrame
<1>5. TypeInv'
  BY <1>1, <1>2 DEF IInv, TypeInv, OnlyRequest, Arrived
<1>6. query[q].pc = "wait" => <<rt, q>> \notin tasks
  BY DEF IInv, RuntimeInv
<1>7. \/ tearing' = tearing \cup {rt} /\ UNCHANGED <<slot, asyncDrop>>
      \/ /\ asyncDrop' = asyncDrop \cup {rt} /\ UNCHANGED <<slot, tearing>>
         /\ <<rt, q>> \notin tasks
  BY <1>6
<1>8. RuntimeInv'
  <2>1. query[q].runtime = rt
    OBVIOUS
  <2> HIDE DEF rt
  <2>2. query'[q].pc \in {"answered", "over"}
    BY <1>2
  <2>3. UNCHANGED tasks
    OBVIOUS
  <2>4. QED
    BY <1>1, <1>2, <1>7, <2>1, <2>2, <2>3, RuntimeGiven
<1>9. QED
  BY <1>2, <1>4, <1>5, <1>8 DEF IInv

\* A listed file that is gone ends the query, and the guard retires its runtime.
LEMMA FileGoneKeeps == ASSUME IInv, NEW q \in Query, FileGone(q) PROVE IInv'
<1>1. /\ query[q].pc = "open" /\ End(q)
      /\ UNCHANGED <<now, tiers, slot, tasks, asyncDrop, faults>>
  BY DEF FileGone
<1>2. query[q].runtime # None <=> query[q].kind = "sql"
  BY <1>1 DEF IInv, StageInv, Staged
<1>3. CASE query[q].kind = "sql"
  BY <1>1, <1>2, <1>3, EndGivesKeeps DEF FileGone, Retire
<1>4. CASE query[q].kind # "sql"
  BY <1>1, <1>2, <1>4, EndBareKeeps DEF FileGone
<1>5. QED
  BY <1>3, <1>4

\* An answer that is sent is forgotten.
LEMMA RespondKeeps == ASSUME IInv, NEW q \in Query, Respond(q) PROVE IInv'
<1>1. query[q].pc = "answered" /\ End(q) /\ UNCHANGED <<now, tiers, runtimes, faults>>
  BY DEF Respond
<1>2. query[q].runtime = None
  BY <1>1 DEF IInv, StageInv, Staged
<1>3. QED
  BY <1>1, <1>2, EndBareKeeps

\* A query that takes too long gives its runtime to the thread that retires it.
LEMMA TimeoutKeeps == ASSUME IInv, NEW q \in Query, Timeout(q) PROVE IInv'
<1>1. /\ OnRuntime(q) /\ End(q) /\ Retire(query[q].runtime)
      /\ UNCHANGED <<now, tiers, slot, tasks, asyncDrop, faults>>
  BY DEF Timeout
<1>2. query[q].runtime # None
  BY <1>1 DEF OnRuntime, IInv, StageInv, Staged
<1>3. QED
  BY <1>1, <1>2, EndGivesKeeps DEF Retire

\* A handler dropped at an await leaves its runtime to the guard, or drops it.
LEMMA CancelKeeps == ASSUME IInv, NEW q \in Query, Cancel(q) PROVE IInv'
<1>1. /\ query[q].pc \in {"list", "live", "open", "park", "wait"} /\ End(q)
      /\ UNCHANGED <<now, tiers, slot, tasks, faults>>
  BY DEF Cancel
<1>2. /\ query[q].runtime # None <=> query[q].kind = "sql"
      /\ query[q].pc = "wait" => query[q].kind = "sql"
  <2>1. query[q].kind \in {"none", "sql", "search"}
    BY DEF IInv, TypeInv, Request
  <2>2. Staged(q)
    BY DEF IInv, StageInv
  <2>3. QED
    BY <1>1, <2>1, <2>2 DEF Staged
<1>3. \A S : S \cup {} = S
  OBVIOUS
<1>4. CASE query[q].kind = "sql" /\ query[q].pc # "wait"
  <2>1. tearing' = tearing \cup {query[q].runtime} /\ UNCHANGED asyncDrop
    BY <1>3, <1>4 DEF Cancel, Retire
  <2>2. QED
    BY <1>1, <1>2, <1>4, <2>1, EndGivesKeeps
<1>5. CASE query[q].pc = "wait"
  <2>1. asyncDrop' = asyncDrop \cup {query[q].runtime} /\ UNCHANGED tearing
    BY <1>5 DEF Cancel
  <2>2. QED
    BY <1>1, <1>2, <1>5, <2>1, EndGivesKeeps
<1>6. CASE query[q].kind # "sql" /\ query[q].pc # "wait"
  <2>1. query[q].runtime = None /\ query[q].pc # "idle"
    BY <1>1, <1>2, <1>6
  <2>2. UNCHANGED <<tearing, asyncDrop>>
    BY <1>3, <1>6 DEF Cancel
  <2>3. QED
    BY <1>1, <2>1, <2>2, EndBareKeeps
<1>7. QED
  BY <1>4, <1>5, <1>6

-----------------------------------------------------------------------------
(***************************************************************************)
(* A request lists, reads and snapshots                                    *)
(***************************************************************************)
\* What holds of a request that leaves the runtimes alone.
LEMMA QuietStep ==
    ASSUME IInv, NEW q \in Query, OnlyRequest(q),
           query[q].pc # "idle", query'[q].pc \notin {"idle", "build", "park"},
           query'[q].pc = "wait" => query[q].pc = "park",
           query'[q].runtime = query[q].runtime, UNCHANGED <<runtimes, faults>>,
           Staged(q)', ListedNamed(q)', RowsKnown(q)', ReadOnce(q)', SteadyMet(q)',
           \A row : Knows(q, row)' => Filed(row)
    PROVE  IInv'
<1>1. NamesInv' /\ RowsInv' /\ PlaceInv' /\ LossInv' /\ ReadInv' /\ SteadyInv'
  BY RequestFrame
<1>2. StageInv'
  BY StageFrame
<1>3. TypeInv'
  BY DEF IInv, TypeInv, OnlyRequest, Arrived
<1>4. query'[q].pc \in {"park", "wait"} => <<query'[q].runtime, q>> \notin tasks'
  BY DEF IInv, RuntimeInv
<1>5. RuntimeInv'
  BY <1>4, RuntimeKept
<1>6. QED
  BY <1>1, <1>2, <1>3, <1>5 DEF IInv

\* What a request reads of some rows.
LEMMA ReadRows ==
    ASSUME IInv, NEW q \in Query, NEW rows \in SUBSET Arrived, NEW source \in Nat
    PROVE  /\ Read(q, rows, source) \in SUBSET Entry /\ IsFiniteSet(Read(q, rows, source))
           /\ \A a \in Read(q, rows, source) :
                 a.row \in rows /\ a.source = source /\ a.stamp = stamp[a.row]
           /\ \A row \in rows : Wanted(q, row) =>
                 \E a \in Read(q, rows, source) : a.row = row
           /\ \A a, b \in Read(q, rows, source) : a.row = b.row => a = b
<1> DEFINE wanted == {r \in rows : Wanted(q, r)}
           entry == [row \in wanted |-> [row |-> row, source |-> source, stamp |-> stamp[row]]]
<1>1. \A row \in Arrived : row \in Nat /\ stamp[row] \in Nat
  BY StampType DEF IInv
<1>2. IsFiniteSet(wanted)
  <2>1. Len(stamp) \in Nat /\ Arrived = 1..Len(stamp)
    BY DEF Arrived, IInv, TypeInv
  <2>2. IsFiniteSet(1..Len(stamp))
    BY <2>1, FS_Interval
  <2>3. wanted \in SUBSET (1..Len(stamp))
    BY <2>1
  <2>4. QED
    BY <2>2, <2>3, FS_Subset
<1>3. entry \in Surjection(wanted, Read(q, rows, source))
  BY DEF Surjection, Read
<1>4. IsFiniteSet(Read(q, rows, source))
  BY <1>2, <1>3, FS_Surjection
<1>5. \A a \in Read(q, rows, source) :
        /\ a.row \in rows /\ a.source = source /\ a.stamp = stamp[a.row]
        /\ a = [row |-> a.row, source |-> source, stamp |-> stamp[a.row]]
  BY DEF Read
<1>6. Read(q, rows, source) \in SUBSET Entry
  BY <1>1, <1>5 DEF Entry
<1>7. \A row \in rows : Wanted(q, row) =>
        \E a \in Read(q, rows, source) : a.row = row
  <2> SUFFICES ASSUME NEW row \in rows, Wanted(q, row)
               PROVE  \E a \in Read(q, rows, source) : a.row = row
    OBVIOUS
  <2> DEFINE a == [row |-> row, source |-> source, stamp |-> stamp[row]]
  <2>1. a \in Read(q, rows, source)
    BY DEF Read
  <2>2. QED
    BY <2>1
<1>8. QED
  BY <1>4, <1>5, <1>6, <1>7

\* A file that is listed is a file of its name, and no other that is listed has
\* the name.
LEMMA ListFileKeeps == ASSUME IInv, NEW q \in Query, ListFile(q) PROVE IInv'
<1>1. PICK f \in Parquet \ query[q].listed :
        query' = [query EXCEPT ![q].listed = @ \cup {f}, ![q].must = @ \ {f.name}]
  BY DEF ListFile
<1>2. query[q].pc = "list" /\ UNCHANGED <<now, tiers, runtimes, faults>>
  BY DEF ListFile
<1> DEFINE r == query[q]
           s == [r EXCEPT !.listed = r.listed \cup {f}, !.must = r.must \ {f.name}]
<1>3. f \in File /\ f \in files /\ f.form = "parquet"
  BY DEF Parquet, IInv, TypeInv
<1>4. r \in Request
  BY DEF IInv, TypeInv
<1>5. query' = [query EXCEPT ![q] = s]
  BY <1>1
<1> HIDE DEF r
<1>6. r.listed \cup {f} \in SUBSET File /\ r.must \ {f.name} \in SUBSET Nat
  BY <1>3, <1>4 DEF Request
<1>7. /\ s \in Request /\ s.listed = r.listed \cup {f} /\ s.must = r.must \ {f.name}
      /\ s.kind = r.kind /\ s.pc = r.pc /\ s.began = r.began /\ s.range = r.range
      /\ s.runtime = r.runtime /\ s.snapped = r.snapped /\ s.parquet = r.parquet
      /\ s.found = r.found /\ s.steady = r.steady
  BY <1>4, <1>6 DEF Request
<1> HIDE DEF s
<1>8. OnlyRequest(q) /\ query'[q] = s
  BY <1>2, <1>5, <1>7, RequestUpdate DEF IInv
<1>9. Staged(q)'
  BY <1>2, <1>7, <1>8 DEF IInv, StageInv, Staged, r
<1>10. ListedNamed(q)'
  <2>1. IsFiniteSet(s.listed)
    BY <1>7, FS_AddElement DEF IInv, NamesInv, ListedNamed, r
  <2>2. \A g \in r.listed : g.name # f.name
    <3> SUFFICES ASSUME NEW g \in r.listed, g.name = f.name PROVE FALSE
      OBVIOUS
    <3>1. g.rows = f.rows /\ g.day = f.day /\ g.form = "parquet"
      BY <1>3 DEF IInv, NamesInv, ListedNamed, r
    <3>2. g \in File
      BY <1>4 DEF Request
    <3>3. g = f
      BY <1>3, <3>1, <3>2 DEF File
    <3>4. QED
      BY <3>3 DEF r
  <2>3. \A g \in files : f.name = g.name => f = g
    BY <1>3 DEF IInv, NamesInv, FilesNamed
  <2>4. UNCHANGED files
    BY <1>2
  <2>5. \A e \in r.listed :
          /\ e.form = "parquet"
          /\ \A g \in r.listed : e.name = g.name => e = g
          /\ \A g \in files : e.name = g.name => e.rows = g.rows /\ e.day = g.day
    BY DEF IInv, NamesInv, ListedNamed, r
  <2>6. \A e \in s.listed :
          /\ e.form = "parquet"
          /\ \A g \in s.listed : e.name = g.name => e = g
          /\ \A g \in files : e.name = g.name => e.rows = g.rows /\ e.day = g.day
    <3>1. \A e \in s.listed : e \in r.listed \/ e = f
      BY <1>7
    <3>2. QED
      BY <1>3, <2>2, <2>3, <2>5, <3>1
  <2>7. QED
    BY <1>8, <2>1, <2>4, <2>6 DEF ListedNamed
<1>11. RowsKnown(q)'
  <2>1. f.rows \subseteq Arrived
    BY <1>3 DEF IInv, RowsInv, RowsPlaced
  <2>2. QED
    BY <1>2, <1>7, <1>8, <2>1 DEF IInv, RowsInv, RowsKnown, Arrived, r
<1>12. r.parquet = {}
  BY <1>2 DEF IInv, StageInv, Staged, r
<1>13. ReadOnce(q)'
  BY <1>7, <1>8, <1>12 DEF ReadOnce
<1>14. SteadyMet(q)'
  <2> SUFFICES ASSUME NEW row \in r.steady, Wanted(q, row)', Day(row)' <= Date(r.began)
               PROVE  Reaches(q, row)'
    BY <1>7, <1>8 DEF SteadyMet
  <2>1. UNCHANGED <<stamp, live, files>>
    BY <1>2
  <2>2. Reaches(q, row)
    BY <1>7, <1>8, <2>1 DEF IInv, SteadyInv, SteadyMet, Wanted, Day, r
  <2>3. \A g \in Parquet : g.name = f.name => g = f
    BY <1>3 DEF Parquet, IInv, NamesInv, FilesNamed
  <2>4. QED
    BY <1>2, <1>7, <1>8, <2>1, <2>2, <2>3 DEF Reaches, Parquet, r
<1>15. \A row : Knows(q, row)' => Filed(row)
  BY <1>3, <1>7, <1>8 DEF Knows, Filed, r
<1>16. QED
  BY <1>2, <1>7, <1>8, <1>9, <1>10, <1>11, <1>13, <1>14, <1>15, QuietStep DEF r

\* The listing ends when nothing it had to list is left.
LEMMA EndListingKeeps == ASSUME IInv, NEW q \in Query, EndListing(q) PROVE IInv'
<1> DEFINE pc == IF query[q].kind = "sql" /\ ~query[q].snapped THEN "live" ELSE "open"
<1>1. /\ query[q].pc = "list" /\ query[q].must = {} /\ Step(q, pc)
      /\ UNCHANGED <<now, tiers, runtimes, faults>>
  BY DEF EndListing
<1>2. pc \in {"live", "open"}
  OBVIOUS
<1>3. /\ OnlyRequest(q) /\ query'[q] = [query[q] EXCEPT !.pc = pc]
      /\ query[q] \in Request
      /\ ListedNamed(q)' /\ RowsKnown(q)' /\ ReadOnce(q)' /\ SteadyMet(q)'
      /\ \A row : Knows(q, row)' => Filed(row)
  <2> HIDE DEF pc
  <2> QED
    BY <1>1, <1>2, MoveOn
<1>4. query'[q].pc = pc /\ query'[q].runtime = query[q].runtime
  BY <1>3 DEF Request
<1>5. Staged(q)'
  BY <1>1, <1>3 DEF IInv, StageInv, Staged, Request
<1>6. QED
  <2> HIDE DEF pc
  <2> QED
    BY <1>1, <1>2, <1>3, <1>4, <1>5, QuietStep

\* The files have been read.
LEMMA CollectedKeeps == ASSUME IInv, NEW q \in Query, Collected(q) PROVE IInv'
<1> DEFINE pc == IF query[q].kind = "sql" THEN "park"
                 ELSE IF query[q].snapped THEN "answered" ELSE "live"
<1>1. /\ query[q].pc = "open" /\ query[q].listed = {} /\ Step(q, pc)
      /\ tasks' = tasks \ {<<query[q].runtime, q>>}
      /\ UNCHANGED <<now, tiers, slot, tearing, asyncDrop, faults>>
  BY DEF Collected
<1>2. Staged(q) /\ query[q] \in Request
  BY DEF IInv, StageInv, TypeInv
<1>3. /\ query[q].kind = "sql" => pc = "park"
      /\ query[q].kind = "search" => pc = "live"
      /\ query[q].kind \in {"sql", "search"}
  BY <1>1, <1>2 DEF Staged, Request
<1> HIDE DEF pc
<1>4. pc \in {"live", "park"}
  BY <1>3
<1>5. /\ OnlyRequest(q) /\ query'[q] = [query[q] EXCEPT !.pc = pc]
      /\ ListedNamed(q)' /\ RowsKnown(q)' /\ ReadOnce(q)' /\ SteadyMet(q)'
      /\ \A row : Knows(q, row)' => Filed(row)
  BY <1>1, <1>4, MoveOn
<1>6. query'[q].pc = pc /\ query'[q].runtime = query[q].runtime
  BY <1>2, <1>5 DEF Request
<1>7. Staged(q)'
  BY <1>1, <1>2, <1>3, <1>5 DEF Staged, Request
<1>8. NamesInv' /\ RowsInv' /\ PlaceInv' /\ LossInv' /\ ReadInv' /\ SteadyInv'
  BY <1>5, RequestFrame
<1>9. StageInv'
  BY <1>1, <1>4, <1>5, <1>6, <1>7, StageFrame
<1>10. TypeInv'
  BY <1>1, <1>5 DEF IInv, TypeInv, OnlyRequest, Arrived
<1>11. RuntimeInv'
  <2>1. tasks' \subseteq tasks /\ <<query'[q].runtime, q>> \notin tasks'
    BY <1>1, <1>6
  <2>2. QED
    BY <1>1, <1>4, <1>5, <1>6, <2>1, RuntimeKept
<1>12. QED
  BY <1>8, <1>9, <1>10, <1>11 DEF IInv

\* A query that finds the lock held keeps its runtime and waits.
LEMMA AwaitLockKeeps == ASSUME IInv, NEW q \in Query, AwaitLock(q) PROVE IInv'
<1>1. query[q].pc = "park" /\ Step(q, "wait") /\ UNCHANGED <<now, tiers, runtimes, faults>>
  BY DEF AwaitLock
<1>2. /\ OnlyRequest(q) /\ query'[q] = [query[q] EXCEPT !.pc = "wait"]
      /\ query[q] \in Request
      /\ ListedNamed(q)' /\ RowsKnown(q)' /\ ReadOnce(q)' /\ SteadyMet(q)'
      /\ \A row : Knows(q, row)' => Filed(row)
  BY <1>1, MoveOn
<1>3. query'[q].pc = "wait" /\ query'[q].runtime = query[q].runtime
  BY <1>2 DEF Request
<1>4. Staged(q)'
  BY <1>1, <1>2 DEF IInv, StageInv, Staged, Request
<1>5. QED
  BY <1>1, <1>2, <1>3, <1>4, QuietStep

\* The buffer holds no row that a search has read from a file, but for one that
\* was stored and returned.
LEMMA SnapLiveKeeps == ASSUME IInv, NEW q \in Query, SnapLive(q) PROVE IInv'
<1> DEFINE r == query[q]
           found == Read(q, live, 0)
           pc == IF r.pc = "list" THEN "list"
                 ELSE IF r.kind = "sql" THEN "open" ELSE "answered"
           s == [r EXCEPT !.snapped = TRUE, !.found = found, !.pc = pc]
<1>1. /\ r.pc \in LiveStages(q) /\ ~r.snapped /\ query' = [query EXCEPT ![q] = s]
      /\ UNCHANGED <<now, tiers, runtimes, faults>>
  BY DEF SnapLive
<1>2. r \in Request /\ Staged(q)
  BY DEF IInv, TypeInv, StageInv
<1>3. live \in SUBSET Arrived
  BY DEF IInv, TypeInv
<1>4. /\ found \in SUBSET Entry /\ IsFiniteSet(found)
      /\ \A a \in found : a.row \in live /\ a.source = 0 /\ a.stamp = stamp[a.row]
      /\ \A row \in live : Wanted(q, row) => \E a \in found : a.row = row
  BY <1>3, ReadRows
<1>5. /\ r.kind \in {"sql", "search"}
      /\ \/ r.kind = "sql" /\ r.pc = "list" /\ pc = "list"
         \/ r.kind = "sql" /\ r.pc = "live" /\ pc = "open"
         \/ r.kind = "search" /\ r.pc = "live" /\ pc = "answered"
  BY <1>1, <1>2 DEF LiveStages, Staged, Request
<1> HIDE DEF r, found, pc
<1>6. pc \in {"list", "open", "answered"}
  BY <1>5
<1>7. /\ s \in Request /\ s.listed = r.listed /\ s.must = r.must /\ s.pc = pc
      /\ s.kind = r.kind /\ s.began = r.began /\ s.range = r.range
      /\ s.runtime = r.runtime /\ s.snapped = TRUE /\ s.parquet = r.parquet
      /\ s.found = found /\ s.steady = r.steady
  BY <1>2, <1>4, <1>6 DEF Request
<1> HIDE DEF s
<1>8. OnlyRequest(q) /\ query'[q] = s
  BY <1>1, <1>7, RequestUpdate DEF IInv, r, s
<1>9. UNCHANGED <<stamp, live, files, doubled>>
  BY <1>1
<1>10. Staged(q)'
  BY <1>2, <1>5, <1>7, <1>8 DEF Staged, r
<1>11. ListedNamed(q)'
  BY <1>7, <1>8, <1>9 DEF IInv, NamesInv, ListedNamed, r
<1>12. RowsKnown(q)'
  BY <1>3, <1>4, <1>7, <1>8, <1>9 DEF IInv, RowsInv, RowsKnown, Arrived, r
<1>13. ReadOnce(q)'
  <2>1. \A a \in r.parquet : Filed(a.row)
    BY DEF Filed, Knows, r
  <2>2. \A a \in r.parquet, b \in found : a.row = b.row => a.row \in doubled
    BY <1>4, <2>1 DEF IInv, PlaceInv
  <2>3. QED
    BY <1>7, <1>8, <1>9, <2>2 DEF IInv, ReadInv, ReadOnce, r
<1>14. SteadyMet(q)'
  <2> SUFFICES ASSUME NEW row \in r.steady, Wanted(q, row)', Day(row)' <= Date(r.began)
               PROVE  Reaches(q, row)'
    BY <1>7, <1>8 DEF SteadyMet
  <2>1. Wanted(q, row) /\ Day(row) <= Date(r.began)
    BY <1>7, <1>8, <1>9 DEF Wanted, Day, r
  <2>2. Reaches(q, row)
    BY <2>1 DEF IInv, SteadyInv, SteadyMet, r
  <2>3. r.found = {}
    BY <1>1, <1>2 DEF Staged, r
  <2>4. QED
    BY <1>4, <1>5, <1>7, <1>8, <1>9, <2>1, <2>2, <2>3 DEF Reaches, Parquet, r
<1>15. \A row : Knows(q, row)' => Filed(row)
  BY <1>7, <1>8, KnownIsFiled DEF Knows, r
<1>16. QED
  BY <1>1, <1>5, <1>7, <1>8, <1>10, <1>11, <1>12, <1>13, <1>14, <1>15, QuietStep DEF r

\* A file is opened: its rows are in no other file, but for those stored twice.
LEMMA OpenFileKeeps == ASSUME IInv, NEW q \in Query, OpenFile(q) PROVE IInv'
<1>1. PICK f \in query[q].listed \cap files :
        query' = [query EXCEPT ![q].listed  = @ \ {f},
                               ![q].parquet = @ \cup Read(q, f.rows, f.name)]
  BY DEF OpenFile
<1>2. query[q].pc = "open" /\ UNCHANGED <<now, tiers, runtimes, faults>>
  BY DEF OpenFile
<1> DEFINE r == query[q]
           read == Read(q, f.rows, f.name)
           s == [r EXCEPT !.listed = r.listed \ {f}, !.parquet = r.parquet \cup read]
<1>3. r \in Request /\ Staged(q) /\ f \in File /\ f \in r.listed /\ f \in files
  BY DEF IInv, TypeInv, StageInv
<1>4. f.rows \in SUBSET Arrived /\ f.name \in Nat \ {0}
  BY <1>3 DEF IInv, RowsInv, RowsPlaced, File
<1>5. /\ read \in SUBSET Entry /\ IsFiniteSet(read)
      /\ \A a \in read : a.row \in f.rows /\ a.source = f.name /\ a.stamp = stamp[a.row]
      /\ \A row \in f.rows : Wanted(q, row) => \E a \in read : a.row = row
      /\ \A a, b \in read : a.row = b.row => a = b
  BY <1>4, ReadRows
<1>6. query' = [query EXCEPT ![q] = s]
  BY <1>1
<1> HIDE DEF r, read
<1>7. r.listed \ {f} \in SUBSET File /\ r.parquet \cup read \in SUBSET Entry
  BY <1>3, <1>5 DEF Request
<1>8. /\ s \in Request /\ s.listed = r.listed \ {f} /\ s.must = r.must /\ s.pc = r.pc
      /\ s.kind = r.kind /\ s.began = r.began /\ s.range = r.range
      /\ s.runtime = r.runtime /\ s.snapped = r.snapped
      /\ s.parquet = r.parquet \cup read
      /\ s.found = r.found /\ s.steady = r.steady
  BY <1>3, <1>7 DEF Request
<1> HIDE DEF s
<1>9. OnlyRequest(q) /\ query'[q] = s
  BY <1>2, <1>6, <1>8, RequestUpdate DEF IInv
<1>10. UNCHANGED <<stamp, live, files, doubled>> /\ r.pc = "open"
  BY <1>2 DEF r
<1>11. Staged(q)'
  BY <1>3, <1>8, <1>9, <1>10 DEF Staged, r
<1>12. ListedNamed(q)'
  <2>1. IsFiniteSet(s.listed)
    BY <1>8, FS_RemoveElement DEF IInv, NamesInv, ListedNamed, r
  <2>2. \A e \in r.listed :
          /\ e.form = "parquet"
          /\ \A g \in r.listed : e.name = g.name => e = g
          /\ \A g \in files : e.name = g.name => e.rows = g.rows /\ e.day = g.day
    BY DEF IInv, NamesInv, ListedNamed, r
  <2>3. QED
    BY <1>8, <1>9, <1>10, <2>1, <2>2 DEF ListedNamed
<1>13. RowsKnown(q)'
  <2>1. IsFiniteSet(s.parquet)
    <3>1. IsFiniteSet(r.parquet)
      BY DEF IInv, RowsInv, RowsKnown, r
    <3>2. IsFiniteSet(r.parquet \cup read)
      BY <1>5, <3>1, FS_Union
    <3>3. QED
      BY <1>8, <3>2
  <2>2. /\ \A e \in r.listed : e.rows \subseteq Arrived
        /\ IsFiniteSet(r.found) /\ r.steady \subseteq Arrived
        /\ \A a \in r.parquet \cup r.found : a.row \in Arrived /\ a.stamp = stamp[a.row]
        /\ \A a \in r.parquet : a.source # 0
        /\ \A a \in r.found : a.source = 0
    BY DEF IInv, RowsInv, RowsKnown, r
  <2>3. \A a \in read : a.row \in Arrived /\ a.stamp = stamp[a.row] /\ a.source # 0
    BY <1>4, <1>5
  <2>4. Arrived' = Arrived
    BY <1>10 DEF Arrived
  <2>5. QED
    BY <1>8, <1>9, <1>10, <2>1, <2>2, <2>3, <2>4 DEF RowsKnown
<1>14. ReadOnce(q)'
  <2>1. ReadOnce(q)
    BY DEF IInv, ReadInv
  <2>2. f.name \in Names(files)
    BY <1>3 DEF Names
  <2>3. \A a \in r.parquet, b \in read : a.row = b.row => a.row \in doubled
    BY <1>3, <1>5, <2>1, <2>2 DEF ReadOnce, r
  <2>4. \A a, b \in s.parquet : a.row = b.row => a = b \/ a.row \in doubled
    BY <1>5, <1>8, <2>1, <2>3 DEF ReadOnce, r
  <2>5. \A a \in read, g \in s.listed :
          g.name \in Names(files) /\ a.row \in g.rows => a.row \in doubled
    <3> SUFFICES ASSUME NEW a \in read, NEW g \in s.listed,
                        g.name \in Names(files), a.row \in g.rows
                 PROVE  a.row \in doubled
      OBVIOUS
    <3>1. g \in r.listed /\ g # f
      BY <1>8
    <3>2. g.name # f.name
      BY <1>3, <3>1 DEF IInv, NamesInv, ListedNamed, r
    <3>3. PICK h \in files : h.name = g.name
      BY DEF Names
    <3>4. h.rows = g.rows
      BY <3>1, <3>3 DEF IInv, NamesInv, ListedNamed, r
    <3>5. f.rows \cap h.rows \subseteq doubled
      BY <1>3, <3>2, <3>3 DEF IInv, PlaceInv
    <3>6. QED
      BY <1>5, <3>4, <3>5
  <2>6. \A a \in s.parquet, g \in s.listed :
          g.name \in Names(files) /\ a.row \in g.rows => a.row \in doubled
    BY <1>8, <2>1, <2>5 DEF ReadOnce, r
  <2>7. r.kind = "search" => s.found = {}
    BY <1>3, <1>8, <1>10 DEF Staged, r
  <2>8. QED
    BY <1>8, <1>9, <1>10, <2>4, <2>6, <2>7 DEF ReadOnce, Names
<1>15. SteadyMet(q)'
  <2> SUFFICES ASSUME NEW row \in r.steady, Wanted(q, row)', Day(row)' <= Date(r.began)
               PROVE  Reaches(q, row)'
    BY <1>8, <1>9 DEF SteadyMet
  <2>1. Wanted(q, row) /\ Day(row) <= Date(r.began)
    BY <1>8, <1>9, <1>10 DEF Wanted, Day, r
  <2>2. Reaches(q, row)
    BY <2>1 DEF IInv, SteadyInv, SteadyMet, r
  <2>3. QED
    BY <1>5, <1>8, <1>9, <1>10, <2>1, <2>2 DEF Reaches, Parquet, r
<1>16. \A row : Knows(q, row)' => Filed(row)
  <2>1. \A row \in f.rows : Filed(row)
    BY <1>3 DEF Filed
  <2>2. QED
    BY <1>5, <1>8, <1>9, <2>1, KnownIsFiled DEF Knows, r
<1>17. QED
  BY <1>2, <1>8, <1>9, <1>10, <1>11, <1>12, <1>13, <1>14, <1>15, <1>16, QuietStep DEF r

\* A query that gives its runtime back leaves no task on it.
LEMMA ParkKeeps == ASSUME IInv, NEW q \in Query, Park(q) PROVE IInv'
<1> DEFINE r == query[q]
           rt == r.runtime
           s == [r EXCEPT !.pc = "answered", !.runtime = None]
<1>1. /\ r.pc \in {"park", "wait"} /\ query' = [query EXCEPT ![q] = s]
      /\ \/ slot = None /\ slot' = rt /\ UNCHANGED tearing
         \/ tearing' = tearing \cup {rt} /\ UNCHANGED slot
      /\ UNCHANGED <<now, tiers, tasks, asyncDrop, faults>>
  BY DEF Park, Retire
<1>2. r \in Request /\ Staged(q) /\ <<rt, q>> \notin tasks
  BY <1>1 DEF IInv, TypeInv, StageInv, RuntimeInv
<1>3. rt \in Runtime /\ r.kind = "sql" /\ r.listed = {} /\ r.snapped
  BY <1>1, <1>2 DEF Staged, Request
<1>4. rt = r.runtime
  OBVIOUS
<1> HIDE DEF r, rt
<1>5. /\ s \in Request /\ s.listed = r.listed /\ s.must = r.must /\ s.pc = "answered"
      /\ s.kind = r.kind /\ s.began = r.began /\ s.range = r.range
      /\ s.runtime = None /\ s.snapped = r.snapped /\ s.parquet = r.parquet
      /\ s.found = r.found /\ s.steady = r.steady
  BY <1>2 DEF Request
<1> HIDE DEF s
<1>6. OnlyRequest(q) /\ query'[q] = s
  BY <1>1, <1>5, RequestUpdate DEF IInv, r, s
<1>7. UNCHANGED <<stamp, live, files, doubled>>
  BY <1>1
<1>8. Staged(q)'
  BY <1>1, <1>2, <1>3, <1>5, <1>6 DEF Staged, r
<1>9. ListedNamed(q)'
  BY <1>5, <1>6, <1>7 DEF IInv, NamesInv, ListedNamed, r
<1>10. RowsKnown(q)'
  BY <1>5, <1>6, <1>7 DEF IInv, RowsInv, RowsKnown, Arrived, r
<1>11. ReadOnce(q)'
  BY <1>5, <1>6, <1>7 DEF IInv, ReadInv, ReadOnce, r
<1>12. SteadyMet(q)'
  <2> SUFFICES ASSUME NEW row \in r.steady, Wanted(q, row)', Day(row)' <= Date(r.began)
               PROVE  Reaches(q, row)'
    BY <1>5, <1>6 DEF SteadyMet
  <2>1. Reaches(q, row)
    BY <1>5, <1>6, <1>7 DEF IInv, SteadyInv, SteadyMet, Wanted, Day, r
  <2>2. QED
    BY <1>1, <1>3, <1>5, <1>6, <1>7, <2>1 DEF Reaches, Parquet, r
<1>13. \A row : Knows(q, row)' => Filed(row)
  BY <1>5, <1>6, KnownIsFiled DEF Knows, r
<1>14. NamesInv' /\ RowsInv' /\ PlaceInv' /\ LossInv' /\ ReadInv' /\ SteadyInv'
  BY <1>6, <1>9, <1>10, <1>11, <1>12, <1>13, RequestFrame
<1>15. StageInv'
  <2>1. query[q].pc # "idle" /\ query'[q].pc # "idle"
    BY <1>1, <1>5, <1>6 DEF r
  <2>2. QED
    BY <1>6, <1>8, <2>1, StageFrame
<1>16. TypeInv'
  BY <1>1, <1>3, <1>6 DEF IInv, TypeInv, OnlyRequest, Arrived
<1>17. RuntimeInv'
  <2>1. query[q].runtime = rt
    BY <1>4 DEF r
  <2>2. query'[q].runtime = None /\ query'[q].pc \in {"answered", "over"}
    BY <1>5, <1>6
  <2>3. \/ /\ slot = None /\ slot' = rt /\ UNCHANGED <<tearing, asyncDrop>>
           /\ <<rt, q>> \notin tasks
        \/ tearing' = tearing \cup {rt} /\ UNCHANGED <<slot, asyncDrop>>
    BY <1>1, <1>2
  <2>4. UNCHANGED tasks
    BY <1>1
  <2>5. QED
    BY <1>3, <1>6, <2>1, <2>2, <2>3, <2>4, RuntimeGiven
<1>18. QED
  BY <1>14, <1>15, <1>16, <1>17 DEF IInv

\* A runtime that is torn down is nobody's.
LEMMA TearDownKeeps == ASSUME IInv, NEW rt \in Runtime, TearDown(rt) PROVE IInv'
<1>1. /\ rt \in tearing /\ tearing' = tearing \ {rt} /\ tasks' = {t \in tasks : t[1] # rt}
      /\ UNCHANGED <<now, tiers, query, slot, asyncDrop, faults>>
  BY DEF TearDown
<1>2. TypeInv'
  BY <1>1 DEF IInv, TypeInv, Arrived
<1>3. StageInv' /\ Served' = Served
  BY <1>1 DEF IInv, StageInv, Asked, Served, Staged
<1>4. NamesInv'
  BY <1>1 DEF IInv, NamesInv, FilesNamed, ListedNamed
<1>5. RowsInv'
  BY <1>1 DEF IInv, RowsInv, RowsPlaced, RowsKnown, Arrived, Unwritten, Day
<1>6. PlaceInv'
  BY <1>1 DEF IInv, PlaceInv, Filed, Knows, Day
<1>7. LossInv'
  BY <1>1 DEF IInv, LossInv, Arrived, RowsOf, Expired, Day
<1>8. Undisturbed
  BY <1>1, SameRequests DEF IInv
<1>9. ReadInv'
  BY <1>1, <1>8, TierRead
<1>10. SteadyInv'
  BY <1>1, <1>8, TierSteady DEF Parquet
<1>11. RuntimeInv'
  <2>1. RuntimesAreExclusive'
    BY <1>1 DEF IInv, RuntimeInv, RuntimesAreExclusive
  <2>2. InUse' \in SUBSET InUse
    BY <1>1 DEF InUse
  <2>3. Cardinality(InUse') <= Cardinality(Served')
    <3>1. /\ IsFiniteSet(InUse) /\ IsFiniteSet(InUse')
          /\ Cardinality(InUse') <= Cardinality(InUse)
      BY <2>2, InUseType, FS_Subset DEF IInv
    <3>2. Cardinality(InUse) \in Nat /\ Cardinality(InUse') \in Nat
      BY <3>1, FS_CardinalityType
    <3>3. QED
      BY <1>3, <3>1, <3>2, ServedFinite DEF IInv, RuntimeInv
  <2>4. QED
    BY <1>1, <2>1, <2>3 DEF IInv, RuntimeInv
<1>12. QED
  BY <1>2, <1>3, <1>4, <1>5, <1>6, <1>7, <1>9, <1>10, <1>11 DEF IInv

-----------------------------------------------------------------------------
(***************************************************************************)
(* The invariant                                                           *)
(***************************************************************************)
\* Nothing has arrived, no file is there, and every request is idle.
LEMMA InitHolds == Init => IInv
<1> SUFFICES ASSUME Init PROVE IInv
  OBVIOUS
<1>1. \A q \in Query : query[q] = Idle
  BY DEF Init
<1>2. Idle \in Request
  BY DEF Idle, Request, None
<1>3. TypeInv
  <2>1. query \in [Query -> Request]
    BY <1>2 DEF Init
  <2>2. now \in StartTime..MaxTime
    BY QueryAssumption DEF Init
  <2>3. QED
    BY <2>1, <2>2, QueryAssumption DEF Init, TypeInv
<1>4. Asked = {}
  BY <1>1 DEF Asked, Idle
<1>5. StageInv
  <2>1. 0 \in 0..MaxQuery /\ Asked = 1..0
    BY <1>4, QueryAssumption
  <2>2. \A q \in Query : Staged(q)
    BY <1>1 DEF Idle, Staged, None
  <2>3. QED
    BY <2>1, <2>2 DEF StageInv
<1>6. RuntimeInv
  <2>1. \A q \in Query : query[q].runtime = None /\ query[q].pc = "idle"
    BY <1>1 DEF Idle
  <2>2. slot = None /\ tasks = {} /\ tearing = {} /\ asyncDrop = {}
    BY DEF Init
  <2>3. InUse = {}
    BY <2>1, <2>2 DEF InUse
  <2>4. Cardinality(InUse) <= Cardinality(Served)
    BY <2>3, ServedFinite, FS_EmptySet
  <2>5. QED
    BY <2>1, <2>2, <2>4 DEF RuntimeInv, RuntimesAreExclusive
<1>7. NamesInv
  BY <1>1, FS_EmptySet DEF Init, Idle, NamesInv, FilesNamed, ListedNamed, Names
<1>8. RowsInv
  BY <1>1, FS_EmptySet DEF Init, Idle, RowsInv, RowsPlaced, RowsKnown
<1>9. PlaceInv
  BY DEF Init, PlaceInv
<1>10. LossInv
  BY DEF Init, LossInv, Arrived
<1>11. ReadInv /\ SteadyInv
  BY <1>1 DEF Idle, ReadInv, ReadOnce, SteadyInv, SteadyMet
<1>12. QED
  BY <1>3, <1>5, <1>6, <1>7, <1>8, <1>9, <1>10, <1>11 DEF IInv

\* Every step keeps the invariant, and so does no step.
LEMMA NextKeeps == IInv /\ [Next]_vars => IInv'
<1> SUFFICES ASSUME IInv, [Next]_vars PROVE IInv'
  OBVIOUS
<1>1. CASE Tick \/ Arrive \/ TakeLive \/ PublishChunk \/ FlushFails
  BY <1>1, TickKeeps, ArriveKeeps, TakeLiveKeeps, PublishChunkKeeps, FlushFailsKeeps
<1>2. CASE StartMerge \/ HideSource \/ PublishMerge \/ MergeFails
  BY <1>2, StartMergeKeeps, HideSourceKeeps, PublishMergeKeeps, MergeFailsKeeps
<1>3. CASE Purge
  BY <1>3, FindExpiredKeeps, PurgeFileKeeps, EndPurgeKeeps DEF Purge
<1>4. CASE \E q \in Query : BeginSql(q) \/ FindEmpty(q) \/ BuildFails(q) \/ BeginSearch(q)
  BY <1>4, BeginSqlKeeps, FindEmptyKeeps, BuildFailsKeeps, BeginSearchKeeps
<1>5. CASE \E q \in Query : Proceed(q)
  <2>1. PICK q \in Query : Proceed(q)
    BY <1>5
  <2>2. CASE Build(q) \/ ListFile(q) \/ EndListing(q) \/ SnapLive(q) \/ OpenFile(q)
    BY <2>2, BuildKeeps, ListFileKeeps, EndListingKeeps, SnapLiveKeeps, OpenFileKeeps
  <2>3. CASE FileGone(q) \/ Collected(q) \/ AwaitLock(q) \/ Park(q) \/ Respond(q)
    BY <2>3, FileGoneKeeps, CollectedKeeps, AwaitLockKeeps, ParkKeeps, RespondKeeps
  <2>4. QED
    BY <2>1, <2>2, <2>3 DEF Proceed
<1>6. CASE \E q \in Query : Timeout(q) \/ Cancel(q)
  BY <1>6, TimeoutKeeps, CancelKeeps
<1>7. CASE \E rt \in Runtime : TearDown(rt)
  BY <1>7, TearDownKeeps
<1>8. CASE UNCHANGED vars
  BY SMTT(30), <1>8 DEF IInv, TypeInv, StageInv, Staged, RuntimeInv, RuntimesAreExclusive, NamesInv,
    FilesNamed, ListedNamed, RowsInv, RowsPlaced, RowsKnown, PlaceInv, LossInv, ReadInv,
    ReadOnce, SteadyInv, SteadyMet, Reaches, Wanted, Filed, Knows, InUse, Asked, Served,
    Arrived,    Unwritten, Day, RowsOf, Expired, Parquet, Names
<1>9. QED
  BY <1>1, <1>2, <1>3, <1>4, <1>5, <1>6, <1>7, <1>8 DEF Next

\* The invariant holds of every behaviour.
THEOREM QueryInvariance == Spec => []IInv
<1>1. Init => IInv
  BY InitHolds
<1>2. IInv /\ [Next]_vars => IInv'
  BY NextKeeps
<1>3. QED
  BY <1>1, <1>2, PTL DEF Spec

\* Rows, files and requests are of their types, rows lie in the file of their
\* day, and no two files have one name.
THEOREM QueriesAreTyped == Spec => []QueryInv
<1>1. IInv => QueryInv
  <2> SUFFICES ASSUME IInv PROVE QueryInv
    OBVIOUS
  <2>1. \A f \in files \cup merge :
          /\ f.form \in {"parquet", "hidden"}
          /\ f.rows \subseteq Arrived /\ \A row \in f.rows : Day(row) = f.day
    BY DEF IInv, TypeInv, File, RowsInv, RowsPlaced
  <2>2. \A f, g \in files : f.name = g.name => f = g
    BY DEF IInv, NamesInv, FilesNamed
  <2>3. \A q \in Query : query[q].runtime \in Runtime \cup {None}
    BY DEF IInv, TypeInv, Request
  <2>4. QED
    BY <2>1, <2>2, <2>3 DEF QueryInv, IInv, TypeInv
<1>2. QED
  BY <1>1, QueryInvariance, PTL

\* No runtime is shared, handed out twice or lost, and the tasks a request left
\* behind run where they are being torn down.
THEOREM RuntimesHaveOneOwner == Spec => []RuntimesAreExclusive
<1>1. IInv => RuntimesAreExclusive
  BY DEF IInv, RuntimeInv
<1>2. QED
  BY <1>1, QueryInvariance, PTL

\* A row that flushes, merges and sweeps have left in no tier is older than the
\* retention.
THEOREM RetentionIsTheOnlyLoss == Spec => []OnlyExpiredRowsGo
<1>1. IInv => OnlyExpiredRowsGo
  <2> SUFFICES ASSUME IInv, NEW row \in Arrived, row \notin live \cup taken \cup RowsOf(files)
               PROVE  stamp[row] + RetentionDays * DayLength < now
    BY DEF OnlyExpiredRowsGo
  <2>1. Expired(Date(stamp[row]))
    BY DEF IInv, LossInv, Day
  <2>2. stamp[row] \in Int
    BY StampType DEF IInv
  <2>3. now \in Int
    BY QueryAssumption DEF IInv, TypeInv
  <2>4. QED
    BY <2>1, <2>2, <2>3, ExpiredIsOld
<1>2. QED
  BY <1>1, QueryInvariance, PTL

\* A search reads no row twice, unless a flush that failed stored it twice.
THEOREM SearchesReadOnce == Spec => []SearchReadsOnce
<1>1. IInv => SearchReadsOnce
  <2> SUFFICES ASSUME IInv, NEW q \in Query, query[q].kind = "search",
                      NEW a \in query[q].parquet \cup query[q].found,
                      NEW b \in query[q].parquet \cup query[q].found, a.row = b.row
               PROVE  a = b \/ a.row \in doubled
    BY DEF SearchReadsOnce
  <2>1. ReadOnce(q)
    BY DEF IInv, ReadInv
  <2>2. \A c, d \in query[q].found : c.row = d.row => c = d
    <3>1. \A c \in query[q].found : c \in Entry /\ c.source = 0 /\ c.stamp = stamp[c.row]
      BY DEF IInv, TypeInv, Request, RowsInv, RowsKnown
    <3>2. QED
      BY <3>1 DEF Entry
  <2>3. QED
    BY <2>1, <2>2 DEF ReadOnce
<1>2. QED
  BY <1>1, QueryInvariance, PTL

\* An answer has every wanted row that stayed where it was while the request ran.
THEOREM AnswersHaveSteadyRows == Spec => []SteadyRowsFound
<1>1. IInv => SteadyRowsFound
  <2> SUFFICES ASSUME IInv, NEW q \in Query, query[q].pc = "answered",
                      NEW row \in query[q].steady, Wanted(q, row),
                      Day(row) <= Date(query[q].began)
               PROVE  \E a \in query[q].parquet \cup query[q].found : a.row = row
    BY DEF SteadyRowsFound
  <2>1. Reaches(q, row)
    BY DEF IInv, SteadyInv, SteadyMet
  <2>2. query[q].listed = {} /\ query[q].snapped
    <3>1. query[q].kind \in {"none", "sql", "search"}
      BY DEF IInv, TypeInv, Request
    <3>2. Staged(q)
      BY DEF IInv, StageInv
    <3>3. QED
      BY <3>1, <3>2 DEF Staged
  <2>3. QED
    BY <2>1, <2>2 DEF Reaches
<1>2. QED
  BY <1>1, QueryInvariance, PTL

-----------------------------------------------------------------------------
(***************************************************************************)
(* Two tiers, one aggregate                                                *)
(***************************************************************************)
\* The later of two times.
LEMMA LatestOfTwo ==
    ASSUME NEW x \in Int, NEW y \in Int
    PROVE  Latest({x, y}) = IF x <= y THEN y ELSE x
<1> DEFINE m == IF x <= y THEN y ELSE x
<1>1. m \in {x, y} /\ \A t \in {x, y} : t <= m
  OBVIOUS
<1>2. \A s \in {x, y} : (\A t \in {x, y} : t <= s) => s = m
  OBVIOUS
<1>3. QED
  BY <1>1, <1>2 DEF Latest

\* What GroupRow says was seen last: a stamp of the rows, and the latest, or 0.
LEMMA LastSeen ==
    ASSUME NEW rows \in SUBSET Entry, IsFiniteSet(rows)
    PROVE  /\ GroupRow(rows).last_seen \in Nat
           /\ \A a \in rows : a.stamp <= GroupRow(rows).last_seen
           /\ rows # {} => \E a \in rows : a.stamp = GroupRow(rows).last_seen
           /\ rows = {} => GroupRow(rows).last_seen = 0
<1> DEFINE stamps == {a.stamp : a \in rows}
<1>1. CASE rows = {}
  BY <1>1 DEF GroupRow
<1>2. CASE rows # {}
  <2>1. stamps \in SUBSET Nat /\ stamps # {}
    BY <1>2 DEF Entry
  <2>2. IsFiniteSet(stamps)
    <3>1. [a \in rows |-> a.stamp] \in Surjection(rows, stamps)
      BY DEF Surjection
    <3>2. QED
      BY <3>1, FS_Surjection
  <2>3. GroupRow(rows).last_seen = Latest(stamps)
    BY <1>2 DEF GroupRow
  <2>4. Latest(stamps) \in stamps /\ \A t \in stamps : t <= Latest(stamps)
    <3> HIDE DEF stamps
    <3>1. \E s \in stamps : \A t \in stamps : t <= s
      BY <2>1, <2>2, LargestExists
    <3>2. QED
      BY <3>1 DEF Latest
  <2>5. QED
    BY <1>2, <2>1, <2>3, <2>4
<1>3. QED
  BY <1>1, <1>2

\* The group of two sets of rows that share none.
LEMMA GroupUnion ==
    ASSUME NEW R \in SUBSET Entry, NEW S \in SUBSET Entry, IsFiniteSet(R), IsFiniteSet(S),
           R \cap S = {}
    PROVE  /\ GroupRow(R).count \in Nat /\ GroupRow(S).count \in Nat
           /\ GroupRow(R \cup S).count = GroupRow(R).count + GroupRow(S).count
           /\ GroupRow(R \cup S).last_seen
                = Latest({GroupRow(R).last_seen, GroupRow(S).last_seen})
<1>1. IsFiniteSet(R \cup S) /\ R \cup S \in SUBSET Entry
  BY FS_Union
<1>2. \A T : GroupRow(T).count = Cardinality(T)
  BY DEF GroupRow
<1>3. Cardinality(R \cup S) = Cardinality(R) + Cardinality(S) - Cardinality(R \cap S)
  BY FS_Union
<1>4. Cardinality(R) \in Nat /\ Cardinality(S) \in Nat /\ Cardinality(R \cap S) = 0
  BY FS_CardinalityType, FS_EmptySet
<1>5. GroupRow(R \cup S).count = GroupRow(R).count + GroupRow(S).count
  BY <1>2, <1>3, <1>4
<1> DEFINE m == GroupRow(R \cup S).last_seen
           r == GroupRow(R).last_seen
           s == GroupRow(S).last_seen
<1>6. /\ m \in Nat /\ \A a \in R \cup S : a.stamp <= m
      /\ R \cup S # {} => \E a \in R \cup S : a.stamp = m
      /\ R \cup S = {} => m = 0
  BY <1>1, LastSeen
<1>7. /\ r \in Nat /\ \A a \in R : a.stamp <= r
      /\ R # {} => \E a \in R : a.stamp = r
      /\ R = {} => r = 0
  BY LastSeen
<1>8. /\ s \in Nat /\ \A a \in S : a.stamp <= s
      /\ S # {} => \E a \in S : a.stamp = s
      /\ S = {} => s = 0
  BY LastSeen
<1> HIDE DEF m, r, s
<1>9. r <= m /\ s <= m /\ (m <= r \/ m <= s)
  BY <1>6, <1>7, <1>8
<1>10. m = IF r <= s THEN s ELSE r
  BY <1>6, <1>7, <1>8, <1>9
<1>11. m = Latest({r, s})
  BY <1>7, <1>8, <1>10, LatestOfTwo
<1>12. QED
  BY <1>2, <1>4, <1>5, <1>11 DEF m, r, s

\* A group of no rows.
LEMMA GroupOfNone == GroupRow({}) = [count |-> 0, last_seen |-> 0]
BY FS_EmptySet DEF GroupRow

\* merge_aggregate makes of the aggregates of two tiers that share no row the
\* aggregate of all their rows.
LEMMA AggregatesMerge ==
    ASSUME NEW P \in SUBSET Entry, NEW L \in SUBSET Entry, IsFiniteSet(P), IsFiniteSet(L),
           P \cap L = {}, NEW width
    PROVE  merge_aggregate(TierAggregate(P, width), TierAggregate(L, width))
             = TierAggregate(P \cup L, width)
<1> DEFINE Of(S, b) == {r \in S : Bucket(r.stamp, width) = b}
           Dom(S) == {Bucket(r.stamp, width) : r \in S} \cup (IF width = 0 THEN {0} ELSE {})
           p == TierAggregate(P, width)
           l == TierAggregate(L, width)
           u == TierAggregate(P \cup L, width)
<1>1. /\ p = [b \in Dom(P) |-> GroupRow(Of(P, b))]
      /\ l = [b \in Dom(L) |-> GroupRow(Of(L, b))]
      /\ u = [b \in Dom(P \cup L) |-> GroupRow(Of(P \cup L, b))]
  BY DEF TierAggregate
<1>2. Dom(P \cup L) = Dom(P) \cup Dom(L)
  OBVIOUS
<1>3. \A b : /\ b \notin Dom(P) => Of(P, b) = {}
             /\ b \notin Dom(L) => Of(L, b) = {}
             /\ Of(P \cup L, b) = Of(P, b) \cup Of(L, b)
             /\ Of(P, b) \cap Of(L, b) = {}
             /\ Of(P, b) \in SUBSET P /\ Of(L, b) \in SUBSET L
  OBVIOUS
<1> HIDE DEF Of, Dom, p, l, u
<1> DEFINE none == [count |-> 0, last_seen |-> Never]
           Entered(b) == IF b \in Dom(P) THEN Combine(none, p[b]) ELSE none
           merged == [b \in Dom(P) \cup Dom(L) |->
                        IF b \in Dom(L) THEN Combine(Entered(b), l[b]) ELSE Entered(b)]
<1>4. DOMAIN p = Dom(P) /\ DOMAIN l = Dom(L)
  BY <1>1
<1>5. merge_aggregate(p, l) = merged
  BY <1>4 DEF merge_aggregate
<1>6. ASSUME NEW b \in Dom(P) \cup Dom(L)
      PROVE  merged[b] = u[b]
  <2> DEFINE gp == GroupRow(Of(P, b))
             gl == GroupRow(Of(L, b))
             gu == GroupRow(Of(P \cup L, b))
  <2>1. IsFiniteSet(Of(P, b)) /\ IsFiniteSet(Of(L, b))
    BY <1>3, FS_Subset
  <2>2. Of(P, b) \in SUBSET Entry /\ Of(L, b) \in SUBSET Entry
    BY <1>3
  <2>3. /\ gp.count \in Nat /\ gl.count \in Nat /\ gp.last_seen \in Nat /\ gl.last_seen \in Nat
        /\ gu.count = gp.count + gl.count
        /\ gu.last_seen = Latest({gp.last_seen, gl.last_seen})
    <3>1. /\ Of(P \cup L, b) = Of(P, b) \cup Of(L, b)
          /\ Of(P, b) \cap Of(L, b) = {}
      BY <1>3
    <3>2. gp.last_seen \in Nat /\ gl.last_seen \in Nat
      BY <2>1, <2>2, LastSeen
    <3>3. /\ gp.count \in Nat /\ gl.count \in Nat
          /\ GroupRow(Of(P, b) \cup Of(L, b)).count = gp.count + gl.count
          /\ GroupRow(Of(P, b) \cup Of(L, b)).last_seen
               = Latest({gp.last_seen, gl.last_seen})
      BY <2>1, <2>2, <3>1, GroupUnion
    <3>4. QED
      BY <3>1, <3>2, <3>3
  <2>4. /\ gp = [count |-> gp.count, last_seen |-> gp.last_seen]
        /\ gl = [count |-> gl.count, last_seen |-> gl.last_seen]
        /\ gu = [count |-> gu.count, last_seen |-> gu.last_seen]
    BY DEF GroupRow
  <2>5. /\ b \in Dom(P) => p[b] = gp
        /\ b \in Dom(L) => l[b] = gl
        /\ u[b] = gu
    BY <1>1, <1>2
  <2>6. /\ b \notin Dom(P) => gp.count = 0 /\ gp.last_seen = 0
        /\ b \notin Dom(L) => gl.count = 0 /\ gl.last_seen = 0
    BY <1>3, GroupOfNone
  <2> HIDE DEF gp, gl, gu
  <2>7. gu.last_seen = IF gp.last_seen <= gl.last_seen THEN gl.last_seen ELSE gp.last_seen
    BY <2>3, LatestOfTwo
  <2>8. \A x \in Nat : Latest({Never, x}) = x
    BY LatestOfTwo DEF Never
  <2>9. Combine(none, gp) = gp
    BY <2>3, <2>4, <2>8 DEF Combine
  <2>10. Entered(b) = IF b \in Dom(P) THEN gp ELSE none
    BY <2>5, <2>9
  <2>11. CASE b \notin Dom(L)
    <3>1. gu.count = gp.count /\ gu.last_seen = gp.last_seen
      BY <2>3, <2>6, <2>7, <2>11
    <3>2. gu = gp
      BY <2>4, <3>1
    <3>3. QED
      BY <2>5, <2>10, <2>11, <3>2
  <2>12. CASE b \in Dom(L) /\ b \notin Dom(P)
    <3>1. Combine(none, gl) = gl
      BY <2>3, <2>4, <2>8 DEF Combine
    <3>2. gu.count = gl.count /\ gu.last_seen = gl.last_seen
      BY <2>3, <2>6, <2>7, <2>12
    <3>3. gu = gl
      BY <2>4, <3>2
    <3>4. QED
      BY <2>5, <2>10, <2>12, <3>1, <3>3
  <2>13. CASE b \in Dom(L) /\ b \in Dom(P)
    <3>1. Combine(gp, gl) = gu
      BY <2>3, <2>4 DEF Combine
    <3>2. QED
      BY <2>5, <2>10, <2>13, <3>1
  <2>14. QED
    BY <2>11, <2>12, <2>13
<1>7. u = [b \in Dom(P) \cup Dom(L) |-> u[b]]
  BY <1>1, <1>2
<1>8. merged = u
  BY <1>6, <1>7
<1>9. QED
  BY <1>5, <1>8 DEF p, l, u

\* An aggregate of a search is the aggregate of both tiers together, for every
\* width of a bucket.
THEOREM SearchesAggregateAll == Spec => []AggregatesAreGlobal
<1>1. IInv => AggregatesAreGlobal
  <2> SUFFICES ASSUME IInv, NEW q \in Query, NEW width \in 0..DayLength
               PROVE  merge_aggregate(TierAggregate(query[q].parquet, width),
                                      TierAggregate(query[q].found, width))
                        = TierAggregate(query[q].parquet \cup query[q].found, width)
    BY DEF AggregatesAreGlobal
  <2>1. query[q].parquet \in SUBSET Entry /\ query[q].found \in SUBSET Entry
    BY DEF IInv, TypeInv, Request
  <2>2. /\ IsFiniteSet(query[q].parquet) /\ IsFiniteSet(query[q].found)
        /\ query[q].parquet \cap query[q].found = {}
    BY DEF IInv, RowsInv, RowsKnown
  <2>3. QED
    BY <2>1, <2>2, AggregatesMerge
<1>2. QED
  BY <1>1, QueryInvariance, PTL

-----------------------------------------------------------------------------
(***************************************************************************)
(* Pages                                                                   *)
(***************************************************************************)
InStampOrder(g) == \A i, j \in DOMAIN g : i < j => g[i].stamp >= g[j].stamp

\* The entries no older than a stamp.
Since(S, v) == {r \in S : r.stamp >= v}

\* A finite set of entries that is not empty has an oldest one.
LEMMA OldestExists ==
    ASSUME NEW S \in SUBSET Entry, IsFiniteSet(S), S # {}
    PROVE  \E x \in S : \A y \in S : x.stamp <= y.stamp
<1> DEFINE T == {r.stamp : r \in S}
           f == [r \in S |-> r.stamp]
<1>1. T \in SUBSET Nat /\ T # {}
  BY DEF Entry
<1>2. IsFiniteSet(T)
  <2>1. f \in Surjection(S, T)
    BY DEF Surjection
  <2>2. QED
    BY <2>1, FS_Surjection
<1>3. \E n \in T : \A m \in T : n <= m
  <2> HIDE DEF T
  <2>1. QED
    BY <1>1, <1>2, SmallestExists
<1>4. QED
  BY <1>3

\* A sequence that is in order stays so with an older entry at its end.
LEMMA OrderExtends ==
    ASSUME NEW S \in SUBSET Entry, IsFiniteSet(S),
           NEW x \in S, \A y \in S : x.stamp <= y.stamp,
           NEW g \in SetToSeqs(S \ {x}), InStampOrder(g)
    PROVE  \E h \in SetToSeqs(S) : InStampOrder(h)
<1> DEFINE m == Cardinality(S \ {x})
           h == [i \in 1..(m + 1) |-> IF i = m + 1 THEN x ELSE g[i]]
<1>1. Cardinality(S) = m + 1 /\ m \in Nat
  <2>1. IsFiniteSet(S \ {x}) /\ Cardinality(S \ {x}) = Cardinality(S) - 1
    BY FS_RemoveElement
  <2>2. Cardinality(S) \in Nat /\ m \in Nat
    BY <2>1, FS_CardinalityType
  <2>3. QED
    BY <2>1, <2>2
<1>2. /\ g \in [1..m -> S \ {x}] /\ DOMAIN g = 1..m
      /\ \A i, j \in 1..m : i # j => g[i] # g[j]
  BY DEF SetToSeqs
<1> HIDE DEF m
<1>3. /\ \A i \in 1..(m + 1) : i # m + 1 => i \in 1..m
      /\ m + 1 \in 1..(m + 1)
  BY <1>1
<1>4. h \in [1..(m + 1) -> S] /\ DOMAIN h = 1..(m + 1)
  BY <1>2, <1>3
<1>5. \A i, j \in 1..(m + 1) : i # j => h[i] # h[j]
  BY <1>2, <1>3
<1>6. h \in SetToSeqs(S)
  <2> HIDE DEF h
  <2>1. QED
    BY <1>1, <1>4, <1>5 DEF SetToSeqs
<1>7. ASSUME NEW i \in 1..(m + 1), NEW j \in 1..(m + 1), i < j
      PROVE  h[i].stamp >= h[j].stamp
  <2>1. i # m + 1 /\ i \in 1..m
    BY <1>1, <1>7
  <2>2. h[i] = g[i] /\ g[i] \in S
    BY <1>2, <2>1
  <2>3. CASE j = m + 1
    <3>1. h[j] = x /\ x.stamp <= g[i].stamp
      BY <2>2, <2>3
    <3>2. x.stamp \in Nat /\ g[i].stamp \in Nat
      BY <2>2 DEF Entry
    <3>3. QED
      BY <2>2, <3>1, <3>2
  <2>4. CASE j # m + 1
    <3>1. j \in 1..m /\ h[j] = g[j]
      BY <1>3, <1>7, <2>4
    <3>2. QED
      BY <1>2, <1>7, <2>1, <2>2, <3>1 DEF InStampOrder
  <2>5. QED
    BY <2>3, <2>4
<1>8. InStampOrder(h)
  <2> HIDE DEF h
  <2>1. QED
    BY <1>4, <1>7 DEF InStampOrder
<1>9. QED
  BY <1>6, <1>8

\* A finite set of entries can be put in order.  Of the subsets that cannot, one
\* with no such subset of its own would lose its oldest entry and still not be.
LEMMA OrderExists ==
    ASSUME NEW S \in SUBSET Entry, IsFiniteSet(S)
    PROVE  \E g \in SetToSeqs(S) : InStampOrder(g)
<1> DEFINE Ordered(T) == \E g \in SetToSeqs(T) : InStampOrder(g)
           Bad == {T \in SUBSET S : ~Ordered(T)}
<1> SUFFICES ASSUME Bad # {} PROVE FALSE
  OBVIOUS
<1>1. Bad \subseteq FiniteSubsetsOf(S)
  BY FS_Subset DEF FiniteSubsetsOf
<1>2. PICK X \in Bad : \A Y \in Bad : ~(<<Y, X>> \in StrictSubsetOrdering(S))
  <2>1. IsWellFoundedOn(StrictSubsetOrdering(S), FiniteSubsetsOf(S))
    BY FS_StrictSubsetOrderingWellFounded
  <2> HIDE DEF Bad
  <2>2. QED
    BY <1>1, <2>1, WFMin
<1>3. X \in SUBSET S /\ X \in SUBSET Entry /\ IsFiniteSet(X) /\ ~Ordered(X)
  BY FS_Subset
<1>4. X # {}
  <2> SUFFICES ASSUME X = {} PROVE FALSE
    OBVIOUS
  <2> DEFINE g == [i \in 1..0 |-> i]
  <2>1. Cardinality(X) = 0
    BY FS_EmptySet
  <2>2. g \in [1..0 -> X] /\ DOMAIN g = 1..0 /\ \A i \in 1..0 : FALSE
    OBVIOUS
  <2>3. g \in SetToSeqs(X)
    BY <2>1, <2>2 DEF SetToSeqs
  <2>4. InStampOrder(g)
    BY <2>2 DEF InStampOrder
  <2>5. QED
    BY <1>3, <2>3, <2>4
<1>5. PICK x \in X : \A y \in X : x.stamp <= y.stamp
  BY <1>3, <1>4, OldestExists
<1>6. Ordered(X \ {x})
  <2>1. X \ {x} \in SUBSET S /\ <<X \ {x}, X>> \in StrictSubsetOrdering(S)
    BY <1>3 DEF StrictSubsetOrdering
  <2>2. X \ {x} \notin Bad
    BY <1>2, <2>1
  <2>3. QED
    BY <2>1, <2>2
<1>7. Ordered(X)
  BY <1>3, <1>5, <1>6, OrderExtends
<1>8. QED
  BY <1>3, <1>7

\* Newest first: every entry once, and the stamps in order.
LEMMA NewestFirstIs ==
    ASSUME NEW S \in SUBSET Entry, IsFiniteSet(S),
           NEW g, g = NewestFirst(S), NEW n, n = Cardinality(S)
    PROVE  /\ n \in Nat /\ g \in [1..n -> S] /\ DOMAIN g = 1..n
           /\ g \in Seq(S) /\ Len(g) = n
           /\ \A i, j \in 1..n : i # j => g[i] # g[j]
           /\ \A x \in S : \E i \in 1..n : g[i] = x
           /\ \A i, j \in 1..n : i < j => g[i].stamp >= g[j].stamp
<1>1. n \in Nat
  BY FS_CardinalityType
<1>2. g \in SetToSeqs(S) /\ InStampOrder(g)
  BY OrderExists DEF NewestFirst, InStampOrder
<1>3. /\ g \in [1..n -> S] /\ DOMAIN g = 1..n
      /\ \A i, j \in 1..n : i # j => g[i] # g[j]
  BY <1>2 DEF SetToSeqs
<1>4. \A x \in S : \E i \in 1..n : g[i] = x
  <2>1. g \in Injection(1..n, S)
    BY <1>3 DEF Injection, IsInjective
  <2>2. IsFiniteSet(1..n) /\ Cardinality(1..n) = n
    BY <1>1, FS_Interval
  <2>3. g \in Surjection(1..n, S)
    BY <2>1, <2>2, FS_Injection
  <2>4. QED
    BY <2>3 DEF Surjection
<1>5. g \in Seq(S) /\ Len(g) = n
  BY <1>1, <1>3
<1>6. QED
  BY <1>1, <1>2, <1>3, <1>4, <1>5 DEF InStampOrder

\* The k-th newest is no older than a stamp when k entries are not.
LEMMA KthNewest ==
    ASSUME NEW S \in SUBSET Entry, IsFiniteSet(S),
           NEW k \in 1..Cardinality(S), NEW v \in Nat
    PROVE  /\ NewestFirst(S)[k].stamp \in Nat
           /\ NewestFirst(S)[k].stamp >= v <=> Cardinality(Since(S, v)) >= k
<1> DEFINE g == NewestFirst(S)
           n == Cardinality(S)
           T == Since(S, v)
<1>1. /\ n \in Nat /\ g \in [1..n -> S]
      /\ \A i, j \in 1..n : i # j => g[i] # g[j]
      /\ \A x \in S : \E i \in 1..n : g[i] = x
      /\ \A i, j \in 1..n : i < j => g[i].stamp >= g[j].stamp
  BY NewestFirstIs
<1>2. T \in SUBSET S /\ IsFiniteSet(T)
  BY FS_Subset DEF Since
<1>3. Cardinality(T) \in Nat
  BY <1>2, FS_CardinalityType
<1>4. k \in 1..n
  OBVIOUS
<1> HIDE DEF g, n
<1>5. \A i \in 1..n : g[i] \in S /\ g[i].stamp \in Nat
  BY <1>1 DEF Entry
<1>6. ASSUME g[k].stamp >= v PROVE Cardinality(T) >= k
  <2> DEFINE f == [i \in 1..k |-> g[i]]
  <2>1. \A i \in 1..k : i \in 1..n
    BY <1>1, <1>4
  <2>2. \A i \in 1..k : g[i].stamp >= v
    <3> TAKE i \in 1..k
    <3>1. i = k \/ i < k
      BY <1>1, <1>4
    <3>2. i \in 1..n
      BY <2>1
    <3>3. g[i].stamp = g[k].stamp \/ g[i].stamp >= g[k].stamp
      BY <1>1, <1>4, <3>1, <3>2
    <3>4. g[i].stamp \in Nat /\ g[k].stamp \in Nat
      BY <1>4, <1>5, <3>2
    <3>5. QED
      BY <1>6, <3>3, <3>4
  <2>3. f \in [1..k -> T]
    BY <1>5, <2>1, <2>2 DEF Since
  <2>4. \A i, j \in 1..k : f[i] = f[j] => i = j
    BY <1>1, <2>1
  <2>5. f \in Injection(1..k, T)
    <3> HIDE DEF f, T
    <3>1. DOMAIN f = 1..k
      BY <2>3
    <3>2. QED
      BY <2>3, <2>4, <3>1 DEF Injection, IsInjective
  <2>6. Cardinality(1..k) <= Cardinality(T)
    <3> HIDE DEF f, T
    <3>1. QED
      BY <1>2, <2>5, FS_Injection
  <2>7. k \in Nat /\ Cardinality(1..k) = k
    <3>1. k \in Nat /\ 1 <= k
      BY <1>1, <1>4
    <3>2. QED
      BY <3>1, FS_Interval
  <2>8. QED
    BY <1>3, <2>6, <2>7
<1>7. ASSUME ~(g[k].stamp >= v) PROVE Cardinality(T) < k
  <2> DEFINE P == {i \in 1..n : i < k /\ g[i].stamp >= v}
             f == [i \in P |-> g[i]]
  <2>1. ASSUME NEW x \in T PROVE \E i \in P : f[i] = x
    <3>1. x \in S /\ x.stamp >= v
      BY <2>1 DEF Since
    <3>2. PICK i \in 1..n : g[i] = x
      BY <1>1, <3>1
    <3>3. i < k
      <4> SUFFICES ASSUME ~(i < k) PROVE FALSE
        OBVIOUS
      <4>1. i = k \/ k < i
        BY <1>1, <1>4
      <4>2. i # k
        BY <1>7, <3>1, <3>2
      <4>3. g[k].stamp >= g[i].stamp
        BY <1>1, <1>4, <4>1, <4>2
      <4>4. g[k].stamp \in Nat /\ g[i].stamp \in Nat
        BY <1>4, <1>5
      <4>5. QED
        BY <1>7, <3>1, <3>2, <4>3, <4>4
    <3>4. i \in P
      BY <3>1, <3>2, <3>3
    <3>5. QED
      BY <3>2, <3>4
  <2>2. f \in [P -> T]
    BY <1>5 DEF Since
  <2>3. P \in SUBSET (1..(k - 1))
    BY <1>1, <1>4
  <2>4. f \in Surjection(P, T)
    <3> HIDE DEF P, T, f
    <3>1. QED
      BY <2>1, <2>2 DEF Surjection
  <2>5. k \in Nat /\ k - 1 \in Nat
    BY <1>1, <1>4
  <2>6. IsFiniteSet(1..(k - 1)) /\ Cardinality(1..(k - 1)) = k - 1
    <3> DEFINE j == k - 1
    <3>1. j \in Nat
      BY <2>5
    <3> HIDE DEF j
    <3>2. IsFiniteSet(1..j) /\ Cardinality(1..j) = j
      BY <3>1, FS_Interval
    <3>3. QED
      BY <3>2 DEF j
  <2>7. IsFiniteSet(P) /\ Cardinality(P) <= Cardinality(1..(k - 1))
    <3> HIDE DEF P
    <3>1. QED
      BY <2>3, <2>6, FS_Subset
  <2>8. Cardinality(T) <= Cardinality(P) /\ Cardinality(P) \in Nat
    <3> HIDE DEF P, T, f
    <3>1. QED
      BY <2>4, <2>7, FS_Surjection, FS_CardinalityType
  <2> HIDE DEF P, T
  <2>9. QED
    BY <1>3, <2>5, <2>6, <2>7, <2>8
<1>8. k \in Nat /\ g[k].stamp \in Nat
  BY <1>1, <1>4, <1>5
<1> HIDE DEF T
<1>9. g[k].stamp >= v <=> Cardinality(T) >= k
  BY <1>3, <1>6, <1>7, <1>8
<1>10. QED
  BY <1>8, <1>9 DEF g, T

\* The first entries of a sequence.
LEMMA FirstOfIs ==
    ASSUME NEW S, NEW g \in Seq(S), NEW n \in Nat
    PROVE  LET m == IF n < Len(g) THEN n ELSE Len(g)
           IN  /\ m \in Nat /\ m <= n /\ m <= Len(g)
               /\ FirstOf(g, n) \in Seq(S) /\ Len(FirstOf(g, n)) = m
               /\ \A i \in 1..m : FirstOf(g, n)[i] = g[i]
<1> DEFINE m == IF n < Len(g) THEN n ELSE Len(g)
<1>1. Len(g) \in Nat
  OBVIOUS
<1>2. m \in Nat /\ m <= n /\ m <= Len(g)
  BY <1>1
<1>3. FirstOf(g, n) = SubSeq(g, 1, m)
  BY DEF FirstOf
<1> HIDE DEF m
<1>4. /\ SubSeq(g, 1, m) \in Seq(S) /\ Len(SubSeq(g, 1, m)) = m
      /\ \A i \in 1..m : SubSeq(g, 1, m)[i] = g[i]
  BY <1>1, <1>2
<1>5. QED
  BY <1>2, <1>3, <1>4 DEF m

\* What a tier returns: all it has, or that many of the newest.
LEMMA TopIs ==
    ASSUME NEW S \in SUBSET Entry, IsFiniteSet(S), NEW n \in Nat
    PROVE  /\ Top(S, n) \in SUBSET S
           /\ \A x \in S \ Top(S, n) :
                 /\ Cardinality(Top(S, n)) = n
                 /\ \A y \in Top(S, n) : y.stamp >= x.stamp
<1> DEFINE g == NewestFirst(S)
           c == Cardinality(S)
           m == IF n < c THEN n ELSE c
           T == {g[i] : i \in 1..m}
<1>1. /\ c \in Nat /\ g \in [1..c -> S] /\ g \in Seq(S) /\ Len(g) = c
      /\ \A i, j \in 1..c : i # j => g[i] # g[j]
      /\ \A x \in S : \E i \in 1..c : g[i] = x
      /\ \A i, j \in 1..c : i < j => g[i].stamp >= g[j].stamp
  BY NewestFirstIs
<1> HIDE DEF g, c
<1>2. /\ m \in Nat /\ m <= n /\ m <= c
      /\ FirstOf(g, n) \in Seq(S) /\ Len(FirstOf(g, n)) = m
      /\ \A i \in 1..m : FirstOf(g, n)[i] = g[i]
  BY <1>1, FirstOfIs
<1>3. \A i \in 1..m : i \in 1..c
  BY <1>1, <1>2
<1>4. Top(S, n) = T
  <2> DEFINE f == FirstOf(g, n)
  <2>1. DOMAIN f = 1..m
    BY <1>2
  <2>2. Top(S, n) = {f[i] : i \in DOMAIN f}
    BY DEF Top, ToSet, g
  <2> HIDE DEF m
  <2>3. QED
    BY <1>2, <2>1, <2>2
<1>5. T \in SUBSET S
  <2> HIDE DEF m
  <2>1. QED
    BY <1>1, <1>3
<1>6. ASSUME NEW x \in S \ T
      PROVE  Cardinality(T) = n /\ \A y \in T : y.stamp >= x.stamp
  <2>1. PICK j \in 1..c : g[j] = x
    BY <1>1
  <2>2. ~(j <= m)
    <3> HIDE DEF m
    <3>1. QED
      BY <1>1, <1>2, <1>6, <2>1
  <2>3. m = n
    BY <1>1, <2>1, <2>2
  <2> HIDE DEF m
  <2>4. Cardinality(T) = n
    <3> DEFINE f == [i \in 1..n |-> g[i]]
    <3>1. f \in Surjection(1..n, T)
      BY <2>3 DEF Surjection
    <3>2. f \in Injection(1..n, T)
      <4>1. \A a, b \in 1..n : f[a] = f[b] => a = b
        BY <1>1, <1>3, <2>3
      <4>2. f \in [1..n -> T] /\ DOMAIN f = 1..n
        BY <2>3
      <4> HIDE DEF f, T
      <4>3. QED
        BY <4>1, <4>2 DEF Injection, IsInjective
    <3>3. IsFiniteSet(1..n) /\ Cardinality(1..n) = n
      BY FS_Interval
    <3> HIDE DEF f, T
    <3>4. QED
      BY <3>1, <3>2, <3>3, FS_Surjection
  <2>5. \A i \in 1..m : g[i].stamp >= g[j].stamp
    <3> TAKE i \in 1..m
    <3>1. i < j /\ i \in 1..c
      BY <1>2, <1>3, <2>1, <2>2
    <3>2. QED
      BY <1>1, <2>1, <3>1
  <2>6. QED
    BY <2>1, <2>4, <2>5
<1>7. QED
  BY <1>4, <1>5, <1>6

\* The two tiers return together what a page up to that many entries needs: as
\* many of the newest, for every stamp.
LEMMA TopsSuffice ==
    ASSUME NEW A \in SUBSET Entry, IsFiniteSet(A),
           NEW B \in SUBSET Entry, IsFiniteSet(B), NEW n \in Nat
    PROVE  LET M == Top(A, n) \cup Top(B, n)
           IN  /\ M \in SUBSET (A \cup B)
               /\ M = A \cup B \/ Cardinality(M) >= n
               /\ \A k \in 1..n, v \in Nat :
                     Cardinality(Since(M, v)) >= k <=> Cardinality(Since(A \cup B, v)) >= k
<1> DEFINE M == Top(A, n) \cup Top(B, n)
           U == A \cup B
<1>1. M \in SUBSET U /\ U \in SUBSET Entry
  BY TopIs
<1>2. IsFiniteSet(U) /\ IsFiniteSet(M)
  <2>1. IsFiniteSet(U)
    BY FS_Union
  <2> HIDE DEF M, U
  <2>2. QED
    BY <1>1, <2>1, FS_Subset
<1>3. ASSUME NEW x \in U \ M
      PROVE  \E T \in SUBSET M : Cardinality(T) = n /\ \A y \in T : y.stamp >= x.stamp
  <2>1. CASE x \in A
    <3>1. x \in A \ Top(A, n) /\ Top(A, n) \in SUBSET M
      BY <1>3, <2>1
    <3>2. /\ Cardinality(Top(A, n)) = n
          /\ \A y \in Top(A, n) : y.stamp >= x.stamp
      BY <3>1, TopIs
    <3>3. QED
      BY <3>1, <3>2
  <2>2. CASE x \in B
    <3>1. x \in B \ Top(B, n) /\ Top(B, n) \in SUBSET M
      BY <1>3, <2>2
    <3>2. /\ Cardinality(Top(B, n)) = n
          /\ \A y \in Top(B, n) : y.stamp >= x.stamp
      BY <3>1, TopIs
    <3>3. QED
      BY <3>1, <3>2
  <2>3. QED
    BY <1>3, <2>1, <2>2
<1> HIDE DEF M, U
<1>4. M = U \/ Cardinality(M) >= n
  <2> SUFFICES ASSUME M # U PROVE Cardinality(M) >= n
    OBVIOUS
  <2>1. PICK x \in U : x \notin M
    BY <1>1
  <2>2. PICK T \in SUBSET M : Cardinality(T) = n
    BY <1>3, <2>1
  <2>3. Cardinality(T) <= Cardinality(M) /\ Cardinality(M) \in Nat
    BY <1>2, FS_Subset, FS_CardinalityType
  <2>4. QED
    BY <2>2, <2>3
<1>5. ASSUME NEW k \in 1..n, NEW v \in Nat
      PROVE  Cardinality(Since(M, v)) >= k <=> Cardinality(Since(U, v)) >= k
  <2> DEFINE F == Since(M, v)
             G == Since(U, v)
  <2>1. F \in SUBSET G /\ G \in SUBSET U
    BY <1>1 DEF Since
  <2>2. IsFiniteSet(G) /\ IsFiniteSet(F)
    <3> HIDE DEF F, G
    <3>1. QED
      BY <1>2, <2>1, FS_Subset
  <2>3. /\ Cardinality(F) <= Cardinality(G)
        /\ Cardinality(F) \in Nat /\ Cardinality(G) \in Nat
    <3> HIDE DEF F, G
    <3>1. QED
      BY <2>1, <2>2, FS_Subset, FS_CardinalityType
  <2>4. F = G \/ Cardinality(F) >= n
    <3> SUFFICES ASSUME F # G PROVE Cardinality(F) >= n
      OBVIOUS
    <3>1. PICK x \in U : x \notin M /\ x.stamp >= v
      BY <2>1 DEF Since
    <3>2. PICK T \in SUBSET M : Cardinality(T) = n /\ \A y \in T : y.stamp >= x.stamp
      BY <1>3, <3>1
    <3>3. T \in SUBSET F
      <4> SUFFICES ASSUME NEW y \in T PROVE y.stamp >= v
        BY DEF Since
      <4>1. y.stamp \in Nat /\ x.stamp \in Nat
        BY <1>1, <3>1 DEF Entry
      <4>2. QED
        BY <3>1, <3>2, <4>1
    <3> HIDE DEF F
    <3>4. Cardinality(T) <= Cardinality(F)
      BY <2>2, <3>3, FS_Subset
    <3>5. QED
      BY <2>3, <3>2, <3>4
  <2> HIDE DEF F, G
  <2>5. k \in Nat /\ k <= n
    OBVIOUS
  <2>6. Cardinality(F) >= k <=> Cardinality(G) >= k
    BY <2>3, <2>4, <2>5
  <2>7. QED
    BY <2>6 DEF F, G
<1>6. QED
  BY <1>1, <1>4, <1>5 DEF M, U

\* A page cut from the newest of the two tiers is the page of all their entries.
LEMMA PagesMerge ==
    ASSUME NEW A \in SUBSET Entry, IsFiniteSet(A),
           NEW B \in SUBSET Entry, IsFiniteSet(B),
           NEW limit \in Nat, NEW offset \in Nat, limit >= 1
    PROVE  LET page == SearchRows(A, B, limit, offset)
               all  == NewestFirst(A \cup B)
           IN  /\ Len(page) = limit \/ offset + Len(page) >= Len(all)
               /\ Len(page) <= limit
               /\ \A i \in DOMAIN page : page[i].stamp = all[offset + i].stamp
<1> DEFINE n == offset + limit
           U == A \cup B
           M == Top(A, n) \cup Top(B, n)
           g == NewestFirst(M)
           all == NewestFirst(U)
           c == Cardinality(M)
           d == Cardinality(U)
           m == IF n < c THEN n ELSE c
           s == FirstOf(g, n)
           page == SubSeq(s, offset + 1, Len(s))
<1>1. n \in Nat
  OBVIOUS
<1>2. SearchRows(A, B, limit, offset) = page
  BY DEF SearchRows, merge_rows, fetch_limit
<1> HIDE DEF n
<1>3. /\ M \in SUBSET U /\ (M = U \/ c >= n)
      /\ \A k \in 1..n, v \in Nat :
            Cardinality(Since(M, v)) >= k <=> Cardinality(Since(U, v)) >= k
  BY <1>1, TopsSuffice
<1>4. U \in SUBSET Entry /\ IsFiniteSet(U)
  BY FS_Union
<1> HIDE DEF U, M
<1>5. M \in SUBSET Entry /\ IsFiniteSet(M)
  BY <1>3, <1>4, FS_Subset
<1>6. /\ c \in Nat /\ g \in Seq(M) /\ Len(g) = c
      /\ d \in Nat /\ Len(all) = d /\ c <= d
  <2>1. c \in Nat /\ g \in Seq(M) /\ Len(g) = c
    BY <1>5, NewestFirstIs
  <2>2. d \in Nat /\ Len(all) = d
    BY <1>4, NewestFirstIs
  <2>3. c <= d
    BY <1>3, <1>4, FS_Subset
  <2>4. QED
    BY <2>1, <2>2, <2>3
<1>7. ASSUME NEW k \in 1..n, k <= c
      PROVE  g[k].stamp = all[k].stamp
  <2>1. k \in 1..c /\ k \in 1..d
    BY <1>1, <1>6, <1>7
  <2>2. /\ g[k].stamp \in Nat
        /\ \A v \in Nat : g[k].stamp >= v <=> Cardinality(Since(M, v)) >= k
    BY <1>5, <2>1, KthNewest
  <2>3. /\ all[k].stamp \in Nat
        /\ \A v \in Nat : all[k].stamp >= v <=> Cardinality(Since(U, v)) >= k
    BY <1>4, <2>1, KthNewest
  <2> DEFINE x == g[k].stamp
             y == all[k].stamp
  <2> HIDE DEF x, y
  <2>4. \A v \in Nat : x >= v <=> y >= v
    BY <1>3, <1>7, <2>2, <2>3 DEF x, y
  <2>5. x \in Nat /\ y \in Nat
    BY <2>2, <2>3 DEF x, y
  <2>6. x >= y /\ y >= x
    BY <2>4, <2>5
  <2>7. QED
    BY <2>5, <2>6 DEF x, y
<1> HIDE DEF g, all, c, d
<1>8. /\ m \in Nat /\ m <= n /\ m <= c
      /\ s \in Seq(M) /\ Len(s) = m
      /\ \A i \in 1..m : s[i] = g[i]
  BY <1>1, <1>6, FirstOfIs
<1>9. m = n \/ (m = c /\ M = U /\ c = d)
  <2>1. CASE n < c
    BY <2>1
  <2>2. CASE ~(n < c)
    BY <1>1, <1>3, <1>6, <2>2 DEF c, d
  <2>3. QED
    BY <2>1, <2>2
<1> HIDE DEF m, s
<1>10. /\ offset < m => Len(page) = m - offset
       /\ ~(offset < m) => Len(page) = 0
       /\ DOMAIN page = 1..Len(page)
       /\ \A i \in 1..Len(page) : page[i] = s[offset + i]
  BY <1>8
<1> HIDE DEF page
<1>11. n = offset + limit
  BY DEF n
<1>12. Len(page) = limit \/ offset + Len(page) >= Len(all)
  <2>1. CASE m = n
    <3>1. offset < m /\ m - offset = limit
      BY <1>11, <2>1
    <3>2. QED
      BY <1>10, <3>1
  <2>2. CASE m # n /\ offset < m
    <3>1. Len(page) = m - offset /\ Len(all) = m /\ m \in Nat
      BY <1>6, <1>8, <1>9, <1>10, <2>2
    <3>2. QED
      BY <3>1
  <2>3. CASE m # n /\ ~(offset < m)
    <3>1. Len(page) = 0 /\ Len(all) = m /\ m \in Nat
      BY <1>6, <1>8, <1>9, <1>10, <2>3
    <3>2. QED
      BY <2>3, <3>1
  <2>4. QED
    BY <2>1, <2>2, <2>3
<1>13. Len(page) <= limit
  BY <1>6, <1>8, <1>9, <1>10, <1>11
<1>14. ASSUME NEW i \in DOMAIN page
       PROVE  page[i].stamp = all[offset + i].stamp
  <2>1. i \in 1..Len(page) /\ offset < m /\ Len(page) = m - offset
    BY <1>8, <1>10, <1>14
  <2>2. offset + i \in 1..m /\ offset + i \in 1..n /\ offset + i <= c
    BY <1>1, <1>6, <1>8, <2>1
  <2>3. page[i] = g[offset + i]
    BY <1>8, <1>10, <2>1, <2>2
  <2>4. QED
    BY <1>7, <2>2, <2>3
<1>15. QED
  BY <1>2, <1>12, <1>13, <1>14 DEF all, U

\* Every page a search returns is the page of both tiers together, for every limit
\* and offset that are accepted: as long as it can be, and of the stamps that are
\* due at its places, however the tiers overlap (merge_rows, fetch_limit).
THEOREM SearchesPageAll == Spec => []PagesAreGlobal
<1>1. IInv => PagesAreGlobal
  <2> SUFFICES ASSUME IInv, NEW q \in Query,
                      NEW limit \in 0..MaxQueryRows, NEW offset \in 0..MaxQueryRows,
                      ValidPage(limit, offset, MaxQueryRows)
               PROVE  LET page == SearchRows(query[q].parquet, query[q].found, limit, offset)
                          all  == NewestFirst(query[q].parquet \cup query[q].found)
                      IN  /\ Len(page) = limit \/ offset + Len(page) >= Len(all)
                          /\ Len(page) <= limit
                          /\ \A i \in DOMAIN page : page[i].stamp = all[offset + i].stamp
    BY DEF PagesAreGlobal
  <2>1. query[q].parquet \in SUBSET Entry /\ query[q].found \in SUBSET Entry
    BY DEF IInv, TypeInv, Request
  <2>2. IsFiniteSet(query[q].parquet) /\ IsFiniteSet(query[q].found)
    BY DEF IInv, RowsInv, RowsKnown
  <2>3. limit \in Nat /\ offset \in Nat /\ limit >= 1
    BY QueryAssumption DEF ValidPage
  <2>4. QED
    BY <2>1, <2>2, <2>3, PagesMerge
<1>2. QED
  BY <1>1, QueryInvariance, PTL
=============================================================================
