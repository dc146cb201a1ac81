----------------------------- MODULE QueryEngine -----------------------------
(***************************************************************************)
(* Queries beside everything that moves rows: crates/engine/src/query.rs,  *)
(* search.rs and retention.rs, with the flusher and the compactor as a     *)
(* query sees them.                                                        *)
(*                                                                         *)
(*   arrive ->  live  -> taken by a flush ->  file  -> hidden by a merge   *)
(*                  <-  returned on failure     \-> purged     |           *)
(*                                               <-------------            *)
(*                                                                         *)
(* Rows in a parquet file or in the live buffer are visible.  An SQL query *)
(* lists the files and snapshots the buffer while it is planned, in either *)
(* order, on a runtime of its own, and opens the files it listed later.  A *)
(* search lists and reads the files first and snapshots the buffer last,   *)
(* on the server's runtime.  A listed file that is gone fails the query.   *)
(*                                                                         *)
(* The service partitions are left out: one stands for all.                *)
(***************************************************************************)
EXTENDS SearchPlan

CONSTANTS
    MaxQuery,        \* how many requests are asked, each once and in order
    MaxRow,          \* how many rows arrive beside one request
    CrowdRows,       \*   and beside several
    Stamps,          \* the timestamps a record may carry
    StartTime,       \* the server's clock
    MaxTime,         \*   and where it stops
    Ranges,          \* time_range_secs of the searches
    RetentionDays,   \* retention_days
    MaxFiles,        \* max_files_before_compaction
    MaxFaults,       \* how many I/O errors may happen
    MaxQueryRows     \* max_query_rows

ASSUME QueryAssumption ==
    /\ {MaxQuery, MaxRow, CrowdRows, StartTime, MaxTime, RetentionDays, MaxFaults, MaxQueryRows} \subseteq Nat
    /\ Stamps \subseteq Nat /\ StartTime <= MaxTime
    /\ {MaxFiles} \cup Ranges \subseteq Nat \ {0}

Query   == 1..MaxQuery
Runtime == 1..MaxQuery
None    == 0   \* no runtime

VARIABLES
    now,        \* the server's clock
    stamp,      \* the timestamps of the rows that have arrived, in order
    live,       \* the rows in the live buffer
    taken,      \* the rows of the flush in progress
    written,    \* the days that flush has published
    files,      \* [name, day, rows, form]: form "parquet" or "hidden"
    merge,      \* the files being merged, as they were when it began
    purging,    \* the days a retention sweep is removing
    query,      \* what each request is doing
    slot,       \* query_rt: the idle runtime, or None
    tasks,      \* <<runtime, query>>: the runtime runs tasks of the query
    tearing,    \* runtimes a thread is tearing down
    asyncDrop,  \* runtimes dropped inside an async context
    faults,     \* I/O errors so far
    doubled     \* history: rows published by a flush that failed afterwards

tiers    == <<stamp, live, taken, written, files, merge, purging, doubled>>
runtimes == <<slot, tasks, tearing, asyncDrop>>
vars     == <<now, tiers, query, runtimes, faults>>

-----------------------------------------------------------------------------
(***************************************************************************)
(* The tiers                                                               *)
(***************************************************************************)
Arrived == 1..Len(stamp)

Day(row) == Date(stamp[row])

RowsOf(fs) == UNION {f.rows : f \in fs}
Names(fs)  == {f.name : f \in fs}

Parquet == {f \in files : f.form = "parquet"}

\* Bounds: several requests meet CrowdRows rows, a single one MaxRow.  Requests
\* are numbered as they are asked.
Asked == {q \in Query : query[q].pc # "idle"}

RowLimit == IF Cardinality(Asked) > 1 THEN CrowdRows ELSE MaxRow

MayBegin(q) ==
    /\ q = Cardinality(Asked) + 1
    /\ Asked = {} \/ Len(stamp) <= CrowdRows

\* Mutant of FreshName: files are numbered by their count.
CountedName == Cardinality(files) + 1

\* A name no file has and no task or query remembers.
FreshName ==
    LET used == Names(files \cup merge) \cup UNION {Names(query[q].listed) : q \in Query}
    IN  CHOOSE n \in 1..(Cardinality(used) + 1) : n \notin used

Fault == faults < MaxFaults /\ faults' = faults + 1

\* Rows or files that leave their place: no query need meet them any more.
Disturb(rows, names) ==
    query' = [q \in Query |-> [query[q] EXCEPT !.steady = @ \ rows, !.must = @ \ names]]

Tick ==
    /\ now < MaxTime
    /\ now' = now + 1
    /\ UNCHANGED <<tiers, query, runtimes, faults>>

\* The client sets the timestamp; the row reaches the live buffer.
Arrive ==
    /\ Len(stamp) < RowLimit
    /\ \E s \in Stamps : stamp' = Append(stamp, s)
    /\ live' = live \cup {Len(stamp) + 1}
    /\ UNCHANGED <<now, taken, written, files, merge, purging, doubled, query, runtimes, faults>>

\* flush_live_buffer takes the buffer.
TakeLive ==
    /\ taken = {} /\ live # {}
    /\ taken' = live
    /\ live' = {}
    /\ Disturb(live, {})
    /\ UNCHANGED <<now, stamp, written, files, merge, purging, doubled, runtimes, faults>>

Unwritten == {Day(row) : row \in taken} \ written

\* unique_days is sorted.
NextDay == CHOOSE d \in Unwritten : \A e \in Unwritten : d <= e

\* ParquetFlusher::flush publishes one chunk a day.
PublishChunk ==
    /\ taken # {}
    /\ LET day == NextDay
       IN  /\ files' = files \cup {[name |-> FreshName, day |-> day, form |-> "parquet",
                                    rows |-> {row \in taken : Day(row) = day}]}
           /\ IF Unwritten = {day} THEN taken' = {} /\ written' = {}
                                   ELSE taken' = taken /\ written' = written \cup {day}
    /\ UNCHANGED <<now, stamp, live, merge, purging, doubled, query, runtimes, faults>>

\* Writing a chunk fails, or retention has removed the part: all rows return.
\* The cap on the live buffer is left to MemTableWorker.
FlushFails ==
    /\ taken # {}
    /\ \/ NextDay \in purging /\ UNCHANGED faults
       \/ Fault
    /\ live' = taken \cup live
    /\ doubled' = doubled \cup {row \in taken : Day(row) \in written}
    /\ taken' = {} /\ written' = {}
    /\ UNCHANGED <<now, stamp, files, merge, purging, query, runtimes>>

-----------------------------------------------------------------------------
(***************************************************************************)
(* The compactor, as far as a query can tell.  Compactor.tla has the rest. *)
(***************************************************************************)
StartMerge ==
    /\ merge = {}
    /\ \E day \in {f.day : f \in Parquet} :
        LET sources == {f \in Parquet : f.day = day}
        IN  /\ Cardinality(sources) > MaxFiles
            /\ merge' = sources
    /\ UNCHANGED <<now, stamp, live, taken, written, files, purging, doubled, query, runtimes,
                   faults>>

HideSource ==
    /\ \E f \in merge \cap files :
        /\ files' = (files \ {f}) \cup {[f EXCEPT !.form = "hidden"]}
        /\ Disturb(f.rows, {f.name})
    /\ UNCHANGED <<now, stamp, live, taken, written, merge, purging, doubled, runtimes, faults>>

\* publish_merged hides every source before the output appears.  The hidden
\* sources go with the same step: no query notices when.
PublishMerge ==
    /\ merge # {} /\ merge \cap files = {}
    /\ LET day == (CHOOSE f \in merge : TRUE).day
       IN  files' = {f \in files : f.name \notin Names(merge) \/ f.form = "parquet"}
                    \cup {[name |-> FreshName, day |-> day, form |-> "parquet",
                           rows |-> RowsOf(merge)]}
    /\ merge' = {}
    /\ UNCHANGED <<now, stamp, live, taken, written, purging, doubled, query, runtimes, faults>>

\* An I/O error, or retention has taken a source or the part.  The next sweep
\* restores what was hidden.
MergeFails ==
    /\ merge # {}
    /\ \/ {f.day : f \in merge} \cap purging # {} /\ UNCHANGED faults
       \/ ~(Names(merge) \subseteq Names(files)) /\ UNCHANGED faults
       \/ Fault
    /\ files' = {[f EXCEPT !.form = "parquet"] : f \in files}
    /\ merge' = {}
    /\ UNCHANGED <<now, stamp, live, taken, written, purging, doubled, query, runtimes>>

-----------------------------------------------------------------------------
(***************************************************************************)
(* Retention::purge_expired                                                *)
(***************************************************************************)
\* Mutant of Expired: the day of the cutoff goes as well.
ExpiredThroughCutoff(day) == day <= Date(now) - RetentionDays

\* Mutant of Expired: only the day that expired last.
ExpiredYesterday(day) == day = Date(now) - RetentionDays - 1

Expired(day) == day < Date(now) - RetentionDays

FindExpired ==
    /\ purging = {}
    /\ purging' = {f.day : f \in {g \in files : Expired(g.day)}}
    /\ purging' # {}
    /\ UNCHANGED <<now, stamp, live, taken, written, files, merge, doubled, query, runtimes,
                   faults>>

\* remove_dir_all removes the files of a day one by one.
PurgeFile ==
    /\ \E f \in files :
        /\ f.day \in purging
        /\ files' = files \ {f}
        /\ Disturb(f.rows, {f.name})
    /\ UNCHANGED <<now, stamp, live, taken, written, merge, purging, doubled, runtimes, faults>>

\* The sweep ends, done or with an error that leaves files for the next.
EndPurge ==
    /\ purging # {}
    /\ \/ {f.day : f \in files} \cap purging = {} /\ UNCHANGED faults
       \/ Fault
    /\ purging' = {}
    /\ UNCHANGED <<now, stamp, live, taken, written, files, merge, doubled, query, runtimes>>

-----------------------------------------------------------------------------
(***************************************************************************)
(* What a query is doing                                                   *)
(*                                                                         *)
(*   idle   build   list   live   open   park   wait   answered   over     *)
(*                                                                         *)
(* A search passes "list", "open" and "live".  An SQL query passes "build" *)
(* if the slot is empty, and "live" only if it has not snapshotted the     *)
(* buffer during "list".  At "park" its task is done and the handler has   *)
(* not noticed; it waits at "wait" only if another holds the slot's lock.  *)
(***************************************************************************)
Idle == [kind |-> "none", pc |-> "idle", began |-> 0, range |-> 0, runtime |-> None,
         must |-> {}, listed |-> {}, snapped |-> FALSE, parquet |-> {}, found |-> {},
         steady |-> {}]

\* Answered, failed, timed out or cancelled: all is forgotten.
End(q) == query' = [query EXCEPT ![q] = [Idle EXCEPT !.pc = "over"]]

Step(q, pc) == query' = [query EXCEPT ![q].pc = pc]

\* The listing table keeps the partition of that day for the query.
Admitted(kind, range, day) ==
    kind = "sql" \/ partition_predicate(partition_days(now, range), day)

\* The request as it begins: what it must list, and the rows that are visible
\* now and stay steady until they move.
Begun(kind, range, runtime) ==
    [Idle EXCEPT !.kind = kind, !.pc = "list", !.began = now, !.range = range,
                 !.runtime = runtime,
                 !.must = Names({f \in Parquet : Admitted(kind, range, f.day)}),
                 !.steady = live \cup RowsOf(Parquet)]

\* The timestamp predicate of the query; an SQL query here asks for all rows.
Wanted(q, row) ==
    query[q].kind = "sql" \/ InRange(stamp[row], query[q].began, query[q].range)

Read(q, rows, source) ==
    {[row |-> row, source |-> source, stamp |-> stamp[row]] : row \in {r \in rows : Wanted(q, r)}}

-----------------------------------------------------------------------------
(***************************************************************************)
(* The runtime slot.  Its lock is held from the look to the exchange and   *)
(* never across an await.  That is one step, but for a request that finds  *)
(* the slot empty: it starts the threads of a runtime under the lock.  One *)
(* that waits for the lock to begin with holds nothing and is still idle.  *)
(***************************************************************************)
UnusedRuntime ==
    CHOOSE rt \in Runtime :
        /\ rt \notin {slot} \cup tearing \cup asyncDrop
        /\ \A q \in Query : query[q].runtime # rt

\* RuntimeDropGuard, or the thread that retires a runtime.
Retire(rt) == tearing' = tearing \cup {rt}

LockHeld == \E q \in Query : query[q].pc = "build"

\* execute_sql takes the idle runtime and spawns the query on it...
BeginSql(q) ==
    /\ MayBegin(q) /\ ~LockHeld /\ slot # None
    /\ query' = [query EXCEPT ![q] = Begun("sql", 0, slot)]
    /\ tasks' = tasks \cup {<<slot, q>>}
    /\ slot' = None
    /\ UNCHANGED <<now, tiers, tearing, asyncDrop, faults>>

\* ...or finds none and builds one under the lock.
FindEmpty(q) ==
    /\ MayBegin(q) /\ ~LockHeld /\ slot = None
    /\ Step(q, "build")
    /\ UNCHANGED <<now, tiers, runtimes, faults>>

Build(q) ==
    /\ query[q].pc = "build"
    /\ query' = [query EXCEPT ![q] = Begun("sql", 0, UnusedRuntime)]
    /\ tasks' = tasks \cup {<<UnusedRuntime, q>>}
    /\ UNCHANGED <<now, tiers, slot, tearing, asyncDrop, faults>>

BuildFails(q) ==
    /\ query[q].pc = "build"
    /\ Fault
    /\ End(q)
    /\ UNCHANGED <<now, tiers, runtimes>>

BeginSearch(q) ==
    /\ MayBegin(q)
    /\ \E range \in Ranges : query' = [query EXCEPT ![q] = Begun("search", range, None)]
    /\ UNCHANGED <<now, tiers, runtimes, faults>>

\* The directory is read entry by entry: what has been there all along is
\* listed, what comes or goes in between may be.
ListFile(q) ==
    /\ query[q].pc = "list"
    /\ \E f \in Parquet \ query[q].listed :
        /\ Admitted(query[q].kind, query[q].range, f.day)
        /\ query' = [query EXCEPT ![q].listed = @ \cup {f}, ![q].must = @ \ {f.name}]
    /\ UNCHANGED <<now, tiers, runtimes, faults>>

EndListing(q) ==
    /\ query[q].pc = "list" /\ query[q].must = {}
    /\ Step(q, IF query[q].kind = "sql" /\ ~query[q].snapped THEN "live" ELSE "open")
    /\ UNCHANGED <<now, tiers, runtimes, faults>>

\* Mutant of LiveStages: a search snapshots the buffer while it lists.
LiveStagesAnyOrder(q) == {"list", "live"}

\* When LiveBufferTable::scan may run.
LiveStages(q) == IF query[q].kind = "sql" THEN {"list", "live"} ELSE {"live"}

SnapLive(q) ==
    /\ query[q].pc \in LiveStages(q) /\ ~query[q].snapped
    /\ query' = [query EXCEPT
            ![q].snapped = TRUE,
            ![q].found   = Read(q, live, 0),
            ![q].pc      = IF @ = "list" THEN "list"
                           ELSE IF query[q].kind = "sql" THEN "open" ELSE "answered"]
    /\ UNCHANGED <<now, tiers, runtimes, faults>>

OpenFile(q) ==
    /\ query[q].pc = "open"
    /\ \E f \in query[q].listed \cap files :
        query' = [query EXCEPT ![q].listed  = @ \ {f},
                               ![q].parquet = @ \cup Read(q, f.rows, f.name)]
    /\ UNCHANGED <<now, tiers, runtimes, faults>>

\* A listed file is hidden or purged: an SQL query fails, and the guard retires
\* its runtime.
FileGone(q) ==
    /\ query[q].pc = "open"
    /\ ~(query[q].listed \subseteq files)
    /\ End(q)
    /\ IF query[q].kind = "sql" THEN Retire(query[q].runtime) ELSE UNCHANGED tearing
    /\ UNCHANGED <<now, tiers, slot, tasks, asyncDrop, faults>>

\* The Parquet tier is collected: the query task of execute_sql is done, and a
\* search turns to the live tier.
Collected(q) ==
    /\ query[q].pc = "open" /\ query[q].listed = {}
    /\ Step(q, IF query[q].kind = "sql" THEN "park"
               ELSE IF query[q].snapped THEN "answered" ELSE "live")
    /\ tasks' = tasks \ {<<query[q].runtime, q>>}
    /\ UNCHANGED <<now, tiers, slot, tearing, asyncDrop, faults>>

\* The handler takes the runtime out of its guard and finds the lock held.
AwaitLock(q) ==
    /\ query[q].pc = "park" /\ LockHeld
    /\ Step(q, "wait")
    /\ UNCHANGED <<now, tiers, runtimes, faults>>

\* Mutant of Park: a query waits for the slot to be empty.
ParkWhenEmpty(q) ==
    /\ query[q].pc \in {"park", "wait"} /\ ~LockHeld /\ slot = None
    /\ slot' = query[q].runtime
    /\ query' = [query EXCEPT ![q].pc = "answered", ![q].runtime = None]
    /\ UNCHANGED <<now, tiers, tasks, tearing, asyncDrop, faults>>

Park(q) ==
    /\ query[q].pc \in {"park", "wait"} /\ ~LockHeld
    /\ IF slot = None THEN slot' = query[q].runtime /\ UNCHANGED tearing
                      ELSE Retire(query[q].runtime) /\ UNCHANGED slot
    /\ query' = [query EXCEPT ![q].pc = "answered", ![q].runtime = None]
    /\ UNCHANGED <<now, tiers, tasks, asyncDrop, faults>>

\* handle_query and handle_search encode the rows and answer.
Respond(q) ==
    /\ query[q].pc = "answered"
    /\ End(q)
    /\ UNCHANGED <<now, tiers, runtimes, faults>>

OnRuntime(q) == query[q].kind = "sql" /\ query[q].pc \in {"list", "live", "open"}

\* Mutant of Timeout: the runtime is kept for the next query.
TimeoutKeepsRuntime(q) ==
    /\ OnRuntime(q)
    /\ End(q)
    /\ slot' = query[q].runtime
    /\ UNCHANGED <<now, tiers, tasks, tearing, asyncDrop, faults>>

\* The tasks of the query go on until the runtime is torn down.
Timeout(q) ==
    /\ OnRuntime(q)
    /\ End(q)
    /\ Retire(query[q].runtime)
    /\ UNCHANGED <<now, tiers, slot, tasks, asyncDrop, faults>>

\* The client hangs up and the handler is dropped at an await.  The guard
\* retires the runtime; at the lock it is a plain local and is dropped there.
Cancel(q) ==
    /\ query[q].pc \in {"list", "live", "open", "park", "wait"}
    /\ End(q)
    /\ IF query[q].kind = "sql" /\ query[q].pc # "wait"
          THEN Retire(query[q].runtime) ELSE UNCHANGED tearing
    /\ asyncDrop' = asyncDrop \cup (IF query[q].pc = "wait" THEN {query[q].runtime} ELSE {})
    /\ UNCHANGED <<now, tiers, slot, tasks, faults>>

TearDown(rt) ==
    /\ rt \in tearing
    /\ tearing' = tearing \ {rt}
    /\ tasks' = {t \in tasks : t[1] # rt}
    /\ UNCHANGED <<now, tiers, query, slot, asyncDrop, faults>>

-----------------------------------------------------------------------------
Init ==
    /\ now = StartTime /\ stamp = <<>>
    /\ live = {} /\ taken = {} /\ written = {}
    /\ files = {} /\ merge = {} /\ purging = {}
    /\ query = [q \in Query |-> Idle]
    /\ slot = None /\ tasks = {} /\ tearing = {} /\ asyncDrop = {}
    /\ faults = 0 /\ doubled = {}

Purge == FindExpired \/ PurgeFile \/ EndPurge

\* What a request does until it ends by itself.
Proceed(q) ==
    \/ Build(q) \/ ListFile(q) \/ EndListing(q) \/ SnapLive(q) \/ OpenFile(q) \/ FileGone(q)
    \/ Collected(q) \/ AwaitLock(q) \/ Park(q) \/ Respond(q)

Next ==
    \/ Tick \/ Arrive \/ TakeLive \/ PublishChunk \/ FlushFails
    \/ StartMerge \/ HideSource \/ PublishMerge \/ MergeFails \/ Purge
    \/ \E q \in Query : \/ BeginSql(q) \/ FindEmpty(q) \/ BuildFails(q) \/ BeginSearch(q)
                        \/ Proceed(q) \/ Timeout(q) \/ Cancel(q)
    \/ \E rt \in Runtime : TearDown(rt)

Spec == Init /\ [][Next]_vars

\* Requests are driven by their tasks, teardown by threads, the sweep by its
\* interval.  Rows, merges, timeouts and clients may do as they please.
FairSpec ==
    /\ Spec
    /\ \A q \in Query : WF_vars(Proceed(q))
    /\ \A rt \in Runtime : WF_vars(TearDown(rt))
    /\ WF_vars(Purge)

-----------------------------------------------------------------------------
(***************************************************************************)
(* Properties                                                              *)
(***************************************************************************)
\* The type invariant.
QueryInv ==
    /\ now \in StartTime..MaxTime /\ stamp \in Seq(Stamps) /\ faults \in 0..MaxFaults
    /\ {live, taken, doubled} \subseteq SUBSET Arrived
    /\ \A f \in files \cup merge :
        /\ f.form \in {"parquet", "hidden"}
        /\ f.rows \subseteq Arrived
        /\ \A row \in f.rows : Day(row) = f.day
    /\ \A f, g \in files : f.name = g.name => f = g
    /\ \A q \in Query : query[q].runtime \in Runtime \cup {None}
    /\ slot \in Runtime \cup {None} /\ tasks \subseteq Runtime \X Query
    /\ {tearing, asyncDrop} \subseteq SUBSET Runtime

\* Retention is the only loss: a row that is in no tier any more is older than
\* retention_days, whatever flushes, merges and sweeps met in its directory.
OnlyExpiredRowsGo ==
    \A row \in Arrived :
        \/ row \in live \cup taken \cup RowsOf(files)
        \/ stamp[row] + RetentionDays * DayLength < now

\* A search reads the files before the live buffer, so a row on its way into a
\* file is not counted twice; only a flush that failed half-way stores it twice.
SearchReadsOnce ==
    \A q \in Query : query[q].kind = "search" =>
        \A a, b \in query[q].parquet \cup query[q].found :
            a.row = b.row => a = b \/ a.row \in doubled

\* An answer has every wanted row that stayed where it was from the request to
\* the answer, if it is not dated after the day of the request.
SteadyRowsFound ==
    \A q \in Query : query[q].pc = "answered" =>
        \A row \in query[q].steady :
            Wanted(q, row) /\ Day(row) <= Date(query[q].began) =>
                \E a \in query[q].parquet \cup query[q].found : a.row = row

\* A page of a search is the page of both tiers together, for every valid limit
\* and offset.
PagesAreGlobal ==
    \A q \in Query : query[q].pc = "answered" /\ query[q].kind = "search" =>
        \A limit, offset \in 0..MaxQueryRows : ValidPage(limit, offset, MaxQueryRows) =>
            LET page == SearchRows(query[q].parquet, query[q].found, limit, offset)
                all  == NewestFirst(query[q].parquet \cup query[q].found)
            IN  /\ Len(page) = limit \/ offset + Len(page) >= Len(all)
                /\ Len(page) <= limit
                /\ \A i \in DOMAIN page : page[i].stamp = all[offset + i].stamp

\* An aggregate of a search is the aggregate of both tiers together, by bucket
\* and over all.
AggregatesAreGlobal ==
    \A q \in Query : query[q].pc = "answered" /\ query[q].kind = "search" =>
        \A width \in 0..DayLength :
            LET parquet == query[q].parquet
                found   == query[q].found
            IN  merge_aggregate(TierAggregate(parquet, width), TierAggregate(found, width))
                    = TierAggregate(parquet \cup found, width)

\* No two requests share a runtime, none is handed out twice or lost track of,
\* and tasks left over from a request run on no runtime but one being torn down.
RuntimesAreExclusive ==
    LET held == {query[q].runtime : q \in Query} \ {None}
    IN  /\ \A p, q \in Query : query[p].runtime = query[q].runtime
                                => p = q \/ query[p].runtime = None
        /\ held \cap ({slot} \cup tearing \cup asyncDrop) = {}
        /\ slot \notin tearing \cup asyncDrop
        /\ tearing \cap asyncDrop = {}
        /\ \A t \in tasks : t[1] \in tearing \/ query[t[2]].runtime = t[1]

\* Every request ends, whatever becomes of the slot, of its lock and of the files
\* it listed.
RequestsEnd == \A q \in Query : query[q].pc # "idle" ~> query[q].pc = "over"

\* In the end no file holds a row dated before the day of the cutoff, though
\* late rows are flushed into that day and merged beside the sweeps.
ExpiredRowsGo == <>[](\A row \in RowsOf(files) : Day(row) >= Date(now) - RetentionDays)

\* What query.rs:82-83 says of the guard: cancelling a request never drops its
\* runtime inside an async context.
NeverDroppedInAsync == asyncDrop = {}

=============================================================================
