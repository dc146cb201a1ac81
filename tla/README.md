# A TLA+ verification of Greplog

Greplog is a log server: SDKs post batches of records over HTTP, the engine makes them durable in a
write-ahead log, stages them in memory, stores them as Parquet chunks, and answers queries over both
tiers. These modules model the part of it that promises not to lose, invent or misplace a record,
check small instances with TLC, and prove with TLAPS, for every size, each safety property that holds
on them: of the write path, which implements an abstract store, of the compactor, the queries, the
clients and the life of the process.

Paths below are relative to the repository; `engine/` stands for `crates/engine/src/`.

## The system

| Component | State | Operations | Talks to |
| --- | --- | --- | --- |
| Write-ahead log (`engine/wal.rs`) | `current.wal`, sealed segments `sealed-<n>-*.wal` | append a group, sync, replay, list segments | files |
| WAL worker (`engine/worker.rs`, `WalState`, `select_commands`) | writer, sealed segments with cumulative counts, `confirmed`, `cumulative`, `next_seq` | group commit and acknowledgement, handoff, `confirm`, `rotate` | ingest, truncate and handoff channels |
| MemTable worker (`run_memtable_loop`) | MemTable, shared `LiveBuffer`, flush clock | receive, push, flush, retry, shed, final flush | handoff and truncate channels, Parquet storage, tail broadcast |
| Parquet storage (`engine/storage.rs`) | `chunk_<ns>.parquet[.part]` under `year/month/day/service` | one chunk per service and day, published by rename | files |
| Compactor (`engine/compactor.rs`) | `compacted_<uuid>.parquet[.part]`, `*.superseded` | sweep, recover, merge, publish, clean | the same directories as the flusher |
| Retention (`engine/retention.rs`) | none | remove expired `day=` directories | the same directories |
| Query engine, search (`engine/query.rs`, `search.rs`) | query runtime slot | scan both tiers, prune partitions, merge | live buffer, Parquet files |
| Ingest API (`crates/server/src/ingest.rs`) | a responder per request | validate, send, await the group commit | ingest channel |
| Dashboard API (`crates/server/src/dashboard.rs`) | a broadcast receiver per tail | query, search, stats, SSE tail | query engine, broadcast |
| Lifecycle (`crates/cli/src/main.rs`, `crates/server/src/lib.rs`, `shutdown.rs`) | channels, worker handles, the watch channel of the signal, two servers | start and replay, Ctrl+C, graceful drain with a time limit, forced exit | everything |
| Uninstall (`crates/cli/src/uninstall.rs`) | none: it looks at what exists | remove data, log, binary and the parent directory | the directories of a server that may be running |
| SDK clients (`sdk/go`, `sdk/node`, `sdk/rust`, `sdk/python`) | queue or backlog, one request in flight | track, flush, retry, drop | ingest API |
| Dashboard (`dashboard/`) | a third-party query cache | presentation | dashboard API |

What is hard here: two workers joined by three bounded channels and a feedback loop; a log that is
reclaimed by **counting** rows rather than by naming them; crashes and I/O errors between any two
file operations; a compactor that recognises its own unfinished work by the names of files that
another thread also creates; clients that resend what may have arrived; a shutdown that has to end
streams, requests and two workers in the right order, beside whoever else uses the directories.

What makes each component correct:

- *log and workers*: an acknowledged row can be replayed or read, always; a segment is deleted only
  when its rows are flushed; duplicates come from restarts and failed flushes only; memory is
  bounded; rows reach Parquet and shutdown ends;
- *compactor*: no published row is lost or visible twice, whatever is interrupted; every byte is
  rewritten a bounded number of times; a partition settles;
- *retention*: only expired days disappear, and a flush beside it is retried;
- *queries*: a row acknowledged and flushed once is seen once;
- *clients*: a record is delivered, still queued, or counted as dropped;
- *live tail*: what a tab is shown and what it is told it missed add up;
- *lifecycle*: a shutdown ends, cuts no answer short, and leaves every acknowledged row in Parquet;
- *uninstall*: one that says it is done has left neither data nor log behind.

`PROJECT.json` lists the hazards line by line with the properties that would catch them.

## Modules

| Module | Models | Role |
| --- | --- | --- |
| `RowSets` | rows, batches, queues | shared operators |
| `Wal` | `wal.rs`, `WalState` | the log: one operator per method of `WalWriter` and `WalState` |
| `MemTableWorker` | `run_memtable_loop`, `flush_live_buffer`, `return_to_live_buffer`, `ParquetFlusher` | the staging and flushing side |
| `WritePath` | both workers, `handle_ingest`, `run_server`, `drain_write_path` | composition: channels, shutdown, crash, restart; the properties |
| `LogStore` | the promise of the write path: four sets of rows and the guards under which they change | abstract specification, implemented by `WritePath` |
| `WritePathInvariant` | | the inductive invariants: `IInv`, `KnownInv`, `DrainInv`, `CopiesInv` |
| `MCWritePath` | | two partitions, for TLC |
| `RowSetsTheorems` | | lemmas about rows in queues and about finite sets of numbers |
| `WritePathProofs`, `StoreProofs`, `DeliveryProofs` | | lemmas and theorems about the write path |
| `Compactor` | `compactor.rs`, `write_chunk` | merges and recovery of one partition beside the flusher |
| `CompactorProofs` | | lemmas and theorems about `Compactor` |
| `SearchPlan` | `search.rs` | partition pruning, pages and aggregates over both tiers as operators |
| `QueryEngine` | `query.rs`, `search.rs`, `retention.rs`, with the flusher and the compactor as a query sees them | SQL queries and searches while rows move and expired days are removed; the runtime slot |
| `QueryProofs` | | lemmas and theorems about `QueryEngine` and the operators of `SearchPlan` |
| `SdkClients` | the clients of `sdk/go`, `sdk/node`, `sdk/rust`, `sdk/python` | queues, retries and closing against a server that may fail or answer too late |
| `SdkProofs` | | lemmas and theorems about `SdkClients` |
| `LiveTail` | `handle_tail`, the broadcast channel (external) | subscribers that fall behind |
| `Uninstall` | `uninstall.rs` | removal target by target, with failures and retries |
| `Server` | `run_server`, `start_servers`, `shutdown.rs`, `spawn_signal_listener` | composition: one process from start to exit over a reduced write path, with `LiveTail`, `Uninstall` and a second server |
| `ServerProofs` | | lemmas and theorems about `Server` |

`Wal` and `MemTableWorker` declare the state of one component each and operators for its steps;
`WritePath` extends both and gives every step its place in a worker's loop, so an action such as
`Commit` is the operator of the component plus the channels it touches. `Server` extends `LiveTail` and
`Uninstall` in the same way.

### How the write path corresponds to the code

A row is the number under which it entered the ingest channel; a batch is a set of rows. The order
of rows is therefore the order in which the engine received them, which is what the counting of
`confirm` relies on.

| Model | Code |
| --- | --- |
| `Post` | `handle_ingest` sends an `Append` (it waits while the channel is full) |
| `TakeGroup`, `Commit`, `Refuse`, `Ack`, `HandOff`, `CountGroup` | `handle_append_group`: `recv` plus `try_recv` up to 50; append and sync; per batch the answer and then the blocking handoff; `records_written` at the end |
| `TakeSignal`, `RotateLog`, `ReclaimSegment`, `ReclaimDone` | `confirm`: count, `rotate`, delete the covered prefix of segments |
| `MemReceive` ... `MemCheck` | one turn of `run_memtable_loop` |
| `MemWriteChunk`, `MemFlushFails`, `MemSignal` | `ParquetFlusher::flush`, its error path, `truncate_tx.blocking_send` |
| `CloseIngest`, `WalDone`, `MemDisconnected`, `Exit` | the graceful drain |
| `Crash`, `Boot` | `SIGKILL`, forced exit, power loss; `recover_wal_into` and `WalState::open` |
| `OpenWal`, `OpenWalMisread` | `WalState::open` when everything can be read, and when it keeps the errors of listing the directory, counting a segment or counting `current.wal` to itself |

Abstractions, each named where it is made:

- a log file is the set of rows `replay_wal` reads back. A failed or interrupted append leaves a
  prefix of the group and possibly a torn record; rows appended behind a torn record are `buried`.
  (In the code the `BufWriter` may keep the bytes of a failed append and write them with a later
  group; the model lets them reach the file at once. The bytes behind a torn record may also decode
  as an error instead of an end of file, and then the server does not start: a behaviour of the model
  in which no `Boot` follows.)
- clocks are choices: `flush_interval` may have elapsed at any check, a receive times out only on an
  empty channel, `select!` may take either ready branch;
- an I/O error is one trouble with the disk: a failed rename may leave the writer closed as well, and a
  start that cannot read the log may fail at any of its files and at opening the writer;
- a power loss may take any published chunk, because none is synced; renames and removals are
  taken to be durable and ordered, and a power loss takes nothing that `sync_data` covered;
- lock poisoning and failures of `concat_batches` and `MemTable::finish` are left out; none of them
  occurs without a panic or a programming error elsewhere. The tail broadcast and a panic of the
  MemTable worker are in `Server`.

Four ways to lose an acknowledged row are in the code, and history variables remember what they take:
`shed` (dropped by the live cap), `buried` (written behind a torn record), `gone` (in chunks a power loss
took) and `overrun` (deleted or overwritten in a log that a start failed to count, which `misread` remembers
for good). `Excused` is their union, and the safety properties of the write path speak of all other rows.
Each of the four contradicts the repository's own words. The runs `ShedRowsLost`, `TornTailBuriesRows` and
`MiscountedLog` show `shed`, `buried` and `overrun` happening; for `gone` see *Two more counterexamples*.

### What the write path implements

`LogStore` knows no workers, channels or files: a set of acknowledged rows, a log, the rows in Parquet
and the rows given up. `Store` in `WritePath` maps it:

| `LogStore` | `WritePath` | Steps that implement it |
| --- | --- | --- |
| `acked` | `acked` | `Ack` is `Acknowledge` |
| `log` | `Replayable`, what `replay_all` would return | `Commit` is `Append` or, behind a torn record, `Bury`; `Refuse` may be `Append` too; `ReclaimSegment` is `Reclaim` |
| `stored` | `Stored`, the rows in published chunks | `MemWriteChunk` is `Publish` |
| `lost` | `Excused` | `MemFlushFails` is `Shed`; `Boot` is `Recover`; `Crash` is `Crash` |
| `counted` | `~misread` | `Boot` may end it; from then on `RotateLog` and `ReclaimSegment` may be `Forget` |

Every other step of the handlers and the workers is a stutter. The promise is in the guards of
`LogStore`: rows are acknowledged once and when they are in the log, only known rows reach Parquet, the
log forgets an acknowledged row only when Parquet has it, as long as every start could count the log.

### How the compactor corresponds to the code

The partition directory is a set of files with a name, a form (`part`, `parquet`, `superseded`),
rows and the number of times its most rewritten row was written. Every `rename`, `remove_file` and
`File::create` of `compactor.rs` and of `write_chunk` is a step of its own; a listing is one step.
`compPc` is the position in `start_background_loop` / `compact_partition`. An I/O error ends
`compact_partition` at any point, as `?` does; a failed deletion in `publish_merged` is ignored, as
the code does. Names are never reused, so a new name is any that nobody holds. One row per chunk and
sizes in rows stand for bytes. Queries see the `parquet` files only (`register_parquet_table` lists
by that extension). A restart is a `Crash` that leaves the directory alone; the replay that
follows belongs to `WritePath`.

Two history flags mark the two recoveries that the code gets wrong: `cutShort`, a rollback that
stopped with sources still hidden, and `confused`, a rollback that met sources whose merge had been
published. The flagged properties say that these are the only two ways to lose or duplicate a row;
the unflagged ones are refuted by runs of their own.

### How queries and retention correspond to the code

`QueryEngine` follows a row from the live buffer through a flush into a file, through a merge, and
to the sweep of its expired day. The flusher publishes a chunk per day and returns everything when
one fails; a merge hides its sources one by one and publishes its output; a sweep removes the files
of a day one by one. Rollbacks, parts and crashes are the business of `Compactor`; here a merge that
fails has its sources restored, whenever the next sweep comes to it.

| Model | Code |
| --- | --- |
| `BeginSql` | `execute_sql` up to the spawn when the slot has an idle runtime |
| `FindEmpty`, `Build`, `BuildFails` | the slot is empty: a runtime is built, its threads started, while the lock is held (`LockHeld`) |
| `BeginSearch` | `search`: the clock is read once, the filter follows from it |
| `ListFile`, `EndListing`, `OpenFile` | DataFusion (external): the directory is read entry by entry, so what is there all along is listed and what comes or goes may be; listed files are opened later |
| `SnapLive` | `LiveBufferTable::scan`: while an SQL query is planned, in either order with the listing; in a search only after the Parquet tier has been collected, since the two `collect` calls are awaited in turn |
| `FileGone` | a listed file was hidden or purged: the query fails, its runtime is retired by `RuntimeDropGuard` |
| `Collected`, `AwaitLock`, `Park`, `Respond` | the task has ended; the handler waits if another request holds the lock of the slot, and looks at the slot under it; the rows are encoded |
| `Timeout`, `Cancel`, `TearDown` | the timeout branch; a handler dropped at an await, at the lock only while it waits for it; the thread that drops a runtime |
| `FindExpired`, `PurgeFile`, `EndPurge` | `find_expired_partitions`, `remove_dir_all`, the end of a sweep with or without an error |

`SearchPlan` computes what a search asks and answers. Time is a number; a day, a month and a year are
constants, and 32 and 730 days, the limits of the filter's granularity, are `ShortSpan` and
`LongSpan`. A page is compared with the page of all rows read, for every limit and offset
`validate` accepts; the order of equal timestamps is left open, as the sort leaves it.

What a query may miss: rows a flush has taken and not yet renamed, and rows of sources hidden by a
merge in progress, are in neither tier, and an SQL query that snapshots the buffer before the
listing may count a row twice. "Queries always see the latest rows" (`query.rs:66`) holds outside
these windows; `SteadyRowsFound` states it for the rows that stay in place. `SearchReadsOnce` holds
for searches because of the order in which they read. A search has no timeout;
`query_timeout_secs` applies to SQL only, and so does the cap `max_query_rows` (`query.rs:72`), which is left
out: an SQL query here finds all its rows. A request that waits for the lock to begin with has nothing yet
and is still `idle`, so `RequestsEnd` speaks of requests that have got past it.

### How the SDK clients correspond to the code

`SdkClients` models one client; `sdk` says which, and is chosen at the start. A record is the number
under which the application logged it. `sends` says what each of three senders is doing: the
client's own thread or timer, a thread of the application, and in Python the thread that calls
`shutdown`. The server stores a request, rejects it as too large (`MAX_INGEST_BODY_BYTES`; size
stands for the number of records), or fails it: without storing it, after storing it, or while it is
still on its way (`late`). To the client the three look the same.

| Model | Code |
| --- | --- |
| `GoHandle` | `Handler.Handle`; a full channel drops the record, a closed one panics |
| `GoReceive`, `GoTick`, `GoDrain`, `GoLast`, `GoAnswered` | the branches of `workerLoop`'s `select`, with `attempt`, `flush` and `capPending`. The worker is blocked while it sends, so `pending` is shown as the batch of the request and returns to `queue` with the answer |
| `NodeTrack`, `NodeFlush`, `NodeAnswered` | `track`, `flushInternal` by timer or call, the `.then`/`.catch`/`.finally` chain |
| `NodeExit` | await `flush()`, then exit, as `instrument.ts` does after an uncaught exception |
| `RustTrack`, `RustFlush`, `RustAnswered` | `track`, `flush` by the flusher or a caller, its three outcomes. A wake-up is only an early tick, and `shutdown` is only a wake-up |
| `PyTrack`, `PyWake`, `PyFlush`, `PyAnswered` | `track` with the flush outside the lock, `_run`, `flush`, `_send` with its two tries |
| `PyShutdown`, `PyThreadEnds`, `PyJoin`, `PyClosed` | `shutdown`: event, join or timeout, last flush |

What the clients do differently from what their documents say, all of it visible in the model: the Rust client
puts a failed batch back without applying its cap (`rust.md:45`) and retries it for ever, not once (`rust.md:47`); its `shutdown` neither stops the flusher nor
waits; the Node client's `flush()` returns the promise of the request in flight and leaves later
records in the queue (`nodejs.md:72` speaks of a guarantee); the Python client also retries 4xx, since
`HTTPError` is a `URLError`. `LossIsCounted` says what each of them owes after all that.

### How the lifecycle corresponds to the code

`Server` follows one process from `run_server`'s first line to its exit. The write path is reduced to what
its end needs. A request carries one row, and a group is one row: logged and answered in one step, handed
off in the next. The LiveBuffer and the table are one set, of which a flush takes the older part and leaves
less than `flush_row_limit`; a flush that is due may come later than in the code. A flush that fails may
have published some of its rows, returns all of them and sheds the oldest over the cap. Of a confirmed log
any oldest part may go: which it is, is the matter of `WritePath`. Each behaviour has a *cast* beside the
server, chosen at the start: dashboard tabs (with an empty log), a second server on the same directories,
or an uninstall. Ctrl+C, hang-ups, bind errors and time limits come at any moment.

The channels between the workers are bounded and their sends block (`WalHandOff`, `MemSignal`). That both
workers can block for good is what `WorkersDeadlock` shows; a request whose row is in such a worker's hands
or behind it is never answered, `with_graceful_shutdown` waits for it without a limit, and `DRAIN_TIMEOUT`
comes only afterwards. `Terminates` is therefore checked with fewer rows than it takes, as the head of
`Server` says: no more than `HandoffCap + TruncateCap` beside a replayed one. For the product, whose
channels hold hundreds of batches and signals, it says nothing beyond that.

| Model | Code |
| --- | --- |
| `Recover`, `OpenLog`, `BuildEngine`, `StartFails` | `run_server` up to the servers: directories, replay, workers, engine, the listener's task; an error leaves at once |
| `Bind`, `BindFails`, `ServersReturn` | `start_servers`: both ports are bound before either is served; `join!`; an error still drains |
| `Drained`, `DrainTimesOut` | `drain_write_path` under `DRAIN_TIMEOUT`: exit code 0, 1 or 75 |
| `CtrlC`, `Fire`, `ListenerFails`, `Signalled` | `spawn_signal_listener` and the watch channel: before its first poll Ctrl+C kills, at the second wait it exits with 130; a listener that fails drops the trigger, and `Shutdown::wait` takes that for a signal |
| `StopAccepting`, `ServerDone`, `AcceptRequest`, `EndRequest` | `with_graceful_shutdown` (external) and `handle_ingest` |
| `Follow`, `Stream`, `TakeEvent`, `CloseTab` | `handle_tail` and its client |
| `WalAppend`, `WalHandOff`, `WalRefuse`, `WalConfirm`, `WalDone` | the WAL worker: append and answer, the blocking handoff, a failed append, `confirm`, the end of its loop |
| `MemReceive`, `MemFlush`, `MemSignal`, `MemFlushFails`, `MemDone`, `MemPanics` | the MemTable worker: broadcast and receive, a flush and its blocking signal, a failed flush with `return_to_live_buffer`, the last flush, and the service dictionary running out of keys in `append_record` |
| `SecondReplays` ... `SecondFails` | a second `run_server` up to its failing bind |
| `UninstallRemoves`, `UninstallFails`, `UninstallStep` | `uninstall::run` target by target; the files of a running server are unlinked under it; a place that `exists()` cannot see is skipped, and a root that holds something else or cannot be removed stays, without a word in either case |

`LiveTail` keeps the batches sent and a position per subscriber; the ring (tokio's broadcast channel,
external) is the last `Capacity` of them. A stream is polled only while its last event has been taken.
`seen` is the position a client works out from the events alone; `TailAccounts` compares it with the
stream's. The answer of `logs_event` for records that cannot be encoded is left out, since strings and numbers
always can. `Uninstall` names a place by its label; `root` is the directory that holds data and log, `other`
whatever else may be in it, and `mislaid` remembers targets that were there and not seen.

What the model shows that no document says:

- a second server started by mistake stores the rows the first has not flushed again, and if its start is slow
  enough for a flush, its `confirm` deletes the log of the first one with what was appended meanwhile.
  Those rows then live only in the first one's memory: `GracefulExit` holds, a crash would lose them;
- when `ctrl_c()` fails, the listener ends, drops the trigger, and the server shuts down, although
  `main.rs:315` logs that shutdown must be signalled externally;
- `DRAIN_TIMEOUT` covers the join of the workers only: a client that neither reads nor hangs up holds
  `with_graceful_shutdown` for as long as it likes, so `Terminates` assumes that clients do one of the
  two;
- "Logs stop being accepted immediately" (`uninstall.rs:229`) is so only if no server is running: one
  that is goes on acknowledging into an unlinked file, and a log it cannot reopen makes it refuse
  every batch until it is restarted. `NothingBehind` is therefore stated without a server, since a
  flush re-creates the directories. Even so a run that says "Uninstalled" may leave the binary, a root that is not
  empty (`uninstall.rs:127` wants that) and a directory whose metadata it could not read;
- a process may exit with 0 without rows it has acknowledged: those that a failed flush shed over the cap.
  `GracefulExit` excuses them; they are in the log, if a later confirm has left them there (`ShedRowsLost`);
- a replay that overflows the service dictionary panics the start, as it would the worker.

## Runs

| Run | Expected | Shows |
| --- | --- | --- |
| `WritePathSafety` | pass | `IInv`, `AckedRowsSurvive`, `DuplicatesBounded`, `DrainedIsStored`, `LiveBufferBounded`, `ReclaimsOnlyFlushedRows` and the refinement `ImplementsStore`, with one crash, one restart and two I/O errors of any kind, a log that cannot be counted included (901,000 states) |
| `WritePathLiveness` | pass | `AckedRowsReachParquet`, `ShutdownDrains` under fairness, with a failed flush, a crash or power loss, and the restart after it (195,000 states) |
| `ShedRowsLost` | violation | one failed flush sheds a row, two later flushes confirm enough rows to delete the segment that holds it |
| `TornTailBuriesRows` | violation | crash in an append, restart, append behind the torn record, restart: the rows are unreadable |
| `MiscountedLog` | violation | a restart counts the log short; the flush of the replayed row confirms a segment with an acknowledged row that is only in memory, and it is deleted (`DeletesOnlyFlushedRows`) |
| `WorkersDeadlock` | violation | both channels full, each worker waits for the other |
| `CompactorRuns` | pass | `CompactorInv`, `RowsSurvive`, `NoVisibleDuplicates`, `RewritesBounded`, `HiddenRowsReturn`, `Converges` with a crash and an I/O error |
| `RollbackCutShort` | violation | a crash between discarding the part and restoring the sources: the next sweep deletes the sources |
| `RollbackBesideMerge` | violation | a flusher's part beside the leftovers of a published merge: the sources come back as duplicates |
| `SdkClients` | pass | `ClientInv`, `LossIsCounted`, `DuplicatesNeedAFailure`, `BacklogBounded`, `BacklogInOrder`, `CloseDelivers`, `ExitLeavesOnlyNewer`, `Delivered` for each client with a failed request (86,000 states) |
| `QueryEngine` | pass | `QueryInv`, `OnlyExpiredRowsGo`, `SearchReadsOnce`, `SteadyRowsFound`, `PagesAreGlobal`, `AggregatesAreGlobal`, `RuntimesAreExclusive`, `RequestsEnd`, `ExpiredRowsGo` (166,000 states) |
| `Server` | pass | `ServerInv`, `TailAccounts`, `GracefulExit`, `NoAnswerCut`, `NothingBehind`, `Terminates` with one error, failed flush or panic and each cast (547,000 states) |

The violation runs need no fairness and check one invariant or action property each; `PROJECT.json` quotes under
`findings` the line of the repository that says otherwise.

### Two more counterexamples

Two invariants that the documents promise are stated beside the others and belong to no run; TLC refutes each
within seconds when it is the only INVARIANT under `SPECIFICATION Spec`:

- `ChunksAreDurable` (`WritePath`), with the constants of `TornTailBuriesRows` and `CrashKinds = {"power"}`: a
  row is acknowledged, flushed and confirmed, its segment is deleted, and a power loss takes the chunk, which
  `write_chunk` closed and renamed without a sync (`engine/storage.rs:85`). `storage-engine.md:26` calls it
  "durable beyond the WAL";
- `NeverDroppedInAsync` (`QueryEngine`), with the constants of `QueryEngine`: `execute_sql` takes its runtime out
  of the `RuntimeDropGuard` and then awaits the lock of the slot (`query.rs:109-110`). A request that has to
  wait there, because another one builds a runtime under the lock, and is cancelled drops its runtime in the
  async context, which `query.rs:82-83` says never happens.

### Bounds, and why they are enough

- `MaxRow = 3` rows (four in `ShedRowsLost` and `TornTailBuriesRows`, five in `WorkersDeadlock`) in batches of one or two, `FlushRowLimit = 2`, `LiveCapFactor = 1`: a group
  of two batches, a flush over two chunks, a second group and a second flush while the first is
  unconfirmed, and a buffer over its cap all happen. The product uses factor 10 and limits in the
  thousands; nothing depends on the ratio, and the theorems do not fix it.
- `MpscCap = 2`, `HandoffCap = 1`: the channels fill. `MaxGroup = 2` (50 in the code).
- `MaxBoots = 2`, `MaxFaults = 2`: one restart and two I/O errors, anywhere. The theorems hold for
  any number of both.
- Each violation run has only the kinds of errors and crashes its counterexample needs: `MiscountedLog` one
  crash and one misread, `TornTailBuriesRows` one crash and no error, `ShedRowsLost` one failed flush.
- The invariants behind the proofs that are not properties of a run were checked before they were
  proved: `KnownInv`, `DrainInv` and `CopiesInv` of the write path for three rows with power losses;
  those of the compactor with two I/O errors (4.2 million states), of the queries with two requests
  beside a row (294,000 states), of the clients with three failures (8.3 million states) and with six
  records and a body limit of one (3.7 million states), and `TailInv` with three batches beside a ring
  of one (1.5 million states).
- `WritePathLiveness` takes `MpscCap = 3` with three rows, so the truncate channel cannot fill:
  with full channels the workers can deadlock (`WorkersDeadlock`) and liveness does not hold.
- `CompactorRuns`: four rows, `MaxFiles = 1`, `TargetSize = 3`: three merges in a chain, a file that
  reaches the target, and chunks flushed at every point of a merge.
- `SdkClients`: five records, batches of two, a cap of three, a body limit of two, one failure: a batch
  that fails, is overtaken and merged, a backlog over the cap, a merged request over the limit, a
  late arrival after a retry, and a join that times out all happen.
- `QueryEngine`: one request beside two rows with timestamps in two days, two requests beside none
  (`CrowdRows`): requests share nothing but the runtime slot. Two instants of a two-day clock, one
  I/O error. Ranges of one and four make the filter name days, months and years; flushes over two
  days that fail half-way, merges, purges of a file being read, reuse and collision in the slot all
  happen.
- `Server`: two requests beside one tab with a ring of one batch, so that the tab lags, recovers and is
  shut down while it lags; one request (`OtherRows`) beside the casts whose hazards are about the log
  and need one old and one new row. `FlushRowLimit = 1` lets the second server flush what it replays,
  `LiveCapFactor = 1` makes a failed flush shed, and channels of one make both workers wait for each other's
  room, though never both at once. One error, panic, failed flush or failed removal. A server starts with no rows
  in Parquet, and uninstall is run again after a failure only where no server runs: what is left over from
  an earlier run matters to a lone uninstall only.
- `CHECK_DEADLOCK FALSE` everywhere: the server may end for good, and the bounds stop it.

### Fairness

Weak fairness of each worker's steps: they are threads of their own. Strong fairness of taking a
truncate signal, because `select!` polls its ready branches in random order, and of the flush
interval, because it elapses again and again while the loop turns. A server that was stopped is
started again. Clients, shutdown, crashes and faults owe nothing. In `Server` the tasks of the runtime
and the two workers run, and clients take their events and answers or hang up; signals, errors, time
limits, the second server and the uninstall owe nothing. In `SdkClients` the server answers or fails every request, and the clients' threads,
timers and callbacks run; the application's calls owe nothing. In
`QueryEngine` requests, teardown threads and retention sweeps run; flushes, merges, timeouts and
cancellations owe nothing. In `Compactor` both threads are weakly fair and publishing a chunk is strongly
fair: a sweep that meets the part being written makes that flush fail, and only the length of the
sweep interval keeps this from happening at every retry.

## What is proved

Every theorem holds for every value of the constants: any number of rows, requests, files and clients,
any capacity, limit and partitioning, any number of restarts, crashes, I/O errors and panics. The named
assumptions only give the constants their types, make capacities, limits and the target size of a merge
positive, and start the clock before its end. Every invariant of a passing run has its theorem. The theorems
of the write path say of each of the four excuses what it excuses; `ReclaimSafe` and the counting parts of
`IInv` hold until a start fails to count the log, and `DeletesOnlyFlushedRows`, without that proviso, is
refuted by `MiscountedLog`.

| Theorem | Module | States |
| --- | --- | --- |
| `TypeCorrect`, `Invariance` | `WritePathProofs` | `Spec => []TypeOK`, `Spec => []IInv` |
| `AckedSurvive` | `WritePathProofs` | `Spec => []AckedRowsSurvive` |
| `ReclaimSafe` | `WritePathProofs` | `Spec => ReclaimsOnlyFlushedRows` |
| `StoreRefined` | `StoreProofs` | `Spec => ImplementsStore` |
| `DrainStores` | `DeliveryProofs` | `Spec => []DrainedIsStored` |
| `DuplicatesAreCounted` | `DeliveryProofs` | `Spec => []DuplicatesBounded` |
| `LiveBufferStaysBounded` | `DeliveryProofs` | `Spec => []LiveBufferBounded` |
| `MergeStaysCovered` | `CompactorProofs` | `Spec => []CompactorInv` |
| `PublishedRowsSurvive` | `CompactorProofs` | `Spec => []RowsSurvive` |
| `NoRowSeenTwice` | `CompactorProofs` | `Spec => []NoVisibleDuplicates` |
| `RewritesStayBounded` | `CompactorProofs` | `Spec => []RewritesBounded` |
| `QueriesAreTyped` | `QueryProofs` | `Spec => []QueryInv` |
| `RuntimesHaveOneOwner` | `QueryProofs` | `Spec => []RuntimesAreExclusive` |
| `RetentionIsTheOnlyLoss` | `QueryProofs` | `Spec => []OnlyExpiredRowsGo` |
| `SearchesReadOnce` | `QueryProofs` | `Spec => []SearchReadsOnce` |
| `AnswersHaveSteadyRows` | `QueryProofs` | `Spec => []SteadyRowsFound` |
| `SearchesPageAll` | `QueryProofs` | `Spec => []PagesAreGlobal` |
| `SearchesAggregateAll` | `QueryProofs` | `Spec => []AggregatesAreGlobal` |
| `RecordsAreHeldOnce` | `SdkProofs` | `Spec => []ClientInv` |
| `LossesAreCounted` | `SdkProofs` | `Spec => []LossIsCounted` |
| `CopiesComeFromFailures` | `SdkProofs` | `Spec => []DuplicatesNeedAFailure` |
| `BacklogsAreBounded` | `SdkProofs` | `Spec => []BacklogBounded` |
| `BacklogsAreInOrder` | `SdkProofs` | `Spec => []BacklogInOrder` |
| `ClosingDelivers` | `SdkProofs` | `Spec => []CloseDelivers` |
| `ExitLeavesNewer` | `SdkProofs` | `Spec => []ExitLeavesOnlyNewer` |
| `GracefulExitKeepsRows` | `ServerProofs` | `Spec => []GracefulExit` |
| `AnswersBeforeDraining` | `ServerProofs` | `Spec => []NoAnswerCut` |
| `UninstallLeavesNothing` | `ServerProofs` | `Spec => []NothingBehind` |
| `TailsAccountForAll` | `ServerProofs` | `Spec => []TailAccounts` |
| `AckedRowsStayInHand` | `ServerProofs` | `Spec => []ServerInv` |

**The log.** `AckedRowsSurvive` is not inductive: nothing in it says why a segment whose cumulative
count is covered by `confirmed` has no row left in memory. `WalState` compares numbers; the
comparison speaks about rows because rows leave memory in the order in which they were logged. `IInv`
follows the rows logged since startup through the stages flushed, taken and live, table, handoff,
and the batch being handed off:

1. `StagesInv`: every logged row is in a stage unless it was shed;
2. `OrderInv`: each stage is older than the later ones;
3. `IncomingInv`, `DiskInv`: rows not yet logged are newer, and files of the log are in order;
4. `CountInv`: `confirmed` is at most the number of flushed rows whose signal was taken; and, as long as
   every start could count the log (`CountedInv`), the files are in the order of their numbers, the next
   number is unused (`NumberInv`), `cumulative + written` is the number of logged rows, and the rank of a
   segment's row among the logged rows is at most the segment's cumulative count (`RankInv`);
5. `ChunksInv`: flushed rows are in chunk files, or went with a power loss.

If a segment is reclaimed, `confirmed` is at least its cumulative count, so at least that many rows
are flushed. A row of the segment still in memory would be newer than every flushed row, so its rank
would exceed their number: a contradiction (`CountedRowsAreFlushed`). `SealStep` establishes the
rank bound when a segment is sealed. In a log that was counted short none of this holds; what a deletion or an
overwritten segment takes then is `overrun`, and the rest of the invariant goes on without it. The other
steps keep the invariant part by part.

**The refinement.** `IInv` speaks of acknowledged rows; the guards of `Publish` and `Shed` speak of
every row the worker has logged, a replayed one that nobody was ever told about included. `KnownInv`
closes the gap: the store answers for every logged row, and what a flush has yet to write is part of what it took. One lemma per
action names the store step it implements and shows its guard; `ReclaimMaps` rests on
`CountedRowsAreFlushed`, `AckMaps` on rows being new when they are answered.

**Delivery.** `DrainInv` says that a loop that has ended found the handoff channel closed and empty and has
pushed its table: then every stage of `StagesInv` is empty, and a logged row is flushed or shed.
`CopiesInv` weakens the bound of `DuplicatesBounded` by one for a row that is still *pending*; a chunk
written makes one more copy of rows that are pending no longer, for by `OrderInv` and `IncomingInv` a row
in a flush is in no other stage. A restart and a failed flush, the two steps that make rows pending
again, each raise the bound. `LiveBufferBounded` is inductive beside `IInv`.

**The compactor.** A row is lost only where a superseded file is deleted and seen twice only where a file
becomes visible, so the invariant says for every place a merge or a recovery can be cut at which files
cover the superseded ones. `MergeInv`: while sources are being hidden the output, still a part, has exactly
the rows of those hidden and of those to come. `LeftoverInv`: what an interrupted merge leaves is covered by
visible files, or a part is there that makes the next sweep restore it; this is where `cutShort`, a
rollback that discarded the part and did not finish, must be excluded. `ApartInv`: files that are or may
together become visible share no row, except after a rollback that took a flusher's part for its own
(`confused`). `GrowthInv` gives `RewritesBounded`: a file rewritten *k* times has more than *k* times
`MaxFiles` rows, since a merge takes more than `MaxFiles` files and the others hold at least a row each.

**Queries.** Three arguments run side by side. A runtime has one owner and there are no more in use than
requests have been served (`RuntimeInv`), so an unused one exists when `execute_sql` needs it. A row goes one
way, from the buffer through a flush into a file; the name of a file that a merge or a query remembers is
given to no other (`NamesInv`), and a row in a file is in no other and not in the buffer unless a flush
stored it and failed afterwards (`PlaceInv`). From that `ReadInv`: what a search has read of the Parquet tier
is in no file it has still to read and not in the buffer it reads last. `SteadyInv` says where a wanted row
that has not moved can be found by the time the query is as far as it is; it needs that the partition
filter admits every day of the time range (`WindowIsAdmitted`), whatever the calendar. `LossInv`: a row in no
tier is of an expired day, and the clock only moves on.

The operators of `SearchPlan` are proved correct apart from the states. For pages, `KthNewest` says that the
*k*-th newest entry of a set is no older than a stamp exactly if *k* entries are not; `TopsSuffice` counts
those among the newest `offset + limit` of both tiers, and finds as many as among all entries, since a tier
that leaves one of them out has returned enough that are newer; `PagesMerge` reads the page off the counts.
That a finite set can be sorted at all is `OrderExists`, by a minimal subset that cannot. For aggregates,
counts add over disjoint sets and the latest of a union is the latest of two.

**The clients.** `PlaceInv` puts every record of a client in one place. `NetInv` and `AnswerInv` tie the answer a
sender is given to what became of its batch. `CopiesInv` counts, for each record, the copies stored, those
that may yet arrive late and the one a sender or queue still holds: each failed request accounts for one
more. `LossInv` follows what leaves the client into `dropped` or `Forgiven`, `BoundInv` charges what the Rust
queue holds above its cap to records that failed and are not in flight. `OrderInv` and `NewerInv` rest on a
batch going back in front of what was logged since. `ShapeInv` is about closing: what each phase of `Close`,
`shutdown` and `instrument.ts`'s exit has already emptied.

**The server.** `RowsInv` follows acknowledged rows through memory alone, since the log may be taken away
by a second server or an uninstall: what is not in the hands of the WAL worker, on its way to the MemTable worker or with it, the store has or
it was shed, and the worker is done only after the WAL worker, with nothing left unless its last flush failed. `GateInv`: a request is
in flight only while the ingest server is open or draining, and then `run_server` is serving. `CleanInv`
lists, step by step, what an uninstall has removed by then; it needs that what was collected or mislaid
covers what exists, which is why it is stated where no server runs. `TailInv`: what waits for a client is nothing,
or one gap that ends where its stream stands, or the one batch at its own position; the fold of
`TailAccounts` is therefore over one event at most, and batches sent later change neither.

Only model-checked: liveness under fairness, which is beyond the prover's reach (`AckedRowsReachParquet`,
`ShutdownDrains`, `HiddenRowsReturn`, `Converges`, `Delivered`, `RequestsEnd`, `ExpiredRowsGo`, `Terminates`),
and what the violation runs refute, which needs a behaviour and no proof.

What the proofs changed in the models: a `CASE` whose arms overlap has no value a proof can know, and an
order that is not a total one need not sort anything; such definitions (`After`, `WalConfirm`, `SnapLive`,
`Collected`, `NewestFirst`) now say what is meant, and TLC finds the same states. `TargetSize` must be
positive, as the default and the tests have it (`engine/config.rs`), and the clock of `QueryEngine` has to start before
`MaxTime`.

## Plan

1. *(done)* Write path: model, properties, inductive invariant, proofs.
2. *(done)* Compactor beside the flusher: model and properties.
3. *(done)* Retention, the two query tiers beside flushes and merges, and the reuse of the query runtime.
4. *(done)* The SDK clients, the Node client's exit included.
5. *(done)* Search against reference definitions; the live tail with lagging subscribers.
6. *(done)* `LogStore` and its refinement by `WritePath`, checked and proved.
7. *(done)* The life of a process: start, signal, drain, exit, a second server, an uninstall.
8. *(done)* Proofs of what a drain delivers and of the server's safety properties.
9. *(done)* Proofs about the compactor, the queries, pages and aggregates, the clients and the live tail.
10. `Server` over the full `WritePath` instead of its reduction, and a restart after a second server has
    been there.

## Not modelled

- `drain_channel` of the WAL worker: the fallback for a process that cannot build a runtime; it answers
  every request with an error and touches nothing.
- `greplog status`, banner, flags, default paths and the texts of uninstall: they read and print. The
  decisions of uninstall are modelled.
- Stats and embedded assets: stateless. Of the mapping of errors to HTTP codes, `SdkClients` keeps whether a
  request was stored, rejected or failed.
- Record serialisation, level normalisation, Arrow columns and Parquet encoding: data, not control.
- A send on the Go handler's closed channel: `GoHandle` reaches the panic and the behaviour ends there; no
  document of the repository says what should happen.
- A retention of `None` (nothing runs), the parser's refusal of anything but one `SELECT`, and the query
  engine being dropped at exit.
- The dashboard front end (presentation over a third-party cache), benchmarks, examples and scripts.
