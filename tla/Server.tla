-------------------------------- MODULE Server --------------------------------
(***************************************************************************)
(* One greplog process from start to exit: run_server of                   *)
(* crates/cli/src/main.rs with start_servers, the shutdown signal, the     *)
(* Ctrl+C listener, the ingest handlers and the live tail, over a write    *)
(* path reduced to what WritePath shows of it: rows go to the log, are     *)
(* answered, handed off, broadcast, buffered and published; the log lets   *)
(* go of rows that are published.                                          *)
(*                                                                         *)
(* A behaviour has one of these casts beside it, chosen at the start:      *)
(*   tails      dashboard tabs that follow the live tail                   *)
(*   second     a second server started on the same directories           *)
(*   uninstall  greplog uninstall, with or without a server running        *)
(* Ctrl+C, hang-ups and time limits may come at any moment.                *)
(*                                                                         *)
(* The channels between the workers are bounded, and their sends block, as *)
(* in the code.  That both workers can block for good is the finding of    *)
(* WorkersDeadlock; Terminates is about runs with fewer rows than that     *)
(* takes: no more than HandoffCap + TruncateCap beside row 0.              *)
(***************************************************************************)
EXTENDS LiveTail, Uninstall, FiniteSets

CONSTANTS
    Casts,           \* the casts considered
    MaxRow,          \* a request posts one row; rows are numbered from 1
    OtherRows,       \* how many of them are posted in the casts without tails
    FlushRowLimit,   \* flush_row_limit
    LiveCapFactor,   \* the LiveBuffer holds so many flush_row_limits of rows
    HandoffCap,      \* crossbeam_buffer_size
    TruncateCap,     \* mpsc_buffer_size, as the truncate channel has it
    MaxFaults        \* errors and panics in a behaviour

ASSUME ServerAssumption ==
    /\ Casts \subseteq {"tails", "second", "uninstall"}
    /\ {MaxRow, OtherRows, MaxFaults} \subseteq Nat
    /\ {FlushRowLimit, LiveCapFactor, HandoffCap, TruncateCap} \subseteq Nat \ {0}

\* Row 0 is what an earlier run may have left in the log.
Request == 1..MaxRow
Row     == 0..MaxRow
Port    == {"ingest", "dashboard"}

VARIABLES
    cast,      \* who is beside the server
    main,      \* what run_server is doing
    code,      \* how the process ended
    failed,    \* start_servers returned an error
    signal,    \* the watch channel: "quiet", "fired", or "dropped" by its sender
    listener,  \* the task of spawn_signal_listener
    port,      \* each server: "closed", "bound", "open", "draining" or "done"
    request,   \* what has become of each request
    ingest,    \* requests waiting for the WAL worker
    handoff,   \* rows waiting for the MemTable worker
    inhand,    \* the row that the WAL worker has answered and not yet handed off
    confirm,   \* truncate signals waiting for the WAL worker
    wal,       \* the WAL worker: "off", "loop" or "done"
    file,      \* its open file: "linked", "unlinked", or "error"
    mem,       \* the MemTable worker: "off", "loop", "signal", "done" or "dead"
    buffer,    \* rows in the MemTable and the LiveBuffer
    log,       \* rows a restart would replay
    stored,    \* rows in Parquet
    second,    \* the second server: "none", "loaded", "counted", "flushed", "gone"
    theirs,    \* rows it replayed, and the number it counted on opening the log
    faults,    \* errors and panics so far
    acked,     \* history: rows answered with 200 OK
    left,      \* history: the last flush failed, or the MemTable worker panicked
    shed,      \* history: rows shed from a LiveBuffer over its cap
    erased     \* history: rows of files that somebody else removed

life      == <<main, code, failed, signal, listener>>
servers   == <<port, request>>
workers   == <<ingest, handoff, inhand, confirm, wal, file, mem, buffer>>
disk      == <<log, stored, erased>>
neighbour == <<cast, second, theirs>>
history   == <<acked, left, shed>>
vars == <<life, servers, workers, disk, neighbour, faults, history,
          tailVars, uninstallVars>>

TypeOK ==
    /\ cast \in Casts
    /\ main \in {"off", "starting", "building", "binding", "binding2",
                 "serving", "draining", "exited"}
    /\ code \in {"none", "0", "1", "75", "130", "killed"}
    /\ failed \in BOOLEAN
    /\ signal \in {"quiet", "fired", "dropped"}
    /\ listener \in {"unborn", "first", "firing", "second", "gone"}
    /\ port \in [Port -> {"closed", "bound", "open", "draining", "done"}]
    /\ request \in [Request -> {"none", "waiting", "answered", "over"}]
    /\ ingest \in Seq(Request) /\ handoff \in Seq(Request)
    /\ inhand \in {{}} \cup {{r} : r \in Request}
    /\ confirm \in 0..TruncateCap
    /\ wal \in {"off", "loop", "done"}
    /\ file \in {"linked", "unlinked", "error"}
    /\ mem \in {"off", "loop", "signal", "done", "dead"}
    /\ {buffer, log, stored, acked, shed, erased} \subseteq SUBSET Row
    /\ second \in {"none", "loaded", "counted", "flushed", "gone"}
    /\ theirs \in [rows : SUBSET Row, count : Nat]
    /\ faults \in 0..MaxFaults
    /\ left \in BOOLEAN
    /\ LiveTailTypeOK
    /\ UninstallTypeOK

Fault   == faults < MaxFaults /\ faults' = faults + 1
Running == main \notin {"off", "exited"}

-----------------------------------------------------------------------------
(***************************************************************************)
(* run_server                                                              *)
(***************************************************************************)
\* The process ends; its memory and its connections go with it.
Exit(how) ==
    /\ main' = "exited" /\ code' = how
    /\ failed' = FALSE /\ signal' = "quiet" /\ listener' = "unborn"
    /\ port' = [p \in Port |-> "closed"]
    /\ request' = [r \in Request |-> "over"]
    /\ ingest' = <<>> /\ handoff' = <<>> /\ inhand' = {} /\ confirm' = 0
    /\ wal' = "off" /\ file' = "linked" /\ mem' = "off" /\ buffer' = {}
    /\ sent' = <<>> /\ tails' = [t \in Client |-> Closed]
    /\ UNCHANGED <<disk, neighbour, faults, history, uninstallVars>>

\* The WAL worker opens current.wal, or keeps the error as its writer for good.
OpenLog ==
    \/ file' = "linked" /\ UNCHANGED faults
    \/ file' = "error" /\ Fault

\* Mutant of Recover: the workers start before the log is replayed.
RecoverNothing ==
    /\ main = "starting"
    /\ places' = places \cup {"data", "wal", "root"}
    /\ wal' = "loop" /\ mem' = "loop"
    /\ main' = "building" /\ OpenLog
    /\ UNCHANGED <<code, failed, signal, listener, servers, ingest, handoff, inhand, confirm,
                   buffer, disk, neighbour, history, tailVars, uninstall, found, mislaid>>

\* The directories are created, the log is replayed and the workers started.
Recover ==
    /\ main = "starting"
    /\ places' = places \cup {"data", "wal", "root"}
    /\ buffer' = log
    /\ wal' = "loop" /\ mem' = "loop"
    /\ main' = "building" /\ OpenLog
    /\ UNCHANGED <<code, failed, signal, listener, servers, ingest, handoff, inhand,
                   confirm, disk, neighbour, history, tailVars, uninstall, found, mislaid>>

\* The query engine is built; the listener and the background loops are spawned.
BuildEngine ==
    /\ main = "building"
    /\ main' = "binding" /\ listener' = "first"
    /\ UNCHANGED <<code, failed, signal, servers, workers, disk, neighbour, faults,
                   history, tailVars, uninstallVars>>

\* An error before the servers leaves run_server at once: main exits with 1, and
\* the workers are not waited for.
StartFails ==
    /\ main \in {"starting", "building"}
    /\ Exit("1")

\* start_servers binds both ports before it serves either.
Bind(p) ==
    /\ main = IF p = "ingest" THEN "binding" ELSE "binding2"
    /\ main' = IF p = "ingest" THEN "binding2" ELSE "serving"
    /\ port' = IF p = "ingest" THEN [port EXCEPT ![p] = "bound"]
                               ELSE [q \in Port |-> "open"]
    /\ UNCHANGED <<code, failed, signal, listener, request, workers, disk, neighbour,
                   faults, history, tailVars, uninstallVars>>

\* A port is taken: start_servers returns, and the write path is drained.
BindFails ==
    /\ main \in {"binding", "binding2"}
    /\ main' = "draining" /\ failed' = TRUE
    /\ port' = [p \in Port |-> "closed"]
    /\ UNCHANGED <<code, signal, listener, request, workers, disk, neighbour, faults,
                   history, tailVars, uninstallVars>>

\* Mutant of ServersReturn: one server is enough.
ServersReturnEither ==
    /\ main = "serving"
    /\ \E p \in Port : port[p] = "done"
    /\ main' = "draining"
    /\ UNCHANGED <<code, failed, signal, listener, servers, workers, disk, neighbour,
                   faults, history, tailVars, uninstallVars>>

\* join! has both servers; the last wal_tx is dropped, the background loops are
\* aborted.
ServersReturn ==
    /\ main = "serving"
    /\ \A p \in Port : port[p] = "done"
    /\ main' = "draining"
    /\ UNCHANGED <<code, failed, signal, listener, servers, workers, disk, neighbour,
                   faults, history, tailVars, uninstallVars>>

\* Mutant of Drained: only the WAL worker is joined.
DrainedWithoutMemTable ==
    /\ main = "draining" /\ wal = "done"
    /\ Exit(IF failed THEN "1" ELSE "0")

\* drain_write_path has joined both workers, one that panicked included.
Drained ==
    /\ main = "draining" /\ wal = "done" /\ mem \in {"done", "dead"}
    /\ Exit(IF failed THEN "1" ELSE "0")

DrainTimesOut ==
    /\ main = "draining"
    /\ Exit("75")

RunServer ==
    \/ Recover \/ BuildEngine \/ StartFails \/ BindFails
    \/ ServersReturn \/ Drained \/ DrainTimesOut
    \/ \E p \in Port : Bind(p)

-----------------------------------------------------------------------------
(***************************************************************************)
(* spawn_signal_listener and the watch channel of shutdown.rs              *)
(***************************************************************************)
\* Before the listener's first poll Ctrl+C has its default effect, and at its
\* second wait it exits; in between and after it, it has none.
CtrlC ==
    /\ Running
    /\ \/ listener = "unborn" /\ Exit("killed")
       \/ listener = "second" /\ Exit("130")
       \/ /\ listener = "first" /\ listener' = "firing"
          /\ UNCHANGED <<main, code, failed, signal, servers, workers, disk, neighbour,
                         faults, history, tailVars, uninstallVars>>

Fire ==
    /\ Running /\ listener = "firing"
    /\ signal' = "fired" /\ listener' = "second"
    /\ UNCHANGED <<main, code, failed, servers, workers, disk, neighbour, faults,
                   history, tailVars, uninstallVars>>

\* ctrl_c() returns an error: the task ends and drops the trigger.
ListenerFails ==
    /\ Running /\ listener \in {"first", "second"}
    /\ Fault
    /\ listener' = "gone"
    /\ signal' = IF signal = "quiet" THEN "dropped" ELSE signal
    /\ UNCHANGED <<main, code, failed, servers, workers, disk, neighbour,
                   history, tailVars, uninstallVars>>

\* Shutdown::wait resolves: the value was set, or its sender has gone.
Signalled == signal # "quiet"

Listener == CtrlC \/ Fire \/ ListenerFails

-----------------------------------------------------------------------------
(***************************************************************************)
(* The two servers                                                         *)
(***************************************************************************)
InFlight(r) == request[r] \in {"waiting", "answered"}

\* with_graceful_shutdown: no new connections ...
StopAccepting(p) ==
    /\ Running /\ port[p] = "open" /\ Signalled
    /\ port' = [port EXCEPT ![p] = "draining"]
    /\ UNCHANGED <<life, request, workers, disk, neighbour, faults, history,
                   tailVars, uninstallVars>>

\* ... and the end of the ones there are.
ServerDone(p) ==
    /\ Running /\ port[p] = "draining"
    /\ IF p = "ingest" THEN \A r \in Request : ~InFlight(r)
                       ELSE \A t \in Client : tails[t].phase # "open"
    /\ port' = [port EXCEPT ![p] = "done"]
    /\ UNCHANGED <<life, request, workers, disk, neighbour, faults, history,
                   tailVars, uninstallVars>>

handling == <<life, port, handoff, inhand, confirm, wal, file, mem, buffer, disk,
              neighbour, faults, history, tailVars, uninstallVars>>

\* handle_ingest sends its batch on; requests are numbered as they come.
AcceptRequest(r) ==
    /\ Running /\ port["ingest"] = "open" /\ request[r] = "none"
    /\ \A q \in Request : q < r => request[q] # "none"
    /\ r <= (IF cast = "tails" THEN MaxRow ELSE OtherRows)
    /\ request' = [request EXCEPT ![r] = "waiting"]
    /\ ingest' = Append(ingest, r)
    /\ UNCHANGED handling

\* The answer is written; or the client has hung up, and the handler is dropped
\* but not its batch.
EndRequest(r) ==
    /\ Running /\ InFlight(r)
    /\ request' = [request EXCEPT ![r] = "over"]
    /\ UNCHANGED <<handling, ingest>>

tailing == <<life, servers, workers, disk, neighbour, faults, history, uninstallVars>>

Follow(t) ==
    /\ Running /\ cast = "tails" /\ port["dashboard"] = "open"
    /\ Subscribe(t)
    /\ UNCHANGED tailing

Stream(t) ==
    /\ Running
    /\ Receive(t) \/ Lagged(t) \/ (Signalled /\ EndOfStream(t))
    /\ UNCHANGED tailing

TakeEvent(t) == Running /\ Read(t) /\ UNCHANGED tailing
CloseTab(t)  == Running /\ HangUp(t) /\ UNCHANGED tailing

Servers ==
    \/ \E p \in Port : StopAccepting(p) \/ ServerDone(p)
    \/ \E r \in Request : AcceptRequest(r) \/ EndRequest(r)
    \/ \E t \in Client : Follow(t) \/ Stream(t) \/ TakeEvent(t) \/ CloseTab(t)

-----------------------------------------------------------------------------
(***************************************************************************)
(* The write path                                                          *)
(***************************************************************************)
\* No sender of the ingest channel is left.
IntakeClosed == main = "draining" /\ \A r \in Request : ~InFlight(r)

\* A row is logged and answered, before it is handed off; the group that is logged
\* with one sync is left out.  A file that somebody has unlinked is on no disk.
WalAppend ==
    LET row == Head(ingest)
    IN  /\ Running /\ wal = "loop" /\ inhand = {} /\ ingest # <<>>
        /\ CASE file = "linked"   -> log' = log \cup {row} /\ UNCHANGED erased
             [] file = "unlinked" -> erased' = erased \cup {row} /\ UNCHANGED log
             [] OTHER             -> FALSE
        /\ IF request[row] = "waiting"
           THEN /\ request' = [request EXCEPT ![row] = "answered"]
                /\ acked' = acked \cup {row}
           ELSE UNCHANGED <<request, acked>>
        /\ inhand' = {row}
        /\ ingest' = Tail(ingest)
        /\ UNCHANGED <<life, port, handoff, confirm, wal, file, mem, buffer, stored,
                       neighbour, faults, left, shed, tailVars, uninstallVars>>

\* The send waits for room in the channel; to a dead worker it fails.
WalHandOff ==
    /\ Running /\ inhand # {}
    /\ \/ mem = "dead" /\ UNCHANGED handoff
       \/ /\ mem # "dead" /\ Len(handoff) < HandoffCap
          /\ \E row \in inhand : handoff' = Append(handoff, row)
    /\ inhand' = {}
    /\ UNCHANGED <<life, servers, ingest, confirm, wal, file, mem, buffer, disk,
                   neighbour, faults, history, tailVars, uninstallVars>>

\* An append that fails, for a moment or because the log could not be reopened.
WalRefuse ==
    LET row == Head(ingest)
    IN  /\ Running /\ wal = "loop" /\ inhand = {} /\ ingest # <<>>
        /\ IF file = "error" THEN UNCHANGED faults ELSE Fault
        /\ request' = [request EXCEPT ![row] = IF @ = "waiting" THEN "answered" ELSE @]
        /\ ingest' = Tail(ingest)
        /\ UNCHANGED <<life, port, handoff, inhand, confirm, wal, file, mem, buffer, disk,
                       neighbour, history, tailVars, uninstallVars>>

\* Rows are logged, received and flushed in the order of their numbers.
Older(rows, all) == rows \subseteq all /\ \A r \in rows, q \in all \ rows : r < q

\* confirm: sealed files go, the oldest first, as many as its count covers; which
\* those are is the matter of WritePath, and any are here.  A file unlinked under
\* the worker cannot be renamed; it is opened anew if its directory exists.
WalConfirm ==
    /\ Running /\ wal = "loop" /\ inhand = {} /\ confirm > 0
    /\ confirm' = confirm - 1
    /\ \E rows \in SUBSET log : Older(rows, log) /\ log' = log \ rows
    /\ IF file = "error" \/ (file = "unlinked" /\ "wal" \notin places)
       THEN file' = "error" /\ UNCHANGED faults
       ELSE OpenLog
    /\ UNCHANGED <<life, servers, ingest, handoff, inhand, wal, mem, buffer, stored, erased,
                   neighbour, history, tailVars, uninstallVars>>

WalDone ==
    /\ Running /\ wal = "loop" /\ IntakeClosed /\ ingest = <<>> /\ inhand = {}
    /\ wal' = "done"
    /\ UNCHANGED <<life, servers, ingest, handoff, inhand, confirm, file, mem, buffer, disk,
                   neighbour, faults, history, tailVars, uninstallVars>>

\* The batch is broadcast before it is added to the table.
MemReceive ==
    /\ Running /\ mem = "loop" /\ handoff # <<>>
    /\ Broadcast(Head(handoff))
    /\ buffer' = buffer \cup {Head(handoff)}
    /\ handoff' = Tail(handoff)
    /\ UNCHANGED <<life, servers, ingest, inhand, confirm, wal, file, mem, disk, neighbour,
                   faults, history, uninstallVars>>

\* What a flush takes: the LiveBuffer has the oldest rows, and leaves fewer than
\* flush_row_limit in the table.
Pushed(rows) ==
    /\ rows # {} /\ Older(rows, buffer)
    /\ Cardinality(buffer \ rows) < FlushRowLimit

\* flush creates the directories it needs.
Publish(rows) ==
    /\ stored' = stored \cup rows
    /\ places' = IF rows = {} THEN places ELSE places \cup {"data", "root"}

\* A flush that succeeds is signalled to the WAL worker.
MemFlush ==
    /\ Running /\ mem = "loop"
    /\ \E rows \in SUBSET buffer :
           Pushed(rows) /\ Publish(rows) /\ buffer' = buffer \ rows
    /\ mem' = "signal"
    /\ UNCHANGED <<life, servers, ingest, handoff, inhand, confirm, wal, file, log, erased,
                   neighbour, faults, history, tailVars, uninstall, found, mislaid>>

\* The send waits for room in the channel; when the WAL worker is done it fails.
MemSignal ==
    /\ Running /\ mem = "signal"
    /\ \/ wal = "done" /\ UNCHANGED confirm
       \/ wal # "done" /\ confirm < TruncateCap /\ confirm' = confirm + 1
    /\ mem' = "loop"
    /\ UNCHANGED <<life, servers, ingest, handoff, inhand, wal, file, buffer, disk,
                   neighbour, faults, history, tailVars, uninstallVars>>

\* What return_to_live_buffer sheds of rows it takes back: none up to the cap, and
\* over it the oldest, until the rest is within it.
ShedOf(rows) ==
    LET cap == FlushRowLimit * LiveCapFactor
    IN  IF Cardinality(rows) <= cap THEN {{}}
        ELSE {old \in SUBSET rows : Older(old, rows) /\ Cardinality(rows \ old) <= cap}

\* A flush that fails may have published a part; all it took is returned.
MemFlushFails ==
    /\ Running /\ mem = "loop" /\ Fault
    /\ \E rows \in SUBSET buffer :
           /\ Pushed(rows)
           /\ \E part \in SUBSET rows : part # rows /\ Publish(part)
           /\ \E old \in ShedOf(rows) : buffer' = buffer \ old /\ shed' = shed \cup old
    /\ UNCHANGED <<life, servers, ingest, handoff, inhand, confirm, wal, file, mem, log,
                   erased, neighbour, acked, left, tailVars, uninstall, found, mislaid>>

\* The handoff channel is closed and empty: one last flush, which may fail.
MemDone ==
    /\ Running /\ mem = "loop" /\ wal = "done" /\ handoff = <<>>
    /\ mem' = "done"
    /\ \/ Publish(buffer) /\ buffer' = {} /\ UNCHANGED <<left, faults>>
       \/ /\ Fault /\ left' = TRUE /\ UNCHANGED buffer
          /\ \E part \in SUBSET buffer : part # buffer /\ Publish(part)
    /\ UNCHANGED <<life, servers, ingest, handoff, inhand, confirm, wal, file, log, erased,
                   neighbour, acked, shed, tailVars, uninstall, found, mislaid>>

\* A panic in append_record: more service names than the dictionary has keys.
MemPanics ==
    /\ Running /\ mem = "loop" /\ handoff # <<>>
    /\ Fault
    /\ mem' = "dead" /\ buffer' = {} /\ handoff' = <<>>
    /\ left' = TRUE
    /\ UNCHANGED <<life, servers, ingest, inhand, confirm, wal, file, disk, neighbour,
                   acked, shed, tailVars, uninstallVars>>

Workers ==
    \/ WalAppend \/ WalHandOff \/ WalRefuse \/ WalConfirm \/ WalDone
    \/ MemReceive \/ MemFlush \/ MemSignal \/ MemFlushFails \/ MemDone \/ MemPanics

-----------------------------------------------------------------------------
(***************************************************************************)
(* A second server on the same directories: it replays the log, starts its *)
(* workers and only then finds its ports taken.                            *)
(***************************************************************************)
secondly == <<life, servers, ingest, handoff, inhand, confirm, wal, mem, buffer, cast,
              faults, history, tailVars, uninstallVars>>

SecondReplays ==
    /\ cast = "second" /\ second = "none" /\ main = "serving"
    /\ second' = "loaded" /\ theirs' = [rows |-> log, count |-> 0]
    /\ UNCHANGED <<secondly, file, disk>>

\* Its WAL worker opens the log and counts it anew.
SecondCounts ==
    /\ Running /\ second = "loaded"
    /\ second' = "counted" /\ theirs' = [theirs EXCEPT !.count = Cardinality(log)]
    /\ UNCHANGED <<secondly, file, disk>>

\* Enough rows for a flush before the ports are found taken ...
SecondFlushes ==
    /\ Running /\ second = "counted" /\ Cardinality(theirs.rows) >= FlushRowLimit
    /\ stored' = stored \cup theirs.rows
    /\ second' = "flushed"
    /\ UNCHANGED <<secondly, theirs, file, log, erased>>

\* ... and its signal taken too: the log is renamed under the first server and,
\* if its count is covered, removed with all that was appended meanwhile.
SecondConfirms ==
    /\ Running /\ second = "flushed"
    /\ second' = "gone"
    /\ IF theirs.count <= Cardinality(theirs.rows)
       THEN /\ erased' = erased \cup (log \ stored) /\ log' = {} /\ file' = "unlinked"
       ELSE UNCHANGED <<log, erased, file>>
    /\ UNCHANGED <<secondly, theirs, stored>>

\* The ports are taken: the write path is drained, the last flush included.
SecondFails ==
    /\ Running /\ second \in {"loaded", "counted", "flushed"}
    /\ stored' = stored \cup theirs.rows
    /\ second' = "gone"
    /\ UNCHANGED <<secondly, theirs, file, log, erased>>

Second ==
    SecondReplays \/ SecondCounts \/ SecondFlushes \/ SecondConfirms \/ SecondFails

-----------------------------------------------------------------------------
(***************************************************************************)
(* greplog uninstall; the files of a running server go with the rest       *)
(***************************************************************************)
removing == <<life, servers, ingest, handoff, inhand, confirm, wal, mem, buffer,
              neighbour, history, tailVars>>

EraseRows(lostLog, lostStored) ==
    /\ log' = log \ lostLog /\ stored' = stored \ lostStored
    /\ erased' = erased \cup lostLog \cup lostStored

Unlinked == IF wal # "off" /\ file = "linked" THEN "unlinked" ELSE file

UninstallRemoves ==
    /\ \/ RemoveTarget("data") /\ EraseRows({}, stored) /\ UNCHANGED file
       \/ RemoveTarget("wal") /\ EraseRows(log, {}) /\ file' = Unlinked
       \/ RemoveTarget("binary") /\ UNCHANGED <<disk, file>>
    /\ UNCHANGED <<removing, faults>>

\* remove_dir_all stops with part of a directory removed; or a place cannot be seen,
\* or the root cannot be removed.
UninstallFails ==
    /\ Fault
    /\ \/ /\ RemoveTargetFails("data") /\ UNCHANGED file
          /\ \E rows \in SUBSET stored : EraseRows({}, rows)
       \/ /\ RemoveTargetFails("wal") /\ file' \in {file, Unlinked}
          /\ \E rows \in SUBSET log : EraseRows(rows, {})
       \/ /\ RemoveTargetFails("binary") \/ CollectMisses \/ RemoveParentFails
          /\ UNCHANGED <<disk, file>>
    /\ UNCHANGED removing

\* Beside a server one attempt is enough; without one there may be many.
UninstallStep ==
    /\ cast = "uninstall"
    /\ \/ UninstallRemoves \/ UninstallFails
       \/ /\ \/ Collect \/ Decide \/ RemoveParent
             \/ \E t \in Target : SkipMissing(t)
             \/ main = "off" /\ Retry
          /\ UNCHANGED <<removing, disk, file, faults>>

-----------------------------------------------------------------------------
Init ==
    /\ cast \in Casts
    /\ main = "starting" \/ (main = "off" /\ cast = "uninstall")
    /\ code = "none" /\ failed = FALSE /\ signal = "quiet" /\ listener = "unborn"
    /\ port = [p \in Port |-> "closed"]
    /\ request = [r \in Request |-> "none"]
    /\ ingest = <<>> /\ handoff = <<>> /\ inhand = {} /\ confirm = 0
    /\ wal = "off" /\ file = "linked" /\ mem = "off" /\ buffer = {}
    /\ log \in SUBSET {0} /\ (cast = "tails" => log = {})
    /\ stored \in SUBSET {0} /\ (main # "off" => stored = {})
    /\ acked = log \cup stored /\ erased = {}
    /\ second = "none" /\ theirs = [rows |-> {}, count |-> 0]
    /\ faults = 0 /\ left = FALSE /\ shed = {}
    /\ LiveTailInit
    /\ places \in {{"binary"}, Target \cup {"root"}, Place}
    /\ cast # "uninstall" => places = Target \cup {"root"}
    /\ main # "off" => "other" \notin places
    /\ acked # {} => Target \subseteq places
    /\ uninstall = "idle" /\ found = {} /\ mislaid = {}

Next == RunServer \/ Listener \/ Servers \/ Workers \/ Second \/ UninstallStep

Spec == Init /\ [][Next]_vars

(***************************************************************************)
(* Tasks and threads run, and clients take their events, read their        *)
(* answers or hang up.  Errors, signals and time limits owe nothing.  A    *)
(* port or a request has each of its steps once, so that fairness of any   *)
(* of them is fairness of each.                                            *)
(***************************************************************************)
Fairness ==
    /\ WF_vars(Recover \/ BuildEngine \/ Bind("ingest") \/ Bind("dashboard")
                \/ ServersReturn \/ Drained)
    /\ WF_vars(Fire)
    /\ WF_vars(\E p \in Port : StopAccepting(p) \/ ServerDone(p))
    /\ WF_vars(\E r \in Request : request[r] = "answered" /\ EndRequest(r))
    /\ \A t \in Client : WF_vars(Stream(t) \/ TakeEvent(t))
    /\ WF_vars(WalAppend \/ WalHandOff \/ WalDone \/ (file = "error" /\ WalRefuse))
    /\ WF_vars(MemReceive \/ MemSignal \/ MemDone)

FairSpec == Spec /\ Fairness

-----------------------------------------------------------------------------
(***************************************************************************)
(* Properties                                                              *)
(***************************************************************************)
\* Rows an uninstall was asked to remove.
Removed == IF cast = "uninstall" THEN erased ELSE {}

\* While the MemTable worker runs, a row that was acknowledged is on its way to it, in
\* its hands, or has left them for Parquet, whatever becomes of the log: but for rows
\* shed from a LiveBuffer over its cap, which are in the log at best (ShedRowsLost).
AckedRowsInHand ==
    mem \in {"loop", "signal"} =>
        acked \subseteq buffer \cup inhand \cup ToSet(handoff) \cup stored \cup shed \cup Removed

\* The types, and where acknowledged rows are.
ServerInv == TypeOK /\ AckedRowsInHand

\* After a graceful exit every acknowledged row is in Parquet, also when flushes failed
\* before the last one, or when a second server has taken the log away: unless the row
\* was shed over the cap, an uninstall removed it, the last flush failed, or the
\* MemTable worker had panicked (drain_write_path).
GracefulExit ==
    code = "0" /\ ~left => acked \subseteq stored \cup shed \cup Removed

\* Whenever the process gets as far as draining its write path, no client is left
\* without the answer to a request that was accepted (start_servers).
NoAnswerCut ==
    main = "draining" => \A r \in Request : ~InFlight(r)

\* An uninstall that says it is done leaves no data directory, no log and no row, when
\* no server was running, whatever an earlier attempt left behind: unless it could not
\* see the directory.  The binary and the root may stay (uninstall::run).
NothingBehind ==
    uninstall = "done" /\ main = "off" =>
        /\ places \cap {"data", "wal"} \subseteq mislaid
        /\ stored # {} => "data" \in mislaid
        /\ log # {} => "wal" \in mislaid

\* A shutdown that is signalled, by Ctrl+C or by the loss of the trigger, ends the
\* process, and so does a port that is taken: no open tab, lagging or not, no request
\* in flight, no full channel and no dead worker holds it, short of the rows it takes
\* to block both workers (handle_tail, Shutdown::wait; WorkersDeadlock).
Terminates == (Signalled \/ failed) /\ Running ~> main = "exited"
=============================================================================
