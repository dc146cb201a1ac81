------------------------------ MODULE SdkClients ------------------------------
(***************************************************************************)
(* The four SDK clients in front of the ingest server: sdk/go, sdk/node,   *)
(* sdk/rust and sdk/python.  Each keeps records in memory, posts them in   *)
(* batches, and decides by the answer what becomes of a batch:             *)
(*                                                                         *)
(*              failed (network, 429, 5xx)        rejected (other 4xx)     *)
(*   go, node   back to the front, cap applied    dropped and counted      *)
(*   rust       back to the front, no cap         dropped                  *)
(*   python     sent once more, then dropped      the same                 *)
(*                                                                         *)
(* An answer may be lost on its way back, and a request its sender has     *)
(* given up may still arrive.  A record is the number under which the      *)
(* application logged it.  A behaviour is that of one client, chosen at    *)
(* the start.  Timers are choices: a tick may come at any moment.          *)
(***************************************************************************)
EXTENDS Naturals, FiniteSets, SequencesExt

CONSTANTS
    MaxRecord,         \* how many records the application logs
    BatchSize,         \* records that trigger a flush
    MaxQueueSize,      \* the cap of the queue or backlog
    ChannelCapacity,   \* the capacity of the Go client's channel
    BodyLimit,         \* the largest request the server takes, in records
    MaxFaults          \* requests left unanswered or refused for the moment

ASSUME ClientAssumption ==
    /\ {MaxRecord, MaxFaults} \subseteq Nat
    /\ {BatchSize, MaxQueueSize, ChannelCapacity, BodyLimit} \subseteq Nat \ {0}

Record == 1..MaxRecord
Sdk    == {"go", "node", "rust", "python"}

\* The client's own thread or timer, a thread of the application, and in Python
\* the thread that calls shutdown.
Sender == {"flusher", "app", "main"}

VARIABLES
    sdk,        \* which client this is
    logged,     \* records logged so far
    logChan,    \* go: records on their way to the worker
    queue,      \* the records waiting for a request; go calls them pending
    sends,      \* what each sender is doing: [phase, batch, attempt, answer]
    retrying,   \* go: the last attempt failed, only the ticker tries again
    worker,     \* the flusher: "loop", in go "drain" and "last", then "done"
    phase,      \* "open", "closing", "joined", "closed"; go: "panicked"
    dropped,    \* the count the client reports
    late,       \* requests given up by their sender that may still arrive
    stored,     \* how often the server has stored each record
    faults,     \* requests that failed so far
    failed,     \* history: how many failed requests held the record
    rejected,   \* history: how many rejected requests held the record
    cut         \* history: the records logged before the client was closed

clientVars == <<logChan, queue, retrying, worker, dropped>>
serverVars == <<late, stored, faults, failed, rejected>>
vars == <<sdk, logged, clientVars, sends, phase, cut, serverVars>>

Idle == [phase |-> "idle", batch |-> <<>>, attempt |-> 0, answer |-> "none"]
Due  == [Idle EXCEPT !.phase = "due"]
Waiting(batch, attempt) ==
    [phase |-> "waiting", batch |-> batch, attempt |-> attempt, answer |-> "none"]

Init ==
    /\ sdk \in Sdk
    /\ logged = 0
    /\ logChan = <<>> /\ queue = <<>>
    /\ sends = [s \in Sender |-> Idle]
    /\ retrying = FALSE /\ worker = "loop" /\ phase = "open"
    /\ dropped = 0 /\ faults = 0 /\ cut = 0
    /\ late = {}
    /\ stored = [r \in Record |-> 0]
    /\ failed = stored /\ rejected = stored

-----------------------------------------------------------------------------
(***************************************************************************)
(* The network and the server                                              *)
(***************************************************************************)
\* One more for every record of the batch.
Bump(count, batch) ==
    [r \in Record |-> IF r \in ToSet(batch) THEN count[r] + 1 ELSE count[r]]

Awaits(s) == sends[s].phase = "waiting" /\ sends[s].answer = "none"
Answer(s, answer) == sends' = [sends EXCEPT ![s].answer = answer]

serverOnly == <<sdk, logged, clientVars, phase, cut>>

\* 200: the batch is in the write-ahead log.
Accept(s) ==
    /\ Awaits(s)
    /\ Len(sends[s].batch) <= BodyLimit
    /\ stored' = Bump(stored, sends[s].batch)
    /\ Answer(s, "ok")
    /\ UNCHANGED <<serverOnly, late, faults, failed, rejected>>

\* 413: the request is larger than the server takes.
Reject(s) ==
    /\ Awaits(s)
    /\ Len(sends[s].batch) > BodyLimit
    /\ rejected' = Bump(rejected, sends[s].batch)
    /\ Answer(s, "rejected")
    /\ UNCHANGED <<serverOnly, late, stored, faults, failed>>

\* The sender sees a network error, a timeout, 429 or 5xx.  The batch was not
\* stored, or it was and the answer is lost, or it is still on its way.
Fail(s) ==
    /\ Awaits(s) /\ faults < MaxFaults
    /\ faults' = faults + 1
    /\ failed' = Bump(failed, sends[s].batch)
    /\ Answer(s, "failed")
    /\ \/ UNCHANGED <<stored, late>>
       \/ /\ Len(sends[s].batch) <= BodyLimit
          /\ stored' = Bump(stored, sends[s].batch)
          /\ UNCHANGED late
       \/ /\ Len(sends[s].batch) <= BodyLimit
          /\ late' = late \cup {[no |-> faults, batch |-> sends[s].batch]}
          /\ UNCHANGED stored
    /\ UNCHANGED <<serverOnly, rejected>>

ArriveLate ==
    \E request \in late :
        /\ late' = late \ {request}
        /\ stored' = Bump(stored, request.batch)
        /\ UNCHANGED <<serverOnly, sends, faults, failed, rejected>>

-----------------------------------------------------------------------------
(***************************************************************************)
(* What the clients share                                                  *)
(***************************************************************************)
Running == phase \notin {"closed", "panicked"}

\* Mutant: the records stay in the queue while they are sent.
FlushCopies(s) ==
    /\ UNCHANGED queue
    /\ sends' = [sends EXCEPT ![s] = IF queue = <<>> THEN Idle ELSE Waiting(queue, 1)]

\* A flush takes the whole queue, if there is any.
Flush(s) ==
    /\ queue' = <<>>
    /\ sends' = [sends EXCEPT ![s] = IF queue = <<>> THEN Idle ELSE Waiting(queue, 1)]

Overflow(backlog) == IF Len(backlog) > MaxQueueSize THEN Len(backlog) - MaxQueueSize ELSE 0
Newest(backlog)   == SubSeq(backlog, Overflow(backlog) + 1, Len(backlog))

\* Mutant: track without the cap.
PushedUncapped(r) == Append(queue, r)

\* track: append the record and drop one, the oldest, over the cap.
Pushed(r) ==
    LET longer == Append(queue, r)
    IN  IF Len(longer) > MaxQueueSize THEN Tail(longer) ELSE longer

\* Mutants: what was logged since is overwritten, or stays in front.
RequeuedAlone(batch)  == batch
RequeuedBehind(batch) == queue \o batch

\* A batch that was refused for the moment goes in front of the queue again.
Requeued(batch) == batch \o queue

\* The application logs another record through track.
Track ==
    /\ Running /\ logged < MaxRecord /\ sends["app"].phase = "idle"
    /\ logged' = logged + 1
    /\ dropped' = dropped + (Len(queue) + 1 - Len(Pushed(logged + 1)))

Answered(s) == sends[s].answer # "none"
Release(s)  == sends' = [sends EXCEPT ![s] = Idle]

-----------------------------------------------------------------------------
(***************************************************************************)
(* sdk/go                                                                  *)
(***************************************************************************)
GoUnchanged == <<sdk, cut, serverVars>>

\* Handle: a full channel drops the record, which changes nothing here; on a
\* channel that Close has closed the send panics.
GoHandle ==
    /\ sdk = "go" /\ Running /\ logged < MaxRecord
    /\ IF phase = "open"
       THEN /\ Len(logChan) < ChannelCapacity
            /\ logged' = logged + 1
            /\ logChan' = Append(logChan, logged + 1)
            /\ UNCHANGED phase
       ELSE phase' = "panicked" /\ UNCHANGED <<logged, logChan>>
    /\ UNCHANGED <<GoUnchanged, queue, sends, retrying, worker, dropped>>

GoWorks(positions) ==
    /\ sdk = "go" /\ Running
    /\ worker \in positions
    /\ sends["flusher"] = Idle

\* While it is retrying the worker takes records in without attempting to send.
FullBatch(pending) == ~retrying /\ Len(pending) >= BatchSize

GoReceive ==
    /\ GoWorks({"loop", "drain"}) /\ logChan # <<>>
    /\ logChan' = Tail(logChan)
    /\ LET pending == Append(queue, Head(logChan))
       IN  IF FullBatch(pending)
           THEN /\ queue' = <<>>
                /\ sends' = [sends EXCEPT !["flusher"] = Waiting(pending, 1)]
           ELSE queue' = pending /\ UNCHANGED sends
    /\ UNCHANGED <<GoUnchanged, logged, retrying, worker, phase, dropped>>

\* Mutant: no attempt while retrying, not even the ticker's.
TickWaits == queue # <<>> /\ ~retrying

TickAttempts == queue # <<>>

GoTick ==
    /\ GoWorks({"loop"}) /\ TickAttempts
    /\ Flush("flusher")
    /\ UNCHANGED <<GoUnchanged, logged, logChan, retrying, worker, phase, dropped>>

\* select takes the closed done channel.
GoDrain ==
    /\ GoWorks({"loop"}) /\ phase = "closing"
    /\ worker' = "drain"
    /\ UNCHANGED <<GoUnchanged, logged, logChan, queue, sends, retrying, phase, dropped>>

\* The channel is closed and empty: one last attempt.
GoLast ==
    /\ GoWorks({"loop", "drain"}) /\ phase = "closing" /\ logChan = <<>>
    /\ worker' = IF queue = <<>> THEN "done" ELSE "last"
    /\ Flush("flusher")
    /\ UNCHANGED <<GoUnchanged, logged, logChan, retrying, phase, dropped>>

\* attempt after flush has returned.  What the last attempt leaves goes with
\* the worker.
GoAnswered ==
    LET send    == sends["flusher"]
        backlog == IF send.answer = "failed" THEN Requeued(send.batch) ELSE <<>>
    IN  /\ sdk = "go" /\ Running /\ Answered("flusher")
        /\ Release("flusher")
        /\ retrying' = (send.answer = "failed")
        /\ dropped' = dropped + Overflow(backlog)
                      + IF send.answer = "rejected" THEN Len(send.batch) ELSE 0
        /\ IF worker = "last"
           THEN queue' = <<>> /\ worker' = "done"
           ELSE queue' = Newest(backlog) /\ UNCHANGED worker
        /\ UNCHANGED <<GoUnchanged, logged, logChan, phase>>

\* Close closes both channels and waits for the worker.
GoClose ==
    /\ sdk = "go"
    /\ \/ phase = "open" /\ phase' = "closing" /\ cut' = logged
       \/ phase = "closing" /\ worker = "done" /\ phase' = "closed" /\ UNCHANGED cut
    /\ UNCHANGED <<sdk, logged, clientVars, sends, serverVars>>

Go == GoHandle \/ GoReceive \/ GoTick \/ GoDrain \/ GoLast \/ GoAnswered \/ GoClose

-----------------------------------------------------------------------------
(***************************************************************************)
(* sdk/node: one thread, at most one request                               *)
(***************************************************************************)
NodeUnchanged == <<sdk, logChan, retrying, worker, serverVars>>

NodeIdle == sends["flusher"] = Idle

NodeTrack ==
    /\ sdk = "node" /\ Track
    /\ LET pushed == Pushed(logged + 1)
       IN  IF Len(pushed) >= BatchSize /\ NodeIdle
           THEN /\ queue' = <<>>
                /\ sends' = [sends EXCEPT !["flusher"] = Waiting(pushed, 1)]
           ELSE queue' = pushed /\ UNCHANGED sends
    /\ UNCHANGED <<NodeUnchanged, phase, cut>>

\* The timer, or a flush by the application.
NodeFlush ==
    /\ sdk = "node" /\ Running /\ NodeIdle /\ queue # <<>>
    /\ Flush("flusher")
    /\ UNCHANGED <<NodeUnchanged, logged, dropped, phase, cut>>

\* Mutant of NodeExit: the program exits without waiting for the request in flight.
NodeExitAtOnce ==
    /\ sdk = "node" /\ phase = "open"
    /\ cut' = logged
    /\ IF NodeIdle
       THEN /\ Flush("flusher")
            /\ phase' = IF queue = <<>> THEN "closed" ELSE "closing"
       ELSE phase' = "closed" /\ UNCHANGED <<queue, sends>>
    /\ UNCHANGED <<NodeUnchanged, logged, dropped>>

\* The program awaits flush() before it exits: the request in flight, if there
\* is one, or else one with the queue.
NodeExit ==
    /\ sdk = "node" /\ phase = "open"
    /\ cut' = logged
    /\ IF NodeIdle
       THEN /\ Flush("flusher")
            /\ phase' = IF queue = <<>> THEN "closed" ELSE "closing"
       ELSE phase' = "closing" /\ UNCHANGED <<queue, sends>>
    /\ UNCHANGED <<NodeUnchanged, logged, dropped>>

NodeAnswered ==
    LET send    == sends["flusher"]
        backlog == IF send.answer = "failed" THEN Requeued(send.batch) ELSE queue
    IN  /\ sdk = "node" /\ Running /\ Answered("flusher")
        /\ Release("flusher")
        /\ queue' = Newest(backlog)
        /\ dropped' = dropped + Overflow(backlog)
                      + IF send.answer = "rejected" THEN Len(send.batch) ELSE 0
        /\ phase' = IF phase = "closing" THEN "closed" ELSE phase
        /\ UNCHANGED <<NodeUnchanged, logged, cut>>

Node == NodeTrack \/ NodeFlush \/ NodeExit \/ NodeAnswered

-----------------------------------------------------------------------------
(***************************************************************************)
(* sdk/rust: the flusher thread and any caller of flush                    *)
(***************************************************************************)
RustUnchanged == <<sdk, logChan, retrying, worker, serverVars>>

RustTrack ==
    /\ sdk = "rust" /\ phase = "open" /\ Track
    /\ queue' = Pushed(logged + 1)
    /\ UNCHANGED <<RustUnchanged, sends, phase, cut>>

\* A wake-up, a timeout or a call.  shutdown sends a wake-up too, and no more.
RustFlush(s) ==
    /\ sdk = "rust" /\ Running
    /\ \/ s = "flusher" /\ sends[s] = Idle /\ queue # <<>>
       \/ s = "app" /\ phase = "open" /\ sends[s] = Idle /\ queue # <<>>
       \/ s = "app" /\ sends[s] = Due
    /\ Flush(s)
    /\ UNCHANGED <<RustUnchanged, logged, dropped, phase, cut>>

RustAnswered(s) ==
    /\ sdk = "rust" /\ Running /\ Answered(s)
    /\ Release(s)
    /\ queue' = IF sends[s].answer = "failed" THEN Requeued(sends[s].batch) ELSE queue
    /\ UNCHANGED <<RustUnchanged, logged, dropped, phase, cut>>

\* The application calls flush a last time and exits when it returns.
RustExit ==
    /\ sdk = "rust" /\ sends["app"] = Idle
    /\ \/ /\ phase = "open" /\ phase' = "closing" /\ cut' = logged
          /\ sends' = [sends EXCEPT !["app"] = Due]
       \/ phase = "closing" /\ phase' = "closed" /\ UNCHANGED <<cut, sends>>
    /\ UNCHANGED <<RustUnchanged, logged, queue, dropped>>

Rust == RustTrack \/ RustExit \/ \E s \in Sender : RustFlush(s) \/ RustAnswered(s)

-----------------------------------------------------------------------------
(***************************************************************************)
(* sdk/python: the daemon thread, the threads that log, and shutdown       *)
(***************************************************************************)
PyUnchanged == <<sdk, logChan, retrying, serverVars>>

\* A full batch is flushed by the thread that logged it, outside the lock.
PyTrack ==
    /\ sdk = "python" /\ Track
    /\ queue' = Pushed(logged + 1)
    /\ sends' = IF Len(queue') >= BatchSize
                THEN [sends EXCEPT !["app"] = Due] ELSE sends
    /\ UNCHANGED <<PyUnchanged, worker, phase, cut>>

\* The daemon thread's wait times out, or the application calls flush.
PyWake(s) ==
    /\ sdk = "python" /\ Running /\ sends[s] = Idle
    /\ \/ s = "flusher" /\ worker = "loop" /\ phase = "open"
       \/ s = "app"
    /\ queue # <<>>
    /\ sends' = [sends EXCEPT ![s] = Due]
    /\ UNCHANGED <<PyUnchanged, logged, queue, worker, dropped, phase, cut>>

PyFlush(s) ==
    /\ sdk = "python" /\ Running /\ sends[s] = Due
    /\ Flush(s)
    /\ UNCHANGED <<PyUnchanged, logged, worker, dropped, phase, cut>>

\* Mutant: a batch is sent twice whatever the answer.
TriesAlways(send) == send.attempt = 1

\* _send: HTTPError is a URLError, so a rejection is retried like a failure.
TriesAgain(send) == send.answer # "ok" /\ send.attempt = 1

PyAnswered(s) ==
    /\ sdk = "python" /\ Running /\ Answered(s)
    /\ IF TriesAgain(sends[s])
       THEN sends' = [sends EXCEPT ![s] = Waiting(sends[s].batch, 2)]
       ELSE Release(s)
    /\ UNCHANGED <<PyUnchanged, logged, queue, worker, dropped, phase, cut>>

\* shutdown: set the event, join the thread or give up waiting for it, flush.
PyShutdown ==
    /\ sdk = "python" /\ phase = "open"
    /\ phase' = "closing" /\ cut' = logged
    /\ UNCHANGED <<PyUnchanged, logged, queue, sends, worker, dropped>>

PyThreadEnds ==
    /\ sdk = "python" /\ phase # "open" /\ worker = "loop" /\ sends["flusher"] = Idle
    /\ worker' = "done"
    /\ UNCHANGED <<PyUnchanged, logged, queue, sends, dropped, phase, cut>>

\* Mutant: shutdown does not wait for the thread.
JoinsAtOnce == TRUE

Joins == worker = "done"

PyJoin ==
    /\ sdk = "python" /\ phase = "closing"
    /\ \/ Joins /\ UNCHANGED faults
       \/ faults < MaxFaults /\ faults' = faults + 1
    /\ phase' = "joined"
    /\ sends' = [sends EXCEPT !["main"] = Due]
    /\ UNCHANGED <<sdk, logged, clientVars, cut, late, stored, failed, rejected>>

PyClosed ==
    /\ sdk = "python" /\ phase = "joined" /\ sends["main"] = Idle
    /\ phase' = "closed"
    /\ UNCHANGED <<PyUnchanged, logged, queue, sends, worker, dropped, cut>>

Python ==
    \/ PyTrack \/ PyShutdown \/ PyThreadEnds \/ PyJoin \/ PyClosed
    \/ \E s \in Sender : PyWake(s) \/ PyFlush(s) \/ PyAnswered(s)

-----------------------------------------------------------------------------
Server ==
    \/ ArriveLate
    \/ \E s \in Sender : Accept(s) \/ Reject(s) \/ Fail(s)

Next == Server \/ Go \/ Node \/ Rust \/ Python

Spec == Init /\ [][Next]_vars

(***************************************************************************)
(* Every request is answered in the end (faults are bounded), the clients' *)
(* threads and timers run, and the Go worker empties its channel.          *)
(***************************************************************************)
Fairness ==
    /\ \A s \in Sender :
        /\ WF_vars(Accept(s) \/ Reject(s))
        /\ WF_vars(RustAnswered(s))
        /\ WF_vars(PyFlush(s)) /\ WF_vars(PyAnswered(s))
    /\ WF_vars(GoReceive) /\ WF_vars(GoTick) /\ WF_vars(GoAnswered)
    /\ WF_vars(NodeFlush) /\ WF_vars(NodeAnswered)
    /\ WF_vars(RustFlush("flusher")) /\ WF_vars(PyWake("flusher"))

FairSpec == Spec /\ Fairness

-----------------------------------------------------------------------------
(***************************************************************************)
(* Properties                                                              *)
(***************************************************************************)
Logged == 1..logged
InFlight(s) == ToSet(sends[s].batch)
Held == ToSet(logChan) \cup ToSet(queue) \cup UNION {InFlight(s) : s \in Sender}

\* Records the client holds no longer and the server never stored.
Lost == {r \in Logged : stored[r] = 0 /\ r \notin Held}

Increasing(seq) == \A i, j \in DOMAIN seq : i < j => seq[i] < seq[j]

Send == [phase : {"idle", "due", "waiting"}, batch : Seq(Record),
         attempt : 0..2, answer : {"none", "ok", "failed", "rejected"}]

TypeOK ==
    /\ sdk \in Sdk
    /\ {logged, cut} \subseteq 0..MaxRecord
    /\ {logChan, queue} \subseteq Seq(Record)
    /\ sends \in [Sender -> Send]
    /\ retrying \in BOOLEAN
    /\ worker \in {"loop", "drain", "last", "done"}
    /\ phase \in {"open", "closing", "joined", "closed", "panicked"}
    /\ dropped \in Nat
    /\ late \subseteq [no : 0..MaxFaults, batch : Seq(Record)]
    /\ {stored, failed, rejected} \subseteq [Record -> Nat]
    /\ faults \in 0..MaxFaults

\* A record is in one place of the client at a time: the channel, the queue or
\* the batch of one sender.  Two threads that flush never share a record.
HeldOnce ==
    Cardinality(Held) = Len(logChan) + Len(queue) + Len(sends["flusher"].batch)
                        + Len(sends["app"].batch) + Len(sends["main"].batch)

\* The types, and that no record is held twice.
ClientInv == TypeOK /\ HeldOnce

\* What the client may give up without counting it: the Rust client the batches
\* the server rejected, the Python client those it sent twice in vain.
Forgiven ==
    CASE sdk = "rust"   -> {r \in Record : rejected[r] > 0}
      [] sdk = "python" -> {r \in Record : failed[r] + rejected[r] >= 2}
      [] OTHER          -> {}

\* Until it is closed, a client has stored, still holds or has counted as
\* dropped every record it took, whatever the network did.
LossIsCounted == phase = "open" => Cardinality(Lost \ Forgiven) <= dropped

\* A record is stored again only when a request that held it failed: threads,
\* retries and late arrivals add no copy of their own.
DuplicatesNeedAFailure == \A r \in Record : stored[r] <= 1 + failed[r]

\* The Node and Python queues stay within max_queue_size through outages, the Go
\* channel within its capacity, and the Rust queue exceeds the cap by no more than
\* the records of batches that failed, which flush puts back without applying it.
BacklogBounded ==
    /\ sdk \in {"node", "python"} => Len(queue) <= MaxQueueSize
    /\ sdk = "rust" =>
           Len(queue) <= MaxQueueSize + Cardinality({r \in Record : failed[r] > 0})
    /\ Len(logChan) <= ChannelCapacity

\* A batch that failed goes back in front of what was logged since, so that the
\* cap drops the oldest records.
BacklogInOrder ==
    /\ sdk \in {"go", "node"} =>
           Increasing(sends["flusher"].batch \o queue \o logChan)
    /\ sdk = "python" => Increasing(queue)

Untroubled == faults = 0 /\ \A r \in Record : rejected[r] = 0

\* Close of the Go client and shutdown of the Python client return when all that
\* was logged before is stored, dropped over the cap, or in the hands of an
\* application thread, provided no request failed and no wait was cut short.
CloseDelivers ==
    LET undelivered == {r \in 1..cut : stored[r] = 0 /\ r \notin InFlight("app")}
    IN  phase = "closed" /\ sdk \in {"go", "python"} /\ Untroubled
            => Cardinality(undelivered) <= dropped

\* When a Node program exits after it has awaited flush(), and no request failed,
\* what it leaves behind joined the queue after everything that was sent: the
\* request that flush() found in flight is waited for, and only that one.
ExitLeavesOnlyNewer ==
    LET unsent == {r \in 1..cut : stored[r] = 0 /\ r \notin ToSet(queue)}
    IN  phase = "closed" /\ sdk = "node" /\ Untroubled =>
            /\ Cardinality(unsent) <= dropped
            /\ \A r \in ToSet(queue), q \in Record : stored[q] > 0 => q < r

\* In a client that stays open, each record is stored or given up in the end:
\* no backlog waits for an event that never comes.
Delivered ==
    \A r \in Record :
        r \in Logged ~> (stored[r] > 0 \/ r \in Lost \/ phase # "open")

=============================================================================
