------------------------------ MODULE ServerProofs ------------------------------
(***************************************************************************)
(* Proofs about Server, for every number of requests, every capacity of    *)
(* the channels and of the live tail, every cap of the LiveBuffer, any     *)
(* number of clients, errors and panics, and every cast beside the server. *)
(*                                                                         *)
(* Five invariants: where the acknowledged rows are until the last flush   *)
(* (RowsInv), when a request can be in flight (GateInv), what an uninstall *)
(* has left so far (CleanInv), where a client of the live tail stands      *)
(* (TailInv), and the types of the rest (RowTypes, LifeTypes).             *)
(***************************************************************************)
EXTENDS Server, FiniteSetTheorems, TLAPS

USE DEF vars, life, servers, workers, disk, neighbour, history, tailVars, uninstallVars

-----------------------------------------------------------------------------
(***************************************************************************)
(* Acknowledged rows                                                       *)
(***************************************************************************)
\* The rows the MemTable worker has, or is about to be given.
InHand == buffer \cup inhand \cup ToSet(handoff)

\* What a last flush that succeeded leaves.
Kept == acked \subseteq stored \cup shed \cup Removed

RowsInv ==
    /\ handoff \in Seq(Request) /\ ingest \in Seq(Request)
    /\ inhand = {} \/ \E r \in Request : inhand = {r}
    /\ mem \in {"loop", "signal"} => acked \subseteq InHand \cup stored \cup shed \cup Removed
    /\ mem = "done" => wal = "done" /\ (left \/ Kept)
    /\ mem = "dead" => left
    /\ wal = "loop" => mem \in {"loop", "signal", "dead"}
    /\ wal # "loop" => inhand = {}
    /\ main \in {"starting", "off"} =>
           /\ wal = "off" /\ mem = "off" /\ second = "none"
           /\ acked \subseteq log \cup stored \cup Removed
    /\ code = "0" => main = "exited" /\ (left \/ Kept)
    /\ main = "exited" => wal = "off" /\ mem = "off"

\* The rows of a queue that one is added to, or taken from.
LEMMA ToSetOfAppend ==
    ASSUME NEW S, NEW s \in Seq(S), NEW e \in S
    PROVE  /\ Append(s, e) \in Seq(S)
           /\ ToSet(Append(s, e)) = ToSet(s) \cup {e}
<1>1. /\ Append(s, e) \in Seq(S)
      /\ DOMAIN s = 1..Len(s) /\ DOMAIN Append(s, e) = 1..(Len(s) + 1)
      /\ Append(s, e)[Len(s) + 1] = e
      /\ \A i \in 1..Len(s) : Append(s, e)[i] = s[i]
  OBVIOUS
<1>2. /\ ToSet(s) = {s[i] : i \in 1..Len(s)}
      /\ ToSet(Append(s, e)) = {Append(s, e)[i] : i \in 1..(Len(s) + 1)}
  BY <1>1 DEF ToSet
<1>3. Len(s) \in Nat /\ 1..(Len(s) + 1) = 1..Len(s) \cup {Len(s) + 1}
  OBVIOUS
<1>4. ToSet(Append(s, e)) \subseteq ToSet(s) \cup {e}
  BY <1>1, <1>2, <1>3
<1>5. ToSet(s) \cup {e} \subseteq ToSet(Append(s, e))
  <2>1. ASSUME NEW i \in 1..Len(s)
        PROVE  s[i] = Append(s, e)[i] /\ i \in 1..(Len(s) + 1)
    BY <1>1, <1>3
  <2>2. Len(s) + 1 \in 1..(Len(s) + 1)
    BY <1>3
  <2>3. QED
    BY <1>1, <1>2, <2>1, <2>2
<1>6. QED
  BY <1>1, <1>4, <1>5

\* Taking the head off a queue splits its rows.
LEMMA ToSetOfTail ==
    ASSUME NEW S, NEW s \in Seq(S), s # <<>>
    PROVE  /\ Head(s) \in S /\ Tail(s) \in Seq(S)
           /\ ToSet(s) = {Head(s)} \cup ToSet(Tail(s))
<1>1. /\ Head(s) \in S /\ Head(s) = s[1] /\ Tail(s) \in Seq(S)
      /\ Len(s) \in Nat \ {0}
      /\ DOMAIN s = 1..Len(s) /\ DOMAIN Tail(s) = 1..(Len(s) - 1)
      /\ \A i \in 1..(Len(s) - 1) : Tail(s)[i] = s[i + 1]
  OBVIOUS
<1>2. /\ ToSet(s) = {s[i] : i \in 1..Len(s)}
      /\ ToSet(Tail(s)) = {Tail(s)[i] : i \in 1..(Len(s) - 1)}
  BY <1>1 DEF ToSet
<1>3. ASSUME NEW i \in 1..Len(s), i # 1
      PROVE  i - 1 \in 1..(Len(s) - 1) /\ Tail(s)[i - 1] = s[i]
  <2>1. i - 1 \in 1..(Len(s) - 1) /\ (i - 1) + 1 = i
    BY <1>1, <1>3
  <2>2. QED
    BY <1>1, <2>1
<1>4. ToSet(s) \subseteq {Head(s)} \cup ToSet(Tail(s))
  <2>1. ASSUME NEW i \in 1..Len(s), i # 1 PROVE s[i] \in ToSet(Tail(s))
    <3>1. i - 1 \in 1..(Len(s) - 1) /\ Tail(s)[i - 1] = s[i]
      BY <1>3, <2>1
    <3>2. QED
      BY <1>2, <3>1
  <2>2. QED
    BY <1>1, <1>2, <2>1
<1>5. {Head(s)} \cup ToSet(Tail(s)) \subseteq ToSet(s)
  BY <1>1, <1>2
<1>6. QED
  BY <1>1, <1>4, <1>5

\* An empty queue has no row.
LEMMA ToSetOfEmpty == ToSet(<<>>) = {}
BY DEF ToSet

\* An action that moves no row.
LEMMA RowsStay ==
    ASSUME RowsInv,
           UNCHANGED <<main, code, handoff, inhand, wal, mem, buffer, log, stored, erased,
                       acked, left, shed, cast, second>>,
           ingest' \in Seq(Request)
    PROVE  RowsInv'
BY DEF RowsInv, InHand, Kept, Removed

\* An exit keeps what the store has; it says 0 only when nothing is left.
LEMMA RowsExit ==
    ASSUME RowsInv, NEW how, Exit(how), how = "0" => left \/ Kept
    PROVE  RowsInv'
BY DEF Exit, RowsInv, Kept, Removed

\* A process begins with what an earlier run left in the log.
LEMMA RowsInit == Init => RowsInv
BY DEF Init, RowsInv

\* The steps of run_server: the log is replayed before anything is acknowledged.
LEMMA RowsRunServer ==
    ASSUME RowsInv, RunServer
    PROVE  RowsInv'
<1>1. CASE Recover
  BY <1>1 DEF Recover, RowsInv, InHand, Removed
<1>2. CASE BuildEngine
  BY <1>2 DEF BuildEngine, RowsInv, InHand, Kept, Removed
<1>3. CASE StartFails
  BY <1>3, RowsExit DEF StartFails
<1>4. CASE BindFails
  BY <1>4 DEF BindFails, RowsInv, InHand, Kept, Removed
<1>5. CASE ServersReturn
  BY <1>5 DEF ServersReturn, RowsInv, InHand, Kept, Removed
<1>6. CASE Drained
  <2>1. left \/ Kept
    BY <1>6 DEF Drained, RowsInv
  <2>2. QED
    BY <1>6, <2>1, RowsExit DEF Drained
<1>7. CASE DrainTimesOut
  BY <1>7, RowsExit DEF DrainTimesOut
<1>8. ASSUME NEW p \in Port, Bind(p) PROVE RowsInv'
  BY <1>8 DEF Bind, RowsInv, InHand, Kept, Removed
<1>9. QED
  BY <1>1, <1>2, <1>3, <1>4, <1>5, <1>6, <1>7, <1>8 DEF RunServer

\* A signal moves no row; it may end the process.
LEMMA RowsListener ==
    ASSUME RowsInv, Listener
    PROVE  RowsInv'
<1>1. ingest \in Seq(Request)
  BY DEF RowsInv
<1>2. CASE CtrlC
  <2>1. CASE listener = "first"
    BY <1>1, <1>2, <2>1, RowsStay DEF CtrlC
  <2>2. CASE listener # "first"
    BY <1>2, <2>2, RowsExit DEF CtrlC
  <2>3. QED
    BY <2>1, <2>2
<1>3. CASE Fire
  BY <1>1, <1>3, RowsStay DEF Fire
<1>4. CASE ListenerFails
  BY <1>1, <1>4, RowsStay DEF ListenerFails
<1>5. QED
  BY <1>2, <1>3, <1>4 DEF Listener

\* The handlers add requests to the queue of the WAL worker, and no row.
LEMMA RowsServers ==
    ASSUME RowsInv, Servers
    PROVE  RowsInv'
<1>1. ingest \in Seq(Request)
  BY DEF RowsInv
<1>2. ASSUME NEW p \in Port, StopAccepting(p) \/ ServerDone(p) PROVE RowsInv'
  BY <1>1, <1>2, RowsStay DEF StopAccepting, ServerDone
<1>3. ASSUME NEW r \in Request, AcceptRequest(r) PROVE RowsInv'
  <2>1. ingest' \in Seq(Request)
    BY <1>1, <1>3, ToSetOfAppend DEF AcceptRequest
  <2>2. QED
    BY <1>3, <2>1, RowsStay DEF AcceptRequest, handling
<1>4. ASSUME NEW r \in Request, EndRequest(r) PROVE RowsInv'
  BY <1>1, <1>4, RowsStay DEF EndRequest, handling
<1>5. ASSUME NEW t \in Client, Follow(t) \/ Stream(t) \/ TakeEvent(t) \/ CloseTab(t)
      PROVE  RowsInv'
  BY <1>1, <1>5, RowsStay DEF Follow, Stream, TakeEvent, CloseTab, tailing
<1>6. QED
  BY <1>2, <1>3, <1>4, <1>5 DEF Servers

\* A row that is acknowledged is in the hands of the WAL worker until there is room
\* for it; it cannot be done before, for the handoff is closed after it only.
LEMMA RowsWal ==
    ASSUME RowsInv, WalAppend \/ WalHandOff \/ WalRefuse \/ WalConfirm \/ WalDone
    PROVE  RowsInv'
<1>1. handoff \in Seq(Request) /\ ingest \in Seq(Request) /\ inhand \subseteq Request
  BY DEF RowsInv
<1>2. ingest # <<>> => Head(ingest) \in Request /\ Tail(ingest) \in Seq(Request)
  BY <1>1, ToSetOfTail
<1>3. CASE WalAppend
  <2> DEFINE row == Head(ingest)
  <2>1. /\ row \in Request /\ ingest' \in Seq(Request) /\ inhand' = {row}
        /\ wal = "loop" /\ main \notin {"off", "exited"}
        /\ UNCHANGED <<main, code, handoff, wal, mem, buffer, stored, left, shed, cast, second>>
        /\ acked' \subseteq acked \cup {row} /\ inhand = {}
        /\ erased \subseteq erased'
    BY <1>2, <1>3 DEF WalAppend, Running
  <2>2. main # "starting" /\ mem \in {"loop", "signal", "dead"} /\ code # "0"
    BY <2>1 DEF RowsInv
  <2>3. CASE mem = "dead"
    BY <1>1, <2>1, <2>2, <2>3 DEF RowsInv
  <2>4. CASE mem \in {"loop", "signal"}
    <3>1. Removed \subseteq Removed'
      BY <2>1 DEF Removed
    <3>2. (acked \subseteq InHand \cup stored \cup shed \cup Removed)'
      BY <2>1, <2>4, <3>1 DEF RowsInv, InHand
    <3>3. QED
      BY <1>1, <2>1, <2>2, <2>4, <3>2 DEF RowsInv
  <2>5. QED
    BY <2>2, <2>3, <2>4
<1>4. CASE WalHandOff
  <2>1. /\ main \notin {"off", "exited"} /\ inhand # {} /\ inhand' = {}
        /\ UNCHANGED <<main, code, ingest, wal, mem, buffer, log, stored, erased, acked,
                       left, shed, cast, second>>
    BY <1>4 DEF WalHandOff, Running
  <2>2. wal = "loop" /\ code # "0"
    BY <2>1 DEF RowsInv
  <2>3. CASE mem = "dead"
    BY <1>1, <1>4, <2>1, <2>2, <2>3 DEF WalHandOff, RowsInv
  <2>4. CASE mem # "dead"
    <3>1. PICK row \in inhand : handoff' = Append(handoff, row)
      BY <1>4, <2>4 DEF WalHandOff
    <3>2. handoff' \in Seq(Request) /\ ToSet(handoff') = ToSet(handoff) \cup {row}
      BY <1>1, <3>1, ToSetOfAppend
    <3>3. inhand = {row}
      BY <3>1 DEF RowsInv
    <3>4. InHand' = InHand /\ Removed' = Removed
      BY <2>1, <3>2, <3>3 DEF InHand, Removed
    <3>5. QED
      BY <1>1, <2>1, <2>2, <2>4, <3>2, <3>4 DEF RowsInv
  <2>5. QED
    BY <2>3, <2>4
<1>5. CASE WalRefuse
  BY <1>2, <1>5, RowsStay DEF WalRefuse
<1>6. CASE WalConfirm
  BY <1>1, <1>6 DEF WalConfirm, RowsInv, InHand, Kept, Removed
<1>7. CASE WalDone
  BY <1>1, <1>7 DEF WalDone, RowsInv, InHand, Kept, Removed
<1>8. QED
  BY <1>3, <1>4, <1>5, <1>6, <1>7

\* Rows leave the handoff for the table, and the table for Parquet, unless they are
\* shed; the last flush comes when no row can follow it.
LEMMA RowsMem ==
    ASSUME RowsInv,
           MemReceive \/ MemFlush \/ MemSignal \/ MemFlushFails \/ MemDone \/ MemPanics
    PROVE  RowsInv'
<1>1. handoff \in Seq(Request) /\ ingest \in Seq(Request) /\ inhand \subseteq Request
  BY DEF RowsInv
<1>2. main \notin {"off", "exited"} /\ code # "0"
  BY DEF RowsInv, MemReceive, MemFlush, MemSignal, MemFlushFails, MemDone, MemPanics, Running
<1>3. CASE MemReceive
  <2>1. InHand' = InHand /\ handoff' \in Seq(Request)
    BY <1>1, <1>3, ToSetOfTail DEF MemReceive, InHand
  <2>2. QED
    BY <1>1, <1>2, <1>3, <2>1 DEF MemReceive, RowsInv, Kept, Removed
<1>4. CASE MemFlush
  <2>1. buffer \subseteq buffer' \cup stored' /\ stored \subseteq stored'
    BY <1>4 DEF MemFlush, Publish
  <2>2. (acked \subseteq InHand \cup stored \cup shed \cup Removed)'
    BY <1>4, <2>1 DEF MemFlush, RowsInv, InHand, Removed
  <2>3. QED
    BY <1>1, <1>2, <1>4, <2>2 DEF MemFlush, RowsInv
<1>5. CASE MemSignal
  BY <1>1, <1>2, <1>5 DEF MemSignal, RowsInv, InHand, Removed
<1>6. CASE MemFlushFails
  <2>1. buffer \subseteq buffer' \cup shed' /\ stored \subseteq stored' /\ shed \subseteq shed'
    BY <1>6 DEF MemFlushFails, Publish
  <2>2. (acked \subseteq InHand \cup stored \cup shed \cup Removed)'
    BY <1>6, <2>1 DEF MemFlushFails, RowsInv, InHand, Removed
  <2>3. QED
    BY <1>1, <1>2, <1>6, <2>2 DEF MemFlushFails, RowsInv
<1>7. CASE MemDone
  <2>1. acked \subseteq buffer \cup stored \cup shed \cup Removed
    BY <1>7, ToSetOfEmpty DEF MemDone, RowsInv, InHand
  <2>2. left' \/ Kept'
    BY <1>7, <2>1 DEF MemDone, Publish, Kept, Removed
  <2>3. QED
    BY <1>1, <1>2, <1>7, <2>2 DEF MemDone, RowsInv
<1>8. CASE MemPanics
  BY <1>1, <1>2, <1>8 DEF MemPanics, RowsInv
<1>9. QED
  BY <1>3, <1>4, <1>5, <1>6, <1>7, <1>8

\* A second server stores rows and takes the log away, which the first no longer
\* needs once it has recovered.
LEMMA RowsSecond ==
    ASSUME RowsInv, Second
    PROVE  RowsInv'
<1>1. main \notin {"starting", "off"}
  BY DEF RowsInv, Second, SecondReplays, SecondCounts, SecondFlushes, SecondConfirms,
     SecondFails
<1>2. /\ UNCHANGED <<main, code, ingest, handoff, inhand, wal, mem, buffer, acked, left,
                      shed, cast>>
      /\ stored \subseteq stored' /\ erased \subseteq erased'
  BY DEF Second, SecondReplays, SecondCounts, SecondFlushes, SecondConfirms,
     SecondFails, secondly
<1>3. Removed \subseteq Removed'
  BY <1>2 DEF Removed
<1>4. QED
  BY <1>1, <1>2, <1>3 DEF RowsInv, InHand, Kept

\* What an uninstall takes from the log or the store, it was asked to remove.
LEMMA RowsUninstall ==
    ASSUME RowsInv, UninstallStep
    PROVE  RowsInv'
<1>1. cast = "uninstall"
  BY DEF UninstallStep
<1>2. UNCHANGED <<main, code, ingest, handoff, inhand, wal, mem, buffer, acked, left, shed,
                  cast, second>>
  BY DEF UninstallStep, UninstallRemoves, UninstallFails, removing
<1>3. /\ stored \subseteq stored' \cup erased'
      /\ log \subseteq log' \cup erased'
      /\ erased \subseteq erased'
  BY DEF UninstallStep, UninstallRemoves, UninstallFails, EraseRows
<1>4. Removed = erased /\ Removed' = erased'
  BY <1>1, <1>2 DEF Removed
<1>5. QED
  BY <1>2, <1>3, <1>4 DEF RowsInv, InHand, Kept

\* Every step keeps the acknowledged rows accounted for.
LEMMA RowsStep == RowsInv /\ [Next]_vars => RowsInv'
<1>1. ASSUME RowsInv, UNCHANGED vars PROVE RowsInv'
  <2>1. ingest' \in Seq(Request)
    BY <1>1 DEF RowsInv
  <2>2. QED
    BY <1>1, <2>1, RowsStay
<1>2. QED
  BY <1>1, RowsRunServer, RowsListener, RowsServers, RowsWal, RowsMem, RowsSecond,
     RowsUninstall DEF Next, Workers

\* For every schedule of requests, hang-ups, failing flushes, full channels, a second
\* server on the same directories and an uninstall beside them: a process that exits
\* with 0 has every acknowledged row in Parquet, but for rows shed over the cap, what an
\* uninstall was asked to remove, a last flush that failed and a MemTable worker that
\* panicked (drain_write_path).
THEOREM GracefulExitKeepsRows == Spec => []GracefulExit
<1>1. Init => RowsInv
  BY RowsInit
<1>2. RowsInv /\ [Next]_vars => RowsInv'
  BY RowsStep
<1>3. RowsInv => GracefulExit
  BY DEF RowsInv, GracefulExit, Kept
<1>4. QED
  BY <1>1, <1>2, <1>3, PTL DEF Spec

-----------------------------------------------------------------------------
(***************************************************************************)
(* Requests in flight                                                      *)
(***************************************************************************)
Gate == {"open", "draining"}

GateInv ==
    /\ port \in [Port -> {"closed", "bound", "open", "draining", "done"}]
    /\ request \in [Request -> {"none", "waiting", "answered", "over"}]
    /\ \A r \in Request : InFlight(r) => port["ingest"] \in Gate
    /\ port["ingest"] \in Gate => main = "serving"

\* An action that leaves the servers alone keeps the gate.
LEMMA GateStays ==
    ASSUME GateInv, UNCHANGED <<main, port, request>>
    PROVE  GateInv'
BY DEF GateInv, InFlight

\* After an exit there is no server, and no request.
LEMMA GateExit ==
    ASSUME NEW how, Exit(how)
    PROVE  GateInv'
BY DEF Exit, GateInv, InFlight, Gate, Request, Port

\* A process begins with its servers closed and no request.
LEMMA GateInit == Init => GateInv
BY DEF Init, GateInv, InFlight, Gate, Request, Port

\* The steps of run_server: the servers open together, and are done before it goes on.
LEMMA GateRunServer ==
    ASSUME GateInv, RunServer
    PROVE  GateInv'
<1>1. CASE Recover
  BY <1>1 DEF Recover, GateInv, InFlight
<1>2. CASE BuildEngine
  BY <1>2 DEF BuildEngine, GateInv, InFlight
<1>3. CASE StartFails
  BY <1>3, GateExit DEF StartFails
<1>4. CASE BindFails
  BY <1>4 DEF BindFails, GateInv, InFlight, Gate, Port
<1>5. CASE ServersReturn
  BY <1>5 DEF ServersReturn, GateInv, InFlight, Gate, Port
<1>6. CASE Drained
  BY <1>6, GateExit DEF Drained
<1>7. CASE DrainTimesOut
  BY <1>7, GateExit DEF DrainTimesOut
<1>8. ASSUME NEW p \in Port, Bind(p) PROVE GateInv'
  BY <1>8 DEF Bind, GateInv, InFlight, Gate, Port
<1>9. QED
  BY <1>1, <1>2, <1>3, <1>4, <1>5, <1>6, <1>7, <1>8 DEF RunServer

\* A signal leaves requests in flight alone, or ends the process with them.
LEMMA GateListener ==
    ASSUME GateInv, Listener
    PROVE  GateInv'
<1>1. CASE CtrlC
  BY <1>1, GateExit, GateStays DEF CtrlC
<1>2. CASE Fire
  BY <1>2, GateStays DEF Fire
<1>3. CASE ListenerFails
  BY <1>3, GateStays DEF ListenerFails
<1>4. QED
  BY <1>1, <1>2, <1>3 DEF Listener

\* The ingest server is done only when nothing is in flight, and takes a request
\* only while it is open.
LEMMA GateServers ==
    ASSUME GateInv, Servers
    PROVE  GateInv'
<1>1. ASSUME NEW p \in Port, StopAccepting(p) PROVE GateInv'
  BY <1>1 DEF StopAccepting, GateInv, InFlight, Gate, Port
<1>2. ASSUME NEW p \in Port, ServerDone(p) PROVE GateInv'
  BY <1>2 DEF ServerDone, GateInv, InFlight, Gate, Port
<1>3. ASSUME NEW r \in Request, AcceptRequest(r) PROVE GateInv'
  BY <1>3 DEF AcceptRequest, handling, GateInv, InFlight, Gate
<1>4. ASSUME NEW r \in Request, EndRequest(r) PROVE GateInv'
  BY <1>4 DEF EndRequest, handling, GateInv, InFlight, Gate
<1>5. ASSUME NEW t \in Client, Follow(t) \/ Stream(t) \/ TakeEvent(t) \/ CloseTab(t)
      PROVE  GateInv'
  BY <1>5, GateStays DEF Follow, Stream, TakeEvent, CloseTab, tailing
<1>6. QED
  BY <1>1, <1>2, <1>3, <1>4, <1>5 DEF Servers

\* The workers turn a waiting request into an answered one, and nothing else.
LEMMA GateWorkers ==
    ASSUME GateInv, Workers
    PROVE  GateInv'
<1>1. CASE WalAppend
  <2>1. UNCHANGED <<main, port>>
    BY <1>1 DEF WalAppend
  <2>2. \/ request' = request
        \/ /\ request[Head(ingest)] = "waiting"
           /\ request' = [request EXCEPT ![Head(ingest)] = "answered"]
    BY <1>1 DEF WalAppend
  <2>3. QED
    BY <2>1, <2>2 DEF GateInv, InFlight
<1>2. CASE WalRefuse
  BY <1>2 DEF WalRefuse, GateInv, InFlight
<1>3. CASE WalHandOff \/ WalConfirm \/ WalDone
  BY <1>3, GateStays DEF WalHandOff, WalConfirm, WalDone
<1>4. CASE MemReceive \/ MemFlush \/ MemSignal \/ MemFlushFails \/ MemDone \/ MemPanics
  BY <1>4, GateStays DEF MemReceive, MemFlush, MemSignal, MemFlushFails, MemDone, MemPanics
<1>5. QED
  BY <1>1, <1>2, <1>3, <1>4 DEF Workers

\* A second server and an uninstall touch no port and no request.
LEMMA GateNeighbours ==
    ASSUME GateInv, Second \/ UninstallStep
    PROVE  GateInv'
<1>1. CASE Second
  BY <1>1, GateStays DEF Second, SecondReplays, SecondCounts, SecondFlushes,
     SecondConfirms, SecondFails, secondly
<1>2. CASE UninstallStep
  BY <1>2, GateStays DEF UninstallStep, UninstallRemoves, UninstallFails, removing
<1>3. QED
  BY <1>1, <1>2

\* Every step keeps requests in flight within the life of their server.
LEMMA GateStep == GateInv /\ [Next]_vars => GateInv'
BY GateRunServer, GateListener, GateServers, GateWorkers, GateNeighbours, GateStays
   DEF Next

\* For every number of requests and whatever happens beside them: when the write
\* path is drained, after the servers or instead of them, no accepted request is
\* left without its answer (start_servers, drain_write_path).
THEOREM AnswersBeforeDraining == Spec => []NoAnswerCut
<1>1. Init => GateInv
  BY GateInit
<1>2. GateInv /\ [Next]_vars => GateInv'
  BY GateStep
<1>3. GateInv => NoAnswerCut
  BY DEF GateInv, NoAnswerCut
<1>4. QED
  BY <1>1, <1>2, <1>3, PTL DEF Spec

-----------------------------------------------------------------------------
(***************************************************************************)
(* Uninstalling where no server runs                                       *)
(***************************************************************************)
CleanInv ==
    main = "off" =>
        /\ places \subseteq Place
        /\ stored # {} => "data" \in places
        /\ log # {} => "wal" \in places
        /\ uninstall \in {"listed", "data", "wal", "binary", "parent"} =>
               places \cap Target \subseteq found \cup mislaid
        /\ uninstall \in {"wal", "binary", "parent", "done"} =>
               ("data" \in places => "data" \in mislaid)
        /\ uninstall \in {"binary", "parent", "done"} =>
               ("wal" \in places => "wal" \in mislaid)

\* An uninstall begins with nothing collected.
LEMMA CleanInit == Init => CleanInv
BY DEF Init, CleanInv, Place, Target

\* Without a server there is nothing but the uninstall: only its steps start from
\* main = "off", and no step leads back to it.
LEMMA CleanElsewhere ==
    ASSUME CleanInv, RunServer \/ Listener \/ Servers \/ Workers \/ Second
    PROVE  CleanInv'
<1>1. CASE RunServer
  BY <1>1 DEF RunServer, Recover, BuildEngine, StartFails, BindFails, ServersReturn,
     Drained, DrainTimesOut, Bind, Exit, CleanInv
<1>2. CASE Listener
  BY <1>2 DEF Listener, CtrlC, Fire, ListenerFails, Exit, Running, CleanInv
<1>3. CASE Servers
  BY <1>3 DEF Servers, StopAccepting, ServerDone, AcceptRequest, EndRequest, Follow,
     Stream, TakeEvent, CloseTab, handling, tailing, Running, CleanInv
<1>4. CASE Workers
  BY <1>4 DEF Workers, WalAppend, WalHandOff, WalRefuse, WalConfirm, WalDone, MemReceive,
     MemFlush, MemSignal, MemFlushFails, MemDone, MemPanics, Running, CleanInv
<1>5. CASE Second
  BY <1>5 DEF Second, SecondReplays, SecondCounts, SecondFlushes, SecondConfirms,
     SecondFails, secondly, Running, CleanInv
<1>6. QED
  BY <1>1, <1>2, <1>3, <1>4, <1>5

\* The targets go one by one, and a failure to remove one that holds rows ends the
\* run before it says it is done.
LEMMA CleanUninstall ==
    ASSUME CleanInv, UninstallStep
    PROVE  CleanInv'
<1>1. CASE UninstallRemoves
  BY <1>1 DEF UninstallRemoves, RemoveTarget, Following, EraseRows, removing, CleanInv,
     Place, Target
<1>2. CASE UninstallFails
  BY <1>2 DEF UninstallFails, RemoveTargetFails, CollectMisses, List, Existing,
     RemoveParentFails, EraseRows, removing, CleanInv, Place, Target
<1>3. ASSUME UNCHANGED <<removing, disk, file, faults>>,
             Collect \/ Decide \/ Retry \/ RemoveParent
      PROVE  CleanInv'
  BY <1>3 DEF Collect, List, Existing, Decide, Retry, RemoveParent, removing, CleanInv,
     Place, Target
<1>4. ASSUME UNCHANGED <<removing, disk, file, faults>>,
             NEW t \in Target, SkipMissing(t)
      PROVE  CleanInv'
  BY <1>4 DEF SkipMissing, Following, removing, CleanInv, Place, Target
<1>5. QED
  BY <1>1, <1>2, <1>3, <1>4 DEF UninstallStep

\* Every step keeps what the uninstall has removed.
LEMMA CleanStep == CleanInv /\ [Next]_vars => CleanInv'
<1>1. ASSUME CleanInv, UNCHANGED vars PROVE CleanInv'
  BY <1>1 DEF CleanInv
<1>2. QED
  BY <1>1, CleanElsewhere, CleanUninstall DEF Next

\* Where no server runs, an uninstall that says it is done has removed the data and the
\* log and with them every row, after any number of attempts that failed halfway, but
\* for a directory that it could not see (uninstall::run).
THEOREM UninstallLeavesNothing == Spec => []NothingBehind
<1>1. Init => CleanInv
  BY CleanInit
<1>2. CleanInv /\ [Next]_vars => CleanInv'
  BY CleanStep
<1>3. CleanInv => NothingBehind
  BY DEF CleanInv, NothingBehind, Place, Target
<1>4. QED
  BY <1>1, <1>2, <1>3, PTL DEF Spec

-----------------------------------------------------------------------------
(***************************************************************************)
(* The live tail                                                           *)
(***************************************************************************)
Followed == {"open", "ended"}

AnyEvent == {Logs(batch) : batch \in Request} \cup {Gap(count) : count \in Nat}

TailRecord == [phase : {"closed", "open", "ended", "gone"}, next : Nat,
          out : Seq(AnyEvent), seen : Nat]

\* What a client has not taken yet is nothing, or a gap up to the position of its
\* stream, or the batch it stands at; and nothing is kept for one that has left.
InStep(c) ==
    /\ c.next \in 1..(Len(sent) + 1) /\ c.seen \in 1..(Len(sent) + 1)
    /\ c.phase \notin Followed => c.out = <<>>
    /\ c.phase \in Followed =>
           \/ c.out = <<>> /\ c.next = c.seen
           \/ \E n \in 1..Len(sent) : c.out = <<Gap(n)>> /\ c.next = c.seen + n
           \/ /\ c.seen \in 1..Len(sent)
              /\ c.out = <<Logs(sent[c.seen])>> /\ c.next = c.seen + 1

TailInv ==
    /\ sent \in Seq(Request)
    /\ tails \in [Client -> TailRecord]
    /\ \A t \in Client : InStep(tails[t])

\* A client that has taken every event stands where its count is.
LEMMA NothingToTake == ASSUME NEW p PROVE FoldLeft(After, p, <<>>) = p
<1>1. DOMAIN <<>> = {}
  OBVIOUS
<1>2. QED
  BY <1>1 DEF FoldLeft, MapThenFoldSet

\* One event moves the count once: the fold over a sequence of one, whose function
\* on the subsets of {1} is given here.
LEMMA OneToTake == ASSUME NEW p, NEW e PROVE FoldLeft(After, p, <<e>>) = After(p, e)
<1> DEFINE iter(f) == f = [s \in SUBSET {1} |-> IF s = {} THEN p
                               ELSE After(f[s \ {Max(s)}], <<e>>[Max(s)])]
           F == CHOOSE f : iter(f)
           W == [s \in SUBSET {1} |-> IF s = {} THEN p ELSE After(p, e)]
<1>1. DOMAIN <<e>> = {1} /\ <<e>>[1] = e
  OBVIOUS
<1>2. FoldLeft(After, p, <<e>>) = F[{1}]
  BY <1>1, Zenon DEF FoldLeft, MapThenFoldSet
<1>3. Max({1}) = 1
  BY DEF Max
<1>4. iter(W)
  <2>1. SUBSET {1} = {{}, {1}} /\ {1} \ {1} = {} /\ {1} # {}
    OBVIOUS
  <2>2. ASSUME NEW s \in SUBSET {1}
        PROVE  W[s] = IF s = {} THEN p ELSE After(W[s \ {Max(s)}], <<e>>[Max(s)])
    <3>1. CASE s = {}
      BY <3>1
    <3>2. CASE s = {1}
      BY <1>1, <1>3, <2>1, <3>2
    <3>3. QED
      BY <2>1, <3>1, <3>2
  <2>3. QED
    BY <2>2
<1>5. iter(F)
  <2> HIDE DEF iter, W
  <2>1. QED
    BY <1>4
<1>6. F[{1}] = After(F[{}], e) /\ F[{}] = p
  <2>1. {1} \in SUBSET {1} /\ {} \in SUBSET {1} /\ {1} \ {1} = {} /\ {1} # {}
    OBVIOUS
  <2> HIDE DEF F
  <2>2. QED
    BY <1>1, <1>3, <1>5, <2>1
<1>7. QED
  BY <1>2, <1>6

\* The sequences the stream puts out.
LEMMA OneEvent ==
    ASSUME NEW e \in AnyEvent
    PROVE  /\ <<e>> \in Seq(AnyEvent) /\ <<e>> # <<>> /\ Head(<<e>>) = e
           /\ <<>> \in Seq(AnyEvent)
OBVIOUS

\* A client that has not subscribed.
LEMMA ClosedIsInStep ==
    ASSUME sent = <<>>, NEW t \in Client
    PROVE  Closed \in TailRecord /\ InStep(Closed)
BY DEF Closed, TailRecord, InStep, Followed

\* No client has subscribed when the process begins.
LEMMA TailInit == Init => TailInv
<1>1. ASSUME Init PROVE TailInv
  <2>1. sent = <<>> /\ tails = [t \in Client |-> Closed]
    BY <1>1 DEF Init, LiveTailInit
  <2>2. QED
    BY <2>1, ClosedIsInStep DEF TailInv
<1>2. QED
  BY <1>1

\* An exit ends every tail.
LEMMA TailExit ==
    ASSUME NEW how, Exit(how)
    PROVE  TailInv'
<1>1. sent' = <<>> /\ tails' = [t \in Client |-> Closed]
  BY DEF Exit
<1>2. Closed \in TailRecord
  BY DEF Closed, TailRecord
<1>3. ASSUME NEW t \in Client PROVE InStep(tails[t])'
  BY <1>1, <1>3 DEF InStep, Closed, Followed
<1>4. QED
  BY <1>1, <1>2, <1>3 DEF TailInv

\* An action that leaves the tails alone.
LEMMA TailStays ==
    ASSUME TailInv, UNCHANGED tailVars
    PROVE  TailInv'
BY DEF TailInv, InStep

\* A batch more leaves every position and every event where it is.
LEMMA TailBroadcast ==
    ASSUME TailInv, NEW batch \in Request, Broadcast(batch)
    PROVE  TailInv'
<1>1. CASE sent' = sent
  BY <1>1, TailStays DEF Broadcast
<1>2. CASE sent' = Append(sent, batch)
  <2>1. /\ sent \in Seq(Request) /\ sent' \in Seq(Request)
        /\ Len(sent) \in Nat /\ Len(sent') = Len(sent) + 1
        /\ \A i \in 1..Len(sent) : sent'[i] = sent[i]
    BY <1>2 DEF TailInv
  <2>2. tails' = tails
    BY DEF Broadcast
  <2>3. /\ 1..Len(sent) \subseteq 1..Len(sent')
        /\ 1..(Len(sent) + 1) \subseteq 1..(Len(sent') + 1)
    BY <2>1
  <2>4. ASSUME NEW t \in Client PROVE InStep(tails[t])'
    <3>1. InStep(tails[t])
      BY <2>4 DEF TailInv
    <3>2. QED
      BY <2>1, <2>2, <2>3, <3>1 DEF InStep
  <2>5. QED
    BY <2>1, <2>2, <2>4 DEF TailInv
<1>3. QED
  BY <1>1, <1>2 DEF Broadcast

\* A step that changes one tail.
LEMMA TailChanges ==
    ASSUME TailInv, NEW t \in Client, NEW c \in TailRecord,
           sent' = sent, tails' = [tails EXCEPT ![t] = c], InStep(c)
    PROVE  TailInv'
<1>1. tails' \in [Client -> TailRecord]
  BY DEF TailInv
<1>2. ASSUME NEW u \in Client PROVE InStep(tails[u])'
  <2>1. InStep(tails'[u])
    BY <1>2 DEF TailInv
  <2>2. QED
    BY <2>1 DEF InStep
<1>3. QED
  BY <1>1, <1>2 DEF TailInv

\* A client subscribes at the end of what was sent.
LEMMA TailFollow ==
    ASSUME TailInv, NEW t \in Client, Subscribe(t)
    PROVE  TailInv'
<1> DEFINE end == Len(sent) + 1
           c == [tails[t] EXCEPT !.phase = "open", !.next = end, !.seen = end]
<1>1. /\ tails \in [Client -> TailRecord] /\ tails[t] \in TailRecord /\ InStep(tails[t])
      /\ Len(sent) \in Nat
  BY DEF TailInv
<1>2. sent' = sent /\ tails' = [tails EXCEPT ![t] = c] /\ tails[t].phase = "closed"
  BY <1>1 DEF Subscribe, TailRecord
<1>3. /\ c \in TailRecord /\ c.phase = "open" /\ c.next = end /\ c.seen = end
      /\ c.out = tails[t].out
  <2>1. end \in Nat
    BY <1>1
  <2> HIDE DEF end
  <2>2. QED
    BY <1>1, <2>1 DEF TailRecord
<1>4. tails[t].out = <<>>
  BY <1>1, <1>2 DEF InStep, Followed
<1>5. InStep(c)
  <2> HIDE DEF c
  <2>1. QED
    BY <1>1, <1>3, <1>4 DEF InStep, Followed
<1>6. QED
  <2> HIDE DEF c
  <2>1. QED
    BY <1>2, <1>3, <1>5, TailChanges

\* The next batch there is.
LEMMA TailReceive ==
    ASSUME TailInv, NEW t \in Client, Receive(t)
    PROVE  TailInv'
<1> DEFINE next == tails[t].next
           e == Logs(sent[next])
           c == [tails[t] EXCEPT !.out = <<e>>, !.next = next + 1]
<1>1. /\ tails \in [Client -> TailRecord] /\ tails[t] \in TailRecord /\ InStep(tails[t])
      /\ sent \in Seq(Request) /\ Len(sent) \in Nat
  BY DEF TailInv
<1>2. /\ sent' = sent /\ tails' = [tails EXCEPT ![t] = c]
      /\ tails[t].phase = "open" /\ tails[t].out = <<>>
      /\ next \in Oldest..Len(sent)
  BY <1>1 DEF Receive, Polled, TailRecord
<1>3. next \in 1..Len(sent) /\ tails[t].seen = next /\ next + 1 \in Nat
  <2>1. next = tails[t].seen
    <3>1. \A n : <<Gap(n)>> # <<>>
      OBVIOUS
    <3>2. \A b : <<Logs(b)>> # <<>>
      OBVIOUS
    <3>3. QED
      BY <1>1, <1>2, <3>1, <3>2 DEF InStep, Followed
  <2>2. next \in Nat /\ next >= 1 /\ next <= Len(sent)
    BY <1>1, <1>2, TailAssumption DEF InStep, Oldest
  <2>3. QED
    BY <1>1, <2>1, <2>2
<1>4. e \in AnyEvent
  BY <1>1, <1>3 DEF AnyEvent
<1>5. /\ c \in TailRecord /\ c.phase = "open" /\ c.next = next + 1 /\ c.seen = next
      /\ c.out = <<e>>
  <2> HIDE DEF e
  <2>1. QED
    BY <1>1, <1>2, <1>3, <1>4, OneEvent DEF TailRecord
<1>6. InStep(c)
  <2>1. next + 1 \in 1..(Len(sent) + 1) /\ next \in 1..(Len(sent) + 1)
    BY <1>1, <1>3
  <2> HIDE DEF c, next
  <2>2. QED
    BY <1>3, <1>5, <2>1 DEF InStep, Followed
<1>7. QED
  <2> HIDE DEF c
  <2>1. QED
    BY <1>2, <1>5, <1>6, TailChanges

\* The oldest batch there is, and the number of those before it.
LEMMA TailLagged ==
    ASSUME TailInv, NEW t \in Client, Lagged(t)
    PROVE  TailInv'
<1> DEFINE next == tails[t].next
           e == Gap(Oldest - next)
           c == [tails[t] EXCEPT !.out = <<e>>, !.next = Oldest]
<1>1. /\ tails \in [Client -> TailRecord] /\ tails[t] \in TailRecord /\ InStep(tails[t])
      /\ Len(sent) \in Nat
  BY DEF TailInv
<1>2. /\ sent' = sent /\ tails' = [tails EXCEPT ![t] = c]
      /\ tails[t].phase = "open" /\ tails[t].out = <<>>
      /\ next < Oldest
  BY <1>1 DEF Lagged, Polled, TailRecord
<1>3. next \in 1..(Len(sent) + 1) /\ tails[t].seen = next
  <2>1. \A n : <<Gap(n)>> # <<>>
    OBVIOUS
  <2>2. \A b : <<Logs(b)>> # <<>>
    OBVIOUS
  <2>3. QED
    BY <1>1, <1>2, <2>1, <2>2 DEF InStep, Followed
<1>4. Oldest \in 1..Len(sent) /\ Oldest - next \in 1..Len(sent)
  BY <1>1, <1>2, <1>3, TailAssumption DEF Oldest
<1>5. e \in AnyEvent
  BY <1>1, <1>4 DEF AnyEvent
<1>6. /\ c \in TailRecord /\ c.phase = "open" /\ c.next = Oldest /\ c.seen = next
      /\ c.out = <<e>>
  <2> HIDE DEF e
  <2>1. Oldest \in Nat
    BY <1>1, <1>4
  <2>2. QED
    BY <1>1, <1>2, <1>3, <1>5, <2>1, OneEvent DEF TailRecord
<1>7. InStep(c)
  <2>1. Oldest = next + (Oldest - next) /\ Oldest \in 1..(Len(sent) + 1)
    BY <1>1, <1>3, <1>4
  <2>2. \E n \in 1..Len(sent) : c.out = <<Gap(n)>> /\ c.next = c.seen + n
    BY <1>4, <1>6, <2>1
  <2> HIDE DEF c, next
  <2>3. QED
    BY <1>3, <1>6, <2>1, <2>2 DEF InStep, Followed
<1>8. QED
  <2> HIDE DEF c
  <2>1. QED
    BY <1>2, <1>6, <1>7, TailChanges

\* The stream ends with nothing waiting.
LEMMA TailEnds ==
    ASSUME TailInv, NEW t \in Client, EndOfStream(t)
    PROVE  TailInv'
<1> DEFINE c == [tails[t] EXCEPT !.phase = "ended"]
<1>1. tails \in [Client -> TailRecord] /\ tails[t] \in TailRecord /\ InStep(tails[t])
  BY DEF TailInv
<1>2. sent' = sent /\ tails' = [tails EXCEPT ![t] = c] /\ tails[t].phase = "open"
  BY <1>1 DEF EndOfStream, Polled, TailRecord
<1>3. /\ c \in TailRecord /\ c.phase = "ended" /\ c.next = tails[t].next
      /\ c.seen = tails[t].seen /\ c.out = tails[t].out
  BY <1>1 DEF TailRecord
<1>4. InStep(c)
  <2> HIDE DEF c
  <2>1. QED
    BY <1>1, <1>2, <1>3 DEF InStep, Followed
<1>5. QED
  <2> HIDE DEF c
  <2>1. QED
    BY <1>2, <1>3, <1>4, TailChanges

\* A client works out the position of its stream from the event it takes.
LEMMA TailRead ==
    ASSUME TailInv, NEW t \in Client, Read(t)
    PROVE  TailInv'
<1> DEFINE e == Head(tails[t].out)
           c == [tails[t] EXCEPT !.seen = After(@, e), !.out = <<>>]
<1>1. /\ tails \in [Client -> TailRecord] /\ tails[t] \in TailRecord /\ InStep(tails[t])
      /\ sent \in Seq(Request) /\ Len(sent) \in Nat
  BY DEF TailInv
<1>2. /\ sent' = sent /\ tails' = [tails EXCEPT ![t] = c] /\ tails[t].out # <<>>
  BY <1>1 DEF Read, TailRecord
<1>3. tails[t].phase \in Followed /\ tails[t].seen \in 1..(Len(sent) + 1)
  BY <1>1, <1>2 DEF InStep
<1>4. After(tails[t].seen, e) = tails[t].next
  <2>1. CASE \E n \in 1..Len(sent) : tails[t].out = <<Gap(n)>>
                                     /\ tails[t].next = tails[t].seen + n
    <3>1. PICK n \in 1..Len(sent) : tails[t].out = <<Gap(n)>>
                                    /\ tails[t].next = tails[t].seen + n
      BY <2>1
    <3>2. e = Gap(n)
      BY <3>1
    <3>3. e.event = "gap" /\ e.count = n
      BY <3>2 DEF Gap
    <3>4. tails[t].seen # 0
      BY <1>1, <1>3
    <3> HIDE DEF e
    <3>5. QED
      BY <3>1, <3>3, <3>4 DEF After
  <2>2. CASE /\ tails[t].seen \in 1..Len(sent)
             /\ tails[t].out = <<Logs(sent[tails[t].seen])>>
             /\ tails[t].next = tails[t].seen + 1
    <3>1. e = Logs(sent[tails[t].seen])
      BY <2>2
    <3>2. e.event = "logs" /\ e.batch = sent[tails[t].seen]
      BY <3>1 DEF Logs
    <3>3. tails[t].seen # 0 /\ tails[t].seen \in DOMAIN sent
      BY <1>1, <2>2
    <3> HIDE DEF e
    <3>4. QED
      BY <2>2, <3>2, <3>3 DEF After
  <2>3. QED
    BY <1>1, <1>2, <1>3, <2>1, <2>2 DEF InStep
<1>5. /\ c \in TailRecord /\ c.phase = tails[t].phase /\ c.next = tails[t].next
      /\ c.seen = tails[t].next /\ c.out = <<>>
  <2>1. <<>> \in Seq(AnyEvent)
    OBVIOUS
  <2> HIDE DEF e
  <2>2. QED
    BY <1>1, <1>4, <2>1 DEF TailRecord
<1>6. InStep(c)
  <2> HIDE DEF c
  <2>1. QED
    BY <1>1, <1>3, <1>5 DEF InStep, Followed
<1>7. QED
  <2> HIDE DEF c
  <2>1. QED
    BY <1>2, <1>5, <1>6, TailChanges

\* A client that hangs up takes what was waiting with it.
LEMMA TailHangUp ==
    ASSUME TailInv, NEW t \in Client, HangUp(t)
    PROVE  TailInv'
<1> DEFINE c == [Closed EXCEPT !.phase = "gone"]
<1>1. sent' = sent /\ tails' = [tails EXCEPT ![t] = c] /\ Len(sent) \in Nat
  BY DEF HangUp, TailInv
<1>2. c = [phase |-> "gone", next |-> 1, out |-> <<>>, seen |-> 1]
  BY DEF Closed
<1>3. c \in TailRecord
  <2>1. <<>> \in Seq(AnyEvent)
    OBVIOUS
  <2> HIDE DEF c
  <2>2. QED
    BY <1>2, <2>1 DEF TailRecord
<1>4. InStep(c)
  BY <1>1, <1>2 DEF InStep, Followed
<1>5. QED
  <2> HIDE DEF c
  <2>1. QED
    BY <1>1, <1>3, <1>4, TailChanges

\* Every step keeps the tails in step with what was sent.
LEMMA TailStep == RowsInv /\ TailInv /\ [Next]_vars => TailInv'
<1> SUFFICES ASSUME RowsInv, TailInv, [Next]_vars PROVE TailInv'
  OBVIOUS
<1>1. CASE UNCHANGED vars
  BY <1>1, TailStays
<1>2. CASE RunServer
  BY <1>2, TailStays, TailExit DEF RunServer, Recover, BuildEngine, StartFails, BindFails,
     ServersReturn, Drained, DrainTimesOut, Bind
<1>3. CASE Listener
  BY <1>3, TailStays, TailExit DEF Listener, CtrlC, Fire, ListenerFails
<1>4. CASE Servers
  <2>1. ASSUME NEW p \in Port, StopAccepting(p) \/ ServerDone(p) PROVE TailInv'
    BY <2>1, TailStays DEF StopAccepting, ServerDone
  <2>2. ASSUME NEW r \in Request, AcceptRequest(r) \/ EndRequest(r) PROVE TailInv'
    BY <2>2, TailStays DEF AcceptRequest, EndRequest, handling
  <2>3. ASSUME NEW t \in Client, Follow(t) \/ TakeEvent(t) \/ CloseTab(t) PROVE TailInv'
    BY <2>3, TailFollow, TailRead, TailHangUp DEF Follow, TakeEvent, CloseTab
  <2>4. ASSUME NEW t \in Client, Stream(t) PROVE TailInv'
    BY <2>4, TailReceive, TailLagged, TailEnds DEF Stream
  <2>5. QED
    BY <1>4, <2>1, <2>2, <2>3, <2>4 DEF Servers
<1>5. CASE Workers
  <2>1. CASE MemReceive
    <3>1. Head(handoff) \in Request
      BY <2>1, ToSetOfTail DEF RowsInv, MemReceive
    <3>2. QED
      BY <2>1, <3>1, TailBroadcast DEF MemReceive
  <2>2. CASE WalAppend \/ WalHandOff \/ WalRefuse \/ WalConfirm \/ WalDone
    BY <2>2, TailStays DEF WalAppend, WalHandOff, WalRefuse, WalConfirm, WalDone
  <2>3. CASE MemFlush \/ MemSignal \/ MemFlushFails \/ MemDone \/ MemPanics
    BY <2>3, TailStays DEF MemFlush, MemSignal, MemFlushFails, MemDone, MemPanics
  <2>4. QED
    BY <1>5, <2>1, <2>2, <2>3 DEF Workers
<1>6. CASE Second
  BY <1>6, TailStays DEF Second, SecondReplays, SecondCounts, SecondFlushes,
     SecondConfirms, SecondFails, secondly
<1>7. CASE UninstallStep
  BY <1>7, TailStays DEF UninstallStep, UninstallRemoves, UninstallFails, removing
<1>8. QED
  BY <1>1, <1>2, <1>3, <1>4, <1>5, <1>6, <1>7 DEF Next

\* The invariant gives the account: what waits for the client is one event at most.
LEMMA TailInvAccounts == TailInv => TailAccounts
<1> SUFFICES ASSUME TailInv, NEW t \in Client, tails[t].phase \in Followed
             PROVE  FoldLeft(After, tails[t].seen, tails[t].out) = tails[t].next
  BY DEF TailAccounts, Followed
<1>1. InStep(tails[t]) /\ sent \in Seq(Request) /\ Len(sent) \in Nat
  BY DEF TailInv
<1>2. CASE tails[t].out = <<>> /\ tails[t].next = tails[t].seen
  BY <1>2, NothingToTake
<1>3. CASE \E n \in 1..Len(sent) : tails[t].out = <<Gap(n)>>
                                   /\ tails[t].next = tails[t].seen + n
  <2>1. PICK n \in 1..Len(sent) : tails[t].out = <<Gap(n)>>
                                  /\ tails[t].next = tails[t].seen + n
    BY <1>3
  <2>2. FoldLeft(After, tails[t].seen, <<Gap(n)>>) = After(tails[t].seen, Gap(n))
    BY OneToTake
  <2>3. After(tails[t].seen, Gap(n)) = tails[t].seen + n
    BY <1>1 DEF After, Gap, InStep
  <2>4. QED
    BY <2>1, <2>2, <2>3
<1>4. CASE /\ tails[t].seen \in 1..Len(sent)
           /\ tails[t].out = <<Logs(sent[tails[t].seen])>>
           /\ tails[t].next = tails[t].seen + 1
  <2> DEFINE e == Logs(sent[tails[t].seen])
  <2>1. FoldLeft(After, tails[t].seen, <<e>>) = After(tails[t].seen, e)
    BY OneToTake
  <2>2. After(tails[t].seen, e) = tails[t].seen + 1
    BY <1>1, <1>4 DEF After, Logs
  <2>3. QED
    BY <1>4, <2>1, <2>2
<1>5. QED
  BY <1>1, <1>2, <1>3, <1>4 DEF InStep

\* For any number of clients and of batches, and for every capacity: a client can
\* account for every batch sent since it subscribed, from the events it was sent
\* alone, however far it falls behind (handle_tail).
THEOREM TailsAccountForAll == Spec => []TailAccounts
<1>1. Init => RowsInv /\ TailInv
  BY RowsInit, TailInit
<1>2. RowsInv /\ TailInv /\ [Next]_vars => RowsInv' /\ TailInv'
  BY RowsStep, TailStep
<1>3. RowsInv /\ TailInv => TailAccounts
  BY TailInvAccounts
<1>4. QED
  BY <1>1, <1>2, <1>3, PTL DEF Spec

-----------------------------------------------------------------------------
(***************************************************************************)
(* Types                                                                   *)
(***************************************************************************)
\* The rows of the write path, and what the second server took of them.
RowTypes ==
    /\ buffer \subseteq Row /\ log \subseteq Row /\ stored \subseteq Row
    /\ acked \subseteq Row /\ shed \subseteq Row /\ erased \subseteq Row
    /\ theirs \in [rows : SUBSET Row, count : Nat]

\* What the process is doing.
LifeTypes ==
    /\ cast \in Casts
    /\ main \in {"off", "starting", "building", "binding", "binding2",
                 "serving", "draining", "exited"}
    /\ code \in {"none", "0", "1", "75", "130", "killed"}
    /\ failed \in BOOLEAN
    /\ signal \in {"quiet", "fired", "dropped"}
    /\ listener \in {"unborn", "first", "firing", "second", "gone"}
    /\ confirm \in 0..TruncateCap
    /\ wal \in {"off", "loop", "done"}
    /\ file \in {"linked", "unlinked", "error"}
    /\ mem \in {"off", "loop", "signal", "done", "dead"}
    /\ second \in {"none", "loaded", "counted", "flushed", "gone"}
    /\ faults \in 0..MaxFaults
    /\ left \in BOOLEAN
    /\ UninstallTypeOK

\* Cardinality of what the second server can have counted.
LEMMA RowsAreCounted == ASSUME NEW S \in SUBSET Row PROVE Cardinality(S) \in Nat
<1>1. MaxRow \in Nat
  BY ServerAssumption
<1>2. IsFiniteSet(Row)
  BY <1>1, FS_Interval DEF Row
<1>3. IsFiniteSet(S)
  BY <1>2, FS_Subset
<1>4. QED
  BY <1>3, FS_CardinalityType

\* The rows at the start.
LEMMA RowTypesInit == Init => RowTypes
BY ServerAssumption DEF Init, RowTypes, Row

\* The process at the start.
LEMMA LifeTypesInit == Init => LifeTypes
<1> SUFFICES ASSUME Init PROVE LifeTypes
  OBVIOUS
<1>1. UninstallTypeOK
  BY DEF Init, UninstallTypeOK, Place, Target
<1>2. faults \in 0..MaxFaults /\ confirm \in 0..TruncateCap
  BY ServerAssumption DEF Init
<1>3. QED
  BY <1>1, <1>2 DEF Init, LifeTypes

\* An error is counted up to the bound.
LEMMA FaultsAreBounded ==
    ASSUME faults \in 0..MaxFaults, Fault
    PROVE  faults' \in 0..MaxFaults
BY ServerAssumption DEF Fault

\* Every step keeps the types of the rows: a queue of requests holds rows.
LEMMA RowTypesStep ==
    ASSUME RowsInv, RowTypes, [Next]_vars
    PROVE  RowTypes'
<1>1. ASSUME NEW how, Exit(how) PROVE RowTypes'
  BY <1>1 DEF Exit, RowTypes
<1>2. CASE UNCHANGED vars
  BY <1>2 DEF RowTypes
<1>3. CASE RunServer
  <2>1. CASE Recover
    BY <2>1 DEF Recover, RowTypes
  <2>2. CASE BuildEngine \/ BindFails \/ ServersReturn
    BY <2>2 DEF BuildEngine, BindFails, ServersReturn, RowTypes
  <2>3. CASE StartFails \/ Drained \/ DrainTimesOut
    BY <1>1, <2>3 DEF StartFails, Drained, DrainTimesOut
  <2>4. ASSUME NEW p \in Port, Bind(p) PROVE RowTypes'
    BY <2>4 DEF Bind, RowTypes
  <2>5. QED
    BY <1>3, <2>1, <2>2, <2>3, <2>4 DEF RunServer
<1>4. CASE Listener
  BY <1>1, <1>4 DEF Listener, CtrlC, Fire, ListenerFails, RowTypes
<1>5. CASE Servers
  BY <1>5 DEF Servers, StopAccepting, ServerDone, AcceptRequest, EndRequest, Follow,
     Stream, TakeEvent, CloseTab, handling, tailing, RowTypes
<1>6. CASE Workers
  <2>1. Request \subseteq Row
    BY ServerAssumption DEF Request, Row
  <2>2. CASE WalAppend
    <3>1. Head(ingest) \in Row
      BY <2>1, <2>2, ToSetOfTail DEF WalAppend, RowsInv
    <3>2. QED
      BY <2>2, <3>1 DEF WalAppend, RowTypes
  <2>3. CASE MemReceive
    <3>1. Head(handoff) \in Row
      BY <2>1, <2>3, ToSetOfTail DEF MemReceive, RowsInv
    <3>2. QED
      BY <2>3, <3>1 DEF MemReceive, RowTypes
  <2>4. CASE WalHandOff \/ WalRefuse \/ WalConfirm \/ WalDone
    BY <2>4 DEF WalHandOff, WalRefuse, WalConfirm, WalDone, RowTypes
  <2>5. CASE MemFlush
    BY <2>5 DEF MemFlush, Publish, RowTypes
  <2>6. CASE MemFlushFails
    <3>1. shed' \subseteq shed \cup buffer /\ buffer' \subseteq buffer
      BY <2>6 DEF MemFlushFails, ShedOf
    <3>2. stored' \subseteq stored \cup buffer
      BY <2>6 DEF MemFlushFails, Publish
    <3>3. UNCHANGED <<log, acked, erased, theirs>>
      BY <2>6 DEF MemFlushFails
    <3>4. QED
      BY <3>1, <3>2, <3>3 DEF RowTypes
  <2>7. CASE MemDone
    BY <2>7 DEF MemDone, Publish, RowTypes
  <2>8. CASE MemSignal \/ MemPanics
    BY <2>8 DEF MemSignal, MemPanics, RowTypes
  <2>9. QED
    BY <1>6, <2>2, <2>3, <2>4, <2>5, <2>6, <2>7, <2>8 DEF Workers
<1>7. CASE Second
  <2>1. Cardinality(log) \in Nat
    BY RowsAreCounted DEF RowTypes
  <2>2. CASE SecondReplays \/ SecondCounts
    BY <2>1, <2>2 DEF SecondReplays, SecondCounts, secondly, RowTypes
  <2>3. CASE SecondFlushes \/ SecondConfirms \/ SecondFails
    BY <2>3 DEF SecondFlushes, SecondConfirms, SecondFails, secondly, RowTypes
  <2>4. QED
    BY <1>7, <2>2, <2>3 DEF Second
<1>8. CASE UninstallStep
  <2>1. UNCHANGED <<buffer, acked, shed, theirs>>
    BY <1>8 DEF UninstallStep, UninstallRemoves, UninstallFails, removing
  <2>2. log' \subseteq log /\ stored' \subseteq stored /\ erased' \subseteq erased \cup log \cup stored
    BY <1>8 DEF UninstallStep, UninstallRemoves, UninstallFails, EraseRows
  <2>3. QED
    BY <2>1, <2>2 DEF RowTypes
<1>9. QED
  BY <1>2, <1>3, <1>4, <1>5, <1>6, <1>7, <1>8 DEF Next

\* Every step keeps the types of the process and of what is beside it.
LEMMA LifeTypesStep ==
    ASSUME LifeTypes, [Next]_vars
    PROVE  LifeTypes'
<1>1. ASSUME NEW how \in {"0", "1", "75", "130", "killed"}, Exit(how) PROVE LifeTypes'
  <2>1. 0 \in 0..TruncateCap
    BY ServerAssumption
  <2>2. QED
    BY <1>1, <2>1 DEF Exit, LifeTypes, UninstallTypeOK
<1>2. CASE UNCHANGED vars
  BY <1>2 DEF LifeTypes, UninstallTypeOK
<1>3. CASE RunServer
  <2>1. CASE Recover
    <3>1. file' \in {"linked", "error"} /\ faults' \in 0..MaxFaults
      BY <2>1, FaultsAreBounded DEF Recover, OpenLog, LifeTypes
    <3>2. UninstallTypeOK'
      BY <2>1 DEF Recover, LifeTypes, UninstallTypeOK, Place, Target
    <3>3. QED
      BY <2>1, <3>1, <3>2 DEF Recover, LifeTypes
  <2>2. CASE BuildEngine \/ BindFails \/ ServersReturn
    BY <2>2 DEF BuildEngine, BindFails, ServersReturn, LifeTypes, UninstallTypeOK
  <2>3. CASE StartFails \/ Drained \/ DrainTimesOut
    BY <1>1, <2>3 DEF StartFails, Drained, DrainTimesOut
  <2>4. ASSUME NEW p \in Port, Bind(p) PROVE LifeTypes'
    BY <2>4 DEF Bind, LifeTypes, UninstallTypeOK
  <2>5. QED
    BY <1>3, <2>1, <2>2, <2>3, <2>4 DEF RunServer
<1>4. CASE Listener
  <2>1. CASE CtrlC
    BY <1>1, <2>1 DEF CtrlC, LifeTypes, UninstallTypeOK
  <2>2. CASE Fire
    BY <2>2 DEF Fire, LifeTypes, UninstallTypeOK
  <2>3. CASE ListenerFails
    BY <2>3, FaultsAreBounded DEF ListenerFails, LifeTypes, UninstallTypeOK
  <2>4. QED
    BY <1>4, <2>1, <2>2, <2>3 DEF Listener
<1>5. CASE Servers
  BY <1>5 DEF Servers, StopAccepting, ServerDone, AcceptRequest, EndRequest, Follow,
     Stream, TakeEvent, CloseTab, handling, tailing, LifeTypes, UninstallTypeOK
<1>6. CASE Workers
  <2>1. CASE WalAppend \/ WalHandOff
    BY <2>1 DEF WalAppend, WalHandOff, LifeTypes, UninstallTypeOK
  <2>2. CASE WalRefuse
    BY <2>2, FaultsAreBounded DEF WalRefuse, LifeTypes, UninstallTypeOK
  <2>3. CASE WalConfirm
    <3>1. file' \in {"linked", "error"} /\ faults' \in 0..MaxFaults
      BY <2>3, FaultsAreBounded DEF WalConfirm, OpenLog, LifeTypes
    <3>2. confirm' \in 0..TruncateCap
      BY <2>3, ServerAssumption DEF WalConfirm, LifeTypes
    <3>3. UninstallTypeOK'
      BY <2>3 DEF WalConfirm, LifeTypes, UninstallTypeOK
    <3>4. QED
      BY <2>3, <3>1, <3>2, <3>3 DEF WalConfirm, LifeTypes
  <2>4. CASE WalDone
    BY <2>4 DEF WalDone, LifeTypes, UninstallTypeOK
  <2>5. CASE MemReceive
    BY <2>5 DEF MemReceive, LifeTypes, UninstallTypeOK
  <2>6. CASE MemFlush \/ MemSignal \/ MemFlushFails
    <3>1. UninstallTypeOK'
      BY <2>6 DEF MemFlush, MemSignal, MemFlushFails, Publish, LifeTypes, UninstallTypeOK,
         Place, Target
    <3>2. confirm' \in 0..TruncateCap
      BY <2>6, ServerAssumption DEF MemFlush, MemSignal, MemFlushFails, LifeTypes
    <3>3. faults' \in 0..MaxFaults
      BY <2>6, FaultsAreBounded DEF MemFlush, MemSignal, MemFlushFails, LifeTypes
    <3>4. mem' \in {"loop", "signal"}
      BY <2>6 DEF MemFlush, MemSignal, MemFlushFails
    <3>5. UNCHANGED <<cast, main, code, failed, signal, listener, wal, file, second, left>>
      BY <2>6 DEF MemFlush, MemSignal, MemFlushFails
    <3>6. QED
      BY <3>1, <3>2, <3>3, <3>4, <3>5 DEF LifeTypes
  <2>7. CASE MemDone
    <3>1. faults' \in 0..MaxFaults
      BY <2>7, FaultsAreBounded DEF MemDone, LifeTypes
    <3>2. UninstallTypeOK'
      BY <2>7 DEF MemDone, Publish, LifeTypes, UninstallTypeOK, Place, Target
    <3>3. left' \in BOOLEAN
      BY <2>7 DEF MemDone, LifeTypes
    <3>4. mem' \in {"off", "loop", "signal", "done", "dead"}
      BY <2>7 DEF MemDone
    <3>5. QED
      BY <2>7, <3>1, <3>2, <3>3, <3>4 DEF MemDone, LifeTypes
  <2>8. CASE MemPanics
    BY <2>8, FaultsAreBounded DEF MemPanics, LifeTypes, UninstallTypeOK
  <2>9. QED
    BY <1>6, <2>1, <2>2, <2>3, <2>4, <2>5, <2>6, <2>7, <2>8 DEF Workers
<1>7. CASE Second
  BY <1>7 DEF Second, SecondReplays, SecondCounts, SecondFlushes, SecondConfirms,
     SecondFails, secondly, LifeTypes, UninstallTypeOK
<1>8. CASE UninstallStep
  <2>1. UNCHANGED <<cast, main, code, failed, signal, listener, confirm, wal, mem, second, left>>
    BY <1>8 DEF UninstallStep, UninstallRemoves, UninstallFails, removing
  <2>2. file' \in {"linked", "unlinked", "error"}
    BY <1>8 DEF UninstallStep, UninstallRemoves, UninstallFails, Unlinked, LifeTypes
  <2>3. faults' \in 0..MaxFaults
    BY <1>8, FaultsAreBounded DEF UninstallStep, UninstallRemoves, UninstallFails, LifeTypes
  <2>4. UninstallTypeOK'
    BY <1>8 DEF UninstallStep, UninstallRemoves, UninstallFails, RemoveTarget, Following,
       RemoveTargetFails, Collect, CollectMisses, List, Existing, Decide, Retry,
       RemoveParent, RemoveParentFails, SkipMissing, UninstallTypeOK, LifeTypes, Target,
       Outcome
  <2>5. QED
    BY <2>1, <2>2, <2>3, <2>4 DEF LifeTypes
<1>9. QED
  BY <1>2, <1>3, <1>4, <1>5, <1>6, <1>7, <1>8 DEF Next

\* The tails are of their type: what is in an event was sent, or counts batches
\* that were.
LEMMA TailsAreTyped == TailInv => LiveTailTypeOK
<1> SUFFICES ASSUME TailInv PROVE LiveTailTypeOK
  OBVIOUS
<1>1. /\ sent \in Seq(Request) /\ Len(sent) \in Nat
      /\ tails \in [Client -> TailRecord]
  BY DEF TailInv
<1>2. ASSUME NEW t \in Client
      PROVE  tails[t].out \in Seq(Event)
  <2>1. InStep(tails[t])
    BY <1>2 DEF TailInv
  <2>2. CASE tails[t].out = <<>>
    BY <2>2
  <2>3. ASSUME NEW n \in 1..Len(sent) PROVE <<Gap(n)>> \in Seq(Event)
    <3>1. Gap(n) \in Event
      BY DEF Gap, Event
    <3>2. QED
      BY <3>1
  <2>4. ASSUME NEW i \in 1..Len(sent) PROVE <<Logs(sent[i])>> \in Seq(Event)
    <3>1. sent[i] \in ToSet(sent)
      BY <1>1 DEF ToSet
    <3>2. Logs(sent[i]) \in Event
      BY <3>1 DEF Logs, Event
    <3>3. QED
      BY <3>2
  <2>5. QED
    BY <2>1, <2>2, <2>3, <2>4 DEF InStep
<1>3. ASSUME NEW t \in Client
      PROVE  tails[t] \in [phase : {"closed", "open", "ended", "gone"},
                           next : 1..(Len(sent) + 1), out : Seq(Event),
                           seen : 0..(Len(sent) + 1)]
  <2> DEFINE c == tails[t]
  <2>1. c \in TailRecord /\ InStep(c) /\ c.out \in Seq(Event)
    BY <1>1, <1>2, <1>3 DEF TailInv
  <2>2. c.next \in 1..(Len(sent) + 1) /\ c.seen \in 0..(Len(sent) + 1)
    BY <1>1, <2>1 DEF InStep
  <2>3. /\ c = [phase |-> c.phase, next |-> c.next, out |-> c.out, seen |-> c.seen]
        /\ c.phase \in {"closed", "open", "ended", "gone"}
    BY <2>1 DEF TailRecord
  <2> HIDE DEF c
  <2>4. c \in [phase : {"closed", "open", "ended", "gone"}, next : 1..(Len(sent) + 1),
               out : Seq(Event), seen : 0..(Len(sent) + 1)]
    BY <2>1, <2>2, <2>3
  <2>5. QED
    BY <2>4 DEF c
<1>4. QED
  BY <1>1, <1>3 DEF LiveTailTypeOK

\* The invariants give the types and the place of acknowledged rows.
LEMMA TypesFollow ==
    ASSUME RowsInv, GateInv, TailInv, RowTypes, LifeTypes
    PROVE  ServerInv
<1>1. TypeOK
  BY TailsAreTyped DEF TypeOK, RowsInv, GateInv, RowTypes, LifeTypes
<1>2. AckedRowsInHand
  BY DEF RowsInv, InHand, AckedRowsInHand
<1>3. QED
  BY <1>1, <1>2 DEF ServerInv

\* Every variable of the process, of its live tail and of what goes on beside it
\* keeps its type; and while the MemTable worker runs, an acknowledged row is with it, on
\* its way to it or in Parquet, whatever becomes of the log and however flushes fail,
\* unless it was shed over the cap (wal_worker, memtable_worker).
THEOREM AckedRowsStayInHand == Spec => []ServerInv
<1>1. Init => RowsInv /\ GateInv /\ TailInv /\ RowTypes /\ LifeTypes
  BY RowsInit, GateInit, TailInit, RowTypesInit, LifeTypesInit
<1>2. RowsInv /\ GateInv /\ TailInv /\ RowTypes /\ LifeTypes /\ [Next]_vars
      => RowsInv' /\ GateInv' /\ TailInv' /\ RowTypes' /\ LifeTypes'
  BY RowsStep, GateStep, TailStep, RowTypesStep, LifeTypesStep
<1>3. RowsInv /\ GateInv /\ TailInv /\ RowTypes /\ LifeTypes => ServerInv
  BY TypesFollow
<1>4. QED
  BY <1>1, <1>2, <1>3, PTL DEF Spec
=============================================================================
