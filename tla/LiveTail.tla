------------------------------ MODULE LiveTail ------------------------------
(***************************************************************************)
(* GET /api/tail: handle_tail of crates/server/src/dashboard.rs over the   *)
(* broadcast channel of run_server.                                        *)
(*                                                                         *)
(* The channel (tokio, external) is a ring of the last Capacity batches.   *)
(* Each subscriber has a position of its own; one whose next batch has     *)
(* been overwritten is moved to the oldest batch there is and told how     *)
(* many it missed.  The stream is polled only while its last event has     *)
(* been taken: a client that does not read holds it where it is.  A        *)
(* position is the number of a batch, from 1.                              *)
(***************************************************************************)
EXTENDS Naturals, SequencesExt

CONSTANTS
    Client,     \* the clients of /api/tail
    Capacity    \* TAIL_BROADCAST_CAPACITY

ASSUME TailAssumption == Capacity \in Nat \ {0}

VARIABLES
    sent,    \* the batches broadcast while somebody was subscribed
    tails    \* for each client: [phase, next, out, seen]; seen is the position
             \* the client works out for itself from the events it has taken

tailVars == <<sent, tails>>

Closed == [phase |-> "closed", next |-> 1, out |-> <<>>, seen |-> 1]

LiveTailInit == sent = <<>> /\ tails = [t \in Client |-> Closed]

\* logs_event also has an answer for records that cannot be encoded as JSON, a gap of
\* their number.  It is left out: encoding strings and numbers cannot fail.
Logs(batch) == [event |-> "logs", batch |-> batch]
Gap(count)  == [event |-> "gap", count |-> count]

\* TailState::from_ref subscribes at the end of what has been sent.
Subscribe(t) ==
    LET end == Len(sent) + 1
    IN  /\ tails[t].phase = "closed"
        /\ tails' = [tails EXCEPT ![t].phase = "open", ![t].next = end, ![t].seen = end]
        /\ UNCHANGED sent

\* broadcast_tx.send: without a subscriber the batch goes nowhere.
Broadcast(batch) ==
    /\ sent' = IF \E t \in Client : tails[t].phase = "open"
               THEN Append(sent, batch) ELSE sent
    /\ UNCHANGED tails

Oldest == IF Len(sent) > Capacity THEN Len(sent) - Capacity + 1 ELSE 1

\* The stream is at its select!.
Polled(t) == tails[t].phase = "open" /\ tails[t].out = <<>>

Receive(t) ==
    LET next == tails[t].next
    IN  /\ Polled(t)
        /\ next \in Oldest..Len(sent)
        /\ tails' = [tails EXCEPT ![t].out = <<Logs(sent[next])>>, ![t].next = next + 1]
        /\ UNCHANGED sent

\* Mutant of Lagged: the subscriber starts again at the end of the channel.
LaggedToEnd(t) ==
    LET next == tails[t].next
    IN  /\ Polled(t)
        /\ next < Oldest
        /\ tails' = [tails EXCEPT ![t].out = <<Gap(Oldest - next)>>,
                                  ![t].next = Len(sent) + 1]
        /\ UNCHANGED sent

\* RecvError::Lagged: a gap event with the number of batches missed.
Lagged(t) ==
    LET next == tails[t].next
    IN  /\ Polled(t)
        /\ next < Oldest
        /\ tails' = [tails EXCEPT ![t].out = <<Gap(Oldest - next)>>, ![t].next = Oldest]
        /\ UNCHANGED sent

\* Mutant of EndOfStream: the loop without its shutdown branch.
NoEndOfStream(t) == tails[t].phase = "none" /\ UNCHANGED tailVars

\* shutdown.wait() wins the select!.  (The channel itself never closes under a
\* stream: the connection holds a sender.)
EndOfStream(t) ==
    /\ Polled(t)
    /\ tails' = [tails EXCEPT ![t].phase = "ended"]
    /\ UNCHANGED sent

\* Where a client stands that believes every event it takes: 0 once a batch is
\* not the one its count made it expect.
After(position, event) ==
    CASE position = 0                          -> 0
      [] position # 0 /\ event.event = "gap"   -> position + event.count
      [] position # 0 /\ event.event = "logs"  ->
             IF position \in DOMAIN sent /\ sent[position] = event.batch
             THEN position + 1 ELSE 0

\* The client takes the event off its socket.
Read(t) ==
    /\ tails[t].out # <<>>
    /\ tails' = [tails EXCEPT ![t].seen = After(@, Head(tails[t].out)), ![t].out = <<>>]
    /\ UNCHANGED sent

HangUp(t) ==
    /\ tails[t].phase = "open"
    /\ tails' = [tails EXCEPT ![t] = [Closed EXCEPT !.phase = "gone"]]
    /\ UNCHANGED sent

-----------------------------------------------------------------------------
Event == [event : {"logs"}, batch : ToSet(sent)]
             \cup [event : {"gap"}, count : 1..Len(sent)]

LiveTailTypeOK ==
    tails \in [Client ->
        [phase : {"closed", "open", "ended", "gone"}, next : 1..(Len(sent) + 1),
         out : Seq(Event), seen : 0..(Len(sent) + 1)]]

\* A client can account for every batch sent since it subscribed: what it was
\* shown and what it was told it missed add up to the position of the stream, in
\* order and with nothing twice, however far it falls behind (handle_tail).
TailAccounts ==
    \A t \in Client :
        tails[t].phase \in {"open", "ended"} =>
            FoldLeft(After, tails[t].seen, tails[t].out) = tails[t].next
=============================================================================
