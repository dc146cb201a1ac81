------------------------------ MODULE SdkProofs ------------------------------
(***************************************************************************)
(* Proofs about SdkClients, for every value of its constants.              *)
(*                                                                         *)
(* A record is in one place of the client (PlaceInv), and each request     *)
(* that fails accounts for one copy more that the server may come to store *)
(* (CopiesInv).  What a client gives up it counts or may forgive           *)
(* (LossInv), by what the answer says of the batch (AnswerInv).  The queue *)
(* of the Rust client outgrows its cap by records that failed and are not  *)
(* in flight (BoundInv).  How each client closes is ShapeInv.              *)
(***************************************************************************)
EXTENDS SdkClients, FiniteSetTheorems, TLAPS

USE DEF clientVars, serverVars, vars, serverOnly, GoUnchanged, NodeUnchanged, RustUnchanged,
        PyUnchanged

-----------------------------------------------------------------------------
Before(A, B) == \A a \in A, b \in B : a < b

\* A sender that is not waiting has no batch.
SendShape(s) ==
    IF sends[s].phase = "waiting" THEN sends[s].attempt # 0
    ELSE sends[s].batch = <<>> /\ sends[s].attempt = 0 /\ sends[s].answer = "none"

\* The worker of the Go client does one thing at a time and ends with nothing
\* in hand.
GoShape == sdk = "go" =>
    /\ sends["app"] = Idle /\ sends["main"] = Idle /\ sends["flusher"].phase # "due"
    /\ sends["flusher"].phase = "waiting" => queue = <<>>
    /\ worker # "loop" => phase # "open"
    /\ worker \in {"last", "done"} => logChan = <<>> /\ queue = <<>>
    /\ worker = "done" => sends["flusher"] = Idle
    /\ phase = "closed" => worker = "done"

\* A Node program is closed once the request in flight is answered.
NodeShape == sdk = "node" =>
    /\ sends["app"] = Idle /\ sends["main"] = Idle /\ sends["flusher"].phase # "due"
    /\ phase = "closed" => sends["flusher"] = Idle

RustShape == sdk = "rust" => sends["main"] = Idle /\ sends["flusher"].phase # "due"

\* shutdown flushes after the thread has ended, and what is queued after that
\* flush was logged after the call.
PyShape == sdk = "python" =>
    /\ phase \in {"open", "closing"} => sends["main"] = Idle
    /\ worker = "done" => sends["flusher"] = Idle /\ phase # "open"
    /\ phase \in {"joined", "closed"} =>
          /\ faults = 0 => worker = "done"
          /\ sends["main"].phase # "due" => \A r \in ToSet(queue) : cut < r
    /\ phase = "closed" => sends["main"] = Idle

ShapeInv ==
    /\ \A s \in Sender : SendShape(s)
    /\ GoShape /\ NodeShape /\ RustShape /\ PyShape
    /\ sdk # "go" => logChan = <<>>
    /\ cut <= logged

PlaceInv ==
    /\ IsInjective(logChan) /\ IsInjective(queue)
    /\ \A s \in Sender : IsInjective(sends[s].batch)
    /\ ToSet(logChan) \cap ToSet(queue) = {}
    /\ \A s \in Sender : InFlight(s) \cap (ToSet(logChan) \cup ToSet(queue)) = {}
    /\ \A s, t \in Sender : s # t => InFlight(s) \cap InFlight(t) = {}
    /\ Held \subseteq Logged

\* What the server has or may get was logged and, if late, failed.
NetInv ==
    /\ IsFiniteSet(late)
    /\ \A request \in late : ToSet(request.batch) \subseteq Logged
    /\ \A r \in Record : stored[r] > 0 => r \in Logged
    /\ faults = 0 => late = {} /\ \A r \in Record : failed[r] = 0

\* What an answer says of the records of the batch.
AnswerInv ==
    \A s \in Sender :
        /\ sends[s].answer = "failed" => faults > 0
        /\ \A r \in InFlight(s) :
            /\ sends[s].answer = "ok" => stored[r] > 0
            /\ sends[s].answer = "failed" => failed[r] > 0
            /\ sends[s].answer = "rejected" => rejected[r] > 0
            /\ sends[s].attempt = 2 =>
                  failed[r] + rejected[r] >= IF sends[s].answer \in {"failed", "rejected"}
                                             THEN 2 ELSE 1

\* Records that no request stored and was answered for.
Unsettled ==
    (Record \ Logged) \cup ToSet(logChan) \cup ToSet(queue)
        \cup UNION {InFlight(s) : s \in {t \in Sender : sends[t].answer # "ok"}}

LateWith(r) == {request \in late : r \in ToSet(request.batch)}

CopiesInv ==
    \A r \in Record :
        stored[r] + Cardinality(LateWith(r)) <= failed[r] + IF r \in Unsettled THEN 0 ELSE 1

LossInv == phase = "open" \/ Untroubled => Cardinality(Lost \ Forgiven) <= dropped

\* Records that failed and are in nobody's hands, or in the queue.
Returned == {r \in Record : failed[r] > 0} \ UNION {InFlight(s) : s \in Sender}

BoundInv ==
    /\ sdk \in {"node", "python"} => Len(queue) <= MaxQueueSize
    /\ sdk = "rust" => Len(queue) <= MaxQueueSize + Cardinality(Returned)
    /\ Len(logChan) <= ChannelCapacity

OrderInv ==
    /\ sdk # "rust" => Increasing(queue)
    /\ sdk \in {"go", "node"} =>
          /\ Increasing(sends["flusher"].batch) /\ Increasing(logChan)
          /\ Before(InFlight("flusher"), ToSet(queue) \cup ToSet(logChan))
          /\ Before(ToSet(queue), ToSet(logChan))

\* Until something fails, what a Node program has queued is newer than what it
\* has sent.
NewerInv ==
    sdk = "node" /\ Untroubled =>
        \A r \in ToSet(queue), q \in Record : stored[q] > 0 => q < r

RecordsInv ==
    /\ PlaceInv /\ NetInv /\ AnswerInv
    /\ CopiesInv /\ LossInv /\ BoundInv /\ OrderInv /\ NewerInv

IInv == TypeOK /\ ShapeInv /\ RecordsInv

-----------------------------------------------------------------------------
(***************************************************************************)
(* Sequences of records                                                    *)
(***************************************************************************)
\* The sequence of no records.
LEMMA EmptySequence ==
    /\ <<>> \in Seq(Record) /\ Len(<<>>) = 0 /\ ToSet(<<>>) = {}
    /\ IsInjective(<<>>) /\ Increasing(<<>>)
BY DEF ToSet, IsInjective, Increasing

\* One record more at the end.
LEMMA AppendFacts ==
    ASSUME NEW seq \in Seq(Record), NEW r \in Record
    PROVE  /\ Append(seq, r) \in Seq(Record) /\ Len(Append(seq, r)) = Len(seq) + 1
           /\ ToSet(Append(seq, r)) = ToSet(seq) \cup {r}
           /\ IsInjective(seq) /\ r \notin ToSet(seq) => IsInjective(Append(seq, r))
           /\ Increasing(seq) /\ Before(ToSet(seq), {r}) => Increasing(Append(seq, r))
<1> DEFINE longer == Append(seq, r)
<1>1. /\ longer \in Seq(Record) /\ Len(longer) = Len(seq) + 1 /\ Len(seq) \in Nat
      /\ DOMAIN seq = 1..Len(seq) /\ DOMAIN longer = 1..(Len(seq) + 1)
      /\ \A i \in DOMAIN seq : longer[i] = seq[i]
      /\ longer[Len(seq) + 1] = r
  OBVIOUS
<1> HIDE DEF longer
<1>2. DOMAIN longer = DOMAIN seq \cup {Len(seq) + 1} /\ Len(seq) + 1 \notin DOMAIN seq
  BY <1>1
<1>3. ToSet(longer) = ToSet(seq) \cup {r}
  BY <1>1, <1>2 DEF ToSet
<1>4. \A i \in DOMAIN seq : seq[i] \in ToSet(seq)
  BY DEF ToSet
<1>5. IsInjective(seq) /\ r \notin ToSet(seq) => IsInjective(longer)
  BY <1>1, <1>2, <1>4 DEF IsInjective
<1>6. Increasing(seq) /\ Before(ToSet(seq), {r}) => Increasing(longer)
  <2> SUFFICES ASSUME Increasing(seq), Before(ToSet(seq), {r}),
                      NEW i \in DOMAIN longer, NEW j \in DOMAIN longer, i < j
               PROVE  longer[i] < longer[j]
    BY DEF Increasing
  <2>1. i \in DOMAIN seq
    BY <1>1, <1>2
  <2>2. CASE j \in DOMAIN seq
    BY <1>1, <2>1, <2>2 DEF Increasing
  <2>3. CASE j = Len(seq) + 1
    BY <1>1, <1>4, <2>1, <2>3 DEF Before
  <2>4. QED
    BY <1>2, <2>2, <2>3
<1>7. QED
  BY <1>1, <1>3, <1>5, <1>6 DEF longer

\* One sequence after the other.
LEMMA ConcatFacts ==
    ASSUME NEW front \in Seq(Record), NEW back \in Seq(Record)
    PROVE  /\ front \o back \in Seq(Record) /\ Len(front \o back) = Len(front) + Len(back)
           /\ ToSet(front \o back) = ToSet(front) \cup ToSet(back)
           /\ IsInjective(front) /\ IsInjective(back) /\ ToSet(front) \cap ToSet(back) = {}
                => IsInjective(front \o back)
           /\ Increasing(front) /\ Increasing(back) /\ Before(ToSet(front), ToSet(back))
                => Increasing(front \o back)
<1> DEFINE both == front \o back
<1>1. /\ both \in Seq(Record) /\ Len(both) = Len(front) + Len(back)
      /\ Len(front) \in Nat /\ Len(back) \in Nat
      /\ DOMAIN front = 1..Len(front) /\ DOMAIN back = 1..Len(back)
      /\ DOMAIN both = 1..(Len(front) + Len(back))
      /\ \A i \in 1..(Len(front) + Len(back)) :
            both[i] = IF i <= Len(front) THEN front[i] ELSE back[i - Len(front)]
  OBVIOUS
<1> HIDE DEF both
<1>2. \A i \in DOMAIN front : i \in DOMAIN both /\ both[i] = front[i] /\ front[i] \in ToSet(front)
  BY <1>1 DEF ToSet
<1>3. \A i \in DOMAIN back : /\ Len(front) + i \in DOMAIN both
                             /\ both[Len(front) + i] = back[i] /\ back[i] \in ToSet(back)
  BY <1>1 DEF ToSet
<1>4. \A i \in DOMAIN both :
        \/ i \in DOMAIN front /\ both[i] = front[i]
        \/ i > Len(front) /\ i - Len(front) \in DOMAIN back /\ both[i] = back[i - Len(front)]
  BY <1>1
<1>5. ToSet(both) = ToSet(front) \cup ToSet(back)
  <2>1. ToSet(both) \subseteq ToSet(front) \cup ToSet(back)
    BY <1>4 DEF ToSet
  <2>2. ToSet(front) \cup ToSet(back) \subseteq ToSet(both)
    BY <1>2, <1>3 DEF ToSet
  <2>3. QED
    BY <2>1, <2>2
<1>6. IsInjective(front) /\ IsInjective(back) /\ ToSet(front) \cap ToSet(back) = {}
        => IsInjective(both)
  <2> SUFFICES ASSUME IsInjective(front), IsInjective(back),
                      ToSet(front) \cap ToSet(back) = {},
                      NEW i \in DOMAIN both, NEW j \in DOMAIN both, both[i] = both[j]
               PROVE  i = j
    BY DEF IsInjective
  <2>1. CASE i \in DOMAIN front /\ j \in DOMAIN front
    BY <1>2, <2>1 DEF IsInjective
  <2>2. CASE i - Len(front) \in DOMAIN back /\ j - Len(front) \in DOMAIN back
              /\ both[i] = back[i - Len(front)] /\ both[j] = back[j - Len(front)]
    <3>1. i - Len(front) = j - Len(front)
      BY <2>2 DEF IsInjective
    <3>2. i \in Int /\ j \in Int
      BY <1>1
    <3>3. QED
      BY <1>1, <3>1, <3>2
  <2>3. QED
    BY <1>2, <1>3, <1>4, <2>1, <2>2
<1>7. Increasing(front) /\ Increasing(back) /\ Before(ToSet(front), ToSet(back))
        => Increasing(both)
  <2> SUFFICES ASSUME Increasing(front), Increasing(back),
                      Before(ToSet(front), ToSet(back)),
                      NEW i \in DOMAIN both, NEW j \in DOMAIN both, i < j
               PROVE  both[i] < both[j]
    BY DEF Increasing
  <2>1. i \in Int /\ j \in Int
    BY <1>1
  <2>2. CASE j \in DOMAIN front
    BY <1>1, <1>2, <2>1, <2>2 DEF Increasing
  <2>3. CASE i \in DOMAIN front /\ j - Len(front) \in DOMAIN back
              /\ both[j] = back[j - Len(front)]
    BY <1>2, <1>3, <2>3 DEF Before
  <2>4. CASE /\ i - Len(front) \in DOMAIN back /\ both[i] = back[i - Len(front)]
             /\ j - Len(front) \in DOMAIN back /\ both[j] = back[j - Len(front)]
    BY SMTT(30), <1>1, <2>1, <2>4 DEF Increasing
  <2>5. QED
    BY <1>4, <2>2, <2>3, <2>4
<1>8. QED
  BY <1>1, <1>5, <1>6, <1>7 DEF both

\* What is left of a sequence without its first n records.
LEMMA SuffixFacts ==
    ASSUME NEW seq \in Seq(Record), NEW n \in 0..Len(seq)
    PROVE  LET front == SubSeq(seq, 1, n)
               back  == SubSeq(seq, n + 1, Len(seq))
           IN  /\ front \in Seq(Record) /\ Len(front) = n
               /\ back \in Seq(Record) /\ Len(back) = Len(seq) - n
               /\ ToSet(seq) = ToSet(front) \cup ToSet(back)
               /\ IsInjective(seq) => IsInjective(back) /\ ToSet(front) \cap ToSet(back) = {}
               /\ Increasing(seq) => Increasing(back)
<1> DEFINE front == SubSeq(seq, 1, n)
           back  == SubSeq(seq, n + 1, Len(seq))
<1>1. /\ front \in Seq(Record) /\ Len(front) = n /\ DOMAIN front = 1..n
      /\ back \in Seq(Record) /\ Len(back) = Len(seq) - n
      /\ DOMAIN back = 1..(Len(seq) - n) /\ DOMAIN seq = 1..Len(seq)
      /\ n \in Nat /\ Len(seq) \in Nat /\ n <= Len(seq)
      /\ \A i \in 1..n : front[i] = seq[i]
      /\ \A i \in 1..(Len(seq) - n) : back[i] = seq[n + i]
  OBVIOUS
<1> HIDE DEF front, back
<1>2. \A i \in DOMAIN front : i \in DOMAIN seq /\ front[i] = seq[i]
  BY <1>1
<1>3. \A i \in DOMAIN back : n + i \in DOMAIN seq /\ back[i] = seq[n + i]
  BY <1>1
<1>4. \A i \in DOMAIN seq : \/ i \in DOMAIN front /\ seq[i] = front[i]
                            \/ i - n \in DOMAIN back /\ seq[i] = back[i - n]
  BY <1>1
<1>5. ToSet(seq) = ToSet(front) \cup ToSet(back)
  <2>1. ToSet(seq) \subseteq ToSet(front) \cup ToSet(back)
    BY <1>4 DEF ToSet
  <2>2. ToSet(front) \cup ToSet(back) \subseteq ToSet(seq)
    BY <1>2, <1>3 DEF ToSet
  <2>3. QED
    BY <2>1, <2>2
<1>6. ASSUME IsInjective(seq)
      PROVE  IsInjective(back) /\ ToSet(front) \cap ToSet(back) = {}
  <2>1. \A i, j \in DOMAIN back : n + i = n + j => i = j
    BY <1>1
  <2>2. IsInjective(back)
    BY <1>3, <1>6, <2>1 DEF IsInjective
  <2>3. \A i \in DOMAIN front, j \in DOMAIN back : i # n + j
    BY <1>1
  <2>4. ToSet(front) \cap ToSet(back) = {}
    BY <1>2, <1>3, <1>6, <2>3 DEF IsInjective, ToSet
  <2>5. QED
    BY <2>2, <2>4
<1>7. Increasing(seq) => Increasing(back)
  <2>1. \A i, j \in DOMAIN back : i < j => n + i < n + j
    BY <1>1
  <2>2. QED
    BY <1>3, <2>1 DEF Increasing
<1>8. QED
  BY <1>1, <1>5, <1>6, <1>7 DEF front, back

\* A sequence without its head.
LEMMA TailFacts ==
    ASSUME NEW seq \in Seq(Record), seq # <<>>
    PROVE  /\ Head(seq) \in Record /\ Tail(seq) \in Seq(Record)
           /\ Len(Tail(seq)) = Len(seq) - 1 /\ Len(seq) \in Nat \ {0}
           /\ ToSet(seq) = {Head(seq)} \cup ToSet(Tail(seq))
           /\ IsInjective(seq) => IsInjective(Tail(seq)) /\ Head(seq) \notin ToSet(Tail(seq))
           /\ Increasing(seq) => Increasing(Tail(seq)) /\ Before({Head(seq)}, ToSet(Tail(seq)))
<1> DEFINE tail == Tail(seq)
<1>1. /\ Head(seq) \in Record /\ tail \in Seq(Record) /\ Len(tail) = Len(seq) - 1
      /\ Len(seq) \in Nat \ {0} /\ Head(seq) = seq[1]
      /\ DOMAIN seq = 1..Len(seq) /\ DOMAIN tail = 1..(Len(seq) - 1)
      /\ \A i \in 1..(Len(seq) - 1) : tail[i] = seq[i + 1]
  OBVIOUS
<1> HIDE DEF tail
<1>2. /\ \A i \in DOMAIN tail : i \in Nat /\ i + 1 \in DOMAIN seq /\ 1 < i + 1
                                /\ tail[i] = seq[i + 1]
      /\ \A i, j \in DOMAIN tail : i + 1 = j + 1 => i = j
      /\ \A i, j \in DOMAIN tail : i < j => i + 1 < j + 1
      /\ 1 \in DOMAIN seq
  BY <1>1
<1>3. \A i \in DOMAIN seq : i = 1 \/ (i - 1 \in DOMAIN tail /\ tail[i - 1] = seq[i])
  BY <1>1
<1>4. ToSet(seq) = {Head(seq)} \cup ToSet(tail)
  <2>1. ToSet(seq) \subseteq {Head(seq)} \cup ToSet(tail)
    BY <1>1, <1>3 DEF ToSet
  <2>2. {Head(seq)} \cup ToSet(tail) \subseteq ToSet(seq)
    BY <1>1, <1>2 DEF ToSet
  <2>3. QED
    BY <2>1, <2>2
<1>5. IsInjective(seq) => IsInjective(tail) /\ Head(seq) \notin ToSet(tail)
  BY <1>1, <1>2 DEF IsInjective, ToSet
<1>6. Increasing(seq) => Increasing(tail) /\ Before({Head(seq)}, ToSet(tail))
  BY SMTT(30), <1>1, <1>2 DEF Increasing, ToSet, Before
<1>7. QED
  BY <1>1, <1>4, <1>5, <1>6 DEF tail

\* The records of a sequence are finitely many, and no more than its length.
LEMMA SetOfSequence ==
    ASSUME NEW seq \in Seq(Record)
    PROVE  /\ ToSet(seq) \in SUBSET Record /\ IsFiniteSet(ToSet(seq))
           /\ Cardinality(ToSet(seq)) \in Nat /\ Len(seq) \in Nat
           /\ Cardinality(ToSet(seq)) <= Len(seq)
           /\ IsInjective(seq) => Cardinality(ToSet(seq)) = Len(seq)
<1>1. Len(seq) \in Nat /\ DOMAIN seq = 1..Len(seq) /\ \A i \in DOMAIN seq : seq[i] \in Record
  OBVIOUS
<1> DEFINE place == [i \in 1..Len(seq) |-> seq[i]]
<1>2. IsFiniteSet(1..Len(seq)) /\ Cardinality(1..Len(seq)) = Len(seq)
  BY <1>1, FS_Interval
<1>3. place \in Surjection(1..Len(seq), ToSet(seq))
  BY SMTT(30), <1>1 DEF Surjection, ToSet
<1>4. IsFiniteSet(ToSet(seq)) /\ Cardinality(ToSet(seq)) <= Len(seq)
  BY <1>2, <1>3, FS_Surjection
<1>5. IsInjective(seq) => Cardinality(ToSet(seq)) = Len(seq)
  <2> SUFFICES ASSUME IsInjective(seq) PROVE Cardinality(ToSet(seq)) = Len(seq)
    OBVIOUS
  <2>1. place \in Injection(1..Len(seq), ToSet(seq))
    BY <1>1 DEF IsInjective, Injection, ToSet
  <2>2. place \in Bijection(1..Len(seq), ToSet(seq))
    BY <1>3, <2>1 DEF Bijection
  <2> HIDE DEF place
  <2>3. Cardinality(1..Len(seq)) = Cardinality(ToSet(seq))
    BY <1>2, <2>2, FS_Bijection DEF ExistsBijection
  <2>4. QED
    BY <1>2, <2>3
<1>6. QED
  BY <1>1, <1>4, <1>5, FS_CardinalityType DEF ToSet

-----------------------------------------------------------------------------
(***************************************************************************)
(* What the senders do                                                     *)
(***************************************************************************)
\* The states of a sender that the actions assign.
LEMMA SendValues ==
    /\ /\ Idle \in Send /\ Idle.phase = "idle" /\ Idle.batch = <<>>
       /\ Idle.attempt = 0 /\ Idle.answer = "none"
    /\ /\ Due \in Send /\ Due.phase = "due" /\ Due.batch = <<>>
       /\ Due.attempt = 0 /\ Due.answer = "none" /\ Due # Idle
    /\ \A batch \in Seq(Record), n \in {1, 2} :
          LET send == Waiting(batch, n)
          IN  /\ send \in Send /\ send.phase = "waiting" /\ send.batch = batch
              /\ send.attempt = n /\ send.answer = "none" /\ send # Idle /\ send # Due
<1>1. <<>> \in Seq(Record)
  OBVIOUS
<1>2. /\ Idle \in Send /\ Idle.phase = "idle" /\ Idle.batch = <<>>
      /\ Idle.attempt = 0 /\ Idle.answer = "none"
  BY <1>1 DEF Idle, Send
<1>3. Due = [phase |-> "due", batch |-> <<>>, attempt |-> 0, answer |-> "none"]
  BY DEF Due, Idle
<1>4. /\ Due \in Send /\ Due.phase = "due" /\ Due.batch = <<>>
      /\ Due.attempt = 0 /\ Due.answer = "none" /\ Due # Idle
  BY <1>1, <1>2, <1>3 DEF Send
<1>5. ASSUME NEW batch \in Seq(Record), NEW n \in {1, 2}
      PROVE  /\ Waiting(batch, n) \in Send /\ Waiting(batch, n).phase = "waiting"
             /\ Waiting(batch, n).batch = batch /\ Waiting(batch, n).attempt = n
             /\ Waiting(batch, n).answer = "none"
             /\ Waiting(batch, n) # Idle /\ Waiting(batch, n) # Due
  <2>1. /\ Waiting(batch, n) \in Send /\ Waiting(batch, n).phase = "waiting"
        /\ Waiting(batch, n).batch = batch /\ Waiting(batch, n).attempt = n
        /\ Waiting(batch, n).answer = "none"
    BY DEF Waiting, Send
  <2>2. QED
    BY <1>2, <1>4, <2>1
<1>6. QED
  BY <1>2, <1>4, <1>5

\* A sender that acts leaves the others alone.
LEMMA OneSends ==
    ASSUME TypeOK, NEW s \in Sender, NEW x \in Send, sends' = [sends EXCEPT ![s] = x]
    PROVE  /\ sends' \in [Sender -> Send] /\ sends'[s] = x
           /\ \A t \in Sender \ {s} : sends'[t] = sends[t]
BY DEF TypeOK

\* What a sender has in hand.
LEMMA InHand ==
    ASSUME TypeOK, ShapeInv, NEW s \in Sender
    PROVE  /\ sends[s] \in Send /\ sends[s].batch \in Seq(Record)
           /\ sends[s].answer # "none" => sends[s].phase = "waiting"
           /\ sends[s].phase = "waiting" => sends[s].attempt \in {1, 2}
           /\ sends[s].phase # "waiting" => InFlight(s) = {} /\ sends[s].batch = <<>>
<1>1. sends[s] \in Send
  BY DEF TypeOK
<1>2. SendShape(s)
  BY DEF ShapeInv
<1>3. /\ sends[s].batch \in Seq(Record) /\ sends[s].attempt \in 0..2
  BY <1>1 DEF Send
<1>4. QED
  BY <1>1, <1>2, <1>3, EmptySequence DEF SendShape, InFlight

\* The counters and the queue.
LEMMA Counters ==
    ASSUME TypeOK
    PROVE  /\ faults \in Nat /\ logged \in Nat /\ dropped \in Nat
           /\ queue \in Seq(Record) /\ Len(queue) \in Nat
<1>1. /\ faults \in 0..MaxFaults /\ logged \in 0..MaxRecord /\ dropped \in Nat
      /\ queue \in Seq(Record)
  BY DEF TypeOK
<1>2. QED
  BY <1>1, ClientAssumption

\* The request of a sender whose answer is in.
LEMMA Answering ==
    ASSUME TypeOK, ShapeInv, NEW s \in Sender, Answered(s)
    PROVE  /\ sends[s].batch \in Seq(Record) /\ Len(sends[s].batch) \in Nat
           /\ InFlight(s) = ToSet(sends[s].batch)
           /\ sends[s].answer \in {"ok", "failed", "rejected"}
           /\ sends[s].answer # "none"
           /\ sends[s].phase = "waiting" /\ sends[s].attempt \in {1, 2}
<1>1. sends[s] \in Send
  BY InHand
<1>2. /\ sends[s].batch \in Seq(Record)
      /\ sends[s].answer \in {"none", "ok", "failed", "rejected"}
  BY <1>1 DEF Send
<1>3. QED
  BY <1>2, InHand DEF Answered, InFlight

\* The records of the client's queues and batches.
LEMMA HeldRecords ==
    ASSUME TypeOK
    PROVE  /\ Held = ToSet(logChan) \cup ToSet(queue) \cup InFlight("flusher")
                       \cup InFlight("app") \cup InFlight("main")
           /\ Held \in SUBSET Record /\ Logged \in SUBSET Record
           /\ logged \in Nat /\ Logged = 1..logged
           /\ \A r \in Record : r \in Nat /\ (r \in Logged <=> r <= logged)
<1>1. logChan \in Seq(Record) /\ queue \in Seq(Record) /\ logged \in 0..MaxRecord
  BY DEF TypeOK
<1>2. \A s \in Sender : sends[s].batch \in Seq(Record)
  BY DEF TypeOK, Send
<1>3. MaxRecord \in Nat
  BY ClientAssumption
<1>4. Held = ToSet(logChan) \cup ToSet(queue) \cup InFlight("flusher")
                \cup InFlight("app") \cup InFlight("main")
  BY DEF Held, Sender
<1>5. ToSet(logChan) \in SUBSET Record /\ ToSet(queue) \in SUBSET Record
  BY <1>1, SetOfSequence
<1>6. \A s \in Sender : InFlight(s) \in SUBSET Record
  BY <1>2, SetOfSequence DEF InFlight
<1>7. /\ Logged \in SUBSET Record /\ logged \in Nat /\ Logged = 1..logged
      /\ \A r \in Record : r \in Nat /\ (r \in Logged <=> r <= logged)
  BY <1>1, <1>3 DEF Logged, Record
<1>8. Held \in SUBSET Record
  BY <1>4, <1>5, <1>6 DEF Sender
<1>9. QED
  BY <1>4, <1>7, <1>8

-----------------------------------------------------------------------------
(***************************************************************************)
(* A step of one sender of the client                                      *)
(***************************************************************************)
\* The server sees nothing of the step, and the other senders do nothing.
ClientActs(s) ==
    /\ UNCHANGED <<sdk, late, stored, failed, rejected>>
    /\ \A t \in Sender \ {s} : sends'[t] = sends[t]
    /\ logged <= logged' /\ faults <= faults'
    /\ phase' = "open" => phase = "open"

\* The records the step of a sender can move, and those of them unsettled.
Mine(s) == ToSet(logChan) \cup ToSet(queue) \cup InFlight(s)
Open(s) == ToSet(logChan) \cup ToSet(queue)
               \cup IF sends[s].answer = "ok" THEN {} ELSE InFlight(s)

\* What the server has, or may get, stays.
LEMMA NetKept ==
    ASSUME TypeOK, TypeOK', NetInv, NEW s \in Sender, ClientActs(s)
    PROVE  NetInv'
<1>1. logged \in Nat /\ logged' \in Nat /\ faults \in Nat /\ faults' \in Nat
  BY ClientAssumption DEF TypeOK
<1>2. Logged \subseteq Logged'
  BY <1>1 DEF Logged, ClientActs
<1>3. faults' = 0 => faults = 0
  BY <1>1 DEF ClientActs
<1>4. UNCHANGED <<late, stored, failed>>
  BY DEF ClientActs
<1>5. QED
  BY <1>2, <1>3, <1>4 DEF NetInv

\* A sender leaves its request, or sends one that is not answered yet.
LEMMA AnswerKept ==
    ASSUME TypeOK, TypeOK', AnswerInv, NEW s \in Sender, ClientActs(s),
           \/ sends'[s] = sends[s]
           \/ /\ sends'[s].answer = "none"
              /\ \/ sends'[s].attempt # 2
                 \/ \A r \in InFlight(s)' : failed[r] + rejected[r] >= 1
    PROVE  AnswerInv'
<1>1. faults \in Nat /\ faults' \in Nat /\ faults <= faults'
  BY ClientAssumption DEF TypeOK, ClientActs
<1>2. UNCHANGED <<stored, failed, rejected>>
  BY DEF ClientActs
<1>3. ASSUME NEW t \in Sender, sends'[t] = sends[t]
      PROVE  /\ sends'[t].answer = "failed" => faults' > 0
             /\ \A r \in InFlight(t)' :
                 /\ sends'[t].answer = "ok" => stored'[r] > 0
                 /\ sends'[t].answer = "failed" => failed'[r] > 0
                 /\ sends'[t].answer = "rejected" => rejected'[r] > 0
                 /\ sends'[t].attempt = 2 =>
                      failed'[r] + rejected'[r]
                          >= IF sends'[t].answer \in {"failed", "rejected"} THEN 2 ELSE 1
  <2>1. InFlight(t)' = InFlight(t)
    BY <1>3 DEF InFlight
  <2>2. faults > 0 => faults' > 0
    BY <1>1
  <2>3. QED
    BY <1>2, <1>3, <2>1, <2>2 DEF AnswerInv
<1>4. CASE sends'[s] = sends[s]
  <2>1. \A t \in Sender : sends'[t] = sends[t]
    BY <1>4 DEF ClientActs
  <2>2. QED
    BY <1>3, <2>1 DEF AnswerInv
<1>5. CASE /\ sends'[s].answer = "none"
           /\ \/ sends'[s].attempt # 2
              \/ \A r \in InFlight(s)' : failed[r] + rejected[r] >= 1
  <2>1. \A t \in Sender \ {s} : sends'[t] = sends[t]
    BY DEF ClientActs
  <2>2. \A r \in InFlight(s)' : sends'[s].attempt = 2 => failed'[r] + rejected'[r] >= 1
    BY <1>2, <1>5
  <2>3. QED
    BY <1>3, <1>5, <2>1, <2>2 DEF AnswerInv
<1>6. QED
  BY <1>4, <1>5

\* Records move between the places of one sender, or are new.
LEMMA PlaceKept ==
    ASSUME TypeOK, TypeOK', PlaceInv, NEW s \in Sender, ClientActs(s),
           IsInjective(logChan'), IsInjective(queue'), IsInjective(sends'[s].batch),
           ToSet(logChan') \cap ToSet(queue') = {},
           InFlight(s)' \cap (ToSet(logChan') \cup ToSet(queue')) = {},
           Mine(s)' \subseteq Mine(s) \cup (Logged' \ Logged)
    PROVE  PlaceInv'
<1>1. \A t \in Sender \ {s} : sends'[t] = sends[t] /\ InFlight(t)' = InFlight(t)
  BY DEF ClientActs, InFlight
<1>2. \A t \in Sender \ {s} : InFlight(t) \cap Mine(s) = {} /\ InFlight(t) \subseteq Logged
  BY DEF PlaceInv, Mine, Held
<1>3. \A t \in Sender \ {s} : InFlight(t)' \cap Mine(s)' = {}
  BY <1>1, <1>2
<1>4. \A t \in Sender : IsInjective(sends'[t].batch)
  BY <1>1 DEF PlaceInv
<1>5. \A t \in Sender : InFlight(t)' \cap (ToSet(logChan') \cup ToSet(queue')) = {}
  BY <1>3 DEF Mine
<1>6. ASSUME NEW t \in Sender, NEW u \in Sender, t # u
      PROVE  InFlight(t)' \cap InFlight(u)' = {}
  <2>1. CASE t = s \/ u = s
    BY <1>3, <1>6, <2>1 DEF Mine
  <2>2. CASE t # s /\ u # s
    BY <1>1, <1>6, <2>2 DEF PlaceInv
  <2>3. QED
    BY <2>1, <2>2
<1>7. Logged \subseteq Logged'
  BY HeldRecords DEF ClientActs, Logged, TypeOK
<1>8. Mine(s) \subseteq Logged
  BY DEF PlaceInv, Mine, Held
<1>9. Mine(s)' \subseteq Logged'
  BY <1>7, <1>8
<1>10. Held' \subseteq Logged'
  BY <1>1, <1>2, <1>7, <1>9 DEF Held, Mine
<1>11. QED
  BY <1>4, <1>5, <1>6, <1>10 DEF PlaceInv

\* No record becomes unsettled again.
LEMMA CopiesKept ==
    ASSUME TypeOK, TypeOK', NetInv, CopiesInv, NEW s \in Sender, ClientActs(s),
           Open(s)' \subseteq Open(s) \cup (Logged' \ Logged)
    PROVE  CopiesInv'
<1>1. \A t \in Sender \ {s} : sends'[t] = sends[t] /\ InFlight(t)' = InFlight(t)
  BY DEF ClientActs, InFlight
<1>2. Logged \subseteq Logged' /\ Logged' \subseteq Record
  <2>1. logged \in Nat /\ logged' \in 0..MaxRecord /\ MaxRecord \in Nat /\ logged <= logged'
    BY HeldRecords, ClientAssumption DEF ClientActs, TypeOK
  <2>2. QED
    BY <2>1 DEF Logged, Record
<1>3. Open(s) \subseteq Unsettled
  BY DEF Open, Unsettled
<1>4. ASSUME NEW r \in Unsettled' PROVE r \in Unsettled
  <2>1. CASE r \in (Record \ Logged)'
    BY <1>2, <2>1 DEF Unsettled, Record
  <2>2. CASE r \in Open(s)'
    BY <1>2, <1>3, <2>2 DEF Unsettled
  <2>3. CASE \E t \in Sender \ {s} : sends'[t].answer # "ok" /\ r \in InFlight(t)'
    BY <1>1, <2>3 DEF Unsettled
  <2>4. QED
    BY <1>4, <2>1, <2>2, <2>3 DEF Unsettled, Open
<1>5. UNCHANGED <<late, stored, failed>>
  BY DEF ClientActs
<1>6. ASSUME NEW r \in Record
      PROVE  /\ Cardinality(LateWith(r)) \in Nat /\ LateWith(r)' = LateWith(r)
             /\ stored[r] \in Nat /\ failed[r] \in Nat
  <2>1. LateWith(r) \in SUBSET late
    BY DEF LateWith
  <2>2. QED
    BY <1>5, <2>1, FS_Subset, FS_CardinalityType DEF NetInv, LateWith, TypeOK
<1>7. QED
  BY <1>4, <1>5, <1>6 DEF CopiesInv

\* What is lost besides D was lost before, and D is counted.
LEMMA LossCounted ==
    ASSUME TypeOK, TypeOK', LossInv,
           phase' = "open" => phase = "open", Untroubled' => Untroubled,
           NEW D, IsFiniteSet(D), dropped + Cardinality(D) <= dropped',
           Lost' \ Forgiven' \subseteq (Lost \ Forgiven) \cup D
    PROVE  LossInv'
<1> DEFINE before == Lost \ Forgiven
           after  == Lost' \ Forgiven'
<1>1. dropped \in Nat /\ dropped' \in Nat
  BY DEF TypeOK
<1>2. logged \in Nat /\ IsFiniteSet(Logged)
  BY HeldRecords, FS_Interval
<1>3. before \in SUBSET Logged
  BY DEF Lost
<1>4. IsFiniteSet(before)
  BY <1>2, <1>3, FS_Subset
<1>5. after \subseteq before \cup D
  OBVIOUS
<1> HIDE DEF before, after
<1>6. IsFiniteSet(before \cup D) /\ IsFiniteSet(before \cap D)
      /\ Cardinality(before \cup D)
           = Cardinality(before) + Cardinality(D) - Cardinality(before \cap D)
  BY <1>4, FS_Union, FS_Intersection
<1>7. IsFiniteSet(after) /\ Cardinality(after) <= Cardinality(before \cup D)
  <2>1. after \in SUBSET (before \cup D)
    BY <1>5
  <2>2. QED
    BY <1>6, <2>1, FS_Subset
<1>8. /\ Cardinality(after) \in Nat /\ Cardinality(before) \in Nat /\ Cardinality(D) \in Nat
      /\ Cardinality(before \cup D) \in Nat /\ Cardinality(before \cap D) \in Nat
  BY <1>4, <1>6, <1>7, FS_CardinalityType
<1>9. phase = "open" \/ Untroubled => Cardinality(before) <= dropped
  BY DEF LossInv, before
<1>10. phase' = "open" \/ Untroubled' => Cardinality(after) <= dropped'
  BY <1>1, <1>6, <1>7, <1>8, <1>9
<1>11. QED
  BY <1>10 DEF LossInv, after

\* A client forgives no less when nothing it was told is taken back.
LEMMA ForgivenKept ==
    ASSUME TypeOK, TypeOK', UNCHANGED sdk,
           \A r \in Record : failed[r] <= failed'[r] /\ rejected[r] <= rejected'[r]
    PROVE  Forgiven \subseteq Forgiven'
<1>1. \A r \in Record : failed[r] \in Nat /\ failed'[r] \in Nat
                        /\ rejected[r] \in Nat /\ rejected'[r] \in Nat
  BY DEF TypeOK
<1>2. CASE sdk = "rust"
  BY <1>1, <1>2 DEF Forgiven
<1>3. CASE sdk = "python"
  BY <1>1, <1>3 DEF Forgiven
<1>4. CASE sdk # "rust" /\ sdk # "python"
  BY <1>4 DEF Forgiven
<1>5. QED
  BY <1>2, <1>3, <1>4

\* The step of a sender keeps, counts, stored or may forgive what it moves.
LEMMA LossKept ==
    ASSUME TypeOK, TypeOK', LossInv, NEW s \in Sender, ClientActs(s),
           NEW D, IsFiniteSet(D), dropped + Cardinality(D) <= dropped',
           \A r \in Record : r \in Mine(s) \cup (Logged' \ Logged) =>
               r \in Mine(s)' \cup D \cup Forgiven \/ stored[r] > 0
    PROVE  LossInv'
<1>1. UNCHANGED <<sdk, stored, failed, rejected>>
  BY DEF ClientActs
<1>2. Forgiven' = Forgiven
  BY <1>1 DEF Forgiven
<1>3. faults \in Nat /\ faults' \in Nat /\ faults <= faults'
  BY ClientAssumption DEF TypeOK, ClientActs
<1>4. Untroubled' => Untroubled
  BY <1>1, <1>3 DEF Untroubled
<1>5. \A t \in Sender \ {s} : InFlight(t)' = InFlight(t)
  BY DEF ClientActs, InFlight
<1>6. ASSUME NEW r \in Lost' \ Forgiven', r \notin D
      PROVE  r \in Lost \ Forgiven
  <2>1. r \in Logged' /\ stored[r] = 0 /\ r \notin Held' /\ r \notin Forgiven
    BY <1>1, <1>2, <1>6 DEF Lost
  <2>2. Logged' \subseteq Record
    <3>1. logged' \in 0..MaxRecord
      BY DEF TypeOK
    <3>2. QED
      BY <3>1, ClientAssumption DEF Logged, Record
  <2>3. r \notin Mine(s)'
    BY <2>1 DEF Held, Mine
  <2>4. r \notin Mine(s) /\ r \notin Logged' \ Logged
    BY <1>6, <2>1, <2>2, <2>3
  <2>5. r \notin Held
    BY <1>5, <2>1, <2>4 DEF Held, Mine
  <2>6. QED
    BY <2>1, <2>4, <2>5 DEF Lost
<1>7. phase' = "open" => phase = "open"
  BY DEF ClientActs
<1>8. QED
  BY <1>4, <1>6, <1>7, LossCounted

\* The records that failed and are in nobody's hands are finitely many.
LEMMA ReturnedFacts ==
    ASSUME TypeOK
    PROVE  /\ Returned \in SUBSET Record /\ IsFiniteSet(Returned)
           /\ Cardinality(Returned) \in Nat
<1>1. MaxRecord \in Nat
  BY ClientAssumption
<1>2. IsFiniteSet(Record)
  BY <1>1, FS_Interval DEF Record
<1>3. Returned \in SUBSET Record
  BY DEF Returned
<1>4. IsFiniteSet(Returned)
  BY <1>2, <1>3, FS_Subset
<1>5. QED
  BY <1>3, <1>4, FS_CardinalityType

\* They are no fewer when a sender takes up no record.
LEMMA ReturnedKept ==
    ASSUME TypeOK, TypeOK', NEW s \in Sender, ClientActs(s), InFlight(s)' \subseteq InFlight(s)
    PROVE  Cardinality(Returned) <= Cardinality(Returned')
<1>1. \A t \in Sender \ {s} : InFlight(t)' = InFlight(t)
  BY DEF ClientActs, InFlight
<1>2. Returned \in SUBSET Returned'
  BY <1>1 DEF Returned, ClientActs
<1>3. IsFiniteSet(Returned')
  <2>1. IsFiniteSet(Record)
    BY ClientAssumption, FS_Interval DEF Record
  <2>2. Returned' \in SUBSET Record
    BY DEF Returned
  <2>3. QED
    BY <2>1, <2>2, FS_Subset
<1>4. QED
  BY <1>2, <1>3, FS_Subset

\* A step that moves no record keeps all that is said of them.
LEMMA QuietStep ==
    ASSUME TypeOK, TypeOK', ShapeInv, RecordsInv, NEW s \in Sender, ClientActs(s),
           UNCHANGED <<logged, logChan, queue, dropped>>,
           sends'[s] = sends[s] \/ (sends[s].phase # "waiting" /\ sends'[s] \in {Idle, Due})
    PROVE  RecordsInv'
<1>1. sends'[s].batch = sends[s].batch /\ InFlight(s)' = InFlight(s)
  BY InHand, SendValues DEF InFlight
<1>2. \A t \in Sender : sends'[t].batch = sends[t].batch /\ InFlight(t)' = InFlight(t)
  BY <1>1 DEF ClientActs, InFlight
<1>3. UNCHANGED <<Logged, Held>> /\ Mine(s)' = Mine(s)
  BY <1>2 DEF Logged, Held, Mine
<1>4. UNCHANGED <<sdk, late, stored, failed, rejected>> /\ faults <= faults'
  BY DEF ClientActs
<1>5. faults \in Nat /\ faults' \in Nat
  BY ClientAssumption DEF TypeOK
<1>6. NetInv'
  BY NetKept DEF RecordsInv
<1>7. AnswerInv'
  <2>1. sends'[s] = sends[s] \/ (sends'[s].answer = "none" /\ sends'[s].attempt # 2)
    BY SendValues
  <2>2. QED
    BY <2>1, AnswerKept DEF RecordsInv
<1>8. PlaceInv'
  BY <1>2, <1>3 DEF RecordsInv, PlaceInv
<1>9. CopiesInv'
  <2>1. Open(s)' \subseteq Open(s)
    <3>1. CASE sends'[s] = sends[s]
      BY <1>1, <3>1 DEF Open
    <3>2. CASE sends[s].phase # "waiting"
      BY <1>1, <3>2, InHand DEF Open
    <3>3. QED
      BY <3>1, <3>2
  <2>2. QED
    BY <2>1, CopiesKept DEF RecordsInv
<1>10. LossInv'
  <2>1. IsFiniteSet({}) /\ Cardinality({}) = 0 /\ dropped + 0 = dropped'
    BY FS_EmptySet DEF TypeOK
  <2>2. \A r \in Record : r \in Mine(s) \cup (Logged' \ Logged) =>
            r \in Mine(s)' \cup {} \cup Forgiven \/ stored[r] > 0
    BY <1>3
  <2>3. dropped + Cardinality({}) <= dropped'
    BY <2>1 DEF TypeOK
  <2>4. QED
    BY <2>1, <2>2, <2>3, LossKept DEF RecordsInv
<1>11. BoundInv'
  <2>1. Returned' = Returned
    BY <1>2, <1>4 DEF Returned
  <2>2. QED
    BY <1>4, <2>1 DEF RecordsInv, BoundInv
<1>12. OrderInv'
  BY <1>2, <1>4 DEF RecordsInv, OrderInv, Sender
<1>13. NewerInv'
  <2>1. Untroubled' => Untroubled
    BY <1>4, <1>5 DEF Untroubled
  <2>2. QED
    BY <1>4, <2>1 DEF RecordsInv, NewerInv
<1>14. QED
  BY <1>6, <1>7, <1>8, <1>9, <1>10, <1>11, <1>12, <1>13 DEF RecordsInv

\* A flush leaves the queue empty and the records in the hands of its sender.
LEMMA FlushFacts ==
    ASSUME TypeOK, ShapeInv, NEW s \in Sender, Flush(s), sends[s].phase # "waiting"
    PROVE  /\ queue' = <<>> /\ sends' \in [Sender -> Send]
           /\ sends'[s].batch = queue /\ InFlight(s)' = ToSet(queue) /\ InFlight(s) = {}
           /\ sends'[s].answer = "none" /\ sends'[s].attempt # 2
           /\ sends'[s] \in Send
           /\ \/ queue = <<>> /\ sends'[s] = Idle
              \/ queue # <<>> /\ sends'[s] = Waiting(queue, 1)
           /\ \A t \in Sender \ {s} : sends'[t] = sends[t]
<1>1. queue \in Seq(Record)
  BY DEF TypeOK
<1> DEFINE send == IF queue = <<>> THEN Idle ELSE Waiting(queue, 1)
<1>2. send \in Send
  BY <1>1, SendValues
<1>3. sends' = [sends EXCEPT ![s] = send] /\ queue' = <<>>
  BY DEF Flush
<1>4. /\ send.batch = queue /\ send.answer = "none" /\ send.attempt # 2
      /\ \/ queue = <<>> /\ send = Idle
         \/ queue # <<>> /\ send = Waiting(queue, 1)
  BY <1>1, SendValues
<1> HIDE DEF send
<1>5. /\ sends' \in [Sender -> Send] /\ sends'[s] = send
      /\ \A t \in Sender \ {s} : sends'[t] = sends[t]
  BY <1>2, <1>3, OneSends
<1>6. InFlight(s) = {}
  BY InHand
<1>7. QED
  BY <1>2, <1>3, <1>4, <1>5, <1>6 DEF InFlight

\* A flush of a sender without a batch keeps all that is said of the records.
LEMMA FlushStep ==
    ASSUME TypeOK, TypeOK', ShapeInv, RecordsInv, NEW s \in Sender, ClientActs(s),
           UNCHANGED <<logged, logChan, dropped>>,
           Flush(s), sends[s].phase # "waiting", sdk \in {"go", "node"} => s = "flusher"
    PROVE  RecordsInv'
<1>1. /\ queue' = <<>> /\ sends'[s].batch = queue /\ InFlight(s)' = ToSet(queue)
      /\ InFlight(s) = {} /\ sends'[s].answer = "none" /\ sends'[s].attempt # 2
  BY FlushFacts
<1>2. ToSet(queue') = {} /\ IsInjective(queue') /\ Increasing(queue') /\ Len(queue') = 0
  BY <1>1, EmptySequence
<1>3. Mine(s)' = Mine(s) /\ Logged' = Logged
  BY <1>1, <1>2 DEF Mine, Logged
<1>4. UNCHANGED <<sdk, late, stored, failed, rejected>> /\ faults <= faults'
  BY DEF ClientActs
<1>5. NetInv'
  BY NetKept DEF RecordsInv
<1>6. AnswerInv'
  BY <1>1, AnswerKept DEF RecordsInv
<1>7. PlaceInv'
  <2>1. /\ IsInjective(logChan') /\ IsInjective(sends'[s].batch)
        /\ ToSet(logChan') \cap ToSet(queue') = {}
        /\ InFlight(s)' \cap (ToSet(logChan') \cup ToSet(queue')) = {}
    BY <1>1, <1>2 DEF RecordsInv, PlaceInv
  <2>2. QED
    BY <1>2, <1>3, <2>1, PlaceKept DEF RecordsInv
<1>8. CopiesInv'
  <2>1. Open(s)' \subseteq Open(s)
    BY <1>1, <1>2 DEF Open
  <2>2. QED
    BY <2>1, CopiesKept DEF RecordsInv
<1>9. LossInv'
  <2>1. IsFiniteSet({}) /\ dropped + Cardinality({}) <= dropped'
    <3>1. IsFiniteSet({}) /\ Cardinality({}) = 0
      BY FS_EmptySet
    <3>2. QED
      BY <3>1 DEF TypeOK
  <2>2. \A r \in Record : r \in Mine(s) \cup (Logged' \ Logged) =>
            r \in Mine(s)' \cup {} \cup Forgiven \/ stored[r] > 0
    BY <1>3
  <2>3. QED
    BY <2>1, <2>2, LossKept DEF RecordsInv
<1>10. BoundInv'
  <2>1. Cardinality(Returned') \in Nat
    <3>1. Returned' \in SUBSET Record
      BY DEF Returned
    <3>2. IsFiniteSet(Record)
      BY ClientAssumption, FS_Interval DEF Record
    <3>3. QED
      BY <3>1, <3>2, FS_Subset, FS_CardinalityType
  <2>2. QED
    BY <1>2, <1>4, <2>1, ClientAssumption DEF RecordsInv, BoundInv
<1>11. OrderInv'
  <2>1. CASE sdk \in {"go", "node"}
    <3>1. s = "flusher"
      BY <2>1
    <3>2. Before(InFlight("flusher")', ToSet(logChan'))
      BY <1>1, <2>1, <3>1 DEF RecordsInv, OrderInv
    <3>3. QED
      BY <1>1, <1>2, <1>4, <2>1, <3>1, <3>2 DEF RecordsInv, OrderInv, Before
  <2>2. CASE sdk \notin {"go", "node"}
    BY <1>2, <1>4, <2>2 DEF OrderInv
  <2>3. QED
    BY <2>1, <2>2
<1>12. NewerInv'
  BY <1>2 DEF NewerInv
<1>13. QED
  BY <1>5, <1>6, <1>7, <1>8, <1>9, <1>10, <1>11, <1>12 DEF RecordsInv

-----------------------------------------------------------------------------
(***************************************************************************)
(* The steps of the network and the server                                 *)
(***************************************************************************)
\* One more for each record of the batch.
LEMMA BumpFacts ==
    ASSUME NEW count \in [Record -> Nat], NEW batch
    PROVE  /\ Bump(count, batch) \in [Record -> Nat]
           /\ \A r \in Record : /\ count[r] <= Bump(count, batch)[r]
                                /\ r \in ToSet(batch) => Bump(count, batch)[r] = count[r] + 1
                                /\ r \notin ToSet(batch) => Bump(count, batch)[r] = count[r]
BY DEF Bump

\* An answer changes nothing else.
LEMMA AnswerFacts ==
    ASSUME TypeOK, NEW s \in Sender, NEW answer \in {"ok", "failed", "rejected"},
           Awaits(s), Answer(s, answer)
    PROVE  /\ sends' \in [Sender -> Send]
           /\ sends[s].phase = "waiting" /\ sends'[s].phase = "waiting"
           /\ sends'[s].batch = sends[s].batch /\ sends'[s].attempt = sends[s].attempt
           /\ sends'[s].answer = answer /\ sends[s].answer = "none"
           /\ sends[s].batch \in Seq(Record) /\ InFlight(s) \subseteq Record
           /\ \A t \in Sender \ {s} : sends'[t] = sends[t]
           /\ \A t \in Sender : InFlight(t)' = InFlight(t)
<1> DEFINE r == sends[s]
           x == [r EXCEPT !.answer = answer]
<1>1. r \in Send
  BY DEF TypeOK
<1>2. sends' = [sends EXCEPT ![s] = x]
  BY DEF Answer
<1>3. r.phase = "waiting" /\ r.answer = "none"
  BY DEF Awaits
<1> HIDE DEF r
<1>4. /\ x \in Send /\ x.phase = r.phase /\ x.batch = r.batch
      /\ x.attempt = r.attempt /\ x.answer = answer
  BY <1>1 DEF Send
<1> HIDE DEF x
<1>5. /\ sends' \in [Sender -> Send] /\ sends'[s] = x
      /\ \A t \in Sender \ {s} : sends'[t] = sends[t]
  BY <1>2, <1>4, OneSends
<1>6. \A t \in Sender : sends'[t].batch = sends[t].batch
  BY <1>4, <1>5 DEF r
<1>7. r.batch \in Seq(Record)
  BY <1>1 DEF Send
<1>8. ToSet(r.batch) \in SUBSET Record
  BY <1>7, SetOfSequence
<1>9. QED
  BY <1>3, <1>4, <1>5, <1>6, <1>7, <1>8 DEF r, InFlight

\* Neither the network nor the server moves a record of the client.
LEMMA WireStep ==
    ASSUME TypeOK, TypeOK', ShapeInv, RecordsInv, UNCHANGED serverOnly, faults <= faults',
           \A t \in Sender :
               /\ sends'[t].batch = sends[t].batch /\ InFlight(t)' = InFlight(t)
               /\ sends'[t] = sends[t] \/
                      /\ sends[t].phase = "waiting" /\ sends'[t].phase = "waiting"
                      /\ sends'[t].attempt = sends[t].attempt,
           \A r \in Record : /\ stored[r] <= stored'[r] /\ rejected[r] <= rejected'[r]
                             /\ failed[r] <= failed'[r]
                             /\ failed[r] # failed'[r] => \E t \in Sender : r \in InFlight(t)
    PROVE  ShapeInv' /\ PlaceInv' /\ LossInv' /\ BoundInv' /\ OrderInv'
<1>1. UNCHANGED <<Logged, Held>>
  BY DEF Logged, Held
<1>2. faults \in Nat /\ faults' \in Nat
  BY ClientAssumption DEF TypeOK
<1>3. \A r \in Record : /\ stored[r] \in Nat /\ stored'[r] \in Nat /\ failed[r] \in Nat
                        /\ failed'[r] \in Nat /\ rejected[r] \in Nat /\ rejected'[r] \in Nat
  BY DEF TypeOK
<1>4. ShapeInv'
  <2>1. \A t \in Sender : SendShape(t)'
    BY DEF ShapeInv, SendShape
  <2>2. \A t \in Sender : sends[t] = Idle => sends'[t] = Idle
    BY SendValues
  <2>3. \A t \in Sender : sends[t].phase # "due" => sends'[t].phase # "due"
    OBVIOUS
  <2>4. GoShape'
    BY <2>2, <2>3, SendValues DEF ShapeInv, GoShape, Sender
  <2>5. NodeShape'
    BY <2>2, <2>3 DEF ShapeInv, NodeShape, Sender
  <2>6. RustShape'
    BY <2>2, <2>3 DEF ShapeInv, RustShape, Sender
  <2>7. PyShape'
    <3>1. faults' = 0 => faults = 0
      BY <1>2
    <3>2. sends'["main"].phase = sends["main"].phase
      BY DEF Sender
    <3>3. QED
      BY <2>2, <3>1, <3>2 DEF ShapeInv, PyShape, Sender
  <2>8. QED
    BY <2>1, <2>4, <2>5, <2>6, <2>7 DEF ShapeInv
<1>5. PlaceInv'
  BY <1>1 DEF RecordsInv, PlaceInv
<1>6. LossInv'
  <2>1. Forgiven \subseteq Forgiven'
    BY ForgivenKept
  <2>2. Untroubled' => Untroubled
    BY <1>2, <1>3 DEF Untroubled
  <2>3. Logged \subseteq Record
    BY HeldRecords
  <2>4. Lost' \ Forgiven' \subseteq (Lost \ Forgiven) \cup {}
    BY <1>1, <1>3, <2>1, <2>3 DEF Lost
  <2>5. IsFiniteSet({}) /\ dropped + Cardinality({}) <= dropped'
    <3>1. IsFiniteSet({}) /\ Cardinality({}) = 0
      BY FS_EmptySet
    <3>2. QED
      BY <3>1 DEF TypeOK
  <2>6. QED
    BY <2>2, <2>4, <2>5, LossCounted DEF RecordsInv
<1>7. BoundInv'
  <2>1. Returned' = Returned
    BY <1>3 DEF Returned
  <2>2. QED
    BY <2>1 DEF RecordsInv, BoundInv
<1>8. OrderInv'
  BY DEF RecordsInv, OrderInv, Sender
<1>9. QED
  BY <1>4, <1>5, <1>6, <1>7, <1>8

\* The requests on their way with a record are finitely many.
LEMMA LateFacts ==
    ASSUME TypeOK, NetInv, NEW r \in Record
    PROVE  /\ IsFiniteSet(LateWith(r)) /\ Cardinality(LateWith(r)) \in Nat
           /\ stored[r] \in Nat /\ failed[r] \in Nat /\ rejected[r] \in Nat
<1>1. LateWith(r) \in SUBSET late
  BY DEF LateWith
<1>2. QED
  BY <1>1, FS_Subset, FS_CardinalityType DEF NetInv, TypeOK

\* A record in flight is in no other place.
LEMMA InFlightAlone ==
    ASSUME PlaceInv, NEW s \in Sender, NEW r \in InFlight(s)
    PROVE  /\ r \in Logged /\ r \notin ToSet(logChan) /\ r \notin ToSet(queue)
           /\ \A t \in Sender \ {s} : r \notin InFlight(t)
<1>1. r \in Held
  BY DEF Held
<1>2. QED
  BY <1>1 DEF PlaceInv

\* Accept: a batch is stored once, and settled with it.
LEMMA AcceptStep ==
    ASSUME IInv, NEW s \in Sender, Accept(s)
    PROVE  IInv'
<1>1. TypeOK /\ ShapeInv /\ RecordsInv /\ PlaceInv /\ NetInv /\ Awaits(s)
  BY DEF IInv, RecordsInv, Accept
<1>2. /\ sends' \in [Sender -> Send]
      /\ sends[s].phase = "waiting" /\ sends'[s].phase = "waiting"
      /\ sends'[s].batch = sends[s].batch /\ sends'[s].attempt = sends[s].attempt
      /\ sends'[s].answer = "ok" /\ sends[s].answer = "none"
      /\ sends[s].batch \in Seq(Record) /\ InFlight(s) \subseteq Record
      /\ \A t \in Sender \ {s} : sends'[t] = sends[t]
      /\ \A t \in Sender : InFlight(t)' = InFlight(t)
  BY <1>1, AnswerFacts DEF Accept
<1>3. /\ UNCHANGED <<serverOnly, late, faults, failed, rejected>>
      /\ stored' = Bump(stored, sends[s].batch)
  BY DEF Accept
<1>4. stored \in [Record -> Nat]
  BY <1>1 DEF TypeOK
<1>5. /\ stored' \in [Record -> Nat]
      /\ \A r \in Record : /\ stored[r] <= stored'[r]
                           /\ r \in InFlight(s) => stored'[r] = stored[r] + 1
                           /\ r \notin InFlight(s) => stored'[r] = stored[r]
  BY <1>3, <1>4, BumpFacts DEF InFlight
<1>6. TypeOK'
  BY <1>1, <1>2, <1>3, <1>5 DEF TypeOK
<1>7. ShapeInv' /\ PlaceInv' /\ LossInv' /\ BoundInv' /\ OrderInv'
  <2>1. faults <= faults' /\ \A r \in Record : rejected[r] <= rejected'[r] /\ failed[r] <= failed'[r]
    BY SMTT(30), <1>1, <1>3, ClientAssumption DEF TypeOK
  <2>2. QED
    BY <1>1, <1>2, <1>3, <1>5, <1>6, <2>1, WireStep
<1>8. \A r \in Record : stored[r] \in Nat /\ stored'[r] \in Nat
  BY <1>4, <1>5
<1>9. NetInv'
  <2>1. Logged' = Logged
    BY <1>3 DEF Logged
  <2>2. \A r \in InFlight(s) : r \in Logged
    BY <1>1, InFlightAlone
  <2>3. QED
    BY <1>1, <1>3, <1>5, <2>1, <2>2 DEF NetInv
<1>10. AnswerInv'
  <2>1. AnswerInv
    BY <1>1 DEF RecordsInv
  <2>2. \A t \in Sender \ {s} : \A r \in InFlight(t) : stored'[r] = stored[r]
    <3>1. \A t \in Sender \ {s} : \A r \in InFlight(t) : r \in Record /\ r \notin InFlight(s)
      BY <1>1, InFlightAlone, HeldRecords
    <3>2. QED
      BY <1>5, <3>1
  <2>3. ASSUME NEW r \in InFlight(s) PROVE r \in Record /\ stored'[r] > 0
    <3>1. r \in Record
      BY <1>2
    <3>2. stored'[r] = stored[r] + 1 /\ stored[r] \in Nat
      BY <1>5, <1>8, <3>1
    <3>3. QED
      BY <3>1, <3>2
  <2>4. QED
    BY <1>2, <1>3, <2>1, <2>2, <2>3 DEF AnswerInv
<1>11. CopiesInv'
  <2> SUFFICES ASSUME NEW r \in Record
               PROVE  stored'[r] + Cardinality(LateWith(r)')
                        <= failed'[r] + IF r \in Unsettled' THEN 0 ELSE 1
    BY DEF CopiesInv
  <2>1. /\ LateWith(r)' = LateWith(r) /\ failed'[r] = failed[r]
        /\ Cardinality(LateWith(r)) \in Nat /\ failed[r] \in Nat
    BY <1>1, <1>3, LateFacts DEF LateWith
  <2>2. stored[r] + Cardinality(LateWith(r)) <= failed[r] + IF r \in Unsettled THEN 0 ELSE 1
    BY <1>1 DEF RecordsInv, CopiesInv
  <2>3. CASE r \in InFlight(s)
    <3>1. r \in Unsettled
      BY <1>2, <2>3 DEF Unsettled
    <3>2. r \notin Unsettled'
      <4>1. /\ r \in Logged /\ r \notin ToSet(logChan) /\ r \notin ToSet(queue)
            /\ \A t \in Sender \ {s} : r \notin InFlight(t)
        BY <1>1, <2>3, InFlightAlone
      <4>2. r \in Logged' /\ r \notin ToSet(logChan') /\ r \notin ToSet(queue')
        BY <1>3, <4>1 DEF Logged
      <4>3. QED
        BY <1>2, <4>1, <4>2 DEF Unsettled
    <3>3. QED
      BY <1>5, <1>8, <2>1, <2>2, <2>3, <3>1, <3>2
  <2>4. CASE r \notin InFlight(s)
    <3>1. r \in Unsettled' => r \in Unsettled
      <4>1. Logged' = Logged
        BY <1>3 DEF Logged
      <4>2. QED
        BY <1>2, <1>3, <2>4, <4>1 DEF Unsettled
    <3>2. QED
      BY <1>5, <1>8, <2>1, <2>2, <2>4, <3>1
  <2>5. QED
    BY <2>3, <2>4
<1>12. NewerInv'
  <2> SUFFICES ASSUME sdk = "node", Untroubled', NEW r \in ToSet(queue), NEW q \in Record,
                      stored'[q] > 0
               PROVE  q < r
    BY <1>3 DEF NewerInv
  <2>1. Untroubled
    BY <1>3 DEF Untroubled
  <2>2. CASE q \in InFlight(s)
    <3>1. s = "flusher"
      BY <1>1, <1>2, SendValues DEF ShapeInv, NodeShape, Sender
    <3>2. QED
      BY <1>1, <2>2, <3>1 DEF RecordsInv, OrderInv, Before
  <2>3. CASE q \notin InFlight(s)
    BY <1>1, <1>5, <2>1, <2>3 DEF RecordsInv, NewerInv
  <2>4. QED
    BY <2>2, <2>3
<1>13. QED
  BY <1>6, <1>7, <1>9, <1>10, <1>11, <1>12 DEF IInv, RecordsInv

\* An answer that is not ok settles nothing.
LEMMA UnsettledKept ==
    ASSUME UNCHANGED <<logged, logChan, queue>>,
           \A t \in Sender : InFlight(t)' = InFlight(t),
           \A t \in Sender : sends'[t].answer # "ok" => sends[t].answer # "ok"
    PROVE  Unsettled' \subseteq Unsettled
<1>1. Logged' = Logged
  BY DEF Logged
<1>2. QED
  BY <1>1 DEF Unsettled

\* Reject: the batch is marked as refused, and nothing else.
LEMMA RejectStep ==
    ASSUME IInv, NEW s \in Sender, Reject(s)
    PROVE  IInv'
<1>1. TypeOK /\ ShapeInv /\ RecordsInv /\ PlaceInv /\ NetInv /\ Awaits(s)
  BY DEF IInv, RecordsInv, Reject
<1>2. /\ sends' \in [Sender -> Send]
      /\ sends[s].phase = "waiting" /\ sends'[s].phase = "waiting"
      /\ sends'[s].batch = sends[s].batch /\ sends'[s].attempt = sends[s].attempt
      /\ sends'[s].answer = "rejected" /\ sends[s].answer = "none"
      /\ sends[s].batch \in Seq(Record) /\ InFlight(s) \subseteq Record
      /\ \A t \in Sender \ {s} : sends'[t] = sends[t]
      /\ \A t \in Sender : InFlight(t)' = InFlight(t)
  BY <1>1, AnswerFacts DEF Reject
<1>3. /\ UNCHANGED <<serverOnly, late, stored, faults, failed>>
      /\ rejected' = Bump(rejected, sends[s].batch)
  BY DEF Reject
<1>4. /\ rejected \in [Record -> Nat] /\ failed \in [Record -> Nat]
      /\ stored \in [Record -> Nat]
  BY <1>1 DEF TypeOK
<1>5. /\ rejected' \in [Record -> Nat]
      /\ \A r \in Record : /\ rejected[r] <= rejected'[r]
                           /\ r \in InFlight(s) => rejected'[r] = rejected[r] + 1
                           /\ r \notin InFlight(s) => rejected'[r] = rejected[r]
  BY <1>3, <1>4, BumpFacts DEF InFlight
<1>6. TypeOK'
  BY <1>1, <1>2, <1>3, <1>5 DEF TypeOK
<1>7. ShapeInv' /\ PlaceInv' /\ LossInv' /\ BoundInv' /\ OrderInv'
  <2>1. faults <= faults' /\ \A r \in Record : stored[r] <= stored'[r] /\ failed[r] <= failed'[r]
    BY SMTT(30), <1>1, <1>3, <1>4, ClientAssumption DEF TypeOK
  <2>2. QED
    BY <1>1, <1>2, <1>3, <1>5, <1>6, <2>1, WireStep
<1>8. \A r \in Record : rejected[r] \in Nat /\ rejected'[r] \in Nat /\ failed[r] \in Nat
  BY <1>4, <1>5
<1>9. NetInv'
  BY <1>1, <1>3 DEF NetInv, Logged
<1>10. AnswerInv'
  <2>1. AnswerInv
    BY <1>1 DEF RecordsInv
  <2>2. ASSUME NEW t \in Sender \ {s}, NEW r \in InFlight(t) PROVE rejected'[r] = rejected[r]
    <3>1. r \in Record /\ r \notin InFlight(s)
      BY <1>1, <2>2, InFlightAlone, HeldRecords
    <3>2. QED
      BY <1>5, <3>1
  <2>3. ASSUME NEW r \in InFlight(s)
        PROVE  rejected'[r] > 0 /\ (sends'[s].attempt = 2 => failed'[r] + rejected'[r] >= 2)
    <3>1. r \in Record
      BY <1>2
    <3>2. sends[s].attempt = 2 => failed[r] + rejected[r] >= 1
      BY <1>2, <2>1 DEF AnswerInv
    <3>3. QED
      BY <1>2, <1>3, <1>5, <1>8, <3>1, <3>2
  <2>4. QED
    BY <1>2, <1>3, <2>1, <2>2, <2>3 DEF AnswerInv
<1>11. CopiesInv'
  <2> SUFFICES ASSUME NEW r \in Record
               PROVE  stored'[r] + Cardinality(LateWith(r)')
                        <= failed'[r] + IF r \in Unsettled' THEN 0 ELSE 1
    BY DEF CopiesInv
  <2>1. /\ LateWith(r)' = LateWith(r) /\ failed'[r] = failed[r] /\ stored'[r] = stored[r]
        /\ Cardinality(LateWith(r)) \in Nat /\ failed[r] \in Nat /\ stored[r] \in Nat
    BY <1>1, <1>3, LateFacts DEF LateWith
  <2>2. stored[r] + Cardinality(LateWith(r)) <= failed[r] + IF r \in Unsettled THEN 0 ELSE 1
    BY <1>1 DEF RecordsInv, CopiesInv
  <2>3. Unsettled' \subseteq Unsettled
    BY <1>2, <1>3, UnsettledKept
  <2>4. QED
    BY <2>1, <2>2, <2>3
<1>12. NewerInv'
  <2>1. Untroubled' => Untroubled
    BY <1>3, <1>5, <1>8 DEF Untroubled
  <2>2. QED
    BY <1>1, <1>3, <2>1 DEF RecordsInv, NewerInv
<1>13. QED
  BY <1>6, <1>7, <1>9, <1>10, <1>11, <1>12 DEF IInv, RecordsInv

\* Fail: the failure pays for the copy that was stored or is still on its way.
LEMMA FailStep ==
    ASSUME IInv, NEW s \in Sender, Fail(s)
    PROVE  IInv'
<1>1. TypeOK /\ ShapeInv /\ RecordsInv /\ PlaceInv /\ NetInv /\ Awaits(s)
  BY DEF IInv, RecordsInv, Fail
<1>2. /\ sends' \in [Sender -> Send]
      /\ sends[s].phase = "waiting" /\ sends'[s].phase = "waiting"
      /\ sends'[s].batch = sends[s].batch /\ sends'[s].attempt = sends[s].attempt
      /\ sends'[s].answer = "failed" /\ sends[s].answer = "none"
      /\ sends[s].batch \in Seq(Record) /\ InFlight(s) \subseteq Record
      /\ \A t \in Sender \ {s} : sends'[t] = sends[t]
      /\ \A t \in Sender : InFlight(t)' = InFlight(t)
  BY <1>1, AnswerFacts DEF Fail
<1> DEFINE request == [no |-> faults, batch |-> sends[s].batch]
<1>3. /\ UNCHANGED <<serverOnly, rejected>> /\ faults' = faults + 1 /\ faults < MaxFaults
      /\ failed' = Bump(failed, sends[s].batch)
      /\ \/ UNCHANGED <<stored, late>>
         \/ stored' = Bump(stored, sends[s].batch) /\ late' = late
         \/ late' = late \cup {request} /\ stored' = stored
  BY DEF Fail
<1>4. /\ rejected \in [Record -> Nat] /\ failed \in [Record -> Nat]
      /\ stored \in [Record -> Nat] /\ faults \in Nat /\ faults' \in Nat
      /\ faults < faults' /\ faults' > 0 /\ faults' \in 0..MaxFaults
  BY <1>1, <1>3, ClientAssumption DEF TypeOK
<1>5. /\ failed' \in [Record -> Nat]
      /\ \A r \in Record : /\ failed[r] <= failed'[r]
                           /\ r \in InFlight(s) => failed'[r] = failed[r] + 1
                           /\ r \notin InFlight(s) => failed'[r] = failed[r]
  BY <1>3, <1>4, BumpFacts DEF InFlight
<1>6. /\ stored' \in [Record -> Nat]
      /\ \A r \in Record : /\ stored[r] <= stored'[r]
                           /\ r \in InFlight(s) => stored'[r] <= stored[r] + 1
                           /\ r \notin InFlight(s) => stored'[r] = stored[r]
  <2>1. CASE stored' = stored
    BY <1>4, <2>1
  <2>2. CASE stored' = Bump(stored, sends[s].batch)
    BY <1>4, <2>2, BumpFacts DEF InFlight
  <2>3. QED
    BY <1>3, <2>1, <2>2
<1>7. /\ request \in [no : 0..MaxFaults, batch : Seq(Record)]
      /\ request.batch = sends[s].batch
  BY <1>1, <1>2 DEF TypeOK
<1> HIDE DEF request
<1>8. late' \subseteq late \cup {request}
  BY <1>3
<1>9. TypeOK'
  BY <1>1, <1>2, <1>3, <1>4, <1>5, <1>6, <1>7, <1>8 DEF TypeOK
<1>10. ShapeInv' /\ PlaceInv' /\ LossInv' /\ BoundInv' /\ OrderInv'
  <2>1. faults <= faults' /\ \A r \in Record : rejected[r] <= rejected'[r]
    BY <1>3, <1>4
  <2>2. \A r \in Record : failed[r] # failed'[r] => r \in InFlight(s)
    BY <1>5
  <2>3. QED
    BY <1>1, <1>2, <1>3, <1>5, <1>6, <1>9, <2>1, <2>2, WireStep
<1>11. \A r \in Record : /\ stored[r] \in Nat /\ stored'[r] \in Nat /\ rejected[r] \in Nat
                         /\ failed[r] \in Nat /\ failed'[r] \in Nat
  BY <1>4, <1>5, <1>6
<1>12. NetInv'
  <2>1. Logged' = Logged
    BY <1>3 DEF Logged
  <2>2. InFlight(s) \subseteq Logged
    BY <1>1, InFlightAlone
  <2>3. IsFiniteSet(late')
    <3>1. IsFiniteSet(late \cup {request})
      BY <1>1, FS_AddElement DEF NetInv
    <3>2. late' \in SUBSET (late \cup {request})
      BY <1>8
    <3>3. QED
      BY <3>1, <3>2, FS_Subset
  <2>4. \A other \in late' : ToSet(other.batch) \subseteq Logged
    BY <1>1, <1>7, <1>8, <2>2 DEF NetInv, InFlight
  <2>5. ASSUME NEW r \in Record, stored'[r] > 0 PROVE r \in Logged
    BY <1>1, <1>6, <2>2, <2>5 DEF NetInv
  <2>6. QED
    BY <1>4, <2>1, <2>3, <2>4, <2>5 DEF NetInv
<1>13. AnswerInv'
  <2>1. AnswerInv
    BY <1>1 DEF RecordsInv
  <2>2. ASSUME NEW t \in Sender \ {s}, NEW r \in InFlight(t)
        PROVE  failed'[r] = failed[r] /\ stored'[r] = stored[r]
    <3>1. r \in Record /\ r \notin InFlight(s)
      BY <1>1, <2>2, InFlightAlone, HeldRecords
    <3>2. QED
      BY <1>5, <1>6, <3>1
  <2>3. ASSUME NEW r \in InFlight(s)
        PROVE  failed'[r] > 0 /\ (sends'[s].attempt = 2 => failed'[r] + rejected'[r] >= 2)
    <3>1. r \in Record
      BY <1>2
    <3>2. sends[s].attempt = 2 => failed[r] + rejected[r] >= 1
      BY <1>2, <2>1 DEF AnswerInv
    <3>3. QED
      BY <1>2, <1>3, <1>5, <1>11, <3>1, <3>2
  <2>4. QED
    BY SMTT(30), <1>2, <1>3, <1>4, <2>1, <2>2, <2>3 DEF AnswerInv
<1>14. CopiesInv'
  <2> SUFFICES ASSUME NEW r \in Record
               PROVE  stored'[r] + Cardinality(LateWith(r)')
                        <= failed'[r] + IF r \in Unsettled' THEN 0 ELSE 1
    BY DEF CopiesInv
  <2>1. /\ IsFiniteSet(LateWith(r)) /\ Cardinality(LateWith(r)) \in Nat
    BY <1>1, LateFacts
  <2>2. stored[r] + Cardinality(LateWith(r)) <= failed[r] + IF r \in Unsettled THEN 0 ELSE 1
    BY <1>1 DEF RecordsInv, CopiesInv
  <2>3. Unsettled' \subseteq Unsettled
    BY <1>2, <1>3, UnsettledKept
  <2>4. CASE r \notin InFlight(s)
    <3>1. LateWith(r)' = LateWith(r)
      BY <1>3, <1>7, <2>4 DEF LateWith, InFlight
    <3>2. QED
      BY <1>5, <1>6, <1>11, <2>1, <2>2, <2>3, <2>4, <3>1
  <2>5. CASE r \in InFlight(s) /\ late' = late
    <3>1. LateWith(r)' = LateWith(r)
      BY <2>5 DEF LateWith
    <3>2. QED
      BY <1>5, <1>6, <1>11, <2>1, <2>2, <2>3, <2>5, <3>1
  <2>6. CASE r \in InFlight(s) /\ late' = late \cup {request} /\ stored' = stored
    <3>1. LateWith(r)' = LateWith(r) \cup {request}
      BY <1>7, <2>6 DEF LateWith, InFlight
    <3>2. /\ Cardinality(LateWith(r)') \in Nat
          /\ Cardinality(LateWith(r)') <= Cardinality(LateWith(r)) + 1
      <4>1. Cardinality(LateWith(r) \cup {request})
              = IF request \in LateWith(r) THEN Cardinality(LateWith(r))
                ELSE Cardinality(LateWith(r)) + 1
        BY <2>1, FS_AddElement
      <4>2. QED
        BY <2>1, <3>1, <4>1
    <3>3. QED
      BY <1>5, <1>11, <2>1, <2>2, <2>3, <2>6, <3>2
  <2>7. QED
    BY <1>3, <2>4, <2>5, <2>6
<1>15. NewerInv'
  BY <1>4 DEF NewerInv, Untroubled
<1>16. QED
  BY <1>9, <1>10, <1>12, <1>13, <1>14, <1>15 DEF IInv, RecordsInv

\* ArriveLate: the request that arrives was counted as a copy already.
LEMMA ArriveLateStep ==
    ASSUME IInv, ArriveLate
    PROVE  IInv'
<1>1. TypeOK /\ ShapeInv /\ RecordsInv /\ PlaceInv /\ NetInv
  BY DEF IInv, RecordsInv
<1>2. PICK request \in late :
        /\ late' = late \ {request}
        /\ stored' = Bump(stored, request.batch)
        /\ UNCHANGED <<serverOnly, sends, faults, failed, rejected>>
  BY DEF ArriveLate
<1>3. /\ stored \in [Record -> Nat] /\ failed \in [Record -> Nat]
      /\ rejected \in [Record -> Nat] /\ faults \in Nat
  BY SMTT(30), <1>1, ClientAssumption DEF TypeOK
<1>4. /\ stored' \in [Record -> Nat]
      /\ \A r \in Record : /\ stored[r] <= stored'[r]
                           /\ r \in ToSet(request.batch) => stored'[r] = stored[r] + 1
                           /\ r \notin ToSet(request.batch) => stored'[r] = stored[r]
  BY <1>2, <1>3, BumpFacts
<1>5. TypeOK'
  BY <1>1, <1>2, <1>4 DEF TypeOK
<1>6. \A t \in Sender : InFlight(t)' = InFlight(t) /\ sends'[t] = sends[t]
  BY <1>2 DEF InFlight
<1>7. ShapeInv' /\ PlaceInv' /\ LossInv' /\ BoundInv' /\ OrderInv'
  <2>1. /\ faults <= faults'
        /\ \A r \in Record : rejected[r] <= rejected'[r] /\ failed[r] <= failed'[r]
    BY <1>2, <1>3
  <2>2. QED
    BY <1>1, <1>2, <1>4, <1>5, <1>6, <2>1, WireStep
<1>8. faults # 0
  BY <1>1, <1>2 DEF NetInv
<1>9. NetInv'
  <2>1. Logged' = Logged /\ ToSet(request.batch) \subseteq Logged
    BY <1>1, <1>2 DEF Logged, NetInv
  <2>2. IsFiniteSet(late') /\ late' \subseteq late
    BY <1>1, <1>2, FS_RemoveElement DEF NetInv
  <2>3. QED
    BY <1>1, <1>2, <1>4, <1>8, <2>1, <2>2 DEF NetInv
<1>10. AnswerInv'
  <2>1. ASSUME NEW t \in Sender, NEW r \in InFlight(t), stored[r] > 0 PROVE stored'[r] > 0
    <3>1. r \in Record
      BY <1>1, InFlightAlone, HeldRecords
    <3>2. QED
      BY <1>3, <1>4, <2>1, <3>1
  <2>2. QED
    BY <1>1, <1>2, <1>6, <2>1 DEF RecordsInv, AnswerInv
<1>11. CopiesInv'
  <2> SUFFICES ASSUME NEW r \in Record
               PROVE  stored'[r] + Cardinality(LateWith(r)')
                        <= failed'[r] + IF r \in Unsettled' THEN 0 ELSE 1
    BY DEF CopiesInv
  <2>1. /\ IsFiniteSet(LateWith(r)) /\ Cardinality(LateWith(r)) \in Nat
        /\ stored[r] \in Nat /\ stored'[r] \in Nat /\ failed[r] \in Nat /\ failed'[r] = failed[r]
    BY <1>1, <1>2, <1>4, LateFacts
  <2>2. stored[r] + Cardinality(LateWith(r)) <= failed[r] + IF r \in Unsettled THEN 0 ELSE 1
    BY <1>1 DEF RecordsInv, CopiesInv
  <2>3. Unsettled' \subseteq Unsettled
    BY <1>2, <1>6, UnsettledKept
  <2>4. CASE r \notin ToSet(request.batch)
    <3>1. LateWith(r)' = LateWith(r)
      BY <1>2, <2>4 DEF LateWith
    <3>2. QED
      BY <1>4, <2>1, <2>2, <2>3, <2>4, <3>1
  <2>5. CASE r \in ToSet(request.batch)
    <3>1. request \in LateWith(r) /\ LateWith(r)' = LateWith(r) \ {request}
      BY <1>2, <2>5 DEF LateWith
    <3>2. Cardinality(LateWith(r) \ {request}) = Cardinality(LateWith(r)) - 1
      BY <2>1, <3>1, FS_RemoveElement
    <3>3. QED
      BY <1>4, <2>1, <2>2, <2>3, <2>5, <3>1, <3>2
  <2>6. QED
    BY <2>4, <2>5
<1>12. NewerInv'
  BY <1>2, <1>8 DEF NewerInv, Untroubled
<1>13. QED
  BY <1>5, <1>7, <1>9, <1>10, <1>11, <1>12 DEF IInv, RecordsInv

-----------------------------------------------------------------------------
(***************************************************************************)
(* The step of an application that logs through track                      *)
(***************************************************************************)
\* track drops at most the oldest record, and counts it.
LEMMA PushedFacts ==
    ASSUME queue \in Seq(Record), NEW r \in Record
    PROVE  LET pushed == Pushed(r)
           IN  /\ pushed \in Seq(Record) /\ Len(pushed) \in Nat
               /\ Len(pushed) <= Len(queue) + 1
               /\ Len(pushed) <= MaxQueueSize \/ Len(pushed) = Len(queue)
               /\ ToSet(pushed) \subseteq ToSet(queue) \cup {r}
               /\ IsInjective(queue) /\ r \notin ToSet(queue) => IsInjective(pushed)
               /\ Increasing(queue) /\ Before(ToSet(queue), {r}) => Increasing(pushed)
               /\ \E D \in SUBSET Record :
                     /\ IsFiniteSet(D)
                     /\ Cardinality(D) = Len(queue) + 1 - Len(pushed)
                     /\ ToSet(queue) \cup {r} \subseteq ToSet(pushed) \cup D
<1> DEFINE longer == Append(queue, r)
           pushed == Pushed(r)
<1>1. /\ longer \in Seq(Record) /\ Len(longer) = Len(queue) + 1 /\ Len(queue) \in Nat
      /\ ToSet(longer) = ToSet(queue) \cup {r}
      /\ IsInjective(queue) /\ r \notin ToSet(queue) => IsInjective(longer)
      /\ Increasing(queue) /\ Before(ToSet(queue), {r}) => Increasing(longer)
  BY AppendFacts
<1>2. pushed = IF Len(longer) > MaxQueueSize THEN Tail(longer) ELSE longer
  BY DEF Pushed
<1>3. MaxQueueSize \in Nat
  BY ClientAssumption
<1> HIDE DEF longer, pushed
<1>4. CASE Len(longer) > MaxQueueSize
  <2>1. longer # <<>>
    BY <1>1, EmptySequence
  <2>2. /\ Head(longer) \in Record /\ pushed \in Seq(Record) /\ Len(pushed) = Len(longer) - 1
        /\ ToSet(longer) = {Head(longer)} \cup ToSet(pushed)
        /\ IsInjective(longer) => IsInjective(pushed)
        /\ Increasing(longer) => Increasing(pushed)
    BY <1>1, <1>2, <1>4, <2>1, TailFacts
  <2>3. IsFiniteSet({Head(longer)}) /\ Cardinality({Head(longer)}) = 1
    BY FS_Singleton
  <2>4. Cardinality({Head(longer)}) = Len(queue) + 1 - Len(pushed) /\ Len(pushed) = Len(queue)
    BY <1>1, <2>2, <2>3
  <2>5. \E D \in SUBSET Record :
            /\ IsFiniteSet(D)
            /\ Cardinality(D) = Len(queue) + 1 - Len(pushed)
            /\ ToSet(queue) \cup {r} \subseteq ToSet(pushed) \cup D
    <3>1. {Head(longer)} \in SUBSET Record
      BY <2>2
    <3>2. QED
      BY <1>1, <2>2, <2>3, <2>4, <3>1
  <2>6. QED
    BY <1>1, <2>2, <2>4, <2>5 DEF pushed
<1>5. CASE ~(Len(longer) > MaxQueueSize)
  <2>1. pushed = longer
    BY <1>2, <1>5
  <2>2. IsFiniteSet({}) /\ Cardinality({}) = 0
    BY FS_EmptySet
  <2>3. Cardinality({}) = Len(queue) + 1 - Len(pushed) /\ Len(pushed) <= MaxQueueSize
    BY <1>1, <1>3, <1>5, <2>1, <2>2
  <2>4. \E D \in SUBSET Record :
            /\ IsFiniteSet(D)
            /\ Cardinality(D) = Len(queue) + 1 - Len(pushed)
            /\ ToSet(queue) \cup {r} \subseteq ToSet(pushed) \cup D
    <3>1. ToSet(queue) \cup {r} \subseteq ToSet(pushed) \cup {}
      BY <1>1, <2>1
    <3>2. {} \in SUBSET Record
      OBVIOUS
    <3>3. QED
      BY <2>2, <2>3, <3>1, <3>2
  <2>5. QED
    BY <1>1, <2>1, <2>3, <2>4 DEF pushed
<1>6. QED
  BY <1>4, <1>5

\* The record that is logged next is new, and newer than all others.
LEMMA NextRecord ==
    ASSUME TypeOK, PlaceInv, logged < MaxRecord, logged' = logged + 1
    PROVE  /\ logged' \in 0..MaxRecord /\ logged + 1 \in Record
           /\ Logged' \ Logged = {logged + 1} /\ Logged \subseteq Logged'
           /\ logged + 1 \notin Held /\ \A r \in Logged : r < logged + 1
           /\ Held \subseteq Logged
<1>1. logged \in Nat /\ MaxRecord \in Nat
  BY ClientAssumption DEF TypeOK
<1>2. /\ logged' \in 0..MaxRecord /\ logged + 1 \in Record
      /\ Logged' \ Logged = {logged + 1} /\ Logged \subseteq Logged'
      /\ logged + 1 \notin Logged /\ \A r \in Logged : r < logged + 1
  BY <1>1 DEF Logged, Record
<1>3. QED
  BY <1>2 DEF PlaceInv

\* What track does to the records, when the queue is flushed at once and when not.
LEMMA TrackStep ==
    ASSUME TypeOK, TypeOK', ShapeInv, RecordsInv, NEW s \in Sender, ClientActs(s),
           sdk # "go", logged < MaxRecord, logged' = logged + 1, UNCHANGED logChan,
           dropped' = dropped + (Len(queue) + 1 - Len(Pushed(logged + 1))),
           \/ /\ queue' = Pushed(logged + 1)
              /\ sends'[s] = sends[s] \/ (sends[s].phase # "waiting" /\ sends'[s] = Due)
           \/ /\ queue' = <<>> /\ sends[s].phase # "waiting" /\ s = "flusher"
              /\ sends'[s] = Waiting(Pushed(logged + 1), 1)
    PROVE  RecordsInv'
<1> DEFINE new    == logged + 1
           pushed == Pushed(new)
<1>1. queue \in Seq(Record)
  BY DEF TypeOK
<1>2. /\ new \in Record /\ Logged' \ Logged = {new} /\ Logged \subseteq Logged'
      /\ new \notin Held /\ (\A r \in Logged : r < new) /\ Held \subseteq Logged
  BY NextRecord DEF RecordsInv
<1>3. ToSet(queue) \subseteq Held /\ InFlight(s) \subseteq Held
  BY DEF Held
<1>4. Before(ToSet(queue), {new}) /\ Before(InFlight(s), {new}) /\ new \notin ToSet(queue)
  BY <1>2, <1>3 DEF Before
<1>5. IsInjective(queue) /\ (sdk # "rust" => Increasing(queue))
  BY DEF RecordsInv, PlaceInv, OrderInv
<1>6. /\ pushed \in Seq(Record) /\ Len(pushed) \in Nat
      /\ Len(pushed) <= MaxQueueSize \/ Len(pushed) = Len(queue)
      /\ ToSet(pushed) \subseteq ToSet(queue) \cup {new}
      /\ IsInjective(pushed) /\ (sdk # "rust" => Increasing(pushed))
      /\ \E D \in SUBSET Record :
            /\ IsFiniteSet(D)
            /\ Cardinality(D) = Len(queue) + 1 - Len(pushed)
            /\ ToSet(queue) \cup {new} \subseteq ToSet(pushed) \cup D
  BY <1>1, <1>2, <1>4, <1>5, PushedFacts
<1>7. logChan = <<>> /\ logChan' = <<>> /\ ToSet(logChan) = {}
  BY EmptySequence DEF ShapeInv
<1>8. UNCHANGED <<sdk, late, stored, failed, rejected>>
  BY DEF ClientActs
<1>9. dropped' = dropped + (Len(queue) + 1 - Len(pushed))
  OBVIOUS
<1>10. \/ /\ queue' = pushed
          /\ sends'[s] = sends[s] \/ (sends[s].phase # "waiting" /\ sends'[s] = Due)
       \/ /\ queue' = <<>> /\ sends[s].phase # "waiting" /\ s = "flusher"
          /\ sends'[s] = Waiting(pushed, 1)
  OBVIOUS
<1>11. NetInv'
  BY NetKept DEF RecordsInv
<1> HIDE DEF new, pushed
<1>12. \/ /\ queue' = pushed /\ sends'[s].batch = sends[s].batch /\ InFlight(s)' = InFlight(s)
          /\ \/ sends'[s] = sends[s]
             \/ sends'[s].answer = "none" /\ sends'[s].attempt # 2 /\ InFlight(s) = {}
       \/ /\ queue' = <<>> /\ sends'[s].batch = pushed /\ InFlight(s)' = ToSet(pushed)
          /\ s = "flusher" /\ ToSet(queue') = {} /\ InFlight(s) = {}
          /\ sends'[s].answer = "none" /\ sends'[s].attempt # 2
  BY <1>6, <1>10, InHand, SendValues, EmptySequence DEF InFlight
<1>13. AnswerInv'
  BY <1>12, AnswerKept DEF RecordsInv
<1>14. Mine(s)' = InFlight(s) \cup ToSet(pushed) /\ Mine(s) = InFlight(s) \cup ToSet(queue)
  BY <1>7, <1>12 DEF Mine
<1>15. PlaceInv'
  <2>1. IsInjective(sends[s].batch) /\ InFlight(s) \cap ToSet(queue) = {}
    BY DEF RecordsInv, PlaceInv
  <2>2. InFlight(s) \cap ToSet(pushed) = {}
    BY <1>2, <1>3, <1>6, <2>1
  <2>3. /\ IsInjective(logChan') /\ IsInjective(queue') /\ IsInjective(sends'[s].batch)
        /\ ToSet(logChan') \cap ToSet(queue') = {}
        /\ InFlight(s)' \cap (ToSet(logChan') \cup ToSet(queue')) = {}
    BY <1>6, <1>7, <1>12, <2>1, <2>2, EmptySequence
  <2>4. Mine(s)' \subseteq Mine(s) \cup (Logged' \ Logged)
    BY <1>2, <1>6, <1>14
  <2>5. QED
    BY <2>3, <2>4, PlaceKept DEF RecordsInv
<1>16. CopiesInv'
  <2>1. Open(s)' \subseteq Open(s) \cup (Logged' \ Logged)
    BY <1>2, <1>6, <1>7, <1>12 DEF Open
  <2>2. QED
    BY <2>1, CopiesKept DEF RecordsInv
<1>17. LossInv'
  <2>1. PICK D \in SUBSET Record :
            /\ IsFiniteSet(D)
            /\ Cardinality(D) = Len(queue) + 1 - Len(pushed)
            /\ ToSet(queue) \cup {new} \subseteq ToSet(pushed) \cup D
    BY <1>6
  <2>2. dropped + Cardinality(D) <= dropped'
    <3>1. dropped \in Nat /\ dropped' \in Nat /\ Cardinality(D) \in Nat
      BY <2>1, FS_CardinalityType DEF TypeOK
    <3>2. dropped' = dropped + Cardinality(D)
      BY <1>9, <2>1
    <3>3. QED
      BY <3>1, <3>2
  <2>3. \A r \in Record : r \in Mine(s) \cup (Logged' \ Logged) =>
            r \in Mine(s)' \cup D \cup Forgiven \/ stored[r] > 0
    BY <1>2, <1>14, <2>1
  <2>4. QED
    BY <2>1, <2>2, <2>3, LossKept DEF RecordsInv
<1>18. BoundInv'
  <2>1. MaxQueueSize \in Nat /\ Cardinality(Returned') \in Nat /\ Cardinality(Returned) \in Nat
    <3>1. Returned' \in SUBSET Record
      BY DEF Returned
    <3>2. IsFiniteSet(Record)
      BY ClientAssumption, FS_Interval DEF Record
    <3>3. QED
      BY <3>1, <3>2, ClientAssumption, FS_Subset, FS_CardinalityType, ReturnedFacts
  <2>2. CASE queue' = <<>>
    BY <1>7, <2>1, <2>2, EmptySequence, ClientAssumption DEF BoundInv
  <2>3. CASE queue' = pushed /\ InFlight(s)' = InFlight(s)
    <3>1. Cardinality(Returned) <= Cardinality(Returned')
      BY <2>3, ReturnedKept
    <3>2. Len(queue) \in Nat
      BY <1>1
    <3>3. QED
      BY SMTT(30), <1>6, <1>7, <1>8, <2>1, <2>3, <3>1, <3>2, EmptySequence, ClientAssumption
      DEF RecordsInv, BoundInv
  <2>4. QED
    BY <1>12, <2>2, <2>3
<1>19. OrderInv'
  <2>1. CASE sdk # "node"
    BY <1>6, <1>8, <1>12, <2>1, EmptySequence DEF OrderInv
  <2>2. CASE sdk = "node"
    <3>1. /\ Increasing(sends["flusher"].batch)
          /\ Before(InFlight("flusher"), ToSet(queue))
      BY <2>2 DEF RecordsInv, OrderInv, Before
    <3>2. InFlight("flusher") \subseteq Held
      BY DEF Held, Sender
    <3>3. Before(InFlight("flusher"), ToSet(pushed))
      BY <1>2, <1>6, <3>1, <3>2 DEF Before
    <3>4. Increasing(pushed) /\ Increasing(<<>>) /\ Increasing(logChan')
      BY <1>6, <1>7, <2>2, EmptySequence
    <3>5. CASE s = "flusher"
      BY <1>7, <1>8, <1>12, <2>2, <3>1, <3>3, <3>4, <3>5 DEF OrderInv, Before
    <3>6. CASE s # "flusher"
      <4>1. sends'["flusher"] = sends["flusher"] /\ queue' = pushed
        BY <1>12, <3>6 DEF ClientActs, Sender
      <4>2. InFlight("flusher")' = InFlight("flusher")
        BY <4>1 DEF InFlight
      <4>3. QED
        BY <1>7, <1>8, <2>2, <3>1, <3>3, <3>4, <4>1, <4>2 DEF OrderInv, Before
    <3>7. QED
      BY <3>5, <3>6
  <2>3. QED
    BY <2>1, <2>2
<1>20. NewerInv'
  <2> SUFFICES ASSUME sdk = "node", Untroubled', NEW r \in ToSet(queue'), NEW q \in Record,
                      stored[q] > 0
               PROVE  q < r
    BY <1>8 DEF NewerInv
  <2>1. Untroubled
    <3>1. faults \in Nat /\ faults' \in Nat /\ faults <= faults'
      BY ClientAssumption DEF TypeOK, ClientActs
    <3>2. QED
      BY <1>8, <3>1 DEF Untroubled
  <2>2. r \in ToSet(queue) \cup {new}
    BY <1>6, <1>12
  <2>3. q \in Logged
    BY DEF RecordsInv, NetInv
  <2>4. QED
    BY <1>2, <2>1, <2>2, <2>3 DEF RecordsInv, NewerInv
<1>21. QED
  BY <1>11, <1>13, <1>15, <1>16, <1>17, <1>18, <1>19, <1>20 DEF RecordsInv

-----------------------------------------------------------------------------
(***************************************************************************)
(* The steps that move no record, and the flushes                          *)
(***************************************************************************)
\* A sender keeps its state or takes one of those that the actions assign.
LEMMA ShapesKept ==
    ASSUME ShapeInv, NEW s \in Sender, \A t \in Sender \ {s} : sends'[t] = sends[t],
           \/ sends'[s] \in {sends[s], Idle, Due}
           \/ \E batch \in Seq(Record), n \in {1, 2} : sends'[s] = Waiting(batch, n)
    PROVE  \A t \in Sender : SendShape(t)'
<1>1. \A t \in Sender : SendShape(t)
  BY DEF ShapeInv
<1>2. SendShape(s)'
  BY <1>1, SendValues DEF SendShape
<1>3. QED
  BY <1>1, <1>2 DEF SendShape

\* GoTick: the ticker's attempt.
LEMMA GoTickStep ==
    ASSUME IInv, GoTick
    PROVE  IInv'
<1>1. /\ TypeOK /\ ShapeInv /\ RecordsInv /\ sdk = "go" /\ worker = "loop"
      /\ sends["flusher"] = Idle /\ Flush("flusher")
      /\ UNCHANGED <<sdk, cut, serverVars, logged, logChan, retrying, worker, phase, dropped>>
  BY DEF IInv, GoTick, GoWorks
<1>2. "flusher" \in Sender /\ sends["flusher"].phase # "waiting" /\ faults \in Nat /\ logged \in Nat
  BY <1>1, SendValues, ClientAssumption DEF Sender, TypeOK
<1>3. /\ queue' = <<>> /\ sends' \in [Sender -> Send]
      /\ \/ queue = <<>> /\ sends'["flusher"] = Idle
         \/ queue # <<>> /\ sends'["flusher"] = Waiting(queue, 1)
      /\ \A t \in Sender \ {"flusher"} : sends'[t] = sends[t]
  BY <1>1, <1>2, FlushFacts
<1>4. TypeOK'
  BY <1>1, <1>3 DEF TypeOK
<1>5. RecordsInv'
  <2>1. ClientActs("flusher")
    BY <1>1, <1>2, <1>3 DEF ClientActs
  <2>2. QED
    BY <1>1, <1>2, <1>4, <2>1, FlushStep
<1>6. ShapeInv'
  <2>1. queue \in Seq(Record)
    BY <1>1 DEF TypeOK
  <2>2. \A t \in Sender : SendShape(t)'
    BY <1>1, <1>2, <1>3, <2>1, ShapesKept
  <2>3. GoShape'
    BY <1>1, <1>3, <2>1, SendValues DEF ShapeInv, GoShape, Sender
  <2>4. QED
    BY <1>1, <2>2, <2>3 DEF ShapeInv, NodeShape, RustShape, PyShape
<1>7. QED
  BY <1>4, <1>5, <1>6 DEF IInv

\* GoLast: the attempt that Close leaves time for.
LEMMA GoLastStep ==
    ASSUME IInv, GoLast
    PROVE  IInv'
<1>1. /\ TypeOK /\ ShapeInv /\ RecordsInv /\ sdk = "go" /\ worker \in {"loop", "drain"}
      /\ sends["flusher"] = Idle /\ Flush("flusher") /\ phase = "closing" /\ logChan = <<>>
      /\ worker' = IF queue = <<>> THEN "done" ELSE "last"
      /\ UNCHANGED <<sdk, cut, serverVars, logged, logChan, retrying, phase, dropped>>
  BY DEF IInv, GoLast, GoWorks
<1>2. "flusher" \in Sender /\ sends["flusher"].phase # "waiting" /\ faults \in Nat /\ logged \in Nat
  BY <1>1, SendValues, ClientAssumption DEF Sender, TypeOK
<1>3. /\ queue' = <<>> /\ sends' \in [Sender -> Send]
      /\ \/ queue = <<>> /\ sends'["flusher"] = Idle
         \/ queue # <<>> /\ sends'["flusher"] = Waiting(queue, 1)
      /\ \A t \in Sender \ {"flusher"} : sends'[t] = sends[t]
  BY <1>1, <1>2, FlushFacts
<1>4. TypeOK'
  BY <1>1, <1>3 DEF TypeOK
<1>5. RecordsInv'
  <2>1. ClientActs("flusher")
    BY <1>1, <1>2, <1>3 DEF ClientActs
  <2>2. QED
    BY <1>1, <1>2, <1>4, <2>1, FlushStep
<1>6. ShapeInv'
  <2>1. queue \in Seq(Record)
    BY <1>1 DEF TypeOK
  <2>2. \A t \in Sender : SendShape(t)'
    BY <1>1, <1>2, <1>3, <2>1, ShapesKept
  <2>3. GoShape'
    BY <1>1, <1>3, <2>1, SendValues DEF ShapeInv, GoShape, Sender
  <2>4. QED
    BY <1>1, <2>2, <2>3 DEF ShapeInv, NodeShape, RustShape, PyShape
<1>7. QED
  BY <1>4, <1>5, <1>6 DEF IInv

\* GoDrain and GoClose: the worker and Close notice each other.
LEMMA GoCloseStep ==
    ASSUME IInv, GoDrain \/ GoClose
    PROVE  IInv'
<1>1. /\ TypeOK /\ ShapeInv /\ RecordsInv /\ sdk = "go"
      /\ UNCHANGED <<sdk, serverVars, logged, logChan, queue, sends, retrying, dropped>>
      /\ \/ /\ worker = "loop" /\ phase = "closing" /\ worker' = "drain"
            /\ UNCHANGED <<phase, cut>>
         \/ phase = "open" /\ phase' = "closing" /\ cut' = logged /\ UNCHANGED worker
         \/ /\ phase = "closing" /\ worker = "done" /\ phase' = "closed"
            /\ UNCHANGED <<cut, worker>>
  BY DEF IInv, GoDrain, GoClose, GoWorks
<1>2. "flusher" \in Sender /\ faults \in Nat /\ logged \in Nat
  BY <1>1, ClientAssumption DEF Sender, TypeOK
<1>3. TypeOK'
  BY <1>1 DEF TypeOK
<1>4. RecordsInv'
  <2>1. ClientActs("flusher")
    BY <1>1, <1>2 DEF ClientActs
  <2>2. QED
    BY <1>1, <1>2, <1>3, <2>1, QuietStep
<1>5. ShapeInv'
  <2>1. \A t \in Sender : SendShape(t)'
    BY <1>1 DEF ShapeInv, SendShape
  <2>2. GoShape'
    BY <1>1 DEF ShapeInv, GoShape
  <2>3. cut' <= logged'
    BY <1>1, <1>2 DEF ShapeInv
  <2>4. QED
    BY <1>1, <2>1, <2>2, <2>3 DEF ShapeInv, NodeShape, RustShape, PyShape
<1>6. QED
  BY <1>3, <1>4, <1>5 DEF IInv

\* NodeFlush: the timer, or a flush by the application.
LEMMA NodeFlushStep ==
    ASSUME IInv, NodeFlush
    PROVE  IInv'
<1>1. /\ TypeOK /\ ShapeInv /\ RecordsInv /\ sdk = "node" /\ Flush("flusher")
      /\ phase \notin {"closed", "panicked"} /\ sends["flusher"] = Idle
      /\ UNCHANGED <<sdk, logChan, retrying, worker, serverVars, logged, dropped, phase, cut>>
  BY DEF IInv, NodeFlush, NodeIdle, Running
<1>2. "flusher" \in Sender /\ sends["flusher"].phase # "waiting" /\ faults \in Nat /\ logged \in Nat
  BY <1>1, SendValues, ClientAssumption DEF Sender, TypeOK
<1>3. /\ queue' = <<>> /\ sends' \in [Sender -> Send]
      /\ \/ queue = <<>> /\ sends'["flusher"] = Idle
         \/ queue # <<>> /\ sends'["flusher"] = Waiting(queue, 1)
      /\ \A t \in Sender \ {"flusher"} : sends'[t] = sends[t]
  BY <1>1, <1>2, FlushFacts
<1>4. TypeOK'
  BY <1>1, <1>3 DEF TypeOK
<1>5. RecordsInv'
  <2>1. ClientActs("flusher")
    BY <1>1, <1>2, <1>3 DEF ClientActs
  <2>2. QED
    BY <1>1, <1>2, <1>4, <2>1, FlushStep
<1>6. ShapeInv'
  <2>1. queue \in Seq(Record)
    BY <1>1 DEF TypeOK
  <2>2. \A t \in Sender : SendShape(t)'
    BY <1>1, <1>2, <1>3, <2>1, ShapesKept
  <2>3. NodeShape'
    BY <1>1, <1>3, <2>1, SendValues DEF ShapeInv, NodeShape, Sender
  <2>4. QED
    BY <1>1, <2>2, <2>3 DEF ShapeInv, GoShape, RustShape, PyShape
<1>7. QED
  BY <1>4, <1>5, <1>6 DEF IInv

\* NodeExit: flush() takes the queue, or waits for the request in flight.
LEMMA NodeExitStep ==
    ASSUME IInv, NodeExit
    PROVE  IInv'
<1>1. /\ TypeOK /\ ShapeInv /\ RecordsInv /\ sdk = "node" /\ phase = "open" /\ cut' = logged
      /\ UNCHANGED <<sdk, logChan, retrying, worker, serverVars, logged, dropped>>
      /\ \/ /\ sends["flusher"] = Idle /\ Flush("flusher")
            /\ phase' = IF queue = <<>> THEN "closed" ELSE "closing"
         \/ phase' = "closing" /\ UNCHANGED <<queue, sends>>
  BY DEF IInv, NodeExit, NodeIdle
<1>2. /\ "flusher" \in Sender /\ faults \in Nat /\ logged \in Nat /\ cut' <= logged'
      /\ queue \in Seq(Record)
  BY <1>1, ClientAssumption DEF Sender, TypeOK
<1>3. CASE UNCHANGED <<queue, sends>> /\ phase' = "closing"
  <2>1. TypeOK'
    BY <1>1, <1>3 DEF TypeOK
  <2>2. RecordsInv'
    <3>1. ClientActs("flusher")
      BY <1>1, <1>2, <1>3 DEF ClientActs
    <3>2. QED
      BY <1>1, <1>2, <1>3, <2>1, <3>1, QuietStep
  <2>3. ShapeInv'
    BY <1>1, <1>2, <1>3 DEF ShapeInv, SendShape, GoShape, NodeShape, RustShape, PyShape
  <2>4. QED
    BY <2>1, <2>2, <2>3 DEF IInv
<1>4. CASE /\ sends["flusher"] = Idle /\ Flush("flusher")
           /\ phase' = IF queue = <<>> THEN "closed" ELSE "closing"
  <2>1. sends["flusher"].phase # "waiting"
    BY <1>4, SendValues
  <2>2. /\ queue' = <<>> /\ sends' \in [Sender -> Send]
        /\ \/ queue = <<>> /\ sends'["flusher"] = Idle
           \/ queue # <<>> /\ sends'["flusher"] = Waiting(queue, 1)
        /\ \A t \in Sender \ {"flusher"} : sends'[t] = sends[t]
    BY <1>1, <1>2, <1>4, <2>1, FlushFacts
  <2>3. TypeOK'
    BY <1>1, <1>4, <2>2 DEF TypeOK
  <2>4. RecordsInv'
    <3>1. ClientActs("flusher")
      BY <1>1, <1>2, <1>4, <2>2 DEF ClientActs
    <3>2. QED
      BY <1>1, <1>2, <1>4, <2>1, <2>3, <3>1, FlushStep
  <2>5. ShapeInv'
    <3>1. \A t \in Sender : SendShape(t)'
      BY <1>1, <1>2, <2>2, ShapesKept
    <3>2. NodeShape'
      BY <1>1, <1>2, <1>4, <2>2, SendValues DEF ShapeInv, NodeShape, Sender
    <3>3. QED
      BY <1>1, <1>2, <3>1, <3>2 DEF ShapeInv, GoShape, RustShape, PyShape
  <2>6. QED
    BY <2>3, <2>4, <2>5 DEF IInv
<1>5. QED
  BY <1>1, <1>3, <1>4

\* RustFlush: the flusher thread or a caller takes the queue.
LEMMA RustFlushStep ==
    ASSUME IInv, NEW s \in Sender, RustFlush(s)
    PROVE  IInv'
<1>1. /\ TypeOK /\ ShapeInv /\ RecordsInv /\ sdk = "rust" /\ Flush(s)
      /\ phase \notin {"closed", "panicked"} /\ s \in {"flusher", "app"}
      /\ sends[s] = Idle \/ sends[s] = Due
      /\ UNCHANGED <<sdk, logChan, retrying, worker, serverVars, logged, dropped, phase, cut>>
  BY DEF IInv, RustFlush, Running
<1>2. sends[s].phase # "waiting" /\ faults \in Nat /\ logged \in Nat /\ queue \in Seq(Record)
  BY <1>1, SendValues, ClientAssumption DEF TypeOK
<1>3. /\ queue' = <<>> /\ sends' \in [Sender -> Send]
      /\ \/ queue = <<>> /\ sends'[s] = Idle
         \/ queue # <<>> /\ sends'[s] = Waiting(queue, 1)
      /\ \A t \in Sender \ {s} : sends'[t] = sends[t]
  BY <1>1, <1>2, FlushFacts
<1>4. TypeOK'
  BY <1>1, <1>3 DEF TypeOK
<1>5. RecordsInv'
  <2>1. ClientActs(s)
    BY <1>1, <1>2, <1>3 DEF ClientActs
  <2>2. QED
    BY <1>1, <1>2, <1>4, <2>1, FlushStep
<1>6. ShapeInv'
  <2>1. \A t \in Sender : SendShape(t)'
    BY <1>1, <1>2, <1>3, ShapesKept
  <2>2. RustShape'
    BY <1>1, <1>2, <1>3, SendValues DEF ShapeInv, RustShape, Sender
  <2>3. QED
    BY <1>1, <2>1, <2>2 DEF ShapeInv, GoShape, NodeShape, PyShape
<1>7. QED
  BY <1>4, <1>5, <1>6 DEF IInv

\* RustExit: the application begins its last flush, and exits after it.
LEMMA RustExitStep ==
    ASSUME IInv, RustExit
    PROVE  IInv'
<1>1. /\ TypeOK /\ ShapeInv /\ RecordsInv /\ sdk = "rust" /\ sends["app"] = Idle
      /\ UNCHANGED <<sdk, logChan, retrying, worker, serverVars, logged, queue, dropped>>
      /\ \/ /\ phase = "open" /\ phase' = "closing" /\ cut' = logged
            /\ sends' = [sends EXCEPT !["app"] = Due]
         \/ phase = "closing" /\ phase' = "closed" /\ UNCHANGED <<cut, sends>>
  BY DEF IInv, RustExit
<1>2. /\ "app" \in Sender /\ Due \in Send /\ sends["app"].phase # "waiting"
      /\ faults \in Nat /\ logged \in Nat
  BY <1>1, SendValues, ClientAssumption DEF Sender, TypeOK
<1>3. /\ sends' \in [Sender -> Send] /\ sends'["app"] \in {sends["app"], Due}
      /\ \A t \in Sender \ {"app"} : sends'[t] = sends[t]
  <2>1. CASE sends' = [sends EXCEPT !["app"] = Due]
    BY <1>1, <1>2, <2>1, OneSends
  <2>2. CASE sends' = sends
    BY <1>1, <2>2 DEF TypeOK
  <2>3. QED
    BY <1>1, <2>1, <2>2
<1>4. TypeOK'
  BY <1>1, <1>3 DEF TypeOK
<1>5. RecordsInv'
  <2>1. ClientActs("app")
    BY <1>1, <1>2, <1>3 DEF ClientActs
  <2>2. QED
    BY <1>1, <1>2, <1>3, <1>4, <2>1, QuietStep
<1>6. ShapeInv'
  <2>1. \A t \in Sender : SendShape(t)'
    BY <1>1, <1>2, <1>3, ShapesKept
  <2>2. RustShape'
    BY <1>1, <1>3, SendValues DEF ShapeInv, RustShape, Sender
  <2>3. cut' <= logged'
    BY <1>1, <1>2 DEF ShapeInv
  <2>4. QED
    BY <1>1, <2>1, <2>2, <2>3 DEF ShapeInv, GoShape, NodeShape, PyShape
<1>7. QED
  BY <1>4, <1>5, <1>6 DEF IInv

\* PyWake: the daemon thread or a caller is about to flush.
LEMMA PyWakeStep ==
    ASSUME IInv, NEW s \in Sender, PyWake(s)
    PROVE  IInv'
<1>1. /\ TypeOK /\ ShapeInv /\ RecordsInv /\ sdk = "python" /\ sends[s] = Idle
      /\ \/ s = "flusher" /\ worker = "loop" /\ phase = "open"
         \/ s = "app"
      /\ sends' = [sends EXCEPT ![s] = Due]
      /\ UNCHANGED <<sdk, logChan, retrying, serverVars, logged, queue, worker, dropped,
                     phase, cut>>
  BY DEF IInv, PyWake
<1>2. /\ Due \in Send /\ sends[s].phase # "waiting" /\ faults \in Nat /\ logged \in Nat
  BY <1>1, SendValues, ClientAssumption DEF TypeOK
<1>3. /\ sends' \in [Sender -> Send] /\ sends'[s] = Due
      /\ \A t \in Sender \ {s} : sends'[t] = sends[t]
  BY <1>1, <1>2, OneSends
<1>4. TypeOK'
  BY <1>1, <1>3 DEF TypeOK
<1>5. RecordsInv'
  <2>1. ClientActs(s)
    BY <1>1, <1>2, <1>3 DEF ClientActs
  <2>2. QED
    BY <1>1, <1>2, <1>3, <1>4, <2>1, QuietStep
<1>6. ShapeInv'
  <2>1. \A t \in Sender : SendShape(t)'
    BY <1>1, <1>2, <1>3, ShapesKept
  <2>2. sends'["main"] = sends["main"]
    BY <1>1, <1>3 DEF Sender
  <2>3. worker = "done" => sends'["flusher"] = sends["flusher"]
    BY <1>1, <1>3 DEF Sender
  <2>4. PyShape'
    BY <1>1, <2>2, <2>3 DEF ShapeInv, PyShape
  <2>5. QED
    BY <1>1, <2>1, <2>4 DEF ShapeInv, GoShape, NodeShape, RustShape
<1>7. QED
  BY <1>4, <1>5, <1>6 DEF IInv

\* PyFlush: a thread takes the queue.
LEMMA PyFlushStep ==
    ASSUME IInv, NEW s \in Sender, PyFlush(s)
    PROVE  IInv'
<1>1. /\ TypeOK /\ ShapeInv /\ RecordsInv /\ sdk = "python" /\ Flush(s)
      /\ phase \notin {"closed", "panicked"} /\ sends[s] = Due
      /\ UNCHANGED <<sdk, logChan, retrying, serverVars, logged, worker, dropped, phase, cut>>
  BY DEF IInv, PyFlush, Running
<1>2. sends[s].phase # "waiting" /\ faults \in Nat /\ logged \in Nat /\ queue \in Seq(Record)
  BY <1>1, SendValues, ClientAssumption DEF TypeOK
<1>3. /\ queue' = <<>> /\ sends' \in [Sender -> Send]
      /\ \/ queue = <<>> /\ sends'[s] = Idle
         \/ queue # <<>> /\ sends'[s] = Waiting(queue, 1)
      /\ \A t \in Sender \ {s} : sends'[t] = sends[t]
  BY <1>1, <1>2, FlushFacts
<1>4. TypeOK'
  BY <1>1, <1>3 DEF TypeOK
<1>5. RecordsInv'
  <2>1. ClientActs(s)
    BY <1>1, <1>2, <1>3 DEF ClientActs
  <2>2. QED
    BY <1>1, <1>2, <1>4, <2>1, FlushStep
<1>6. ShapeInv'
  <2>1. \A t \in Sender : SendShape(t)'
    BY <1>1, <1>2, <1>3, ShapesKept
  <2>2. ToSet(queue') = {}
    BY <1>3, EmptySequence
  <2>3. /\ worker = "done" => s # "flusher"
        /\ phase \in {"open", "closing"} => s # "main"
    BY <1>1, SendValues DEF ShapeInv, PyShape
  <2>4. /\ s # "flusher" => sends'["flusher"] = sends["flusher"]
        /\ s # "main" => sends'["main"] = sends["main"]
    BY <1>3 DEF Sender
  <2>5. PyShape'
    BY <1>1, <2>2, <2>3, <2>4 DEF ShapeInv, PyShape
  <2>6. QED
    BY <1>1, <2>1, <2>5 DEF ShapeInv, GoShape, NodeShape, RustShape
<1>7. QED
  BY <1>4, <1>5, <1>6 DEF IInv

\* PyShutdown, PyThreadEnds and PyClosed: shutdown sets the event, the thread ends,
\* and shutdown returns.
LEMMA PyShutdownStep ==
    ASSUME IInv, PyShutdown \/ PyThreadEnds \/ PyClosed
    PROVE  IInv'
<1>1. /\ TypeOK /\ ShapeInv /\ RecordsInv /\ sdk = "python"
      /\ UNCHANGED <<sdk, logChan, retrying, serverVars, logged, queue, sends, dropped>>
      /\ \/ phase = "open" /\ phase' = "closing" /\ cut' = logged /\ UNCHANGED worker
         \/ /\ phase # "open" /\ worker = "loop" /\ sends["flusher"] = Idle
            /\ worker' = "done" /\ UNCHANGED <<phase, cut>>
         \/ /\ phase = "joined" /\ sends["main"] = Idle /\ phase' = "closed"
            /\ UNCHANGED <<worker, cut>>
  BY DEF IInv, PyShutdown, PyThreadEnds, PyClosed
<1>2. "main" \in Sender /\ faults \in Nat /\ logged \in Nat
  BY <1>1, ClientAssumption DEF Sender, TypeOK
<1>3. TypeOK'
  BY <1>1 DEF TypeOK
<1>4. RecordsInv'
  <2>1. ClientActs("main")
    BY <1>1, <1>2 DEF ClientActs
  <2>2. QED
    BY <1>1, <1>2, <1>3, <2>1, QuietStep
<1>5. ShapeInv'
  <2>1. \A t \in Sender : SendShape(t)'
    BY <1>1 DEF ShapeInv, SendShape
  <2>2. PyShape'
    BY <1>1 DEF ShapeInv, PyShape
  <2>3. cut' <= logged'
    BY <1>1, <1>2 DEF ShapeInv
  <2>4. QED
    BY <1>1, <2>1, <2>2, <2>3 DEF ShapeInv, GoShape, NodeShape, RustShape
<1>6. QED
  BY <1>3, <1>4, <1>5 DEF IInv

\* PyJoin: shutdown goes on to its own flush, after the thread or without it.
LEMMA PyJoinStep ==
    ASSUME IInv, PyJoin
    PROVE  IInv'
<1>1. /\ TypeOK /\ ShapeInv /\ RecordsInv /\ sdk = "python" /\ phase = "closing"
      /\ \/ worker = "done" /\ UNCHANGED faults
         \/ faults < MaxFaults /\ faults' = faults + 1
      /\ phase' = "joined" /\ sends' = [sends EXCEPT !["main"] = Due]
      /\ UNCHANGED <<sdk, logged, clientVars, cut, late, stored, failed, rejected>>
  BY DEF IInv, PyJoin, Joins
<1>2. /\ "main" \in Sender /\ Due \in Send /\ faults \in Nat /\ faults' \in 0..MaxFaults
      /\ faults <= faults' /\ logged \in Nat /\ (faults' = 0 => worker = "done")
  BY <1>1, SendValues, ClientAssumption DEF Sender, TypeOK
<1>3. /\ sends' \in [Sender -> Send] /\ sends'["main"] = Due
      /\ \A t \in Sender \ {"main"} : sends'[t] = sends[t]
  BY <1>1, <1>2, OneSends
<1>4. sends["main"].phase # "waiting"
  BY <1>1, SendValues DEF ShapeInv, PyShape
<1>5. TypeOK'
  BY <1>1, <1>2, <1>3 DEF TypeOK
<1>6. RecordsInv'
  <2>1. ClientActs("main")
    BY <1>1, <1>2, <1>3 DEF ClientActs
  <2>2. QED
    BY <1>1, <1>2, <1>3, <1>4, <1>5, <2>1, QuietStep
<1>7. ShapeInv'
  <2>1. \A t \in Sender : SendShape(t)'
    BY <1>1, <1>2, <1>3, ShapesKept
  <2>2. sends'["flusher"] = sends["flusher"]
    BY <1>3 DEF Sender
  <2>3. PyShape'
    BY <1>1, <1>2, <1>3, <2>2, SendValues DEF ShapeInv, PyShape
  <2>4. QED
    BY <1>1, <2>1, <2>3 DEF ShapeInv, GoShape, NodeShape, RustShape
<1>8. QED
  BY <1>5, <1>6, <1>7 DEF IInv

-----------------------------------------------------------------------------
(***************************************************************************)
(* The steps that log a record                                             *)
(***************************************************************************)
\* What track assigns has its type.
LEMMA TrackTypes ==
    ASSUME TypeOK, PlaceInv, Track
    PROVE  /\ logged \in Nat /\ faults \in Nat /\ logged' \in 0..MaxRecord
           /\ logged <= logged' /\ logged < MaxRecord
           /\ logged' = logged + 1 /\ Pushed(logged + 1) \in Seq(Record)
           /\ dropped' = dropped + (Len(queue) + 1 - Len(Pushed(logged + 1)))
           /\ dropped' \in Nat /\ sends["app"].phase = "idle" /\ phase \notin {"closed", "panicked"}
<1>1. /\ logged' = logged + 1 /\ logged < MaxRecord /\ sends["app"].phase = "idle"
      /\ phase \notin {"closed", "panicked"}
      /\ dropped' = dropped + (Len(queue) + 1 - Len(Pushed(logged + 1)))
  BY DEF Track, Running
<1>2. /\ logged \in Nat /\ faults \in Nat /\ dropped \in Nat /\ queue \in Seq(Record)
  BY ClientAssumption DEF TypeOK
<1>3. logged' \in 0..MaxRecord /\ logged + 1 \in Record
  BY <1>1, NextRecord
<1>4. /\ Pushed(logged + 1) \in Seq(Record) /\ Len(Pushed(logged + 1)) \in Nat
      /\ Len(Pushed(logged + 1)) <= Len(queue) + 1
  BY <1>2, <1>3, PushedFacts
<1>5. Len(queue) \in Nat
  BY <1>2
<1>6. dropped' \in Nat
  BY <1>1, <1>2, <1>4, <1>5
<1>7. QED
  BY <1>1, <1>2, <1>3, <1>4, <1>6

\* NodeTrack: a full queue is sent at once, unless a request is in flight.
LEMMA NodeTrackStep ==
    ASSUME IInv, NodeTrack
    PROVE  IInv'
<1> DEFINE pushed == Pushed(logged + 1)
<1>1. /\ TypeOK /\ ShapeInv /\ RecordsInv /\ PlaceInv /\ sdk = "node" /\ Track
      /\ UNCHANGED <<sdk, logChan, retrying, worker, serverVars, phase, cut>>
      /\ \/ /\ sends["flusher"] = Idle /\ queue' = <<>>
            /\ sends' = [sends EXCEPT !["flusher"] = Waiting(pushed, 1)]
         \/ queue' = pushed /\ UNCHANGED sends
  BY DEF IInv, RecordsInv, NodeTrack, NodeIdle
<1>2. /\ logged \in Nat /\ faults \in Nat /\ logged' \in 0..MaxRecord
      /\ logged <= logged' /\ logged < MaxRecord
      /\ logged' = logged + 1 /\ pushed \in Seq(Record)
      /\ dropped' = dropped + (Len(queue) + 1 - Len(pushed))
      /\ dropped' \in Nat /\ phase \notin {"closed", "panicked"}
  BY <1>1, TrackTypes
<1>3. "flusher" \in Sender /\ Waiting(pushed, 1) \in Send
  BY <1>2, SendValues DEF Sender
<1>4. /\ sends' \in [Sender -> Send] /\ queue' \in Seq(Record)
      /\ \A t \in Sender \ {"flusher"} : sends'[t] = sends[t]
      /\ \/ /\ queue' = <<>> /\ sends["flusher"] = Idle
            /\ sends'["flusher"] = Waiting(pushed, 1)
         \/ queue' = pushed /\ sends'["flusher"] = sends["flusher"]
  <2>1. CASE sends' = [sends EXCEPT !["flusher"] = Waiting(pushed, 1)]
             /\ sends["flusher"] = Idle /\ queue' = <<>>
    BY <1>1, <1>3, <2>1, OneSends, EmptySequence
  <2>2. CASE queue' = pushed /\ UNCHANGED sends
    BY <1>1, <1>2, <1>3, <2>2 DEF TypeOK
  <2>3. QED
    BY <1>1, <2>1, <2>2
<1>5. TypeOK'
  BY <1>1, <1>2, <1>4 DEF TypeOK
<1>6. RecordsInv'
  <2>1. ClientActs("flusher")
    BY <1>1, <1>2, <1>4 DEF ClientActs
  <2>2. sends["flusher"] = Idle => sends["flusher"].phase # "waiting"
    BY SendValues
  <2>3. QED
    BY <1>1, <1>2, <1>3, <1>4, <1>5, <2>1, <2>2, TrackStep
<1>7. ShapeInv'
  <2>1. \A t \in Sender : SendShape(t)'
    BY <1>1, <1>2, <1>3, <1>4, ShapesKept
  <2>2. NodeShape'
    BY <1>1, <1>2, <1>4, SendValues DEF ShapeInv, NodeShape, Sender
  <2>3. cut' <= logged'
    <3>1. cut \in Nat /\ cut <= logged /\ cut' = cut
      BY <1>1 DEF ShapeInv, TypeOK
    <3>2. QED
      BY <1>2, <3>1
  <2>4. QED
    BY <1>1, <2>1, <2>2, <2>3 DEF ShapeInv, GoShape, RustShape, PyShape
<1>8. QED
  BY <1>5, <1>6, <1>7 DEF IInv

\* RustTrack: the record joins the queue.
LEMMA RustTrackStep ==
    ASSUME IInv, RustTrack
    PROVE  IInv'
<1>1. /\ TypeOK /\ ShapeInv /\ RecordsInv /\ PlaceInv /\ sdk = "rust" /\ Track
      /\ UNCHANGED <<sdk, logChan, retrying, worker, serverVars, phase, cut, sends>>
      /\ queue' = Pushed(logged + 1)
  BY DEF IInv, RecordsInv, RustTrack
<1>2. /\ logged \in Nat /\ faults \in Nat /\ logged' \in 0..MaxRecord
      /\ logged <= logged' /\ logged < MaxRecord
      /\ logged' = logged + 1 /\ Pushed(logged + 1) \in Seq(Record)
      /\ dropped' = dropped + (Len(queue) + 1 - Len(Pushed(logged + 1)))
      /\ dropped' \in Nat
  BY <1>1, TrackTypes
<1>3. TypeOK'
  BY <1>1, <1>2 DEF TypeOK
<1>4. RecordsInv'
  <2>1. "app" \in Sender
    BY DEF Sender
  <2>2. ClientActs("app")
    BY <1>1, <1>2 DEF ClientActs
  <2>3. QED
    BY <1>1, <1>2, <1>3, <2>1, <2>2, TrackStep
<1>5. ShapeInv'
  <2>1. \A t \in Sender : SendShape(t)'
    BY <1>1 DEF ShapeInv, SendShape
  <2>2. cut' <= logged'
    <3>1. cut \in Nat /\ cut <= logged /\ cut' = cut
      BY <1>1 DEF ShapeInv, TypeOK
    <3>2. QED
      BY <1>2, <3>1
  <2>3. QED
    BY <1>1, <2>1, <2>2 DEF ShapeInv, GoShape, NodeShape, RustShape, PyShape
<1>6. QED
  BY <1>3, <1>4, <1>5 DEF IInv

\* PyTrack: the record joins the queue, and its thread may have to flush.
LEMMA PyTrackStep ==
    ASSUME IInv, PyTrack
    PROVE  IInv'
<1>1. /\ TypeOK /\ ShapeInv /\ RecordsInv /\ PlaceInv /\ sdk = "python" /\ Track
      /\ UNCHANGED <<sdk, logChan, retrying, serverVars, worker, phase, cut>>
      /\ queue' = Pushed(logged + 1)
      /\ sends' = [sends EXCEPT !["app"] = Due] \/ UNCHANGED sends
  BY DEF IInv, RecordsInv, PyTrack
<1>2. /\ logged \in Nat /\ faults \in Nat /\ logged' \in 0..MaxRecord
      /\ logged <= logged' /\ logged < MaxRecord
      /\ logged' = logged + 1 /\ Pushed(logged + 1) \in Seq(Record)
      /\ dropped' = dropped + (Len(queue) + 1 - Len(Pushed(logged + 1)))
      /\ dropped' \in Nat /\ sends["app"].phase = "idle"
  BY <1>1, TrackTypes
<1>3. "app" \in Sender /\ Due \in Send
  BY SendValues DEF Sender
<1>4. /\ sends' \in [Sender -> Send] /\ sends'["app"] \in {sends["app"], Due}
      /\ \A t \in Sender \ {"app"} : sends'[t] = sends[t]
  <2>1. CASE sends' = [sends EXCEPT !["app"] = Due]
    BY <1>1, <1>3, <2>1, OneSends
  <2>2. CASE UNCHANGED sends
    BY <1>1, <2>2 DEF TypeOK
  <2>3. QED
    BY <1>1, <2>1, <2>2
<1>5. TypeOK'
  BY <1>1, <1>2, <1>4 DEF TypeOK
<1>6. RecordsInv'
  <2>1. ClientActs("app")
    BY <1>1, <1>2, <1>4 DEF ClientActs
  <2>2. sends["app"].phase # "waiting"
    BY <1>2
  <2>3. QED
    BY <1>1, <1>2, <1>3, <1>4, <1>5, <2>1, <2>2, TrackStep
<1>7. ShapeInv'
  <2>1. \A t \in Sender : SendShape(t)'
    BY <1>1, <1>3, <1>4, ShapesKept
  <2>2. sends'["flusher"] = sends["flusher"] /\ sends'["main"] = sends["main"]
    BY <1>4 DEF Sender
  <2>3. cut \in Nat /\ cut <= logged /\ cut' = cut
    BY <1>1 DEF ShapeInv, TypeOK
  <2>4. ASSUME phase \in {"joined", "closed"}, sends["main"].phase # "due",
               NEW r \in ToSet(queue')
        PROVE  cut < r
    <3>1. queue \in Seq(Record) /\ logged + 1 \in Record
      BY <1>1, <1>2, NextRecord DEF TypeOK
    <3>2. r \in ToSet(queue) \cup {logged + 1}
      BY <1>1, <2>4, <3>1, PushedFacts
    <3>3. \A q \in ToSet(queue) : cut < q
      BY <1>1, <2>4 DEF ShapeInv, PyShape
    <3>4. QED
      BY <1>2, <2>3, <3>2, <3>3
  <2>5. PyShape'
    BY <1>1, <2>2, <2>3, <2>4 DEF ShapeInv, PyShape
  <2>6. QED
    BY <1>1, <1>2, <2>1, <2>3, <2>5 DEF ShapeInv, GoShape, NodeShape, RustShape
<1>8. QED
  BY <1>5, <1>6, <1>7 DEF IInv

\* A step of the Go client that drops nothing and takes nothing back.
LEMMA GoMoves ==
    ASSUME TypeOK, TypeOK', RecordsInv, ClientActs("flusher"), sdk = "go",
           UNCHANGED dropped, Len(logChan') <= ChannelCapacity,
           sends'["flusher"] = sends["flusher"] \/
               (sends'["flusher"].answer = "none" /\ sends'["flusher"].attempt # 2),
           Open("flusher")' \subseteq Open("flusher") \cup (Logged' \ Logged),
           IsInjective(logChan'), IsInjective(queue'), IsInjective(sends'["flusher"].batch),
           Increasing(logChan'), Increasing(queue'), Increasing(sends'["flusher"].batch),
           ToSet(logChan') \cap ToSet(queue') = {},
           InFlight("flusher")' \cap (ToSet(logChan') \cup ToSet(queue')) = {},
           Before(InFlight("flusher")', ToSet(queue') \cup ToSet(logChan')),
           Before(ToSet(queue'), ToSet(logChan')),
           Mine("flusher")' = Mine("flusher") \cup (Logged' \ Logged)
    PROVE  RecordsInv'
<1>1. "flusher" \in Sender
  BY DEF Sender
<1>2. NetInv'
  BY <1>1, NetKept DEF RecordsInv
<1>3. AnswerInv'
  BY <1>1, AnswerKept DEF RecordsInv
<1>4. PlaceInv'
  BY <1>1, PlaceKept DEF RecordsInv
<1>5. CopiesInv'
  BY <1>1, CopiesKept DEF RecordsInv
<1>6. LossInv'
  <2>1. IsFiniteSet({}) /\ dropped + Cardinality({}) <= dropped'
    <3>1. IsFiniteSet({}) /\ Cardinality({}) = 0
      BY FS_EmptySet
    <3>2. QED
      BY <3>1 DEF TypeOK
  <2>2. \A r \in Record : r \in Mine("flusher") \cup (Logged' \ Logged) =>
            r \in Mine("flusher")' \cup {} \cup Forgiven \/ stored[r] > 0
    OBVIOUS
  <2>3. QED
    BY <1>1, <2>1, <2>2, LossKept DEF RecordsInv
<1>7. sdk' = "go"
  BY DEF ClientActs
<1>8. BoundInv' /\ OrderInv' /\ NewerInv'
  BY <1>7 DEF BoundInv, OrderInv, NewerInv
<1>9. QED
  BY <1>2, <1>3, <1>4, <1>5, <1>6, <1>8 DEF RecordsInv

\* What the Go client holds is in order.
LEMMA GoOrder ==
    ASSUME RecordsInv, sdk = "go"
    PROVE  /\ IsInjective(logChan) /\ IsInjective(queue) /\ IsInjective(sends["flusher"].batch)
           /\ Increasing(logChan) /\ Increasing(queue) /\ Increasing(sends["flusher"].batch)
           /\ ToSet(logChan) \cap ToSet(queue) = {}
           /\ InFlight("flusher") \cap (ToSet(logChan) \cup ToSet(queue)) = {}
           /\ Before(InFlight("flusher"), ToSet(queue) \cup ToSet(logChan))
           /\ Before(ToSet(queue), ToSet(logChan)) /\ Len(logChan) <= ChannelCapacity
           /\ Mine("flusher") \subseteq Held
<1>1. "flusher" \in Sender
  BY DEF Sender
<1>2. QED
  BY <1>1 DEF RecordsInv, PlaceInv, OrderInv, BoundInv, Mine, Held

\* GoHandle: the record is put on the channel, or the program panics.
LEMMA GoHandleStep ==
    ASSUME IInv, GoHandle
    PROVE  IInv'
<1>1. /\ TypeOK /\ ShapeInv /\ RecordsInv /\ PlaceInv /\ sdk = "go" /\ logged < MaxRecord
      /\ phase \notin {"closed", "panicked"}
      /\ UNCHANGED <<sdk, cut, serverVars, queue, sends, retrying, worker, dropped>>
      /\ \/ /\ phase = "open" /\ Len(logChan) < ChannelCapacity /\ logged' = logged + 1
            /\ logChan' = Append(logChan, logged + 1) /\ UNCHANGED phase
         \/ phase # "open" /\ phase' = "panicked" /\ UNCHANGED <<logged, logChan>>
  BY DEF IInv, RecordsInv, GoHandle, Running
<1>2. /\ "flusher" \in Sender /\ faults \in Nat /\ logged \in Nat /\ cut \in Nat
      /\ logChan \in Seq(Record)
  BY <1>1, ClientAssumption DEF Sender, TypeOK
<1>3. \A t \in Sender : SendShape(t)'
  BY <1>1 DEF ShapeInv, SendShape
<1>4. CASE phase # "open" /\ phase' = "panicked" /\ UNCHANGED <<logged, logChan>>
  <2>1. TypeOK'
    BY <1>1, <1>4 DEF TypeOK
  <2>2. RecordsInv'
    <3>1. ClientActs("flusher")
      BY <1>1, <1>2, <1>4 DEF ClientActs
    <3>2. QED
      BY <1>1, <1>2, <1>4, <2>1, <3>1, QuietStep
  <2>3. ShapeInv'
    BY <1>1, <1>3, <1>4 DEF ShapeInv, GoShape, NodeShape, RustShape, PyShape
  <2>4. QED
    BY <2>1, <2>2, <2>3 DEF IInv
<1>5. CASE /\ phase = "open" /\ Len(logChan) < ChannelCapacity /\ logged' = logged + 1
           /\ logChan' = Append(logChan, logged + 1) /\ UNCHANGED phase
  <2> DEFINE new == logged + 1
  <2>1. /\ logged' \in 0..MaxRecord /\ new \in Record
        /\ Logged' \ Logged = {new} /\ Logged \subseteq Logged'
        /\ new \notin Held /\ (\A r \in Logged : r < new) /\ Held \subseteq Logged
    BY <1>1, <1>5, NextRecord
  <2>2. logChan' = Append(logChan, new)
    BY <1>5
  <2> HIDE DEF new
  <2>3. /\ logChan' \in Seq(Record) /\ Len(logChan') = Len(logChan) + 1
        /\ ToSet(logChan') = ToSet(logChan) \cup {new}
        /\ IsInjective(logChan) /\ new \notin ToSet(logChan) => IsInjective(logChan')
        /\ Increasing(logChan) /\ Before(ToSet(logChan), {new}) => Increasing(logChan')
    BY <1>2, <2>1, <2>2, AppendFacts
  <2>4. TypeOK'
    BY <1>1, <1>5, <2>1, <2>3 DEF TypeOK
  <2>5. ClientActs("flusher")
    BY <1>1, <1>2, <1>5 DEF ClientActs
  <2>6. InFlight("flusher")' = InFlight("flusher")
    BY <1>1 DEF InFlight
  <2>7. /\ ToSet(logChan) \subseteq Held /\ ToSet(queue) \subseteq Held
        /\ InFlight("flusher") \subseteq Held
    BY <1>2 DEF Held
  <2>8. worker = "loop"
    BY <1>1, <1>5 DEF ShapeInv, GoShape
  <2>9. RecordsInv'
    <3>1. Len(logChan') <= ChannelCapacity
      BY <1>2, <1>5, <2>3, ClientAssumption
    <3>2. /\ Before(ToSet(logChan), {new}) /\ Before(ToSet(queue), {new})
          /\ Before(InFlight("flusher"), {new})
          /\ new \notin ToSet(logChan) /\ new \notin ToSet(queue) /\ new \notin InFlight("flusher")
      BY <2>1, <2>7 DEF Before
    <3>3. IsInjective(logChan') /\ Increasing(logChan')
      BY <1>1, <2>3, <3>2, GoOrder
    <3>4. /\ ToSet(logChan') \cap ToSet(queue') = {}
          /\ InFlight("flusher")' \cap (ToSet(logChan') \cup ToSet(queue')) = {}
      BY <1>1, <2>3, <2>6, <3>2, GoOrder
    <3>5. /\ Before(InFlight("flusher")', ToSet(queue') \cup ToSet(logChan'))
          /\ Before(ToSet(queue'), ToSet(logChan'))
      <4>1. /\ Before(InFlight("flusher"), ToSet(queue) \cup ToSet(logChan))
            /\ Before(ToSet(queue), ToSet(logChan))
        BY <1>1, GoOrder
      <4>2. QED
        BY <1>1, <2>3, <2>6, <3>2, <4>1 DEF Before
    <3>6. Mine("flusher")' = Mine("flusher") \cup (Logged' \ Logged)
      BY <1>1, <2>1, <2>3, <2>6 DEF Mine
    <3>7. Open("flusher")' \subseteq Open("flusher") \cup (Logged' \ Logged)
      BY <1>1, <2>1, <2>3, <2>6 DEF Open
    <3>8. /\ IsInjective(queue) /\ IsInjective(sends["flusher"].batch)
          /\ Increasing(queue) /\ Increasing(sends["flusher"].batch)
      BY <1>1, GoOrder
    <3>9. QED
      BY <1>1, <2>4, <2>5, <3>1, <3>3, <3>4, <3>5, <3>6, <3>7, <3>8, GoMoves
  <2>10. ShapeInv'
    BY <1>1, <1>2, <1>3, <1>5, <2>8 DEF ShapeInv, GoShape, NodeShape, RustShape, PyShape
  <2>11. QED
    BY <2>4, <2>9, <2>10 DEF IInv
<1>6. QED
  BY <1>1, <1>4, <1>5

\* GoReceive: the worker takes a record off the channel, and may attempt to send.
LEMMA GoReceiveStep ==
    ASSUME IInv, GoReceive
    PROVE  IInv'
<1> DEFINE head    == Head(logChan)
           pending == Append(queue, head)
<1>1. /\ TypeOK /\ ShapeInv /\ RecordsInv /\ sdk = "go" /\ worker \in {"loop", "drain"}
      /\ sends["flusher"] = Idle /\ logChan # <<>> /\ logChan' = Tail(logChan)
      /\ UNCHANGED <<sdk, cut, serverVars, logged, retrying, worker, phase, dropped>>
      /\ \/ queue' = <<>> /\ sends' = [sends EXCEPT !["flusher"] = Waiting(pending, 1)]
         \/ queue' = pending /\ UNCHANGED sends
  BY DEF IInv, GoReceive, GoWorks
<1>2. /\ "flusher" \in Sender /\ faults \in Nat /\ logged \in Nat
      /\ logChan \in Seq(Record) /\ queue \in Seq(Record)
      /\ InFlight("flusher") = {} /\ sends["flusher"].answer = "none"
      /\ sends["flusher"].phase # "waiting" /\ sends["flusher"].batch = <<>>
  BY <1>1, SendValues, EmptySequence, ClientAssumption DEF Sender, TypeOK, InFlight
<1>3. /\ IsInjective(logChan) /\ IsInjective(queue) /\ Increasing(logChan) /\ Increasing(queue)
      /\ ToSet(logChan) \cap ToSet(queue) = {}
      /\ Before(ToSet(queue), ToSet(logChan)) /\ Len(logChan) <= ChannelCapacity
  BY <1>1, GoOrder
<1>4. /\ head \in Record /\ logChan' \in Seq(Record) /\ Len(logChan) \in Nat
      /\ Len(logChan') = Len(logChan) - 1
      /\ ToSet(logChan) = {head} \cup ToSet(logChan')
      /\ IsInjective(logChan') /\ head \notin ToSet(logChan')
      /\ Increasing(logChan') /\ Before({head}, ToSet(logChan'))
  BY <1>1, <1>2, <1>3, TailFacts
<1>5. pending = Append(queue, head)
  OBVIOUS
<1>6. \/ queue' = <<>> /\ sends' = [sends EXCEPT !["flusher"] = Waiting(pending, 1)]
      \/ queue' = pending /\ UNCHANGED sends
  BY <1>1
<1> HIDE DEF head, pending
<1>7. /\ pending \in Seq(Record) /\ ToSet(pending) = ToSet(queue) \cup {head}
      /\ IsInjective(pending) /\ Increasing(pending)
      /\ ToSet(pending) \cap ToSet(logChan') = {} /\ Before(ToSet(pending), ToSet(logChan'))
  <2>1. head \notin ToSet(queue) /\ Before(ToSet(queue), {head})
    BY <1>3, <1>4 DEF Before
  <2>2. /\ pending \in Seq(Record) /\ ToSet(pending) = ToSet(queue) \cup {head}
        /\ IsInjective(pending) /\ Increasing(pending)
    BY <1>2, <1>3, <1>4, <1>5, <2>1, AppendFacts
  <2>3. ToSet(pending) \cap ToSet(logChan') = {}
    BY <1>3, <1>4, <2>2
  <2>4. Before(ToSet(pending), ToSet(logChan'))
    BY <1>3, <1>4, <2>2 DEF Before
  <2>5. QED
    BY <2>2, <2>3, <2>4
<1>8. Waiting(pending, 1) \in Send
  BY <1>7, SendValues
<1>9. /\ sends' \in [Sender -> Send] /\ queue' \in Seq(Record)
      /\ \A t \in Sender \ {"flusher"} : sends'[t] = sends[t]
      /\ \/ queue' = <<>> /\ sends'["flusher"] = Waiting(pending, 1)
         \/ queue' = pending /\ sends'["flusher"] = sends["flusher"]
  <2>1. CASE queue' = <<>> /\ sends' = [sends EXCEPT !["flusher"] = Waiting(pending, 1)]
    BY <1>1, <1>2, <1>8, <2>1, OneSends, EmptySequence
  <2>2. CASE queue' = pending /\ UNCHANGED sends
    BY <1>1, <1>2, <1>7, <2>2 DEF TypeOK
  <2>3. QED
    BY <1>6, <2>1, <2>2
<1>10. TypeOK'
  BY <1>1, <1>4, <1>9 DEF TypeOK
<1>11. ClientActs("flusher")
  BY <1>1, <1>2, <1>9 DEF ClientActs
<1>12. \/ /\ queue' = <<>> /\ ToSet(queue') = {} /\ InFlight("flusher")' = ToSet(pending)
          /\ sends'["flusher"].batch = pending
          /\ sends'["flusher"].answer = "none" /\ sends'["flusher"].attempt # 2
       \/ /\ queue' = pending /\ sends'["flusher"] = sends["flusher"]
          /\ InFlight("flusher")' = {} /\ sends'["flusher"].batch = <<>>
  BY <1>2, <1>7, <1>9, SendValues, EmptySequence DEF InFlight
<1>13. RecordsInv'
  <2>1. Len(logChan') <= ChannelCapacity
    BY <1>3, <1>4, ClientAssumption
  <2>2. /\ IsInjective(queue') /\ IsInjective(sends'["flusher"].batch)
        /\ Increasing(queue') /\ Increasing(sends'["flusher"].batch)
    BY <1>7, <1>12, EmptySequence
  <2>3. /\ ToSet(logChan') \cap ToSet(queue') = {}
        /\ InFlight("flusher")' \cap (ToSet(logChan') \cup ToSet(queue')) = {}
    BY <1>7, <1>12
  <2>4. /\ Before(InFlight("flusher")', ToSet(queue') \cup ToSet(logChan'))
        /\ Before(ToSet(queue'), ToSet(logChan'))
    BY <1>7, <1>12 DEF Before
  <2>5. Logged' = Logged
    BY <1>1 DEF Logged
  <2>6. Mine("flusher")' = Mine("flusher") \cup (Logged' \ Logged)
    BY <1>2, <1>4, <1>7, <1>12, <2>5 DEF Mine
  <2>7. Open("flusher")' \subseteq Open("flusher") \cup (Logged' \ Logged)
    <3>1. Open("flusher")' \subseteq Mine("flusher")'
      BY DEF Open, Mine
    <3>2. Open("flusher") = Mine("flusher")
      BY <1>2 DEF Open, Mine
    <3>3. QED
      BY <2>6, <3>1, <3>2
  <2>8. sends'["flusher"] = sends["flusher"] \/
            (sends'["flusher"].answer = "none" /\ sends'["flusher"].attempt # 2)
    BY <1>12
  <2>9. QED
    BY <1>1, <1>4, <1>10, <1>11, <2>1, <2>2, <2>3, <2>4, <2>6, <2>7, <2>8, GoMoves
<1>14. ShapeInv'
  <2>1. \A t \in Sender : SendShape(t)'
    BY <1>1, <1>2, <1>7, <1>9, ShapesKept
  <2>2. GoShape'
    BY <1>1, <1>7, <1>9, SendValues DEF ShapeInv, GoShape, Sender
  <2>3. QED
    BY <1>1, <2>1, <2>2 DEF ShapeInv, NodeShape, RustShape, PyShape
<1>15. QED
  BY <1>10, <1>13, <1>14 DEF IInv

-----------------------------------------------------------------------------
(***************************************************************************)
(* The steps that take an answer                                           *)
(***************************************************************************)
\* The cap leaves the newest records and counts the others.
LEMMA NewestFacts ==
    ASSUME NEW backlog \in Seq(Record)
    PROVE  /\ Overflow(backlog) \in Nat /\ Newest(backlog) \in Seq(Record)
           /\ Len(Newest(backlog)) <= MaxQueueSize
           /\ ToSet(Newest(backlog)) \subseteq ToSet(backlog)
           /\ backlog = <<>> => Newest(backlog) = <<>>
           /\ IsInjective(backlog) => IsInjective(Newest(backlog))
           /\ Increasing(backlog) => Increasing(Newest(backlog))
           /\ \E D \in SUBSET Record :
                 /\ IsFiniteSet(D) /\ Cardinality(D) \in Nat
                 /\ Cardinality(D) <= Overflow(backlog)
                 /\ ToSet(backlog) \subseteq ToSet(Newest(backlog)) \cup D
<1> DEFINE n     == Overflow(backlog)
           front == SubSeq(backlog, 1, n)
           back  == SubSeq(backlog, n + 1, Len(backlog))
<1>1. Len(backlog) \in Nat /\ MaxQueueSize \in Nat
  BY ClientAssumption
<1>2. n \in 0..Len(backlog) /\ Len(backlog) - n <= MaxQueueSize
  BY <1>1 DEF Overflow
<1>3. Newest(backlog) = back
  BY DEF Newest
<1> HIDE DEF n
<1>4. /\ front \in Seq(Record) /\ Len(front) = n
      /\ back \in Seq(Record) /\ Len(back) = Len(backlog) - n
      /\ ToSet(backlog) = ToSet(front) \cup ToSet(back)
      /\ IsInjective(backlog) => IsInjective(back)
      /\ Increasing(backlog) => Increasing(back)
  BY <1>2, SuffixFacts
<1> HIDE DEF front, back
<1>5. /\ ToSet(front) \in SUBSET Record /\ IsFiniteSet(ToSet(front))
      /\ Cardinality(ToSet(front)) \in Nat /\ Cardinality(ToSet(front)) <= n
  BY <1>4, SetOfSequence
<1>6. ToSet(backlog) \subseteq ToSet(back) \cup ToSet(front)
  BY <1>4
<1>7. backlog = <<>> => back = <<>>
  BY <1>1, <1>2, <1>4
<1>8. \E D \in SUBSET Record :
          /\ IsFiniteSet(D) /\ Cardinality(D) \in Nat /\ Cardinality(D) <= n
          /\ ToSet(backlog) \subseteq ToSet(back) \cup D
  BY <1>5, <1>6
<1>9. n \in Nat /\ Len(back) <= MaxQueueSize /\ ToSet(back) \subseteq ToSet(backlog)
  BY <1>1, <1>2, <1>4
<1>10. QED
  BY <1>3, <1>4, <1>7, <1>8, <1>9 DEF n

\* A sender that is released has nothing in hand.
LEMMA ReleaseFacts ==
    ASSUME TypeOK, NEW s \in Sender, Release(s)
    PROVE  /\ sends' \in [Sender -> Send] /\ sends'[s] = Idle /\ InFlight(s)' = {}
           /\ \A t \in Sender \ {s} : sends'[t] = sends[t]
<1>1. sends' = [sends EXCEPT ![s] = Idle] /\ Idle \in Send /\ Idle.batch = <<>>
  BY SendValues DEF Release
<1>2. /\ sends' \in [Sender -> Send] /\ sends'[s] = Idle
      /\ \A t \in Sender \ {s} : sends'[t] = sends[t]
  BY <1>1, OneSends
<1>3. QED
  BY <1>1, <1>2, EmptySequence DEF InFlight

\* Records that go back to the queue are in one place again, and still unsettled.
LEMMA TakenBack ==
    ASSUME TypeOK, TypeOK', RecordsInv, NEW s \in Sender, ClientActs(s),
           UNCHANGED <<logged, logChan>>, sends'[s] = Idle, IsInjective(queue'),
           ToSet(queue') \subseteq ToSet(queue) \cup
               IF sends[s].answer = "ok" THEN {} ELSE InFlight(s)
    PROVE  NetInv' /\ AnswerInv' /\ PlaceInv' /\ CopiesInv'
<1>1. /\ sends'[s].batch = <<>> /\ InFlight(s)' = {} /\ IsInjective(<<>>)
      /\ sends'[s].answer = "none" /\ sends'[s].attempt # 2
  BY SendValues, EmptySequence DEF InFlight
<1>2. NetInv'
  BY NetKept DEF RecordsInv
<1>3. AnswerInv'
  BY <1>1, AnswerKept DEF RecordsInv
<1>4. PlaceInv'
  <2>1. IsInjective(logChan') /\ ToSet(logChan') \cap ToSet(queue') = {}
    BY DEF RecordsInv, PlaceInv
  <2>2. Mine(s)' \subseteq Mine(s)
    BY <1>1 DEF Mine
  <2>3. QED
    BY <1>1, <2>1, <2>2, PlaceKept DEF RecordsInv
<1>5. CopiesInv'
  <2>1. Open(s)' \subseteq Open(s)
    BY <1>1 DEF Open
  <2>2. QED
    BY <2>1, CopiesKept DEF RecordsInv
<1>6. QED
  BY <1>2, <1>3, <1>4, <1>5

\* What the Go and the Node client make of an answer: a batch that failed goes back
\* to the front, what is over the cap and what was rejected is counted.
LEMMA CappedStep ==
    ASSUME TypeOK, TypeOK', ShapeInv, RecordsInv, ClientActs("flusher"),
           sdk \in {"go", "node"}, UNCHANGED <<logged, logChan>>,
           Answered("flusher"), sends'["flusher"] = Idle,
           NEW backlog \in Seq(Record), queue' = Newest(backlog),
           backlog = IF sends["flusher"].answer = "failed"
                     THEN Requeued(sends["flusher"].batch) ELSE queue,
           dropped' = dropped + Overflow(backlog)
                      + IF sends["flusher"].answer = "rejected"
                        THEN Len(sends["flusher"].batch) ELSE 0
    PROVE  RecordsInv'
<1> DEFINE send == sends["flusher"]
<1>1. /\ "flusher" \in Sender /\ send.batch \in Seq(Record) /\ queue \in Seq(Record)
      /\ send.answer \in {"ok", "failed", "rejected"} /\ logged' = logged
      /\ InFlight("flusher") = ToSet(send.batch) /\ InFlight("flusher")' = {}
  <2>1. InFlight("flusher")' = {}
    BY SendValues, EmptySequence DEF InFlight
  <2>2. QED
    BY <2>1, Counters, Answering DEF Sender
<1>2. /\ IsInjective(send.batch) /\ IsInjective(queue)
      /\ InFlight("flusher") \cap ToSet(queue) = {}
      /\ Increasing(send.batch) /\ Increasing(queue)
      /\ Before(InFlight("flusher"), ToSet(queue) \cup ToSet(logChan))
      /\ Before(ToSet(queue), ToSet(logChan))
      /\ Increasing(logChan)
  BY <1>1 DEF RecordsInv, PlaceInv, OrderInv
<1>3. /\ IsInjective(backlog) /\ Increasing(backlog)
      /\ ToSet(backlog) = ToSet(queue) \cup
             IF send.answer = "failed" THEN InFlight("flusher") ELSE {}
  <2>1. CASE send.answer = "failed"
    <3>1. backlog = send.batch \o queue
      BY <2>1 DEF Requeued
    <3>2. Before(ToSet(send.batch), ToSet(queue)) /\ ToSet(send.batch) \cap ToSet(queue) = {}
      BY <1>1, <1>2 DEF Before
    <3>3. /\ IsInjective(send.batch \o queue) /\ Increasing(send.batch \o queue)
          /\ ToSet(send.batch \o queue) = ToSet(send.batch) \cup ToSet(queue)
      BY <1>1, <1>2, <3>2, ConcatFacts
    <3>4. ToSet(backlog) = ToSet(queue) \cup InFlight("flusher")
      BY <1>1, <3>1, <3>3
    <3>5. QED
      BY <2>1, <3>1, <3>3, <3>4
  <2>2. CASE send.answer # "failed"
    BY <1>2, <2>2
  <2>3. QED
    BY <2>1, <2>2
<1>4. /\ Overflow(backlog) \in Nat /\ Newest(backlog) \in Seq(Record)
      /\ Len(Newest(backlog)) <= MaxQueueSize
      /\ ToSet(Newest(backlog)) \subseteq ToSet(backlog)
      /\ IsInjective(Newest(backlog)) /\ Increasing(Newest(backlog))
      /\ \E D \in SUBSET Record :
            /\ IsFiniteSet(D) /\ Cardinality(D) \in Nat
            /\ Cardinality(D) <= Overflow(backlog)
            /\ ToSet(backlog) \subseteq ToSet(Newest(backlog)) \cup D
  BY <1>3, NewestFacts
<1>5. NetInv' /\ AnswerInv' /\ PlaceInv' /\ CopiesInv'
  <2>1. ToSet(queue') \subseteq ToSet(queue) \cup
            IF send.answer = "ok" THEN {} ELSE InFlight("flusher")
    BY <1>3, <1>4
  <2>2. IsInjective(queue')
    BY <1>4
  <2>3. QED
    BY <1>1, <2>1, <2>2, TakenBack
<1>6. LossInv'
  <2>1. PICK D \in SUBSET Record :
            /\ IsFiniteSet(D) /\ Cardinality(D) \in Nat
            /\ Cardinality(D) <= Overflow(backlog)
            /\ ToSet(backlog) \subseteq ToSet(Newest(backlog)) \cup D
    BY <1>4
  <2>2. /\ IsFiniteSet(InFlight("flusher")) /\ Cardinality(InFlight("flusher")) \in Nat
        /\ Len(send.batch) \in Nat /\ Cardinality(InFlight("flusher")) <= Len(send.batch)
    BY <1>1, SetOfSequence
  <2>3. dropped \in Nat
    BY DEF TypeOK
  <2>4. CASE send.answer = "rejected"
    <3> DEFINE E == D \cup InFlight("flusher")
    <3>1. /\ IsFiniteSet(E) /\ IsFiniteSet(D \cap InFlight("flusher"))
          /\ Cardinality(E) = Cardinality(D) + Cardinality(InFlight("flusher"))
                                - Cardinality(D \cap InFlight("flusher"))
      BY <2>1, <2>2, FS_Union, FS_Intersection
    <3>2. Cardinality(D \cap InFlight("flusher")) \in Nat /\ Cardinality(E) \in Nat
      BY <3>1, FS_CardinalityType
    <3>3. dropped' = dropped + Overflow(backlog) + Len(send.batch)
      BY <2>4
    <3> HIDE DEF E
    <3>4. dropped + Cardinality(E) <= dropped'
      BY SMTT(30), <1>4, <2>1, <2>2, <2>3, <3>1, <3>2, <3>3
    <3>5. \A r \in Record : r \in Mine("flusher") \cup (Logged' \ Logged) =>
              r \in Mine("flusher")' \cup E \cup Forgiven \/ stored[r] > 0
      BY <1>1, <1>3, <2>1 DEF Mine, E, Logged
    <3>6. QED
      BY <1>1, <3>1, <3>4, <3>5, LossKept DEF RecordsInv
  <2>5. CASE send.answer # "rejected"
    <3>1. dropped' = dropped + Overflow(backlog) + 0
      BY <2>5
    <3>2. dropped + Cardinality(D) <= dropped'
      BY <1>4, <2>1, <2>3, <3>1
    <3>3. send.answer = "ok" => \A r \in InFlight("flusher") : stored[r] > 0
      BY <1>1 DEF RecordsInv, AnswerInv
    <3>4. \A r \in Record : r \in Mine("flusher") \cup (Logged' \ Logged) =>
              r \in Mine("flusher")' \cup D \cup Forgiven \/ stored[r] > 0
      BY <1>1, <1>3, <2>1, <2>5, <3>3 DEF Mine, Logged
    <3>5. QED
      BY <1>1, <2>1, <3>2, <3>4, LossKept DEF RecordsInv
  <2>6. QED
    BY <2>4, <2>5
<1>7. sdk' = sdk /\ UNCHANGED <<stored, rejected>>
  BY DEF ClientActs
<1>8. BoundInv'
  BY <1>4, <1>7 DEF RecordsInv, BoundInv
<1>9. OrderInv'
  <2>1. ToSet(queue') \subseteq ToSet(queue) \cup InFlight("flusher")
    BY <1>3, <1>4
  <2>2. Before(ToSet(queue'), ToSet(logChan'))
    BY <1>2, <2>1 DEF Before
  <2>3. Increasing(sends'["flusher"].batch) /\ Increasing(queue')
    BY <1>4, SendValues, EmptySequence
  <2>4. QED
    BY <1>1, <1>2, <1>7, <2>2, <2>3 DEF OrderInv, Before
<1>10. NewerInv'
  <2>1. ASSUME Untroubled' PROVE Untroubled /\ send.answer # "failed"
    <3>1. faults \in Nat /\ faults' \in Nat /\ faults <= faults'
      BY ClientAssumption DEF TypeOK, ClientActs
    <3>2. faults = 0 /\ Untroubled
      BY <1>7, <2>1, <3>1 DEF Untroubled
    <3>3. QED
      BY <1>1, <3>1, <3>2 DEF RecordsInv, AnswerInv
  <2>2. send.answer # "failed" => ToSet(queue') \subseteq ToSet(queue)
    BY <1>3, <1>4
  <2>3. QED
    BY <1>7, <2>1, <2>2 DEF RecordsInv, NewerInv
<1>11. QED
  BY <1>5, <1>6, <1>8, <1>9, <1>10 DEF RecordsInv

\* GoAnswered: what the last attempt leaves goes with the worker.
LEMMA GoAnsweredStep ==
    ASSUME IInv, GoAnswered
    PROVE  IInv'
<1> DEFINE send    == sends["flusher"]
           backlog == IF send.answer = "failed" THEN Requeued(send.batch) ELSE <<>>
<1>1. /\ TypeOK /\ ShapeInv /\ RecordsInv /\ sdk = "go" /\ phase \notin {"closed", "panicked"}
      /\ Answered("flusher") /\ Release("flusher")
      /\ retrying' = (send.answer = "failed")
      /\ dropped' = dropped + Overflow(backlog)
                    + IF send.answer = "rejected" THEN Len(send.batch) ELSE 0
      /\ \/ worker = "last" /\ queue' = <<>> /\ worker' = "done"
         \/ worker # "last" /\ queue' = Newest(backlog) /\ UNCHANGED worker
      /\ UNCHANGED <<sdk, cut, serverVars, logged, logChan, phase>>
  BY DEF IInv, GoAnswered, Running
<1>2. /\ "flusher" \in Sender /\ faults \in Nat /\ logged \in Nat /\ dropped \in Nat
      /\ send.answer # "none" /\ send.phase = "waiting" /\ send.batch \in Seq(Record)
      /\ Len(send.batch) \in Nat
  BY <1>1, Counters, Answering DEF Sender
<1>3. queue = <<>> /\ phase \in {"open", "closing", "joined"}
  BY <1>1, <1>2 DEF ShapeInv, GoShape, TypeOK
<1>4. backlog \in Seq(Record)
  BY <1>2, <1>3 DEF Requeued
<1>5. backlog = IF send.answer = "failed" THEN Requeued(send.batch) ELSE queue
  BY <1>3
<1>6. /\ dropped' = dropped + Overflow(backlog)
                    + IF send.answer = "rejected" THEN Len(send.batch) ELSE 0
      /\ \/ worker = "last" /\ queue' = <<>> /\ worker' = "done"
         \/ worker # "last" /\ queue' = Newest(backlog) /\ UNCHANGED worker
      /\ send.answer # "failed" => backlog = <<>>
  BY <1>1
<1> HIDE DEF backlog
<1>7. /\ Overflow(backlog) \in Nat /\ Newest(backlog) \in Seq(Record)
      /\ backlog = <<>> => Newest(backlog) = <<>>
  BY <1>4, NewestFacts
<1>8. /\ sends' \in [Sender -> Send] /\ sends'["flusher"] = Idle /\ InFlight("flusher")' = {}
      /\ \A t \in Sender \ {"flusher"} : sends'[t] = sends[t]
  BY <1>1, <1>2, ReleaseFacts
<1>9. dropped' \in Nat /\ queue' \in Seq(Record)
  <2>1. dropped' \in Nat
    BY <1>2, <1>6, <1>7
  <2>2. queue' \in Seq(Record)
    BY <1>6, <1>7, EmptySequence
  <2>3. QED
    BY <2>1, <2>2
<1>10. TypeOK'
  BY <1>1, <1>8, <1>9 DEF TypeOK
<1>11. ClientActs("flusher")
  BY <1>1, <1>2, <1>8 DEF ClientActs
<1>12. RecordsInv'
  <2>1. CASE queue' = Newest(backlog)
    BY <1>1, <1>4, <1>5, <1>6, <1>8, <1>10, <1>11, <2>1, CappedStep
  <2>2. CASE worker = "last" /\ queue' = <<>> /\ send.answer = "failed"
    <3>1. IsInjective(queue') /\ ToSet(queue') = {} /\ Increasing(queue')
      BY <2>2, EmptySequence
    <3>2. NetInv' /\ AnswerInv' /\ PlaceInv' /\ CopiesInv'
      BY <1>1, <1>2, <1>8, <1>10, <1>11, <3>1, TakenBack
    <3>3. LossInv'
      <4>1. phase' # "open"
        BY <1>1, <2>2 DEF ShapeInv, GoShape
      <4>2. faults' # 0
        BY <1>1, <1>2, <2>2 DEF RecordsInv, AnswerInv
      <4>3. QED
        BY <4>1, <4>2 DEF LossInv, Untroubled
    <3>4. BoundInv' /\ NewerInv'
      BY <1>1 DEF RecordsInv, BoundInv, NewerInv
    <3>5. OrderInv'
      <4>1. Increasing(sends'["flusher"].batch)
        BY <1>8, SendValues, EmptySequence
      <4>2. Increasing(logChan')
        BY <1>1, GoOrder
      <4>3. QED
        BY <1>8, <3>1, <4>1, <4>2 DEF OrderInv, Before
    <3>6. QED
      BY <3>2, <3>3, <3>4, <3>5 DEF RecordsInv
  <2>3. QED
    BY <1>6, <1>7, <2>1, <2>2
<1>13. ShapeInv'
  <2>1. \A t \in Sender : SendShape(t)'
    BY <1>1, <1>2, <1>8, ShapesKept
  <2>2. sends'["app"] = sends["app"] /\ sends'["main"] = sends["main"]
    BY <1>8 DEF Sender
  <2>3. worker # "done"
    BY <1>1, <1>2, SendValues DEF ShapeInv, GoShape
  <2>4. GoShape'
    BY <1>1, <1>3, <1>6, <1>8, <2>2, <2>3, SendValues DEF ShapeInv, GoShape
  <2>5. QED
    BY <1>1, <2>1, <2>4 DEF ShapeInv, NodeShape, RustShape, PyShape
<1>14. QED
  BY <1>10, <1>12, <1>13 DEF IInv

\* NodeAnswered: a program that waits for the answer can exit now.
LEMMA NodeAnsweredStep ==
    ASSUME IInv, NodeAnswered
    PROVE  IInv'
<1> DEFINE send    == sends["flusher"]
           backlog == IF send.answer = "failed" THEN Requeued(send.batch) ELSE queue
<1>1. /\ TypeOK /\ ShapeInv /\ RecordsInv /\ sdk = "node" /\ phase \notin {"closed", "panicked"}
      /\ Answered("flusher") /\ Release("flusher")
      /\ queue' = Newest(backlog)
      /\ dropped' = dropped + Overflow(backlog)
                    + IF send.answer = "rejected" THEN Len(send.batch) ELSE 0
      /\ phase' = IF phase = "closing" THEN "closed" ELSE phase
      /\ UNCHANGED <<sdk, logChan, retrying, worker, serverVars, logged, cut>>
  BY DEF IInv, NodeAnswered, Running
<1>2. /\ "flusher" \in Sender /\ faults \in Nat /\ logged \in Nat /\ dropped \in Nat
      /\ send.batch \in Seq(Record) /\ Len(send.batch) \in Nat /\ queue \in Seq(Record)
  BY <1>1, Counters, Answering DEF Sender
<1>3. backlog \in Seq(Record)
  BY <1>2 DEF Requeued
<1>4. /\ queue' = Newest(backlog)
      /\ backlog = IF send.answer = "failed" THEN Requeued(send.batch) ELSE queue
      /\ dropped' = dropped + Overflow(backlog)
                    + IF send.answer = "rejected" THEN Len(send.batch) ELSE 0
  BY <1>1
<1> HIDE DEF backlog
<1>5. /\ Overflow(backlog) \in Nat /\ Newest(backlog) \in Seq(Record)
  BY <1>3, NewestFacts
<1>6. /\ sends' \in [Sender -> Send] /\ sends'["flusher"] = Idle
      /\ \A t \in Sender \ {"flusher"} : sends'[t] = sends[t]
  BY <1>1, <1>2, ReleaseFacts
<1>7. dropped' \in Nat
  BY <1>2, <1>4, <1>5
<1>8. TypeOK'
  BY <1>1, <1>4, <1>5, <1>6, <1>7 DEF TypeOK
<1>9. RecordsInv'
  <2>1. ClientActs("flusher")
    BY <1>1, <1>2, <1>6 DEF ClientActs
  <2>2. QED
    BY <1>1, <1>3, <1>4, <1>6, <1>8, <2>1, CappedStep
<1>10. ShapeInv'
  <2>1. \A t \in Sender : SendShape(t)'
    BY <1>1, <1>2, <1>6, ShapesKept
  <2>2. NodeShape'
    BY <1>1, <1>6, SendValues DEF ShapeInv, NodeShape, Sender
  <2>3. QED
    BY <1>1, <2>1, <2>2 DEF ShapeInv, GoShape, RustShape, PyShape
<1>11. QED
  BY <1>8, <1>9, <1>10 DEF IInv

\* RustAnswered: a batch that failed goes back to the front, over the cap or not.
LEMMA RustAnsweredStep ==
    ASSUME IInv, NEW s \in Sender, RustAnswered(s)
    PROVE  IInv'
<1> DEFINE send == sends[s]
<1>1. /\ TypeOK /\ ShapeInv /\ RecordsInv /\ sdk = "rust"
      /\ Answered(s) /\ Release(s)
      /\ queue' = IF send.answer = "failed" THEN send.batch \o queue ELSE queue
      /\ UNCHANGED <<sdk, logChan, retrying, worker, serverVars, logged, dropped, phase, cut>>
  BY DEF IInv, RustAnswered, Requeued
<1>2. /\ faults \in Nat /\ logged \in Nat /\ dropped \in Nat /\ queue \in Seq(Record)
      /\ send.batch \in Seq(Record) /\ InFlight(s) = ToSet(send.batch)
      /\ send.answer \in {"ok", "failed", "rejected"}
      /\ Len(queue) \in Nat /\ Len(send.batch) \in Nat
  BY <1>1, Counters, Answering
<1>3. /\ sends' \in [Sender -> Send] /\ sends'[s] = Idle /\ InFlight(s)' = {}
      /\ \A t \in Sender \ {s} : sends'[t] = sends[t]
  BY <1>1, ReleaseFacts
<1>4. /\ IsInjective(queue) /\ IsInjective(send.batch)
      /\ ToSet(send.batch) \cap ToSet(queue) = {}
  BY <1>1, <1>2 DEF RecordsInv, PlaceInv
<1>5. /\ queue' \in Seq(Record) /\ IsInjective(queue')
      /\ ToSet(queue') = ToSet(queue) \cup
             IF send.answer = "failed" THEN InFlight(s) ELSE {}
      /\ Len(queue') = Len(queue) + IF send.answer = "failed" THEN Len(send.batch) ELSE 0
  <2>1. CASE send.answer = "failed"
    <3>1. /\ send.batch \o queue \in Seq(Record) /\ IsInjective(send.batch \o queue)
          /\ ToSet(send.batch \o queue) = ToSet(send.batch) \cup ToSet(queue)
          /\ Len(send.batch \o queue) = Len(send.batch) + Len(queue)
      BY <1>2, <1>4, ConcatFacts
    <3>2. queue' = send.batch \o queue
      BY <1>1, <2>1
    <3>3. ToSet(queue') = ToSet(queue) \cup InFlight(s)
      BY <1>2, <3>1, <3>2
    <3>4. Len(queue') = Len(queue) + Len(send.batch)
      BY <1>2, <3>1, <3>2
    <3>5. QED
      BY <2>1, <3>1, <3>2, <3>3, <3>4
  <2>2. CASE send.answer # "failed"
    BY <1>1, <1>2, <1>4, <2>2
  <2>3. QED
    BY <2>1, <2>2
<1>6. TypeOK'
  BY <1>1, <1>3, <1>5 DEF TypeOK
<1>7. ClientActs(s)
  BY <1>1, <1>2, <1>3 DEF ClientActs
<1>8. NetInv' /\ AnswerInv' /\ PlaceInv' /\ CopiesInv'
  <2>1. ToSet(queue') \subseteq ToSet(queue) \cup
            IF send.answer = "ok" THEN {} ELSE InFlight(s)
    BY <1>5
  <2>2. QED
    BY <1>1, <1>3, <1>5, <1>6, <1>7, <2>1, TakenBack
<1>9. LossInv'
  <2>1. IsFiniteSet({}) /\ dropped + Cardinality({}) <= dropped'
    <3>1. IsFiniteSet({}) /\ Cardinality({}) = 0
      BY FS_EmptySet
    <3>2. QED
      BY <1>1, <1>2, <3>1
  <2>2. /\ send.answer = "ok" => \A r \in InFlight(s) : stored[r] > 0
        /\ send.answer = "rejected" => \A r \in InFlight(s) : rejected[r] > 0
    BY <1>1 DEF RecordsInv, AnswerInv
  <2>3. ASSUME NEW r \in Record, r \in Mine(s) \cup (Logged' \ Logged)
        PROVE  r \in Mine(s)' \cup {} \cup Forgiven \/ stored[r] > 0
    <3>1. r \in Mine(s)
      BY <1>1, <2>3 DEF Logged
    <3>2. send.answer = "rejected" /\ r \in InFlight(s) => r \in Forgiven
      BY <1>1, <2>2 DEF Forgiven
    <3>3. r \in ToSet(logChan) \cup ToSet(queue) => r \in Mine(s)'
      BY <1>1, <1>5 DEF Mine
    <3>4. send.answer = "failed" /\ r \in InFlight(s) => r \in Mine(s)'
      BY <1>5 DEF Mine
    <3>5. QED
      BY <1>2, <2>2, <3>1, <3>2, <3>3, <3>4 DEF Mine
  <2>4. QED
    BY <1>1, <1>6, <1>7, <2>1, <2>3, LossKept DEF RecordsInv
<1>10. BoundInv'
  <2>1. /\ Len(queue) <= MaxQueueSize + Cardinality(Returned)
        /\ Len(logChan) <= ChannelCapacity /\ MaxQueueSize \in Nat
    BY <1>1, ClientAssumption DEF RecordsInv, BoundInv
  <2>2. IsFiniteSet(Returned) /\ Cardinality(Returned) \in Nat
    BY <1>1, ReturnedFacts
  <2>3. /\ IsFiniteSet(Returned') /\ Cardinality(Returned') \in Nat
    <3>1. Returned' \in SUBSET Record
      BY DEF Returned
    <3>2. IsFiniteSet(Record)
      BY ClientAssumption, FS_Interval DEF Record
    <3>3. QED
      BY <3>1, <3>2, FS_Subset, FS_CardinalityType
  <2>4. CASE send.answer # "failed"
    <3>1. Cardinality(Returned) <= Cardinality(Returned')
      BY <1>1, <1>3, <1>6, <1>7, ReturnedKept
    <3>2. Len(queue') = Len(queue)
      BY <1>2, <1>5, <2>4
    <3>3. Len(queue') <= MaxQueueSize + Cardinality(Returned')
      BY <1>2, <2>1, <2>2, <2>3, <3>1, <3>2
    <3>4. QED
      BY <1>1, <2>1, <3>3 DEF BoundInv
  <2>5. CASE send.answer = "failed"
    <3>1. \A r \in InFlight(s) : r \in Record /\ failed[r] > 0
      BY <1>1, <1>2, <2>5, SetOfSequence DEF RecordsInv, AnswerInv
    <3>2. InFlight(s) \cap Returned = {}
      BY DEF Returned
    <3>3. \A t \in Sender \ {s} : InFlight(t) \cap InFlight(s) = {} /\ InFlight(t)' = InFlight(t)
      BY <1>1, <1>3 DEF RecordsInv, PlaceInv, InFlight
    <3>4. Returned \cup InFlight(s) \in SUBSET Returned'
      BY <1>1, <1>3, <3>1, <3>3 DEF Returned
    <3>5. IsFiniteSet(InFlight(s)) /\ Cardinality(InFlight(s)) = Len(send.batch)
      BY <1>2, <1>4, SetOfSequence
    <3>6. Cardinality(Returned \cup InFlight(s))
            = Cardinality(Returned) + Cardinality(InFlight(s)) - Cardinality({})
      <4>1. Returned \cap InFlight(s) = {}
        BY <3>2
      <4>2. Cardinality(Returned \cup InFlight(s))
              = Cardinality(Returned) + Cardinality(InFlight(s))
                  - Cardinality(Returned \cap InFlight(s))
        BY <2>2, <3>5, FS_Union
      <4>3. QED
        BY <4>1, <4>2
    <3>7. Cardinality({}) = 0
      BY FS_EmptySet
    <3>8. Cardinality(Returned \cup InFlight(s)) <= Cardinality(Returned')
      BY <2>3, <3>4, FS_Subset
    <3>9. Len(queue') = Len(queue) + Len(send.batch)
      BY <1>5, <2>5
    <3>10. Len(queue') <= MaxQueueSize + Cardinality(Returned')
      BY <1>2, <2>1, <2>2, <2>3, <3>5, <3>6, <3>7, <3>8, <3>9
    <3>11. QED
      BY <1>1, <2>1, <3>10 DEF BoundInv
  <2>6. QED
    BY <2>4, <2>5
<1>11. OrderInv' /\ NewerInv'
  BY <1>1 DEF OrderInv, NewerInv
<1>12. ShapeInv'
  <2>1. \A t \in Sender : SendShape(t)'
    BY <1>3, <1>1, ShapesKept
  <2>2. RustShape'
    BY <1>1, <1>3, SendValues DEF ShapeInv, RustShape, Sender
  <2>3. QED
    BY <1>1, <2>1, <2>2 DEF ShapeInv, GoShape, NodeShape, PyShape
<1>13. QED
  BY <1>6, <1>8, <1>9, <1>10, <1>11, <1>12 DEF IInv, RecordsInv

\* PyAnswered: a batch that is not accepted is sent once more, then given up.
LEMMA PyAnsweredStep ==
    ASSUME IInv, NEW s \in Sender, PyAnswered(s)
    PROVE  IInv'
<1> DEFINE send  == sends[s]
           again == Waiting(send.batch, 2)
<1>1. /\ TypeOK /\ ShapeInv /\ RecordsInv /\ sdk = "python" /\ Answered(s)
      /\ phase \notin {"closed", "panicked"}
      /\ \/ /\ send.answer # "ok" /\ send.attempt = 1
            /\ sends' = [sends EXCEPT ![s] = again]
         \/ (send.answer = "ok" \/ send.attempt # 1) /\ Release(s)
      /\ UNCHANGED <<sdk, logChan, retrying, serverVars, logged, queue, worker, dropped,
                     phase, cut>>
  BY DEF IInv, PyAnswered, TriesAgain, Running
<1>2. /\ faults \in Nat /\ logged \in Nat /\ dropped \in Nat
      /\ send.batch \in Seq(Record) /\ InFlight(s) = ToSet(send.batch)
      /\ send.answer \in {"ok", "failed", "rejected"} /\ send.attempt \in {1, 2}
      /\ send.phase = "waiting"
  BY <1>1, Counters, Answering
<1>3. /\ again \in Send /\ again.batch = send.batch /\ again.answer = "none"
  BY <1>2, SendValues
<1>4. /\ sends' \in [Sender -> Send]
      /\ \A t \in Sender \ {s} : sends'[t] = sends[t]
      /\ \/ send.answer # "ok" /\ send.attempt = 1 /\ sends'[s] = again
         \/ (send.answer = "ok" \/ send.attempt = 2) /\ sends'[s] = Idle
  <2>1. CASE /\ send.answer # "ok" /\ send.attempt = 1
             /\ sends' = [sends EXCEPT ![s] = again]
    BY <1>1, <1>3, <2>1, OneSends
  <2>2. CASE (send.answer = "ok" \/ send.attempt # 1) /\ Release(s)
    BY <1>1, <1>2, <2>2, ReleaseFacts
  <2>3. QED
    BY <1>1, <2>1, <2>2
<1> HIDE DEF again
<1>5. \/ /\ send.answer # "ok" /\ send.attempt = 1 /\ sends'[s] = again
         /\ sends'[s].batch = send.batch /\ sends'[s].answer = "none"
         /\ InFlight(s)' = InFlight(s)
      \/ /\ send.answer = "ok" \/ send.attempt = 2
         /\ sends'[s] = Idle /\ sends'[s].batch = <<>> /\ sends'[s].answer = "none"
         /\ sends'[s].attempt # 2 /\ InFlight(s)' = {}
  BY <1>3, <1>4, SendValues, EmptySequence DEF InFlight
<1>6. TypeOK'
  BY <1>1, <1>4 DEF TypeOK
<1>7. ClientActs(s)
  BY <1>1, <1>2, <1>4 DEF ClientActs
<1>8. NetInv'
  BY <1>1, <1>6, <1>7, NetKept DEF RecordsInv
<1>9. \A r \in InFlight(s) :
        /\ r \in Record /\ failed[r] \in Nat /\ rejected[r] \in Nat
        /\ send.answer = "ok" => stored[r] > 0
        /\ send.answer # "ok" => failed[r] + rejected[r] >= send.attempt
  <2>1. \A r \in InFlight(s) : r \in Record /\ failed[r] \in Nat /\ rejected[r] \in Nat
    BY <1>1, <1>2, SetOfSequence DEF TypeOK
  <2>2. QED
    BY <1>1, <1>2, <2>1 DEF RecordsInv, AnswerInv
<1>10. AnswerInv'
  <2>1. sends'[s].attempt # 2 \/ \A r \in InFlight(s)' : failed[r] + rejected[r] >= 1
    BY <1>5, <1>9
  <2>2. QED
    BY <1>1, <1>5, <1>6, <1>7, <2>1, AnswerKept DEF RecordsInv
<1>11. PlaceInv'
  <2>1. /\ IsInjective(logChan') /\ IsInjective(queue') /\ IsInjective(send.batch)
        /\ ToSet(logChan') \cap ToSet(queue') = {}
        /\ InFlight(s) \cap (ToSet(logChan') \cup ToSet(queue')) = {}
    BY <1>1 DEF RecordsInv, PlaceInv
  <2>2. /\ IsInjective(sends'[s].batch) /\ InFlight(s)' \subseteq InFlight(s)
    BY <1>5, <2>1, EmptySequence
  <2>3. Mine(s)' \subseteq Mine(s)
    BY <1>1, <2>2 DEF Mine
  <2>4. QED
    BY <1>1, <1>6, <1>7, <2>1, <2>2, <2>3, PlaceKept DEF RecordsInv
<1>12. CopiesInv'
  <2>1. Open(s)' \subseteq Open(s)
    BY <1>1, <1>5 DEF Open
  <2>2. QED
    BY <1>1, <1>6, <1>7, <2>1, CopiesKept DEF RecordsInv
<1>13. LossInv'
  <2>1. IsFiniteSet({}) /\ dropped + Cardinality({}) <= dropped'
    <3>1. IsFiniteSet({}) /\ Cardinality({}) = 0
      BY FS_EmptySet
    <3>2. QED
      BY <1>1, <1>2, <3>1
  <2>2. ASSUME NEW r \in Record, r \in Mine(s) \cup (Logged' \ Logged)
        PROVE  r \in Mine(s)' \cup {} \cup Forgiven \/ stored[r] > 0
    <3>1. r \in Mine(s)
      BY <1>1, <2>2 DEF Logged
    <3>2. r \in ToSet(logChan) \cup ToSet(queue) => r \in Mine(s)'
      BY <1>1 DEF Mine
    <3>3. send.answer # "ok" /\ send.attempt = 2 /\ r \in InFlight(s) => r \in Forgiven
      BY <1>1, <1>9 DEF Forgiven
    <3>4. send.attempt = 1 /\ send.answer # "ok" /\ r \in InFlight(s) => r \in Mine(s)'
      BY <1>5 DEF Mine
    <3>5. QED
      BY <1>2, <1>9, <3>1, <3>2, <3>3, <3>4 DEF Mine
  <2>3. QED
    BY <1>1, <1>6, <1>7, <2>1, <2>2, LossKept DEF RecordsInv
<1>14. BoundInv' /\ OrderInv' /\ NewerInv'
  BY <1>1 DEF RecordsInv, BoundInv, OrderInv, NewerInv
<1>15. ShapeInv'
  <2>1. \A t \in Sender : SendShape(t)'
    <3>1. sends'[s] \in {sends[s], Idle, Due} \/ sends'[s] = Waiting(send.batch, 2)
      BY <1>4 DEF again
    <3>2. QED
      BY <1>1, <1>2, <1>4, <3>1, ShapesKept
  <2>2. /\ worker = "done" => s # "flusher"
        /\ phase \in {"open", "closing"} => s # "main"
    BY <1>1, <1>2, SendValues DEF ShapeInv, PyShape
  <2>3. /\ s # "flusher" => sends'["flusher"] = sends["flusher"]
        /\ s # "main" => sends'["main"] = sends["main"]
    BY <1>4 DEF Sender
  <2>4. s = "main" => sends["main"].phase # "due"
    BY <1>2
  <2>5. PyShape'
    BY <1>1, <2>2, <2>3, <2>4 DEF ShapeInv, PyShape
  <2>6. QED
    BY <1>1, <2>1, <2>5 DEF ShapeInv, GoShape, NodeShape, RustShape
<1>16. QED
  BY <1>6, <1>8, <1>10, <1>11, <1>12, <1>13, <1>14, <1>15 DEF IInv, RecordsInv

-----------------------------------------------------------------------------
(***************************************************************************)
(* The invariant holds in every behaviour                                  *)
(***************************************************************************)
\* The four clients start with nothing in hand.
LEMMA InitInv ==
    ASSUME Init
    PROVE  IInv
<1>1. /\ sdk \in Sdk /\ logged = 0 /\ cut = 0 /\ dropped = 0 /\ faults = 0 /\ late = {}
      /\ logChan = <<>> /\ queue = <<>> /\ sends = [s \in Sender |-> Idle]
      /\ retrying = FALSE /\ worker = "loop" /\ phase = "open"
      /\ stored = [r \in Record |-> 0]
      /\ failed = [r \in Record |-> 0] /\ rejected = [r \in Record |-> 0]
  BY DEF Init
<1>2. /\ MaxRecord \in Nat /\ MaxFaults \in Nat /\ MaxQueueSize \in Nat /\ ChannelCapacity \in Nat
  BY ClientAssumption
<1>3. /\ Idle \in Send /\ Idle.phase = "idle" /\ Idle.batch = <<>>
      /\ Idle.attempt = 0 /\ Idle.answer = "none"
  BY SendValues
<1>4. \A s \in Sender : sends[s] = Idle /\ sends[s].batch = <<>> /\ InFlight(s) = {}
  BY <1>1, <1>3, EmptySequence DEF InFlight
<1>5. ToSet(logChan) = {} /\ ToSet(queue) = {} /\ Logged = {} /\ Held = {}
  BY <1>1, <1>4, EmptySequence DEF Logged, Held
<1>6. TypeOK
  <2>1. {logged, cut} \subseteq 0..MaxRecord /\ faults \in 0..MaxFaults /\ dropped \in Nat
    BY <1>1, <1>2
  <2>2. logChan \in Seq(Record) /\ queue \in Seq(Record)
    BY <1>1, EmptySequence
  <2>3. sends \in [Sender -> Send]
    BY <1>1, <1>3
  <2>4. {stored, failed, rejected} \subseteq [Record -> Nat]
    BY <1>1
  <2>5. QED
    BY <1>1, <2>1, <2>2, <2>3, <2>4 DEF TypeOK
<1>7. ShapeInv
  BY <1>1, <1>3, <1>4, SendValues
  DEF ShapeInv, SendShape, GoShape, NodeShape, RustShape, PyShape, Sender
<1>8. PlaceInv
  BY <1>1, <1>4, <1>5, EmptySequence DEF PlaceInv
<1>9. NetInv
  BY <1>1, FS_EmptySet DEF NetInv
<1>10. AnswerInv
  BY <1>3, <1>4 DEF AnswerInv
<1>11. CopiesInv
  <2> SUFFICES ASSUME NEW r \in Record
               PROVE  stored[r] + Cardinality(LateWith(r))
                        <= failed[r] + IF r \in Unsettled THEN 0 ELSE 1
    BY DEF CopiesInv
  <2>1. LateWith(r) = {} /\ stored[r] = 0 /\ failed[r] = 0
    BY <1>1 DEF LateWith
  <2>2. Cardinality({}) = 0
    BY FS_EmptySet
  <2>3. QED
    BY <2>1, <2>2
<1>12. LossInv
  <2>1. Lost \ Forgiven = {} /\ Cardinality({}) = 0
    BY <1>5, FS_EmptySet DEF Lost
  <2>2. QED
    BY SMTT(30), <1>1, <2>1 DEF LossInv
<1>13. BoundInv
  <2>1. Cardinality(Returned) \in Nat
    BY <1>6, ReturnedFacts
  <2>2. QED
    BY <1>1, <1>2, <2>1, EmptySequence DEF BoundInv
<1>14. OrderInv
  <2>1. "flusher" \in Sender
    BY DEF Sender
  <2>2. QED
    BY <1>1, <1>4, <1>5, <2>1, EmptySequence DEF OrderInv, Before
<1>15. NewerInv
  BY <1>5 DEF NewerInv
<1>16. QED
  BY <1>6, <1>7, <1>8, <1>9, <1>10, <1>11, <1>12, <1>13, <1>14, <1>15 DEF IInv, RecordsInv

\* A step that changes nothing.
LEMMA StutterStep ==
    ASSUME IInv, UNCHANGED vars
    PROVE  IInv'
<1>1. TypeOK /\ ShapeInv /\ RecordsInv
  BY DEF IInv
<1>2. TypeOK'
  BY <1>1 DEF TypeOK
<1>3. ShapeInv'
  BY <1>1 DEF ShapeInv, SendShape, GoShape, NodeShape, RustShape, PyShape
<1>4. RecordsInv'
  <2>1. "flusher" \in Sender /\ ClientActs("flusher")
    BY <1>1, ClientAssumption DEF ClientActs, Sender, TypeOK
  <2>2. QED
    BY <1>1, <1>2, <2>1, QuietStep
<1>5. QED
  BY <1>2, <1>3, <1>4 DEF IInv

\* Each action of the network, the server and the four clients keeps the invariant.
LEMMA NextInv ==
    ASSUME IInv, [Next]_vars
    PROVE  IInv'
<1>1. CASE Server
  BY <1>1, ArriveLateStep, AcceptStep, RejectStep, FailStep DEF Server
<1>2. CASE Go
  BY <1>2, GoHandleStep, GoReceiveStep, GoTickStep, GoLastStep, GoAnsweredStep, GoCloseStep
  DEF Go
<1>3. CASE Node
  BY <1>3, NodeTrackStep, NodeFlushStep, NodeExitStep, NodeAnsweredStep DEF Node
<1>4. CASE Rust
  BY <1>4, RustTrackStep, RustExitStep, RustFlushStep, RustAnsweredStep DEF Rust
<1>5. CASE Python
  BY <1>5, PyTrackStep, PyShutdownStep, PyJoinStep, PyWakeStep, PyFlushStep, PyAnsweredStep
  DEF Python
<1>6. CASE UNCHANGED vars
  BY <1>6, StutterStep
<1>7. QED
  BY <1>1, <1>2, <1>3, <1>4, <1>5, <1>6 DEF Next

\* In every behaviour of a client the inductive invariant holds: whatever the
\* network and the other threads do, its records are accounted for.
THEOREM SdkInvariance == Spec => []IInv
<1>1. Init => IInv
  BY InitInv
<1>2. IInv /\ [Next]_vars => IInv'
  BY NextInv
<1>3. QED
  BY <1>1, <1>2, PTL DEF Spec

-----------------------------------------------------------------------------
(***************************************************************************)
(* What follows for the application                                        *)
(***************************************************************************)
\* Sequences and batches that share no record hold as many as they are long.
LEMMA HeldAreMany ==
    ASSUME TypeOK, PlaceInv
    PROVE  HeldOnce
<1> DEFINE A == ToSet(logChan)
           B == ToSet(queue)
           C == InFlight("flusher")
           D == InFlight("app")
           E == InFlight("main")
<1>1. \A s \in Sender : sends[s].batch \in Seq(Record) /\ IsInjective(sends[s].batch)
  BY DEF TypeOK, PlaceInv, Send
<1>2. /\ logChan \in Seq(Record) /\ IsInjective(logChan)
      /\ queue \in Seq(Record) /\ IsInjective(queue)
  BY DEF TypeOK, PlaceInv
<1>3. "flusher" \in Sender /\ "app" \in Sender /\ "main" \in Sender
  BY DEF Sender
<1>4. /\ IsFiniteSet(A) /\ Cardinality(A) = Len(logChan)
      /\ IsFiniteSet(B) /\ Cardinality(B) = Len(queue)
      /\ Len(logChan) \in Nat /\ Len(queue) \in Nat
  BY <1>2, SetOfSequence
<1>5. \A s \in Sender : /\ IsFiniteSet(InFlight(s)) /\ Len(sends[s].batch) \in Nat
                        /\ Cardinality(InFlight(s)) = Len(sends[s].batch)
  BY <1>1, SetOfSequence DEF InFlight
<1>6. /\ IsFiniteSet(C) /\ Cardinality(C) = Len(sends["flusher"].batch)
      /\ IsFiniteSet(D) /\ Cardinality(D) = Len(sends["app"].batch)
      /\ IsFiniteSet(E) /\ Cardinality(E) = Len(sends["main"].batch)
      /\ Cardinality(C) \in Nat /\ Cardinality(D) \in Nat /\ Cardinality(E) \in Nat
  BY <1>3, <1>5
<1>7. /\ A \cap B = {} /\ (A \cup B) \cap C = {} /\ (A \cup B \cup C) \cap D = {}
      /\ (A \cup B \cup C \cup D) \cap E = {}
  BY <1>3 DEF PlaceInv
<1>8. Held = A \cup B \cup C \cup D \cup E
  BY HeldRecords
<1> HIDE DEF A, B, C, D, E
<1>9. \A S, T : IsFiniteSet(S) /\ IsFiniteSet(T) /\ S \cap T = {} =>
          IsFiniteSet(S \cup T) /\ Cardinality(S \cup T) = Cardinality(S) + Cardinality(T)
  <2> TAKE S, T
  <2> HAVE IsFiniteSet(S) /\ IsFiniteSet(T) /\ S \cap T = {}
  <2>1. /\ IsFiniteSet(S \cup T)
        /\ Cardinality(S \cup T) = Cardinality(S) + Cardinality(T) - Cardinality(S \cap T)
    BY FS_Union
  <2>2. Cardinality(S \cap T) = 0
    BY FS_EmptySet
  <2>3. Cardinality(S) \in Nat /\ Cardinality(T) \in Nat
    BY FS_CardinalityType
  <2>4. QED
    BY <2>1, <2>2, <2>3
<1>10. IsFiniteSet(A \cup B) /\ Cardinality(A \cup B) = Cardinality(A) + Cardinality(B)
  BY <1>4, <1>7, <1>9
<1>11. /\ IsFiniteSet(A \cup B \cup C)
       /\ Cardinality(A \cup B \cup C) = Cardinality(A \cup B) + Cardinality(C)
  BY <1>6, <1>7, <1>9, <1>10
<1>12. /\ IsFiniteSet(A \cup B \cup C \cup D)
       /\ Cardinality(A \cup B \cup C \cup D) = Cardinality(A \cup B \cup C) + Cardinality(D)
  BY <1>6, <1>7, <1>9, <1>11
<1>13. Cardinality(A \cup B \cup C \cup D \cup E)
         = Cardinality(A \cup B \cup C \cup D) + Cardinality(E)
  BY <1>6, <1>7, <1>9, <1>12
<1>14. Cardinality(Held) = Len(logChan) + Len(queue) + Cardinality(C)
                             + Cardinality(D) + Cardinality(E)
  BY <1>4, <1>8, <1>10, <1>11, <1>12, <1>13
<1>15. QED
  BY <1>6, <1>14 DEF HeldOnce

\* No two threads of a client ever hold the same record, and none holds it twice:
\* what the locks of track and flush and the single worker of Go are for.
THEOREM RecordsAreHeldOnce == Spec => []ClientInv
<1>1. IInv => ClientInv
  BY HeldAreMany DEF IInv, RecordsInv, ClientInv
<1>2. QED
  BY <1>1, SdkInvariance, PTL

\* Until it is closed a client counts what it loses, up to what it may forgive.
THEOREM LossesAreCounted == Spec => []LossIsCounted
<1>1. IInv => LossIsCounted
  BY DEF IInv, RecordsInv, LossInv, LossIsCounted
<1>2. QED
  BY <1>1, SdkInvariance, PTL

\* A record is stored once, and once more at most for each request that held it
\* and failed.
THEOREM CopiesComeFromFailures == Spec => []DuplicatesNeedAFailure
<1>1. ASSUME IInv PROVE DuplicatesNeedAFailure
  <2> SUFFICES ASSUME NEW r \in Record PROVE stored[r] <= 1 + failed[r]
    BY DEF DuplicatesNeedAFailure
  <2>1. /\ Cardinality(LateWith(r)) \in Nat /\ stored[r] \in Nat /\ failed[r] \in Nat
    BY <1>1, LateFacts DEF IInv, RecordsInv
  <2>2. stored[r] + Cardinality(LateWith(r)) <= failed[r] + IF r \in Unsettled THEN 0 ELSE 1
    BY <1>1 DEF IInv, RecordsInv, CopiesInv
  <2>3. QED
    BY <2>1, <2>2
<1>2. QED
  BY <1>1, SdkInvariance, PTL

\* The queues stay within their caps; that of Rust exceeds it by records that failed.
THEOREM BacklogsAreBounded == Spec => []BacklogBounded
<1>1. ASSUME IInv PROVE BacklogBounded
  <2>1. TypeOK /\ BoundInv
    BY <1>1 DEF IInv, RecordsInv
  <2> DEFINE troubled == {r \in Record : failed[r] > 0}
  <2>2. IsFiniteSet(Record)
    BY ClientAssumption, FS_Interval DEF Record
  <2>3. troubled \in SUBSET Record /\ Returned \in SUBSET troubled
    BY DEF Returned
  <2>4. IsFiniteSet(troubled) /\ Cardinality(troubled) \in Nat
    BY <2>2, <2>3, FS_Subset, FS_CardinalityType
  <2>5. Cardinality(Returned) <= Cardinality(troubled) /\ Cardinality(Returned) \in Nat
    BY <2>1, <2>3, <2>4, FS_Subset, ReturnedFacts
  <2>6. Len(queue) \in Nat /\ MaxQueueSize \in Nat
    BY <2>1, ClientAssumption DEF TypeOK
  <2> HIDE DEF troubled
  <2>7. sdk = "rust" => Len(queue) <= MaxQueueSize + Cardinality(troubled)
    BY <2>1, <2>4, <2>5, <2>6 DEF BoundInv
  <2>8. QED
    BY <2>1, <2>7 DEF BoundInv, BacklogBounded, troubled
<1>2. QED
  BY <1>1, SdkInvariance, PTL

\* What a client is to send next is older than what it is to send after that.
THEOREM BacklogsAreInOrder == Spec => []BacklogInOrder
<1>1. ASSUME IInv PROVE BacklogInOrder
  <2>1. TypeOK /\ ShapeInv /\ OrderInv
    BY <1>1 DEF IInv, RecordsInv
  <2>2. /\ "flusher" \in Sender /\ sends["flusher"].batch \in Seq(Record)
        /\ queue \in Seq(Record) /\ logChan \in Seq(Record)
    BY <2>1, InHand DEF Sender, TypeOK
  <2>3. ASSUME sdk \in {"go", "node"}
        PROVE  Increasing(sends["flusher"].batch \o queue \o logChan)
    <3> DEFINE front == sends["flusher"].batch
    <3>1. /\ Increasing(front) /\ Increasing(queue) /\ Increasing(logChan)
          /\ Before(ToSet(front), ToSet(queue) \cup ToSet(logChan))
          /\ Before(ToSet(queue), ToSet(logChan))
      BY <2>1, <2>3 DEF OrderInv, InFlight
    <3> HIDE DEF front
    <3>2. front \in Seq(Record)
      BY <2>2 DEF front
    <3>3. Before(ToSet(front), ToSet(queue))
      BY <3>1 DEF Before
    <3>4. /\ front \o queue \in Seq(Record) /\ Increasing(front \o queue)
          /\ ToSet(front \o queue) = ToSet(front) \cup ToSet(queue)
      BY <2>2, <3>1, <3>2, <3>3, ConcatFacts
    <3>5. Before(ToSet(front \o queue), ToSet(logChan))
      BY <3>1, <3>4 DEF Before
    <3>6. Increasing((front \o queue) \o logChan)
      BY <2>2, <3>1, <3>4, <3>5, ConcatFacts
    <3>7. QED
      BY <3>6 DEF front
  <2>4. QED
    BY <2>1, <2>3 DEF OrderInv, BacklogInOrder
<1>2. QED
  BY <1>1, SdkInvariance, PTL

\* Without a failure or a refusal nothing is forgiven.
LEMMA UntroubledForgivesNothing ==
    ASSUME TypeOK, NetInv, Untroubled
    PROVE  Forgiven = {}
<1>1. \A r \in Record : failed[r] = 0 /\ rejected[r] = 0
  BY DEF NetInv, Untroubled
<1>2. QED
  BY <1>1 DEF Forgiven

\* What is missing of the records logged before the end is counted, when all of
\* it is lost.
LEMMA MissingIsCounted ==
    ASSUME TypeOK, ShapeInv, RecordsInv, Untroubled,
           NEW S, \A r \in S : r \in 1..cut /\ stored[r] = 0 /\ r \notin Held
    PROVE  Cardinality(S) <= dropped
<1>1. cut \in Nat /\ logged \in Nat /\ cut <= logged /\ dropped \in Nat
  BY ClientAssumption DEF TypeOK, ShapeInv
<1>2. S \in SUBSET (Lost \ Forgiven)
  <2>1. Forgiven = {}
    BY UntroubledForgivesNothing DEF RecordsInv
  <2>2. \A r \in S : r \in Logged
    BY <1>1 DEF Logged
  <2>3. QED
    BY <2>1, <2>2 DEF Lost
<1>3. Lost \ Forgiven \in SUBSET Logged /\ IsFiniteSet(Logged)
  BY <1>1, FS_Interval DEF Lost, Logged
<1>4. IsFiniteSet(Lost \ Forgiven) /\ Cardinality(Lost \ Forgiven) \in Nat
  BY <1>3, FS_Subset, FS_CardinalityType
<1>5. IsFiniteSet(S) /\ Cardinality(S) \in Nat /\ Cardinality(S) <= Cardinality(Lost \ Forgiven)
  BY <1>2, <1>4, FS_Subset, FS_CardinalityType
<1>6. Cardinality(Lost \ Forgiven) <= dropped
  BY DEF RecordsInv, LossInv
<1>7. QED
  BY <1>1, <1>4, <1>5, <1>6

\* Close of the Go client and shutdown of the Python client deliver what was logged
\* before, when nothing failed and no wait was cut short.
THEOREM ClosingDelivers == Spec => []CloseDelivers
<1>1. ASSUME IInv PROVE CloseDelivers
  <2> DEFINE undelivered == {r \in 1..cut : stored[r] = 0 /\ r \notin InFlight("app")}
  <2> SUFFICES ASSUME phase = "closed", sdk \in {"go", "python"}, Untroubled
               PROVE  Cardinality(undelivered) <= dropped
    BY DEF CloseDelivers
  <2>1. TypeOK /\ ShapeInv /\ RecordsInv /\ faults = 0
    BY <1>1 DEF IInv, Untroubled
  <2>2. Held = ToSet(logChan) \cup ToSet(queue) \cup InFlight("flusher")
                 \cup InFlight("app") \cup InFlight("main")
    BY <2>1, HeldRecords
  <2>3. ToSet(<<>>) = {} /\ Idle.batch = <<>>
    BY EmptySequence, SendValues
  <2>4. /\ sends["flusher"] = Idle /\ sends["main"] = Idle /\ logChan = <<>>
        /\ \A r \in ToSet(queue) : cut < r
    <3>1. CASE sdk = "go"
      BY <2>1, <2>3, <3>1 DEF ShapeInv, GoShape
    <3>2. CASE sdk = "python"
      <4>1. sends["main"] = Idle /\ worker = "done" /\ logChan = <<>>
        BY <2>1, <3>2 DEF ShapeInv, PyShape
      <4>2. QED
        BY <2>1, <3>2, <4>1, SendValues DEF ShapeInv, PyShape
    <3>3. QED
      BY <3>1, <3>2
  <2>5. InFlight("flusher") = {} /\ InFlight("main") = {} /\ ToSet(logChan) = {}
    BY <2>3, <2>4 DEF InFlight
  <2>6. \A r \in 1..cut : r \notin ToSet(queue)
    <3>1. cut \in Nat
      BY <2>1 DEF TypeOK
    <3>2. \A r \in 1..cut : ~(cut < r)
      BY <3>1
    <3>3. QED
      BY <2>4, <3>2
  <2>7. \A r \in undelivered : r \in 1..cut /\ stored[r] = 0 /\ r \notin Held
    BY <2>2, <2>5, <2>6
  <2> HIDE DEF undelivered
  <2>8. QED
    BY <2>1, <2>7, MissingIsCounted
<1>2. QED
  BY <1>1, SdkInvariance, PTL

\* A Node program that exits after flush() leaves only what joined the queue after
\* everything that was sent, when no request failed.
THEOREM ExitLeavesNewer == Spec => []ExitLeavesOnlyNewer
<1>1. ASSUME IInv PROVE ExitLeavesOnlyNewer
  <2> DEFINE unsent == {r \in 1..cut : stored[r] = 0 /\ r \notin ToSet(queue)}
  <2> SUFFICES ASSUME phase = "closed", sdk = "node", Untroubled
               PROVE  /\ Cardinality(unsent) <= dropped
                      /\ \A r \in ToSet(queue), q \in Record : stored[q] > 0 => q < r
    BY DEF ExitLeavesOnlyNewer
  <2>1. TypeOK /\ ShapeInv /\ RecordsInv
    BY <1>1 DEF IInv
  <2>2. \A r \in ToSet(queue), q \in Record : stored[q] > 0 => q < r
    BY <2>1 DEF RecordsInv, NewerInv
  <2>3. Held = ToSet(logChan) \cup ToSet(queue) \cup InFlight("flusher")
                 \cup InFlight("app") \cup InFlight("main")
    BY <2>1, HeldRecords
  <2>4. ToSet(<<>>) = {} /\ Idle.batch = <<>>
    BY EmptySequence, SendValues
  <2>5. /\ sends["flusher"] = Idle /\ sends["app"] = Idle /\ sends["main"] = Idle
        /\ logChan = <<>>
    BY <2>1 DEF ShapeInv, NodeShape
  <2>6. Held = ToSet(queue)
    BY <2>3, <2>4, <2>5 DEF InFlight
  <2>7. \A r \in unsent : r \in 1..cut /\ stored[r] = 0 /\ r \notin Held
    BY <2>6
  <2> HIDE DEF unsent
  <2>8. Cardinality(unsent) <= dropped
    BY <2>1, <2>7, MissingIsCounted
  <2>9. QED
    BY <2>2, <2>8
<1>2. QED
  BY <1>1, SdkInvariance, PTL
=============================================================================
