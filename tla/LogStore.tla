------------------------------- MODULE LogStore -------------------------------
(***************************************************************************)
(* What the write path promises, without workers, channels or files: a     *)
(* store that acknowledges rows, keeps each of them in a log until it is   *)
(* in Parquet, and says which rows it has given up.                        *)
(*                                                                         *)
(* The promise is in the guards.  A row is acknowledged when it is in the  *)
(* log; it is acknowledged once; what reaches Parquet was in the log       *)
(* before; the log forgets an acknowledged row only when Parquet has it,   *)
(* as long as every start could count the log; and nothing but a power     *)
(* loss takes a row out of Parquet.  WritePath implements this module; its *)
(* mapping is Store in WritePath.                                          *)
(***************************************************************************)
CONSTANT Row

VARIABLES
    acked,   \* rows answered with 200 OK
    log,     \* rows that a restart would replay
    stored,  \* rows in Parquet
    lost,    \* rows given up: neither the log nor Parquet is answerable for them
    counted  \* every start so far has counted all of the log

storeVars == <<acked, log, stored, lost, counted>>

Init ==
    /\ acked = {} /\ log = {} /\ stored = {} /\ lost = {}
    /\ counted = TRUE

\* The store answers for the row, or has said that it no longer does.
Known == log \cup stored \cup lost

\* Rows reach the log before anybody is told so ...
Append(rows) ==
    /\ rows \cap (acked \cup log) = {}
    /\ log' = log \cup rows
    /\ UNCHANGED <<acked, stored, lost, counted>>

\* ... or end up where no replay finds them.
Bury(rows) ==
    /\ rows \cap acked = {}
    /\ lost' = lost \cup rows
    /\ UNCHANGED <<acked, log, stored, counted>>

Acknowledge(rows) ==
    /\ rows \cap acked = {}
    /\ rows \subseteq log \cup lost
    /\ acked' = acked \cup rows
    /\ UNCHANGED <<log, stored, lost, counted>>

\* A chunk of known rows becomes visible.
Publish(rows) ==
    /\ rows \subseteq Known
    /\ stored' = stored \cup rows
    /\ UNCHANGED <<acked, log, lost, counted>>

\* The log is shortened.
Reclaim(rows) ==
    /\ rows \subseteq log
    /\ rows \cap acked \subseteq stored \cup lost
    /\ log' = log \ rows
    /\ UNCHANGED <<acked, stored, lost, counted>>

\* A log that was not counted in full is shortened by the wrong rows.
Forget(rows) ==
    /\ ~counted
    /\ rows \subseteq log
    /\ log' = log \ rows
    /\ lost' = lost \cup (rows \ stored)
    /\ UNCHANGED <<acked, stored, counted>>

\* Memory is short: rows are dropped from it and left to the next replay.
Shed(rows) ==
    /\ rows \subseteq Known
    /\ lost' = lost \cup rows
    /\ UNCHANGED <<acked, log, stored, counted>>

\* A restart takes responsibility again for what the log still holds, and may
\* fail to count all of it.
Recover(rows) ==
    /\ rows \subseteq log
    /\ lost' = lost \ rows
    /\ UNCHANGED counted \/ ~counted'
    /\ UNCHANGED <<acked, log, stored>>

\* Part of an unfinished append may be in the log; a power loss takes chunks.
Crash(rows, chunks) ==
    /\ rows \cap (acked \cup log) = {}
    /\ chunks \subseteq stored
    /\ log' = log \cup rows
    /\ stored' = stored \ chunks
    /\ lost' = lost \cup chunks
    /\ UNCHANGED <<acked, counted>>

Next ==
    \E rows \in SUBSET Row :
        \/ Append(rows) \/ Bury(rows) \/ Acknowledge(rows)
        \/ Publish(rows) \/ Reclaim(rows) \/ Forget(rows)
        \/ Shed(rows) \/ Recover(rows)
        \/ \E chunks \in SUBSET stored : Crash(rows, chunks)

Spec == Init /\ [][Next]_storeVars
=============================================================================
