------------------------------ MODULE SearchPlan ------------------------------
(***************************************************************************)
(* What crates/engine/src/search.rs computes for a structured search:      *)
(* which day partitions its time range may touch, and how the answers of   *)
(* the two tiers become one page or one aggregate.                         *)
(*                                                                         *)
(* Time is a number, a day is DayLength of them, and the calendar has      *)
(* months of DaysPerMonth days and years of MonthsPerYear months.  A row a *)
(* tier returns is a record [row, source, stamp]; only the stamps of a     *)
(* page are told apart, so that any order of equal stamps is the same.     *)
(***************************************************************************)
EXTENDS Integers, FiniteSets, SequencesExt

CONSTANTS
    DayLength,       \* how much time a day is
    DaysPerMonth,    \* the calendar
    MonthsPerYear,
    ShortSpan,       \* 32: up to this many days the filter names days
    LongSpan         \* 730: up to this many days it names months

ASSUME SearchPlanAssumption ==
    /\ {DayLength, DaysPerMonth, MonthsPerYear} \subseteq Nat \ {0}
    /\ {ShortSpan, LongSpan} \subseteq Nat

-----------------------------------------------------------------------------
(***************************************************************************)
(* Partition pruning                                                       *)
(***************************************************************************)
Date(time)      == time \div DayLength
DayNumber(date) == date % DaysPerMonth
Month(date)     == (date \div DaysPerMonth) % MonthsPerYear
Year(date)      == date \div (DaysPerMonth * MonthsPerYear)

PARTITION_PAD_DAYS == 1

\* Mutant of partition_days: today is left out.
PartitionDaysBeforeToday(now, range) ==
    Date(now - range - PARTITION_PAD_DAYS * DayLength) .. (Date(now) - 1)

\* The dates of the window, padded on the left, today included.
partition_days(now, range) ==
    Date(now - range - PARTITION_PAD_DAYS * DayLength) .. Date(now)

\* The listing table keeps the partition of a date under the filter: a single
\* column, the finest that names few enough values.
partition_predicate(days, date) ==
    LET Names(column(_)) == column(date) \in {column(day) : day \in days}
    IN  \/ days = {}
        \/ Cardinality(days) <= ShortSpan /\ Names(DayNumber)
        \/ Cardinality(days) \in (ShortSpan + 1) .. LongSpan /\ Names(Month)
        \/ Cardinality(days) > LongSpan /\ Names(Year)

\* The timestamp conjunct of where_clause.
InRange(stamp, now, range) == stamp >= now - range

-----------------------------------------------------------------------------
(***************************************************************************)
(* Pages                                                                   *)
(***************************************************************************)
\* SearchMode::Rows as LogSearch::validate accepts it.
ValidPage(limit, offset, maxRows) == limit >= 1 /\ offset + limit <= maxRows

\* ORDER BY timestamp_us DESC: of equal stamps any may come first.
NewestFirst(rows) ==
    CHOOSE seq \in SetToSeqs(rows) :
        \A i, j \in DOMAIN seq : i < j => seq[i].stamp >= seq[j].stamp

FirstOf(seq, n) == SubSeq(seq, 1, IF n < Len(seq) THEN n ELSE Len(seq))

\* ... LIMIT n
Top(rows, n) == ToSet(FirstOf(NewestFirst(rows), n))

\* Mutant of fetch_limit: each tier returns one page and no more.
FetchOnePage(limit, offset) == limit

fetch_limit(limit, offset) == offset + limit

\* The page cut out of the newest of what the tiers returned.
merge_rows(rows, limit, offset) ==
    LET sorted == FirstOf(NewestFirst(rows), offset + limit)
    IN  SubSeq(sorted, offset + 1, Len(sorted))

SearchRows(parquet, live, limit, offset) ==
    LET n == fetch_limit(limit, offset)
    IN  merge_rows(Top(parquet, n) \cup Top(live, n), limit, offset)

-----------------------------------------------------------------------------
(***************************************************************************)
(* Aggregates                                                              *)
(*                                                                         *)
(* Rows are grouped by bucket.  Width 0 stands for an empty group_by, the  *)
(* global aggregate: one group, which a tier without rows answers too.     *)
(* Errors and warnings are sums as the count is.                           *)
(***************************************************************************)
Bucket(stamp, width) == IF width = 0 THEN 0 ELSE stamp \div width

Latest(stamps) == CHOOSE s \in stamps : \A t \in stamps : t <= s

\* One row of a tier's GROUP BY.  MAX over no rows is null, read as 0.
GroupRow(rows) ==
    [count |-> Cardinality(rows),
     last_seen |-> IF rows = {} THEN 0 ELSE Latest({r.stamp : r \in rows})]

TierAggregate(rows, width) ==
    [b \in {Bucket(r.stamp, width) : r \in rows} \cup (IF width = 0 THEN {0} ELSE {}) |->
        GroupRow({r \in rows : Bucket(r.stamp, width) = b})]

\* i64::MIN, before every stamp.
Never == -1

\* Mutant of Combine: the later tier overwrites the count.
CombineLast(entry, row) ==
    [count |-> row.count,
     last_seen |-> Latest({entry.last_seen, row.last_seen})]

Combine(entry, row) ==
    [count |-> entry.count + row.count,
     last_seen |-> Latest({entry.last_seen, row.last_seen})]

merge_aggregate(parquet, live) ==
    LET Entered(b) == IF b \in DOMAIN parquet
                      THEN Combine([count |-> 0, last_seen |-> Never], parquet[b])
                      ELSE [count |-> 0, last_seen |-> Never]
    IN  [b \in DOMAIN parquet \cup DOMAIN live |->
            IF b \in DOMAIN live THEN Combine(Entered(b), live[b]) ELSE Entered(b)]

=============================================================================
