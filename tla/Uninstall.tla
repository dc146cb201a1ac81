------------------------------ MODULE Uninstall ------------------------------
(***************************************************************************)
(* greplog uninstall: crates/cli/src/uninstall.rs.                         *)
(*                                                                         *)
(* A place is a directory or file by its label; "root" is the storage root *)
(* that holds data and wal, and perhaps "other" files.  Sizes and output   *)
(* are left out, but not what the run says at its end.                     *)
(***************************************************************************)
EXTENDS Naturals

VARIABLES
    places,     \* the places that exist
    uninstall,  \* idle, listed, agreed, data, wal, binary, parent, or an outcome
    found,      \* the targets that were there when they were collected
    mislaid     \* history: those that were there too, but could not be seen

uninstallVars == <<places, uninstall, found, mislaid>>

Target  == {"data", "wal", "binary"}
Place   == Target \cup {"root", "other"}
Outcome == {"nothing", "aborted", "failed", "done"}

UninstallTypeOK ==
    /\ places \subseteq Place
    /\ uninstall \in {"idle", "listed", "data", "wal", "binary", "parent"} \cup Outcome
    /\ found \subseteq Target /\ mislaid \subseteq Target

\* collect_targets: of the three places, those that exist now.
Existing == places \cap Target

\* The early return when nothing is found.
List(seen) ==
    /\ uninstall = "idle"
    /\ found' = seen /\ mislaid' = Existing \ seen
    /\ uninstall' = IF seen = {} THEN "nothing" ELSE "listed"
    /\ UNCHANGED places

Collect == List(Existing)

\* exists, is_file and current_exe take an error for a place that is not there.
CollectMisses == \E seen \in SUBSET Existing : seen # Existing /\ List(seen)

\* --yes, or a terminal and a "y"; no terminal, or anything else, aborts.
Decide ==
    /\ uninstall = "listed"
    /\ uninstall' \in {"data", "aborted"}
    /\ UNCHANGED <<places, found, mislaid>>

Following(target) ==
    CASE target = "data"   -> "wal"
      [] target = "wal"    -> "binary"
      [] target = "binary" -> "parent"

SkipMissing(target) ==
    /\ uninstall = target /\ target \notin found
    /\ uninstall' = Following(target)
    /\ UNCHANGED <<places, found, mislaid>>

RemoveTarget(target) ==
    /\ uninstall = target /\ target \in found \cap places
    /\ places' = places \ {target}
    /\ uninstall' = Following(target)
    /\ UNCHANGED <<found, mislaid>>

\* Mutant of RemoveTargetFails: the run goes on whatever could not be removed.
GoesOnRegardless(target) ==
    /\ uninstall = target /\ target \in found
    /\ uninstall' = Following(target)
    /\ UNCHANGED <<places, found, mislaid>>

\* remove_target fails: only the binary may stay behind.
RemoveTargetFails(target) ==
    /\ uninstall = target /\ target \in found
    /\ uninstall' = IF target = "binary" THEN "parent" ELSE "failed"
    /\ UNCHANGED <<places, found, mislaid>>

\* remove_empty_parent: a root that still holds something stays ...
RemoveParent ==
    /\ uninstall = "parent"
    /\ places' = IF places \cap {"data", "wal", "other"} = {} THEN places \ {"root"} ELSE places
    /\ uninstall' = "done"
    /\ UNCHANGED <<found, mislaid>>

\* ... and so does one that cannot be read or removed.
RemoveParentFails ==
    /\ uninstall = "parent"
    /\ uninstall' = "done"
    /\ UNCHANGED <<places, found, mislaid>>

\* The operator runs it again after a failure.
Retry ==
    /\ uninstall = "failed"
    /\ uninstall' = "idle"
    /\ UNCHANGED <<places, found, mislaid>>
=============================================================================
