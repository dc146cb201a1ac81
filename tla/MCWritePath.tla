----------------------------- MODULE MCWritePath -----------------------------
(***************************************************************************)
(* Small instances of WritePath for TLC.                                   *)
(***************************************************************************)
EXTENDS WritePathInvariant

\* Odd and even rows belong to two services, hence to two chunk files.
MCPartitionOf == [r \in Row |-> r % 2]
=============================================================================
