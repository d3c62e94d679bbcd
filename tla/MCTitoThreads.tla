---------------------------- MODULE MCTitoThreads ----------------------------
(***************************************************************************)
(* Instances of TitoThreads for TLC.                                       *)
(***************************************************************************)
EXTENDS TitoThreads, TLC

\* Ids, members and threads are only compared, so permuting them changes nothing.
Symmetry == Permutations(GroupIds) \cup Permutations(Members) \cup Permutations(Threads)
=============================================================================
