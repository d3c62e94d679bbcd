------------------------------ MODULE MCCQueue ------------------------------
(***************************************************************************)
(* Instances of CQueue for TLC.                                            *)
(***************************************************************************)
EXTENDS CQueue, TLC

\* Names that fit are only compared, so permuting them changes nothing.
Symmetry == Permutations(GroupIds \ LongNames) \cup Permutations(Members \ LongNames)

\* What a step may depend on: none reads the last answer.
View == <<slots, group_count, out>>
=============================================================================
