------------------------------- MODULE MCTito -------------------------------
(***************************************************************************)
(* Instances of Tito for TLC. The configurations give the sizes.           *)
(***************************************************************************)
EXTENDS Tito, TLC

\* Ids and members are only compared, so permuting them changes nothing.
Symmetry == Permutations(GroupIds) \cup Permutations(Members)
=============================================================================
