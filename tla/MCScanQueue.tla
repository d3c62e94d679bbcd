---------------------------- MODULE MCScanQueue ----------------------------
(***************************************************************************)
(* Instances of ScanQueue for TLC: all ports, as a set in which ports that *)
(* do the same are one, and the port that keeps its caller's list.         *)
(***************************************************************************)
EXTENDS ScanQueue, TLC

SharingPorts == {Ruby}
AllPorts ==
  {Python, Java, JavaScript, TypeScript, Kotlin, PHP, CSharp, Go, Swift, CPlusPlus, Rust, Ruby}

\* Ids and members are only compared, so permuting them changes nothing.
Symmetry == Permutations(GroupIds) \cup Permutations(Members)
=============================================================================
