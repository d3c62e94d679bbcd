-------------------------- MODULE MCTitoInterrupts --------------------------
(***************************************************************************)
(* Instances of TitoInterrupts for TLC.                                    *)
(***************************************************************************)
EXTENDS TitoInterrupts, TLC

\* Ids, members and threads are only compared, so permuting them changes nothing.
Symmetry == Permutations(GroupIds) \cup Permutations(Members) \cup Permutations(Threads)

\* What the last call answered decides no step.
Seen == <<group, queue, thread, holder, lock_of, before, interrupts, handed>>
=============================================================================
