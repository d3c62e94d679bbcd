------------------------------ MODULE TitoCalls ------------------------------
(***************************************************************************)
(* What a caller of tito/tito.py sees, shared by every specification of    *)
(* the queue: the arguments a call may carry and the answers it may get.   *)
(*                                                                         *)
(* A Group object is named by its handle: 1 for the first group that the   *)
(* queue admits, 2 for the next, and so on.                                *)
(***************************************************************************)
EXTENDS Integers, Sequences, FiniteSets, Functions

CONSTANTS
  GroupIds,       \* the group ids callers use
  Members,        \* the members callers use
  StrictOrder,    \* the ordering policy, fixed when the queue is built
  MaxAdmissions,  \* bound: groups admitted over the life of the queue
  MaxGroupSize    \* bound: length of a member list passed to admit

ASSUME PolicyAssumption == StrictOrder \in BOOLEAN
ASSUME MembersAssumption == IsFiniteSet(Members)
ASSUME BoundsAssumption == MaxAdmissions \in Nat /\ MaxGroupSize \in Nat

\* The lists of members a caller may pass, the empty one and those that name a
\* member twice included.
MemberLists == UNION {[1..n -> Members] : n \in 0..MaxGroupSize}

\* Group.__init__ refuses an empty list and a repeated member.
WellFormed(list) == list # <<>> /\ IsInjective(list)

\* The answer to a call: its value, and the groups it hands to the caller.
Returns(call, value, gs) == [call |-> call, value |-> value, groups |-> gs]
Raises(call) == Returns(call, "TitoError", <<>>)
Answer(b) == IF b THEN "True" ELSE "False"

\* The lists of the handles hs in increasing order of key, a function on them
\* (there is exactly one when hs is finite and key is injective).
Sorted(hs, key) ==
  {list \in [1..Cardinality(hs) -> hs] :
     \A i, j \in DOMAIN list : i < j => key[list[i]] < key[list[j]]}
InHandleOrder(hs) == Sorted(hs, [h \in hs |-> h])

\* Calls whose answer hands departing groups over.
Departing == {"release", "release_all", "cancel", "clear"}
=============================================================================
