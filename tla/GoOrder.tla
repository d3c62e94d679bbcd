------------------------------ MODULE GoOrder ------------------------------
(***************************************************************************)
(* The slice `order` of examples/tito_example.go. A Go slice is a window   *)
(* on an array: `append` writes into the array when there is room and      *)
(* copies to a larger one when there is not, remove shifts the groups down *)
(* in place, and groups() and clear() give the caller the queue's own      *)
(* slice. What the caller holds is therefore a window on an array that the *)
(* queue goes on writing to.                                               *)
(*                                                                         *)
(* Which group leaves is for peek and cancel to say (ScanQueue); here any  *)
(* group of the line may. Groups are numbered as they are admitted.        *)
(***************************************************************************)
EXTENDS Integers, Sequences, FiniteSets

CONSTANTS
  MaxAdmissions,  \* bound: groups admitted
  MaxRoom,        \* bound: length of an array
  MaxHeld         \* bound: slices that callers hold

ASSUME BoundsAssumption == {MaxAdmissions, MaxRoom, MaxHeld} \subseteq Nat

VARIABLES
  arrays,   \* every backing array made so far
  order,    \* titoQueue.order: [array, len]; the array is 0 for the nil slice
  line,     \* what the queue should hold: the groups that wait, in order
  held,     \* slices that groups() and clear() gave out, and what they showed then
  admitted  \* groups admitted so far

vars == <<arrays, order, line, held, admitted>>

Nil == [array |-> 0, len |-> 0]
Shows(slice) == [i \in 1..slice.len |-> arrays[slice.array][i]]

\* What append(order, g) does, for every length that the runtime may give to a
\* new array.
AppendTo(g) ==
  IF order.array # 0 /\ order.len < Len(arrays[order.array])
  THEN /\ arrays' = [arrays EXCEPT ![order.array][order.len + 1] = g]
       /\ order' = [order EXCEPT !.len = @ + 1]
  ELSE \E room \in (order.len + 1)..MaxRoom :
         /\ arrays' = Append(arrays, [i \in 1..room |->
                                        IF i <= order.len THEN arrays[order.array][i]
                                        ELSE IF i = order.len + 1 THEN g ELSE 0])
         /\ order' = [array |-> Len(arrays) + 1, len |-> order.len + 1]

Admit ==
  /\ admitted < MaxAdmissions
  /\ AppendTo(admitted + 1)
  /\ admitted' = admitted + 1
  /\ line' = Append(line, admitted + 1)
  /\ UNCHANGED held

\* A group left: what groups() gave out before may no longer be what it was.
Stale == {[s EXCEPT !.left = TRUE] : s \in held}

\* Mutant of Remove: the last group is moved into the gap.
RemoveBySwap(i) ==
  /\ arrays' = [arrays EXCEPT ![order.array][i] = arrays[order.array][order.len]]
  /\ order' = [order EXCEPT !.len = @ - 1]
  /\ line' = SubSeq(line, 1, i - 1) \o SubSeq(line, i + 1, Len(line))
  /\ held' = Stale
  /\ UNCHANGED admitted

\* order = append(order[:i], order[i+1:]...) always has room.
Remove(i) ==
  /\ arrays' = [arrays EXCEPT ![order.array] =
                  [j \in DOMAIN @ |-> IF j \in i..(order.len - 1) THEN @[j + 1] ELSE @[j]]]
  /\ order' = [order EXCEPT !.len = @ - 1]
  /\ line' = SubSeq(line, 1, i - 1) \o SubSeq(line, i + 1, Len(line))
  /\ held' = Stale
  /\ UNCHANGED admitted

GiveOut(call) ==
  /\ Cardinality(held) < MaxHeld
  /\ held' = held \cup {[call |-> call, slice |-> order, shown |-> Shows(order), left |-> FALSE]}

Groups ==
  /\ GiveOut("groups")
  /\ UNCHANGED <<arrays, order, line, admitted>>

\* Mutant of Clear: the array is kept for the groups to come.
ClearKeepingArray ==
  /\ GiveOut("clear")
  /\ order' = [order EXCEPT !.len = 0]
  /\ line' = <<>>
  /\ UNCHANGED <<arrays, admitted>>

Clear ==
  /\ GiveOut("clear")
  /\ order' = Nil
  /\ line' = <<>>
  /\ UNCHANGED <<arrays, admitted>>

Init ==
  /\ arrays = <<>>
  /\ order = Nil
  /\ line = <<>>
  /\ held = {}
  /\ admitted = 0

Next ==
  \/ Admit
  \/ \E i \in 1..order.len : Remove(i)
  \/ Groups
  \/ Clear

Spec == Init /\ [][Next]_vars
-----------------------------------------------------------------------------
\* Properties.

\* Through every reuse of an array the slice holds the line and nothing else.
OrderIsLine == Shows(order) = line

\* The list that clear returned is the caller's for good: no group admitted
\* later is ever written into it.
ClearedStays == \A s \in held : s.call = "clear" => Shows(s.slice) = s.shown

\* A list from groups() stays what it was until a group leaves; admissions do
\* not touch it, though they may write into its array.
ListsHoldUntilDeparture == \A s \in held : ~ s.left => Shows(s.slice) = s.shown

\* Once a group has left, a list may show a group twice, one that came later, or
\* a late one before an early one, so a loop that cancels what it visits can pass
\* groups by. But no group that it showed and that still waits is lost from it,
\* and no place in it turns to an older group.
ListsOnlyMoveOn ==
  \A s \in held :
    LET now == Shows(s.slice)
    IN  /\ \A i \in DOMAIN now : s.shown[i] <= now[i]
        /\ \A i \in DOMAIN now : (\E k \in DOMAIN line : line[k] = s.shown[i])
                                   => \E j \in DOMAIN now : now[j] = s.shown[i]

\* A slice lies within its array.
Fits(slice) ==
  /\ slice \in [array: 0..Len(arrays), len: Nat]
  /\ slice.len <= IF slice.array = 0 THEN 0 ELSE Len(arrays[slice.array])

\* Every slice lies within its array, and no array holds a group still to come.
TypeOK ==
  /\ admitted \in Nat
  /\ arrays \in Seq(Seq(0..admitted))
  /\ line \in Seq(1..admitted)
  /\ Fits(order)
  /\ \A s \in held : /\ s \in [call: {"groups", "clear"}, slice: [array: Nat, len: Nat],
                               shown: Seq(0..admitted), left: BOOLEAN]
                     /\ Fits(s.slice)
                     /\ Len(s.shown) = s.slice.len

\* The queue writes where no list that is still good looks: never into the array of
\* a list from clear, and behind the end of a list that saw every departure.
WritesBehind ==
  \A s \in held : s.slice.array = order.array /\ s.slice.len > 0 =>
    /\ s.call # "clear"
    /\ ~ s.left => s.slice.len <= order.len

\* The inductive invariant.
IInv ==
  /\ TypeOK
  /\ \A i, j \in DOMAIN line : i < j => line[i] < line[j]
  /\ WritesBehind
  /\ OrderIsLine
  /\ ClearedStays
  /\ ListsHoldUntilDeparture
  /\ ListsOnlyMoveOn
=============================================================================
