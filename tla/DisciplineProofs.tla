-------------------------- MODULE DisciplineProofs --------------------------
(***************************************************************************)
(* What the discipline entails: its properties, proved of Discipline.tla   *)
(* alone. Whatever implements the discipline inherits them, and takes from *)
(* here what the proofs need of lists and of least elements.               *)
(***************************************************************************)
EXTENDS Discipline, FiniteSetTheorems, TLAPS

\* A set of natural numbers that is not empty has a least element.
LEMMA LeastNatural ==
  ASSUME NEW S \in SUBSET Nat, S # {}
  PROVE  \E n \in S : \A m \in S : n <= m
  <1> DEFINE R == OpToRel(<, Nat)
  <1>1. IsWellFoundedOn(R, Nat)
    BY NatLessThanWellFounded
  <1>2. \A x, y \in Nat : y < x => <<y, x>> \in R
    BY DEF OpToRel
  <1> HIDE DEF R
  <1>3. PICK n \in S : \A m \in S : ~ (<<m, n>> \in R)
    BY <1>1, WFMin, Zenon
  <1>4. \A m \in S : ~ (m < n)
    BY <1>2, <1>3
  <1>5. \A m \in S : m \in Int /\ n \in Int
    OBVIOUS
  <1> QED
    BY <1>4, <1>5

\* The lists in the order of some key name each of the handles, and name it once.
LEMMA SortedNamesAll ==
  ASSUME NEW hs \in SUBSET Nat, IsFiniteSet(hs), NEW key \in [hs -> Int],
         NEW list \in Sorted(hs, key)
  PROVE  Range(list) = hs /\ IsInjective(list)
  <1> DEFINE n == Cardinality(hs)
  <1>1. n \in Nat /\ list \in [1..n -> hs]
    BY FS_CardinalityType DEF Sorted
  <1>2. \A i, j \in 1..n : i < j => key[list[i]] < key[list[j]]
    BY <1>1 DEF Sorted
  <1> HIDE DEF n
  <1>3. ASSUME NEW i \in 1..n, NEW j \in 1..n, list[i] = list[j] PROVE i = j
    <2>1. key[list[i]] \in Int /\ key[list[j]] = key[list[i]]
      BY <1>1, <1>3
    <2>2. ~ (i < j) /\ ~ (j < i)
      BY <1>2, <2>1
    <2> QED
      BY <1>1, <2>2
  <1>4. IsInjective(list)
    BY <1>1, <1>3 DEF IsInjective
  <1>5. list \in Injection(1..n, hs)
    BY <1>1, <1>4 DEF Injection
  <1>6. Cardinality(1..n) = n
    BY <1>1, FS_Interval
  <1>7. list \in Surjection(1..n, hs)
    BY <1>5, <1>6, FS_Injection DEF n
  <1>8. Range(list) = hs
    BY <1>1, <1>7 DEF Surjection, Range
  <1> QED
    BY <1>4, <1>8

\* A list that names each of the handles, in increasing order of some key, is the list
\* of the handles in that order.
LEMMA IncreasingIsSorted ==
  ASSUME NEW hs, NEW key \in [hs -> Int], NEW list \in Seq(hs), Range(list) = hs,
         \A i, j \in DOMAIN list : i < j => key[list[i]] < key[list[j]]
  PROVE  IsFiniteSet(hs) /\ list \in Sorted(hs, key)
  <1> DEFINE n == Len(list)
  <1>1. n \in Nat /\ DOMAIN list = 1..n /\ list \in [1..n -> hs]
    OBVIOUS
  <1> HIDE DEF n
  <1>2. ASSUME NEW i \in 1..n, NEW j \in 1..n, list[i] = list[j]
        PROVE  i = j
    <2>1. key[list[i]] \in Int /\ key[list[j]] = key[list[i]]
      BY <1>1, <1>2
    <2>2. ~ (i < j) /\ ~ (j < i)
      BY <1>1, <2>1
    <2> QED
      BY <1>1, <2>2
  <1>3. list \in Bijection(1..n, hs)
    <2>1. list \in Injection(1..n, hs)
      BY <1>1, <1>2 DEF Injection, IsInjective
    <2>2. list \in Surjection(1..n, hs)
      BY <1>1 DEF Surjection, Range
    <2> QED
      BY <2>1, <2>2 DEF Bijection
  <1>4. IsFiniteSet(1..n) /\ Cardinality(1..n) = n
    BY <1>1, FS_Interval
  <1>5. IsFiniteSet(hs) /\ Cardinality(hs) = n
    BY <1>3, <1>4, FS_Bijection DEF ExistsBijection
  <1> QED
    BY <1>1, <1>5 DEF Sorted

\* The length of a list of members that names none twice is their number.
LEMMA WellFormedLength ==
  ASSUME NEW list \in MemberLists, WellFormed(list)
  PROVE  /\ Range(list) \subseteq Members /\ IsFiniteSet(Range(list))
         /\ Len(list) \in Nat /\ DOMAIN list = 1..Len(list)
         /\ Len(list) = Cardinality(Range(list))
  <1>1. PICK n \in Nat : list \in [1..n -> Members]
    BY BoundsAssumption DEF MemberLists
  <1>2. Len(list) = n /\ DOMAIN list = 1..n
    BY <1>1
  <1>3. Range(list) \subseteq Members
    BY <1>1 DEF Range
  <1>4. list \in Bijection(1..n, Range(list))
    BY <1>1 DEF Bijection, Injection, Surjection, IsInjective, Range, WellFormed
  <1>5. Cardinality(Range(list)) = Cardinality(1..n) /\ Cardinality(1..n) = n
    BY <1>4, FS_Interval, FS_Bijection DEF ExistsBijection
  <1> QED
    BY <1>2, <1>3, <1>5, MembersAssumption, FS_Subset
-----------------------------------------------------------------------------
\* The state.

Entry == [group_id: GroupIds, members: SUBSET Members, ready: SUBSET Members]

\* The roster is a list of groups and only groups on it wait.
TypeOK ==
  /\ roster \in Seq(Entry)
  /\ waiting \subseteq Handles

\* The inductive invariant.
DInv == TypeOK /\ OneGroupEach
-----------------------------------------------------------------------------
\* Facts about a state.

LEMMA RosterType ==
  ASSUME TypeOK
  PROVE  /\ Len(roster) \in Nat
         /\ Handles = 1..Len(roster)
         /\ Handles \subseteq Nat
         /\ \A h \in Handles : roster[h] \in Entry
         /\ \A hs \in SUBSET Handles : IsFiniteSet(hs)
  <1>1. Len(roster) \in Nat /\ Handles = 1..Len(roster)
        /\ \A h \in Handles : roster[h] \in Entry
    BY DEF TypeOK, Handles
  <1>2. IsFiniteSet(Handles)
    <2>1. Len(roster) \in Int /\ 1 \in Int
      BY <1>1
    <2> QED
      BY <1>1, <2>1, FS_Interval
  <1>3. \A hs \in SUBSET Handles : IsFiniteSet(hs)
    BY <1>2, FS_Subset
  <1>4. Handles \subseteq Nat
    BY <1>1
  <1> QED
    BY <1>1, <1>3, <1>4

\* Where something may leave there is a group that leaves next.
LEMMA NextOutExists ==
  ASSUME TypeOK, NextOut = {}
  PROVE  Departable = {}
  <1>1. Departable \in SUBSET Nat
    BY RosterType DEF TypeOK, Departable
  <1>2. Departable # {} => \E h \in Departable : \A g \in Departable : h <= g
    BY <1>1, LeastNatural, Zenon
  <1> QED
    BY <1>2 DEF NextOut

\* The lists that release_all and clear may return name exactly what leaves.
LEMMA LeaversNamed ==
  ASSUME TypeOK, NEW hs \in SUBSET waiting, NEW list \in InHandleOrder(hs)
  PROVE  Range(list) = hs /\ IsInjective(list)
  <1>1. hs \in SUBSET Nat /\ IsFiniteSet(hs)
    BY RosterType DEF TypeOK
  <1>2. [h \in hs |-> h] \in [hs -> Int]
    BY <1>1
  <1> QED
    BY <1>1, <1>2, SortedNamesAll DEF InHandleOrder

\* What every step does to the groups there were: one that has left stays out,
\* and a group keeps its id, its members and its flags.
LEMMA StepKeeps ==
  ASSUME TypeOK, [Next]_vars
  PROVE  /\ TypeOK'
         /\ Handles \subseteq Handles'
         /\ \A h \in Handles : /\ h \notin waiting => h \notin waiting'
                               /\ roster'[h].group_id = roster[h].group_id
                               /\ roster'[h].members = roster[h].members
                               /\ roster[h].ready \subseteq roster'[h].ready
  <1> DEFINE Goal ==
         /\ TypeOK'
         /\ Handles \subseteq Handles'
         /\ \A h \in Handles : /\ h \notin waiting => h \notin waiting'
                               /\ roster'[h].group_id = roster[h].group_id
                               /\ roster'[h].members = roster[h].members
                               /\ roster[h].ready \subseteq roster'[h].ready
  <1>1. ASSUME NEW id \in GroupIds, NEW list \in MemberLists, Admit(id, list)
        PROVE  Goal
    <2> DEFINE new == [group_id |-> id, members |-> Range(list), ready |-> {}]
    <2>1. Range(list) \in SUBSET Members
      BY DEF MemberLists, Range
    <2>2. new \in Entry
      BY <2>1 DEF Entry
    <2>3. roster' = Append(roster, new) /\ waiting' = waiting \cup {Len(roster) + 1}
      BY <1>1 DEF Admit
    <2> HIDE DEF new
    <2>4. /\ roster' \in Seq(Entry) /\ Handles' = Handles \cup {Len(roster) + 1}
          /\ Len(roster) + 1 \notin Handles
          /\ \A h \in Handles : roster'[h] = roster[h]
      BY <2>2, <2>3, RosterType DEF TypeOK, Handles
    <2> QED
      BY <2>3, <2>4 DEF TypeOK
  <1>2. ASSUME NEW h \in Handles, NEW ms \in SUBSET Members, Mark(h, ms)
        PROVE  Goal
    <2> DEFINE new == [roster[h] EXCEPT !.ready = @ \cup ms]
    <2>1. /\ new \in Entry /\ new.group_id = roster[h].group_id
          /\ new.members = roster[h].members /\ roster[h].ready \subseteq new.ready
      BY RosterType DEF Entry
    <2>2. roster' = [roster EXCEPT ![h] = new] /\ waiting' = waiting
      BY <1>2 DEF Mark
    <2> HIDE DEF new
    <2>3. /\ roster' \in Seq(Entry) /\ Handles' = Handles /\ roster'[h] = new
          /\ \A g \in Handles : g # h => roster'[g] = roster[g]
      BY <2>1, <2>2, RosterType DEF TypeOK, Handles
    <2> QED
      BY <2>1, <2>2, <2>3 DEF TypeOK
  <1>3. ASSUME roster' = roster, waiting' \subseteq waiting
        PROVE  Goal
    BY <1>3 DEF TypeOK, Handles
  <1> SUFFICES Goal
    OBVIOUS
  <1> HIDE DEF Goal
  <1>4. ASSUME NEW call, Refuse(call) PROVE Goal
    BY <1>3, <1>4 DEF Refuse
  <1>5. ASSUME NEW h \in Handles, NEW m \in Members, MarkReady(h, m) PROVE Goal
    BY <1>2, <1>5 DEF MarkReady
  <1>6. ASSUME NEW h \in waiting, MarkGroupReady(h) PROVE Goal
    <2>1. h \in Handles /\ roster[h].members \in SUBSET Members
      BY RosterType DEF TypeOK, Entry
    <2> QED
      BY <1>2, <1>6, <2>1 DEF MarkGroupReady
  <1>7. ASSUME NEW id \in GroupIds, Cancel(id) PROVE Goal
    BY <1>3, <1>7 DEF Cancel, Leave
  <1>8. CASE Peek
    BY <1>3, <1>8 DEF Peek
  <1>9. CASE Release \/ ReleaseNone
    BY <1>3, <1>9 DEF Release, ReleaseNone, Leave
  <1>10. CASE ReleaseAll \/ Clear
    BY <1>3, <1>10 DEF ReleaseAll, Clear, Leave
  <1>11. CASE DropQueue
    BY <1>3, <1>11 DEF DropQueue
  <1>12. CASE UNCHANGED vars
    BY <1>3, <1>12 DEF vars
  <1> QED
    BY <1>1, <1>4, <1>5, <1>6, <1>7, <1>8, <1>9, <1>10, <1>11, <1>12 DEF Next

\* Only admit adds a waiting group.
LEMMA OnlyAdmitAdds ==
  ASSUME TypeOK, [Next]_vars
  PROVE  \/ waiting' \subseteq waiting
         \/ \E id \in GroupIds, list \in MemberLists : Admit(id, list)
  BY DEF Next, vars, Refuse, MarkReady, MarkGroupReady, Mark, Peek, Cancel, Release,
         ReleaseNone, ReleaseAll, Clear, Leave, DropQueue
-----------------------------------------------------------------------------
\* One group each.

LEMMA InitAlone == Init => DInv
  BY DEF Init, DInv, TypeOK, Handles, OneGroupEach, Holding, Named

LEMMA StaysAlone == DInv /\ [Next]_vars => DInv'
  <1> SUFFICES ASSUME DInv, [Next]_vars PROVE DInv'
    OBVIOUS
  <1>1. /\ TypeOK /\ TypeOK' /\ Handles \subseteq Handles'
        /\ \A h \in Handles : /\ roster'[h].group_id = roster[h].group_id
                              /\ roster'[h].members = roster[h].members
    BY StepKeeps DEF DInv
  <1>2. CASE waiting' \subseteq waiting
    <2>1. /\ \A id : Named(id)' \subseteq Named(id)
          /\ \A m : Holding(m)' \subseteq Holding(m)
      BY <1>1, <1>2 DEF Named, Holding, TypeOK
    <2> QED
      BY <1>1, <2>1 DEF DInv, OneGroupEach
  <1>3. ASSUME NEW id \in GroupIds, NEW list \in MemberLists, Admit(id, list)
        PROVE  DInv'
    <2> DEFINE new == Len(roster) + 1
    <2>1. /\ waiting' = waiting \cup {new} /\ new \notin waiting
          /\ roster'[new].group_id = id /\ roster'[new].members = Range(list)
      BY <1>1, <1>3, RosterType DEF Admit, TypeOK
    <2>2. Named(id) = {} /\ \A m \in Range(list) : Holding(m) = {}
      BY <1>3 DEF Admit, Admissible, Range
    <2> HIDE DEF new
    <2>3. /\ \A i : Named(i)' = IF i = id THEN {new} ELSE Named(i)
          /\ \A m : Holding(m)' = IF m \in Range(list) THEN {new} ELSE Holding(m)
      BY <1>1, <2>1, <2>2 DEF Named, Holding, TypeOK
    <2>4. OneGroupEach'
      BY <2>3 DEF DInv, OneGroupEach
    <2> QED
      BY <1>1, <2>4 DEF DInv
  <1> QED
    BY <1>1, <1>2, <1>3, OnlyAdmitAdds

\* The discipline never lets a member wait in two groups, nor an id name two.
THEOREM Alone == Spec => [](TypeOK /\ OneGroupEach)
  <1>1. DInv => TypeOK /\ OneGroupEach
    BY DEF DInv
  <1> QED
    BY <1>1, InitAlone, StaysAlone, PTL DEF Spec
-----------------------------------------------------------------------------
\* Who hands over what.

LEMMA StepHandsOver == TypeOK /\ [Next]_vars => [HandsOver]_vars
  <1> SUFFICES ASSUME TypeOK, Next PROVE HandsOver
    OBVIOUS
  <1> USE DEF HandsOver, Departing, Returns
  <1>1. ASSUME NEW id \in GroupIds, NEW list \in MemberLists, Admit(id, list)
        PROVE  HandsOver
    BY <1>1 DEF Admit
  <1>2. ASSUME NEW call, Refuse(call), call \in {"admit", "mark_ready", "mark_group_ready"}
        PROVE  HandsOver
    BY <1>2 DEF Refuse, Raises
  <1>3. ASSUME Refuse("cancel") PROVE HandsOver
    BY <1>3 DEF Refuse, Raises, Range, IsInjective
  <1>4. ASSUME NEW h, NEW m, MarkReady(h, m) PROVE HandsOver
    BY <1>4 DEF MarkReady, Mark
  <1>5. ASSUME NEW h, MarkGroupReady(h) PROVE HandsOver
    BY <1>5 DEF MarkGroupReady, Mark
  <1>6. ASSUME NEW h \in waiting, Leave({h}), result'.call \in Departing,
               result'.groups = <<h>>
        PROVE  HandsOver
    <2>1. Range(<<h>>) = {h} /\ IsInjective(<<h>>)
      <3>1. DOMAIN <<h>> = {1} /\ <<h>>[1] = h
        OBVIOUS
      <3> QED
        BY <3>1 DEF Range, IsInjective
    <2>2. waiting \ waiting' = {h}
      BY <1>6 DEF Leave
    <2> QED
      BY <1>6, <2>1, <2>2
  <1>7. ASSUME NEW id \in GroupIds, Cancel(id) PROVE HandsOver
    BY <1>6, <1>7 DEF Cancel, Named
  <1>8. CASE Peek
    BY <1>8 DEF Peek
  <1>9. CASE Release
    BY <1>6, <1>9 DEF Release, NextOut, Departable
  <1>10. CASE ReleaseNone
    BY <1>10 DEF ReleaseNone, Leave, Range, IsInjective
  <1>11. ASSUME NEW hs \in SUBSET waiting, Leave(hs), result'.call \in Departing,
                NEW list \in InHandleOrder(hs), result'.groups = list
         PROVE  HandsOver
    <2>1. waiting \ waiting' = hs
      BY <1>11 DEF Leave
    <2> QED
      BY <1>11, <2>1, LeaversNamed
  <1>12. CASE ReleaseAll
    BY <1>11, <1>12 DEF ReleaseAll, Departable
  <1>13. CASE Clear
    BY <1>11, <1>13 DEF Clear
  <1>14. CASE DropQueue
    BY <1>14 DEF DropQueue
  <1> QED
    BY <1>1, <1>2, <1>3, <1>4, <1>5, <1>7, <1>8, <1>9, <1>10, <1>12, <1>13, <1>14 DEF Next

\* Each departing call hands over exactly the groups it takes out, each once.
THEOREM HandedOver == Spec => HandedToOneCaller
  BY Alone, StepHandsOver, PTL DEF Spec, HandedToOneCaller
-----------------------------------------------------------------------------
\* Who leaves, and who stays.

\* Which steps answer as release, release_all, or with None.
LEMMA AnswersOf ==
  ASSUME Next
  PROVE  /\ result'.call \in {"release", "release_all"} => Release \/ ReleaseNone \/ ReleaseAll
         /\ result'.call = "release_all" => ReleaseAll
         /\ result'.value = "None" /\ alive' => (Peek \/ ReleaseNone) /\ NextOut = {}
  <1> DEFINE Other == /\ result'.call \notin {"release", "release_all"}
                      /\ result'.value # "None" \/ ~ alive'
  <1> USE DEF Returns
  <1>1. ASSUME NEW id, NEW list, Admit(id, list) PROVE Other
    BY <1>1 DEF Admit
  <1>2. ASSUME NEW call \in {"admit", "mark_ready", "mark_group_ready", "cancel"}, Refuse(call)
        PROVE  Other
    BY <1>2 DEF Refuse, Raises
  <1>3. ASSUME NEW h, NEW m, MarkReady(h, m) PROVE Other
    BY <1>3 DEF MarkReady, Answer
  <1>4. ASSUME NEW h, MarkGroupReady(h) PROVE Other
    BY <1>4 DEF MarkGroupReady
  <1>5. ASSUME NEW id, Cancel(id) PROVE Other
    BY <1>5 DEF Cancel
  <1>6. CASE Peek
    <2>1. result'.call = "peek" /\ (NextOut # {} => result'.value = "Group")
      BY <1>6 DEF Peek
    <2> QED
      BY <1>6, <2>1
  <1>7. CASE Release
    <2>1. result'.call = "release" /\ result'.value = "Group"
      BY <1>7 DEF Release
    <2> QED
      BY <1>7, <2>1
  <1>8. CASE ReleaseNone
    BY <1>8 DEF ReleaseNone
  <1>9. CASE ReleaseAll
    <2>1. result'.call = "release_all" /\ result'.value = "List"
      BY <1>9 DEF ReleaseAll
    <2> QED
      BY <1>9, <2>1
  <1>10. CASE Clear
    BY <1>10 DEF Clear
  <1>11. CASE DropQueue
    BY <1>11 DEF DropQueue
  <1>12. CASE Other
    BY <1>12
  <1> HIDE DEF Other
  <1> QED
    BY <1>1, <1>2, <1>3, <1>4, <1>5, <1>6, <1>7, <1>8, <1>9, <1>10, <1>11, <1>12 DEF Next

LEMMA StepReleases == TypeOK /\ [Next]_vars => [Releases]_vars
  <1> SUFFICES ASSUME TypeOK, Next, result'.call \in {"release", "release_all"}
               PROVE  \A h \in waiting \ waiting' :
                        /\ Full(h)
                        /\ \A g \in waiting' : g < h => ~ StrictOrder /\ ~ Full(g)
    BY DEF Releases
  <1> USE DEF Returns
  <1>0. waiting \subseteq Nat
    BY RosterType DEF TypeOK
  <1>1. Release \/ ReleaseNone \/ ReleaseAll
    BY AnswersOf
  <1>2. CASE Release
    <2>1. PICK h \in NextOut : Leave({h})
      BY <1>2 DEF Release
    <2>2. /\ h \in waiting /\ Full(h) /\ waiting' = waiting \ {h}
          /\ StrictOrder => \A g \in waiting : g < h => Full(g)
          /\ \A g \in Departable : h <= g
      BY <2>1 DEF Leave, NextOut, Departable
    <2>3. ASSUME NEW g \in waiting', g < h PROVE ~ StrictOrder /\ ~ Full(g)
      <3>1. g \in waiting /\ g \in Nat /\ h \in Nat
        BY <1>0, <2>2
      <3>2. g \notin Departable
        BY <2>2, <2>3, <3>1
      <3>3. StrictOrder => \A f \in waiting : f < g => Full(f)
        BY <1>0, <2>2, <2>3, <3>1
      <3>4. ~ Full(g)
        BY <3>1, <3>2, <3>3 DEF Departable
      <3> QED
        BY <2>2, <2>3, <3>1, <3>4
    <2> QED
      BY <2>2, <2>3
  <1>3. CASE ReleaseNone
    BY <1>3 DEF ReleaseNone, Leave
  <1>4. CASE ReleaseAll
    <2>1. waiting' = waiting \ Departable
      BY <1>4 DEF ReleaseAll, Leave
    <2>2. ASSUME NEW h \in Departable, NEW g \in waiting', g < h
          PROVE  ~ StrictOrder /\ ~ Full(g)
      <3>1. g \in waiting /\ g \notin Departable /\ h \in waiting
        BY <2>1, <2>2 DEF Departable
      <3>2. StrictOrder => \A f \in waiting : f <= g => Full(f)
        BY <1>0, <2>2, <3>1 DEF Departable
      <3>3. StrictOrder => g \in Departable
        BY <1>0, <3>1, <3>2 DEF Departable
      <3> QED
        BY <3>1, <3>3 DEF Departable
    <2> QED
      BY <2>1, <2>2 DEF Departable
  <1> QED
    BY <1>1, <1>2, <1>3, <1>4

\* What is released is complete, and nothing older that could have left stays.
THEOREM InOrder == Spec => ReleasedInOrder
  BY Alone, StepReleases, PTL DEF Spec, ReleasedInOrder

LEMMA StepExhausts == TypeOK /\ [Next]_vars => [Exhausts]_vars
  <1> SUFFICES ASSUME TypeOK, Next, alive',
                      result'.call = "release_all" \/ result'.value = "None"
               PROVE  Departable' = {}
    BY DEF Exhausts
  <1> USE DEF Returns
  <1>0. waiting \subseteq Nat
    BY RosterType DEF TypeOK
  <1>1. ReleaseAll \/ ((Peek \/ ReleaseNone) /\ NextOut = {})
    BY AnswersOf
  <1>2. CASE (Peek \/ ReleaseNone) /\ NextOut = {}
    <2>1. NextOut = {}
      BY <1>2
    <2>2. UNCHANGED <<roster, waiting>>
      BY <1>2 DEF Peek, ReleaseNone, Leave
    <2>3. Departable' = Departable
      BY <2>2 DEF Departable, Full
    <2> QED
      BY <2>1, <2>3, NextOutExists
  <1>3. CASE ReleaseAll
    <2>1. waiting' = waiting \ Departable /\ roster' = roster
      BY <1>3 DEF ReleaseAll, Leave
    <2>2. \A h : Full(h)' <=> Full(h)
      BY <2>1 DEF Full
    <2>3. ASSUME NEW h \in Departable' PROVE FALSE
      <3>1. /\ h \in waiting /\ h \notin Departable /\ Full(h)
            /\ StrictOrder => \A g \in waiting \ Departable : g < h => Full(g)
        BY <2>1, <2>2, <2>3 DEF Departable
      <3>2. \A g \in Departable : Full(g)
        BY DEF Departable
      <3> QED
        BY <3>1, <3>2 DEF Departable
    <2> QED
      BY <2>3
  <1> QED
    BY <1>1, <1>2, <1>3

\* Who is told that nothing may leave, or has asked for everything, leaves nothing
\* behind that may leave.
THEOREM NothingLeft == Spec => NothingLeftBehind
  BY Alone, StepExhausts, PTL DEF Spec, NothingLeftBehind

LEMMA StepForward == TypeOK /\ [Next]_vars => OnlyForward
  BY StepKeeps DEF OnlyForward

\* Nobody comes back, and no flag is taken back.
THEOREM Forward == Spec => NeverBack
  <1>1. TypeOK /\ [Next]_vars => [OnlyForward]_vars
    BY StepForward
  <1> QED
    BY <1>1, Alone, PTL DEF Spec, NeverBack
=============================================================================
