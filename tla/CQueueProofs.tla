---------------------------- MODULE CQueueProofs ----------------------------
(***************************************************************************)
(* Proofs about the port in C: its array holds whole groups in order of    *)
(* arrival and mixes none up, whatever callers do with stale pointers, and *)
(* for careful callers it implements Discipline.tla.                       *)
(***************************************************************************)
EXTENDS CQueue, FiniteSetTheorems, SequenceTheorems, TLAPS

\* The inductive invariant, conjunct by conjunct.
Structs ==
  [id: GroupIds, members: MemberLists, ready: SUBSET Members, ready_count: Nat, handle: Nat]

\* A struct that names its members once each and counts its flags right.
Good(g) ==
  /\ g \in Structs
  /\ WellFormed(g.members)
  /\ g.ready \subseteq Range(g.members)
  /\ g.ready_count = Cardinality(g.ready)

Shape == slots \in Seq(Structs) /\ group_count \in 0..Len(slots) /\ Len(slots) <= MaxGroups

\* Every struct is good: in a slot in use or not, and in a caller's hands.
AllGood ==
  /\ \A s \in DOMAIN slots : Good(slots[s])
  /\ \A h \in DOMAIN out : Good(out[h])

InOrder == \A r, s \in Filled : r < s => slots[r].handle < slots[s].handle
Apart ==
  \A r, s \in Filled : r # s =>
    /\ slots[r].id # slots[s].id
    /\ Range(slots[r].members) \cap Range(slots[s].members) = {}

\* Each group is either in line or with its caller, and the handles are the admissions.
OneEach ==
  /\ Waiting \cap DOMAIN out = {}
  /\ \A h \in DOMAIN out : out[h].handle = h
  /\ \E n \in Nat : Waiting \cup DOMAIN out = 1..n

IInv == Shape /\ AllGood /\ InOrder /\ Apart /\ OneEach
-----------------------------------------------------------------------------
\* Lists and least elements are those of DisciplineProofs.tla.

Order == INSTANCE DisciplineProofs WITH roster <- Roster, waiting <- Waiting, alive <- TRUE

LEMMA SameLists ==
  /\ StrictOrder \in BOOLEAN /\ Order!IsFiniteSet(Members)
  /\ MaxAdmissions \in Nat /\ MaxGroupSize \in Nat
  /\ \A s : Order!IsFiniteSet(s) <=> IsFiniteSet(s)
  /\ \A s : Order!Cardinality(s) = Cardinality(s)
  /\ \A list : Order!Range(list) = Range(list)
  /\ \A list : Order!IsInjective(list) <=> IsInjective(list)
  /\ \A list : Order!WellFormed(list) <=> WellFormed(list)
  /\ \A hs, key : Order!Sorted(hs, key) = Sorted(hs, key)
  /\ Order!MemberLists = MemberLists
  BY PolicyAssumption, MembersAssumption, BoundsAssumption
     DEF Order!IsFiniteSet, IsFiniteSet, Order!Cardinality, Cardinality, Order!Range, Range,
         Order!IsInjective, IsInjective, Order!WellFormed, WellFormed, Order!Sorted, Sorted,
         Order!MemberLists, MemberLists
-----------------------------------------------------------------------------
\* The array.

LEMMA SlotsAre ==
  ASSUME Shape, AllGood
  PROVE  /\ Len(slots) \in Nat /\ DOMAIN slots = 1..Len(slots)
         /\ group_count \in Nat /\ group_count <= Len(slots) /\ group_count <= MaxGroups
         /\ Filled \subseteq DOMAIN slots /\ Filled \subseteq Nat
         /\ IsFiniteSet(Filled) /\ Cardinality(Filled) = group_count
         /\ \A s \in DOMAIN slots : s \in Nat /\ slots[s] \in Structs /\ Good(slots[s])
         /\ \A s \in Filled : slots[s].handle \in Waiting /\ slots[s].handle \in Nat
  <1>1. Len(slots) \in Nat /\ DOMAIN slots = 1..Len(slots) /\ MaxGroups \in Nat
    BY ArrayAssumption DEF Shape
  <1>2. group_count \in Nat /\ group_count <= Len(slots) /\ group_count <= MaxGroups
    BY <1>1 DEF Shape
  <1>3. Filled \subseteq DOMAIN slots /\ Filled \subseteq Nat
    BY <1>1, <1>2 DEF Filled
  <1>4. IsFiniteSet(Filled) /\ Cardinality(Filled) = group_count
    BY <1>2, FS_Interval DEF Filled
  <1>5. \A s \in DOMAIN slots : s \in Nat /\ slots[s] \in Structs /\ Good(slots[s])
    BY <1>1 DEF AllGood, Good
  <1>6. \A s \in Filled : slots[s].handle \in Waiting /\ slots[s].handle \in Nat
    BY <1>3, <1>5 DEF Waiting, Structs
  <1> QED
    BY <1>1, <1>2, <1>3, <1>4, <1>5, <1>6

\* The slot of a group that waits.
LEMMA SlotIs ==
  ASSUME Shape, AllGood, InOrder
  PROVE  /\ \A r, s \in Filled : slots[r].handle = slots[s].handle => r = s
         /\ \A s \in Filled : SlotOf(slots[s].handle) = s
         /\ \A h \in Waiting : SlotOf(h) \in Filled /\ slots[SlotOf(h)].handle = h
  <1>1. ASSUME NEW r \in Filled, NEW s \in Filled, slots[r].handle = slots[s].handle
        PROVE  r = s
    <2>1. r \in Nat /\ s \in Nat /\ slots[r].handle \in Nat
      BY SlotsAre
    <2>2. ~ (r < s) /\ ~ (s < r)
      BY <1>1, <2>1 DEF InOrder
    <2> QED
      BY <2>1, <2>2
  <1>2. \A h \in Waiting : \E s \in Filled : slots[s].handle = h
    BY DEF Waiting
  <1>3. \A h \in Waiting : SlotOf(h) \in Filled /\ slots[SlotOf(h)].handle = h
    BY <1>2 DEF SlotOf
  <1>4. ASSUME NEW s \in Filled PROVE SlotOf(slots[s].handle) = s
    <2>1. slots[s].handle \in Waiting
      BY DEF Waiting
    <2> QED
      BY <1>1, <1>3, <2>1
  <1> QED
    BY <1>1, <1>3, <1>4

\* Handles count the admissions.
LEMMA AdmittedIs ==
  ASSUME OneEach
  PROVE  Admitted \in Nat /\ Waiting \cup DOMAIN out = 1..Admitted
  <1>1. PICK n \in Nat : Waiting \cup DOMAIN out = 1..n
    BY DEF OneEach
  <1>2. Cardinality(1..n) = n
    BY FS_Interval
  <1>3. Admitted = n
    BY <1>1, <1>2 DEF Admitted
  <1> QED
    BY <1>1, <1>3

\* Some slots in use, lowest first.
LEMMA SlotOrder ==
  ASSUME Shape, AllGood, NEW at \in SUBSET Filled, NEW list \in InSlotOrder(at)
  PROVE  /\ Cardinality(at) \in Nat /\ list \in [1..Cardinality(at) -> at]
         /\ Range(list) = at
         /\ \A i, j \in DOMAIN list : i < j => list[i] < list[j]
  <1> DEFINE id == [s \in at |-> s]
  <1>1. at \in SUBSET Nat /\ IsFiniteSet(at) /\ Cardinality(at) \in Nat /\ id \in [at -> Int]
    BY SlotsAre, FS_Subset, FS_CardinalityType
  <1>2. /\ list \in [1..Cardinality(at) -> at]
        /\ \A i, j \in DOMAIN list : i < j => id[list[i]] < id[list[j]]
    BY DEF InSlotOrder, Sorted
  <1>3. list \in Sorted(at, id)
    BY DEF InSlotOrder
  <1>4. \A i \in DOMAIN list : id[list[i]] = list[i]
    BY <1>2
  <1> HIDE DEF id
  <1>5. Range(list) = at
    BY <1>1, <1>3, SameLists, Order!SortedNamesAll
  <1> QED
    BY <1>1, <1>2, <1>4, <1>5

\* What is left of the line when the groups in some slots are taken out.
LEMMA HowManyStay ==
  ASSUME Shape, AllGood, NEW at \in SUBSET Filled
  PROVE  /\ Cardinality(at) \in Nat /\ Cardinality(Filled \ at) \in Nat
         /\ Cardinality(Filled \ at) = group_count - Cardinality(at)
  <1>1. /\ IsFiniteSet(Filled) /\ IsFiniteSet(at) /\ IsFiniteSet(Filled \ at)
        /\ Cardinality(Filled) = group_count
    BY SlotsAre, FS_Subset
  <1>2. at \cup (Filled \ at) = Filled /\ at \cap (Filled \ at) = {}
    OBVIOUS
  <1>3. /\ Cardinality(at) \in Nat /\ Cardinality(Filled \ at) \in Nat
        /\ Cardinality(at \cup (Filled \ at))
             = Cardinality(at) + Cardinality(Filled \ at) - Cardinality(at \cap (Filled \ at))
    BY <1>1, FS_Union, FS_CardinalityType
  <1>4. /\ Cardinality(at \cap (Filled \ at)) = 0
        /\ Cardinality(at \cup (Filled \ at)) = Cardinality(Filled)
    <2>1. Cardinality({}) = 0
      BY FS_EmptySet
    <2> QED
      BY <1>2, <2>1, Zenon
  <1> DEFINE a == Cardinality(at)
             b == Cardinality(Filled \ at)
             c == Cardinality(Filled)
  <1>5. a \in Nat /\ b \in Nat /\ c = a + b /\ c = group_count
    BY <1>1, <1>3, <1>4
  <1> HIDE DEF a, b, c
  <1>6. b = group_count - a
    BY <1>5
  <1> QED
    BY <1>3, <1>6 DEF a, b
-----------------------------------------------------------------------------
\* Steps that change no more than the answer.

\* What a step may do to a group in line: leave it there with no flag taken back, or
\* hand it over as it is.
Kept(r) ==
  \/ \E s \in 1..group_count' : /\ slots'[s].handle = slots[r].handle
                                /\ slots'[s].members = slots[r].members
                                /\ slots[r].ready \subseteq slots'[s].ready
  \/ slots[r].handle \in DOMAIN out' /\ out'[slots[r].handle] = slots[r]

\* No group is lost, and no flag of a copy that a caller has.
NoneLost ==
  /\ \A r \in Filled : Kept(r)
  /\ \A h \in DOMAIN out : h \in DOMAIN out' /\ out[h].ready \subseteq out'[h].ready

\* What a step hands over, if anything: the groups it copies out.
HandsOver ==
  result'.call \in Departing /\ result' # result =>
    Range(result'.groups) = DOMAIN out' \ DOMAIN out

LEMMA NoGroups == Range(<<>>) = {}
  BY DEF Range

LEMMA RangeOfOne == ASSUME NEW h PROVE Range(<<h>>) = {h}
  BY DEF Range

LEMMA AnswerKeeps ==
  ASSUME IInv, UNCHANGED <<slots, group_count, out>>
  PROVE  /\ IInv' /\ NoneLost /\ Waiting' = Waiting /\ Admitted' = Admitted
  <1>1. Filled' = Filled /\ Waiting' = Waiting /\ Admitted' = Admitted
    BY DEF Filled, Waiting, Admitted
  <1>2. IInv'
    BY <1>1 DEF IInv, Shape, AllGood, InOrder, Apart, OneEach
  <1>3. NoneLost
    BY DEF NoneLost, Kept, Filled
  <1> QED
    BY <1>1, <1>2, <1>3

\* An answer that hands nothing over.
LEMMA HandsNothing ==
  ASSUME DOMAIN out' = DOMAIN out, NEW call, NEW value,
         \/ result' = Returns(call, value, <<>>)
         \/ call \notin Departing /\ \E gs : result' = Returns(call, value, gs)
         \/ result' = result
  PROVE  HandsOver
  BY NoGroups DEF HandsOver, Returns

LEMMA RefuseKeeps ==
  ASSUME IInv, NEW call, Refuse(call)
  PROVE  IInv' /\ NoneLost /\ HandsOver
  <1>1. /\ UNCHANGED <<slots, group_count, out>>
        /\ result' = Returns(call, "TitoError", <<>>)
    BY DEF Refuse, Raises
  <1> QED
    BY <1>1, AnswerKeeps, HandsNothing
-----------------------------------------------------------------------------
\* Marking.

\* The struct g with more flags set.
Refines(new, g) ==
  /\ Good(new)
  /\ new.id = g.id /\ new.members = g.members /\ new.handle = g.handle
  /\ g.ready \subseteq new.ready

LEMMA GoodFinite ==
  ASSUME NEW g, Good(g)
  PROVE  /\ IsFiniteSet(g.ready) /\ Cardinality(g.ready) \in Nat
         /\ Range(g.members) \subseteq Members /\ IsFiniteSet(Range(g.members))
         /\ Len(g.members) \in Nat /\ Len(g.members) = Cardinality(Range(g.members))
  <1>1. g.members \in MemberLists /\ g.ready \in SUBSET Range(g.members)
    BY DEF Good, Structs
  <1>2. /\ IsFiniteSet(Range(g.members)) /\ Range(g.members) \subseteq Members
        /\ Len(g.members) \in Nat /\ Len(g.members) = Cardinality(Range(g.members))
    BY <1>1, SameLists, Order!WellFormedLength DEF Good
  <1>3. IsFiniteSet(g.ready) /\ Cardinality(g.ready) \in Nat
    BY <1>1, <1>2, FS_Subset, FS_CardinalityType
  <1> QED
    BY <1>2, <1>3

\* A good struct with other good flags.
LEMMA FlagsSet ==
  ASSUME NEW g, Good(g), NEW ready \in SUBSET Range(g.members), g.ready \subseteq ready,
         NEW count, count = Cardinality(ready)
  PROVE  LET new == [g EXCEPT !.ready = ready, !.ready_count = count]
         IN  Refines(new, g) /\ new.ready = ready
  <1> DEFINE new == [g EXCEPT !.ready = ready, !.ready_count = count]
  <1>1. count \in Nat /\ ready \in SUBSET Members /\ g \in Structs
    BY GoodFinite, FS_Subset, FS_CardinalityType DEF Good
  <1>2. /\ new \in Structs /\ new.id = g.id /\ new.members = g.members
        /\ new.handle = g.handle /\ new.ready = ready /\ new.ready_count = count
    BY <1>1 DEF Structs
  <1> HIDE DEF new
  <1>3. Refines(new, g)
    BY <1>2 DEF Refines, Good
  <1> QED
    BY <1>2, <1>3 DEF new

LEMMA MarkedIs ==
  ASSUME NEW g, Good(g), NEW m \in Range(g.members)
  PROVE  Refines(Marked(g, m), g) /\ Marked(g, m).ready = g.ready \cup {m}
  <1> DEFINE ready == g.ready \cup {m}
             count == IF m \in g.ready THEN g.ready_count ELSE g.ready_count + 1
  <1>1. ready \in SUBSET Range(g.members) /\ g.ready \subseteq ready
    BY DEF Good
  <1>2. count = Cardinality(ready)
    BY GoodFinite, FS_AddElement DEF Good
  <1>3. Marked(g, m) = [g EXCEPT !.ready = ready, !.ready_count = count]
    BY DEF Marked
  <1> HIDE DEF ready, count
  <1>4. /\ Refines([g EXCEPT !.ready = ready, !.ready_count = count], g)
        /\ [g EXCEPT !.ready = ready, !.ready_count = count].ready = ready
    BY <1>1, <1>2, FlagsSet
  <1> QED
    BY <1>3, <1>4 DEF ready

\* One slot gets a struct of the same group with more flags.
LEMMA SlotMarkKeeps ==
  ASSUME IInv, NEW s \in DOMAIN slots, NEW new, Refines(new, slots[s]),
         slots' = [slots EXCEPT ![s] = new], UNCHANGED <<group_count, out>>
  PROVE  /\ IInv' /\ NoneLost
         /\ Filled' = Filled /\ Waiting' = Waiting /\ Admitted' = Admitted
         /\ \A r \in DOMAIN slots : slots'[r] = IF r = s THEN new ELSE slots[r]
  <1>1. /\ DOMAIN slots = 1..Len(slots) /\ Len(slots) \in Nat /\ Filled \subseteq DOMAIN slots
        /\ \A r \in DOMAIN slots : Good(slots[r])
    BY SlotsAre DEF IInv
  <1>2. /\ slots' \in Seq(Structs) /\ Len(slots') = Len(slots) /\ DOMAIN slots' = DOMAIN slots
        /\ \A r \in DOMAIN slots : slots'[r] = IF r = s THEN new ELSE slots[r]
    <2>1. new \in Structs
      BY DEF Refines, Good
    <2> QED
      BY <1>1, <2>1 DEF IInv, Shape
  <1>3. /\ \A r \in DOMAIN slots : /\ Good(slots'[r])
                                   /\ slots'[r].id = slots[r].id
                                   /\ slots'[r].members = slots[r].members
                                   /\ slots'[r].handle = slots[r].handle
                                   /\ slots[r].ready \subseteq slots'[r].ready
    BY <1>1, <1>2 DEF Refines
  <1>4. Filled' = Filled
    BY DEF Filled
  <1>5. Waiting' = Waiting
    BY <1>1, <1>3, <1>4 DEF Waiting
  <1>6. Admitted' = Admitted
    BY <1>5 DEF Admitted
  <1>7. Shape' /\ AllGood' /\ OneEach'
    BY <1>2, <1>3, <1>5 DEF IInv, Shape, AllGood, OneEach
  <1>8. InOrder' /\ Apart'
    <2>1. \A r \in Filled : /\ slots'[r].id = slots[r].id
                            /\ slots'[r].members = slots[r].members
                            /\ slots'[r].handle = slots[r].handle
      BY <1>1, <1>3
    <2>2. InOrder'
      BY <1>4, <2>1 DEF IInv, InOrder
    <2>3. Apart'
      BY <1>4, <2>1 DEF IInv, Apart
    <2> QED
      BY <2>2, <2>3
  <1>9. NoneLost
    <2>1. \A r \in Filled : Kept(r)
      BY <1>1, <1>3 DEF Kept, Filled
    <2> QED
      BY <2>1 DEF NoneLost
  <1> QED
    BY <1>2, <1>4, <1>5, <1>6, <1>7, <1>8, <1>9 DEF IInv

\* So does a copy.
LEMMA CopyMarkKeeps ==
  ASSUME IInv, NEW h \in DOMAIN out, NEW new, Refines(new, out[h]),
         out' = [out EXCEPT ![h] = new], UNCHANGED <<slots, group_count>>
  PROVE  /\ IInv' /\ NoneLost /\ DOMAIN out' = DOMAIN out
         /\ Filled' = Filled /\ Waiting' = Waiting /\ Admitted' = Admitted
         /\ \A g \in DOMAIN out : out'[g] = IF g = h THEN new ELSE out[g]
  <1>1. /\ DOMAIN out' = DOMAIN out
        /\ \A g \in DOMAIN out : out'[g] = IF g = h THEN new ELSE out[g]
    OBVIOUS
  <1>2. Filled' = Filled /\ Waiting' = Waiting /\ Admitted' = Admitted
    BY <1>1 DEF Filled, Waiting, Admitted
  <1>3. \A g \in DOMAIN out : /\ Good(out'[g]) /\ out'[g].handle = out[g].handle
                              /\ out[g].ready \subseteq out'[g].ready
    BY <1>1 DEF IInv, AllGood, Refines
  <1>4. IInv'
    BY <1>1, <1>2, <1>3 DEF IInv, Shape, AllGood, InOrder, Apart, OneEach
  <1>5. NoneLost
    BY <1>1, <1>3 DEF NoneLost, Kept, Filled
  <1> QED
    BY <1>1, <1>2, <1>4, <1>5

LEMMA MarkingKeeps ==
  ASSUME IInv
  PROVE  /\ \A m : \A s \in DOMAIN slots : MarkSlot(s, m) => IInv' /\ NoneLost /\ HandsOver
         /\ \A m : \A h \in DOMAIN out : MarkCopy(h, m) => IInv' /\ NoneLost /\ HandsOver
         /\ \A s \in DOMAIN slots : MarkGroupReady(s) => IInv' /\ NoneLost /\ HandsOver
  <1>1. ASSUME NEW s \in DOMAIN slots, NEW m, MarkSlot(s, m)
        PROVE  IInv' /\ NoneLost /\ HandsOver
    <2>1. /\ m \in Range(slots[s].members)
          /\ slots' = [slots EXCEPT ![s] = Marked(slots[s], m)]
          /\ UNCHANGED <<group_count, out>>
          /\ \E value : result' = Returns("mark_ready", value, <<>>)
      BY <1>1 DEF MarkSlot
    <2>2. Refines(Marked(slots[s], m), slots[s])
      BY <2>1, MarkedIs DEF IInv, AllGood
    <2> QED
      BY <2>1, <2>2, SlotMarkKeeps, HandsNothing
  <1>2. ASSUME NEW h \in DOMAIN out, NEW m, MarkCopy(h, m)
        PROVE  IInv' /\ NoneLost /\ HandsOver
    <2>1. /\ m \in Range(out[h].members) /\ out' = [out EXCEPT ![h] = Marked(out[h], m)]
          /\ UNCHANGED <<slots, group_count>>
          /\ \E value : result' = Returns("mark_ready", value, <<>>)
      BY <1>2 DEF MarkCopy
    <2>2. Refines(Marked(out[h], m), out[h])
      BY <2>1, MarkedIs DEF IInv, AllGood
    <2> QED
      BY <2>1, <2>2, CopyMarkKeeps, HandsNothing
  <1>3. ASSUME NEW s \in DOMAIN slots, MarkGroupReady(s)
        PROVE  IInv' /\ NoneLost /\ HandsOver
    <2>1. /\ slots' = [slots EXCEPT ![s].ready = Range(slots[s].members),
                                    ![s].ready_count = Len(slots[s].members)]
          /\ UNCHANGED <<group_count, out>>
          /\ result' = Returns("mark_group_ready", "True", <<>>)
      BY <1>3 DEF MarkGroupReady
    <2> DEFINE all == Range(slots[s].members)
               count == Len(slots[s].members)
               new == [slots[s] EXCEPT !.ready = all, !.ready_count = count]
    <2>2. slots' = [slots EXCEPT ![s] = new]
      BY <2>1
    <2>3. Refines(new, slots[s])
      <3>1. /\ Good(slots[s]) /\ count = Cardinality(all) /\ slots[s].ready \subseteq all
            /\ all \in SUBSET Range(slots[s].members)
        BY GoodFinite DEF IInv, AllGood, Good
      <3> HIDE DEF count, all
      <3> QED
        BY <3>1, FlagsSet
    <2> HIDE DEF new
    <2> QED
      BY <2>1, <2>2, <2>3, SlotMarkKeeps, HandsNothing
  <1> QED
    BY <1>1, <1>2, <1>3
-----------------------------------------------------------------------------
\* Leaving.

HandlesIn(at) == {slots[s].handle : s \in at}

\* What the callers have after a departure.
LEMMA OutIs ==
  ASSUME IInv, NEW at \in SUBSET Filled, CopyOut(at)
  PROVE  /\ DOMAIN out' = DOMAIN out \cup HandlesIn(at)
         /\ \A h \in DOMAIN out : out'[h] = out[h]
         /\ \A s \in at : slots[s].handle \notin DOMAIN out /\ out'[slots[s].handle] = slots[s]
  <1>1. \A s \in at : slots[s].handle \in Waiting /\ SlotOf(slots[s].handle) = s
    BY SlotIs DEF IInv, Waiting
  <1>2. \A s \in at : slots[s].handle \notin DOMAIN out
    BY <1>1 DEF IInv, OneEach
  <1> QED
    BY <1>1, <1>2 DEF CopyOut, HandlesIn

\* The groups that are left stand in line as they stood, from the first slot on.
StandIn(line, at) ==
  /\ line \in [Filled' -> Filled \ at]
  /\ \A s \in Filled \ at : \E r \in Filled' : s = line[r]
  /\ \A q, r \in Filled' : q < r => line[q] < line[r]
  /\ \A r \in Filled' : slots'[r] = slots[line[r]]

LEMMA LeaveKeeps ==
  ASSUME IInv, NEW at \in SUBSET Filled, CopyOut(at), NEW line, StandIn(line, at),
         slots' \in Seq(Structs), Len(slots') = Len(slots), group_count' \in 0..Len(slots),
         \A r \in DOMAIN slots' : Good(slots'[r])
  PROVE  /\ IInv' /\ NoneLost
         /\ Waiting' = Waiting \ HandlesIn(at) /\ DOMAIN out' \ DOMAIN out = HandlesIn(at)
         /\ Admitted' = Admitted
  <1>1. /\ DOMAIN out' = DOMAIN out \cup HandlesIn(at)
        /\ \A h \in DOMAIN out : out'[h] = out[h]
        /\ \A s \in at : slots[s].handle \notin DOMAIN out /\ out'[slots[s].handle] = slots[s]
    BY OutIs
  <1>2. /\ Filled \subseteq DOMAIN slots
        /\ \A s \in DOMAIN slots : Good(slots[s])
        /\ \A r, s \in Filled : slots[r].handle = slots[s].handle => r = s
    BY SlotsAre, SlotIs DEF IInv
  <1>3. Waiting' = Waiting \ HandlesIn(at)
    <2>1. Waiting' = {slots[s].handle : s \in Filled \ at}
      BY DEF Waiting, StandIn
    <2>2. \A s \in Filled : slots[s].handle \in HandlesIn(at) <=> s \in at
      BY <1>2 DEF HandlesIn
    <2>3. \A h \in Waiting : \E s \in Filled : h = slots[s].handle
      BY DEF Waiting
    <2>4. \A s \in Filled : slots[s].handle \in Waiting
      BY DEF Waiting
    <2> QED
      BY <2>1, <2>2, <2>3, <2>4
  <1>4. HandlesIn(at) \subseteq Waiting
    BY DEF HandlesIn, Waiting
  <1>5. DOMAIN out' \ DOMAIN out = HandlesIn(at)
    BY <1>1 DEF HandlesIn
  <1>6. Waiting' \cup DOMAIN out' = Waiting \cup DOMAIN out
    BY <1>1, <1>3, <1>4
  <1>7. Admitted' = Admitted
    BY <1>6 DEF Admitted
  <1>8. Shape' /\ AllGood'
    <2>1. \A h \in DOMAIN out' : Good(out'[h])
      BY <1>1, <1>2 DEF IInv, AllGood, HandlesIn
    <2> QED
      BY <2>1 DEF IInv, Shape, AllGood
  <1>9. InOrder' /\ Apart'
    <2>1. \A r \in Filled' : line[r] \in Filled /\ slots'[r] = slots[line[r]]
      BY DEF StandIn
    <2>2. \A q, r \in Filled' : q < r => line[q] < line[r]
      BY DEF StandIn
    <2>3. InOrder'
      BY <2>1, <2>2 DEF IInv, InOrder
    <2>4. \A q, r \in Filled' : q # r => line[q] # line[r]
      <3>1. \A q, r \in Filled' : q # r => q < r \/ r < q
        BY DEF Filled
      <3>2. \A s \in Filled : s \in Nat
        BY SlotsAre DEF IInv
      <3> QED
        BY <2>1, <2>2, <3>1, <3>2
    <2>5. ASSUME NEW q \in Filled', NEW r \in Filled', q # r
          PROVE  /\ slots'[q].id # slots'[r].id
                 /\ Range(slots'[q].members) \cap Range(slots'[r].members) = {}
      <3>1. line[q] \in Filled /\ line[r] \in Filled /\ line[q] # line[r]
        BY <2>1, <2>4, <2>5
      <3>2. /\ slots[line[q]].id # slots[line[r]].id
            /\ Range(slots[line[q]].members) \cap Range(slots[line[r]].members) = {}
        BY <3>1 DEF IInv, Apart
      <3> QED
        BY <2>1, <2>5, <3>2
    <2>6. Apart'
      BY <2>5 DEF Apart
    <2> QED
      BY <2>3, <2>6
  <1>10. OneEach'
    <2>1. Waiting' \cap DOMAIN out' = {}
      BY <1>1, <1>3 DEF IInv, OneEach
    <2>2. \A h \in DOMAIN out' : out'[h].handle = h
      BY <1>1 DEF IInv, OneEach, HandlesIn
    <2> QED
      BY <1>6, <2>1, <2>2 DEF IInv, OneEach
  <1>11. NoneLost
    <2>1. ASSUME NEW r \in Filled PROVE Kept(r)
      <3>1. CASE r \in at
        BY <1>1, <3>1 DEF Kept, HandlesIn
      <3>2. CASE r \notin at
        <4>1. PICK q \in Filled' : r = line[q]
          BY <3>2 DEF StandIn
        <4>2. slots'[q] = slots[r] /\ q \in 1..group_count'
          BY <4>1 DEF StandIn, Filled
        <4> QED
          BY <4>2 DEF Kept
      <3> QED
        BY <3>1, <3>2
    <2> QED
      BY <1>1, <2>1 DEF NoneLost
  <1> QED
    BY <1>3, <1>5, <1>7, <1>8, <1>9, <1>10, <1>11 DEF IInv

LEMMA DepartKeeps ==
  ASSUME IInv, NEW at \in SUBSET Filled, Depart(at)
  PROVE  /\ IInv' /\ NoneLost
         /\ Waiting' = Waiting \ HandlesIn(at) /\ DOMAIN out' \ DOMAIN out = HandlesIn(at)
         /\ Admitted' = Admitted /\ CopyOut(at)
         /\ \E line : StandIn(line, at)
  <1>1. PICK left \in InSlotOrder(Filled \ at) : slots' = ShiftDown(left)
    BY DEF Depart
  <1>2. CopyOut(at) /\ group_count' = group_count - Cardinality(at)
    BY DEF Depart
  <1>3. /\ DOMAIN slots = 1..Len(slots) /\ Len(slots) \in Nat
        /\ Filled \subseteq DOMAIN slots /\ group_count \in Nat
        /\ group_count <= Len(slots)
        /\ \A s \in DOMAIN slots : slots[s] \in Structs /\ Good(slots[s])
    BY SlotsAre DEF IInv
  <1>4. /\ group_count' \in Nat /\ group_count' <= group_count
        /\ Cardinality(Filled \ at) = group_count'
    <2>1. /\ Cardinality(at) \in Nat /\ Cardinality(Filled \ at) \in Nat
          /\ Cardinality(Filled \ at) = group_count - Cardinality(at)
      BY HowManyStay DEF IInv
    <2> QED
      BY <1>2, <1>3, <2>1
  <1>5. /\ left \in [Filled' -> Filled \ at] /\ Range(left) = Filled \ at
        /\ \A q, r \in Filled' : q < r => left[q] < left[r]
    <2>1. /\ left \in [1..Cardinality(Filled \ at) -> Filled \ at]
          /\ Range(left) = Filled \ at
          /\ \A i, j \in DOMAIN left : i < j => left[i] < left[j]
      BY SlotOrder DEF IInv
    <2> QED
      BY <1>4, <2>1 DEF Filled
  <1>6. Filled' \subseteq Filled /\ Filled' = DOMAIN left
    BY <1>3, <1>4, <1>5 DEF Filled
  <1>7. /\ DOMAIN slots' = DOMAIN slots
        /\ \A r \in Filled' : slots'[r] = slots[left[r]]
        /\ \A r \in DOMAIN slots : \E s \in DOMAIN slots : slots'[r] = slots[s]
    <2>1. DOMAIN slots' = DOMAIN slots
      BY <1>1 DEF ShiftDown
    <2>2. ASSUME NEW r \in DOMAIN slots, r \in DOMAIN left
          PROVE  slots'[r] = slots[left[r]] /\ left[r] \in DOMAIN slots
      <3>1. slots'[r] = slots[left[r]]
        BY <1>1, <1>6, <2>2 DEF ShiftDown
      <3> QED
        BY <1>3, <1>5, <1>6, <2>2, <3>1
    <2>3. ASSUME NEW r \in DOMAIN slots, r \in Filled \ DOMAIN left
          PROVE  slots'[r] = slots[group_count] /\ group_count \in DOMAIN slots
      <3>1. slots'[r] = slots[group_count]
        BY <1>1, <2>3 DEF ShiftDown
      <3>2. group_count \in Filled
        BY <1>3, <2>3 DEF Filled
      <3> QED
        BY <1>3, <3>1, <3>2
    <2>4. ASSUME NEW r \in DOMAIN slots, r \notin Filled PROVE slots'[r] = slots[r]
      BY <1>1, <1>6, <2>4 DEF ShiftDown
    <2> QED
      BY <1>3, <1>6, <2>1, <2>2, <2>3, <2>4
  <1>8. /\ slots' \in Seq(Structs) /\ Len(slots') = Len(slots)
        /\ \A r \in DOMAIN slots' : Good(slots'[r])
    <2>1. slots' \in [1..Len(slots) -> Structs]
      <3>1. slots' = [r \in 1..Len(slots) |-> slots'[r]]
        BY <1>1, <1>3 DEF ShiftDown
      <3>2. \A r \in 1..Len(slots) : slots'[r] \in Structs
        BY <1>3, <1>7
      <3> QED
        BY <3>1, <3>2
    <2>2. slots' \in Seq(Structs) /\ Len(slots') = Len(slots)
      BY <1>3, <2>1
    <2>3. \A r \in DOMAIN slots' : Good(slots'[r])
      BY <1>3, <1>7
    <2> QED
      BY <2>2, <2>3
  <1>9. StandIn(left, at)
    BY <1>5, <1>6, <1>7 DEF StandIn, Range
  <1>10. group_count' \in 0..Len(slots)
    BY <1>3, <1>4
  <1> QED
    BY <1>2, <1>8, <1>9, <1>10, LeaveKeeps

LEMMA ClearKeeps ==
  ASSUME IInv, NEW capacity, Clear(capacity)
  PROVE  /\ IInv' /\ NoneLost /\ CopyOut(Filled)
         /\ Waiting' = {} /\ DOMAIN out' \ DOMAIN out = HandlesIn(Filled)
         /\ Admitted' = Admitted /\ \E line : StandIn(line, Filled)
  <1>1. CopyOut(Filled) /\ group_count' = 0 /\ slots' = slots
    BY DEF Clear
  <1>2. Filled' = {}
    BY <1>1 DEF Filled
  <1>3. \A s \in DOMAIN slots : Good(slots[s])
    BY DEF IInv, AllGood
  <1> DEFINE none == [s \in {} |-> s]
  <1>4. StandIn(none, Filled)
    BY <1>2 DEF StandIn
  <1> HIDE DEF none
  <1>5. group_count' \in 0..Len(slots) /\ slots \in Seq(Structs)
    BY <1>1 DEF IInv, Shape
  <1>6. Waiting' = {}
    BY <1>2 DEF Waiting
  <1> QED
    BY <1>1, <1>2, <1>3, <1>4, <1>5, <1>6, LeaveKeeps
-----------------------------------------------------------------------------
\* Searches, and admission.

\* Apart from each other, the groups in line leave a search one slot to find.
LEMMA Found ==
  ASSUME IInv
  PROVE  /\ \A id : Named(id) = {s \in Filled : slots[s].id = id}
         /\ \A m : GroupOf(m) = {s \in Filled : m \in Range(slots[s].members)}
         /\ \A id : \A r, s \in Named(id) : r = s
         /\ \A m : \A r, s \in GroupOf(m) : r = s
  <1>1. \A s \in Filled : s \in Nat
    BY SlotsAre DEF IInv
  <1>2. ASSUME NEW at \in SUBSET Filled, \A r, s \in at : r = s PROVE First(at) = at
    BY <1>1, <1>2 DEF First
  <1>3. ASSUME NEW id
        PROVE  /\ Named(id) = {s \in Filled : slots[s].id = id}
               /\ \A r, s \in Named(id) : r = s
    <2> DEFINE at == {s \in Filled : slots[s].id = id}
    <2>1. at \in SUBSET Filled /\ \A r, s \in at : r = s
      BY DEF IInv, Apart
    <2>2. First(at) = at
      BY <1>2, <2>1
    <2> QED
      BY <2>1, <2>2 DEF Named
  <1>4. ASSUME NEW m
        PROVE  /\ GroupOf(m) = {s \in Filled : m \in Range(slots[s].members)}
               /\ \A r, s \in GroupOf(m) : r = s
    <2> DEFINE at == {s \in Filled : m \in Range(slots[s].members)}
    <2>1. at \in SUBSET Filled /\ \A r, s \in at : r = s
      BY DEF IInv, Apart
    <2>2. First(at) = at
      BY <1>2, <2>1
    <2> QED
      BY <2>1, <2>2 DEF GroupOf
  <1> QED
    BY <1>3, <1>4

LEMMA AdmitIs ==
  ASSUME IInv, NEW id \in GroupIds, NEW list \in MemberLists, Admit(id, list)
  PROVE  LET new == group_count + 1
         IN  /\ new \notin Filled /\ Filled' = Filled \cup {new} /\ group_count' = new
             /\ slots' \in Seq(Structs) /\ Len(slots') <= MaxGroups /\ new <= Len(slots')
             /\ slots'[new] = Fresh(id, list) /\ Good(slots'[new])
             /\ \A r \in DOMAIN slots' : r # new => r \in DOMAIN slots /\ slots'[r] = slots[r]
             /\ \A r \in Filled : slots'[r] = slots[r]
  <1> DEFINE new == group_count + 1
             fresh == Fresh(id, list)
  <1>1. /\ Fits(id, list) /\ Admissible(id, list) /\ group_count' = new
        /\ slots' = IF group_count = Len(slots) THEN Append(slots, fresh)
                    ELSE [slots EXCEPT ![new] = fresh]
    BY DEF Admit
  <1>2. /\ Len(slots) \in Nat /\ DOMAIN slots = 1..Len(slots) /\ Len(slots) <= MaxGroups
        /\ group_count \in Nat /\ group_count <= Len(slots) /\ group_count < MaxGroups
        /\ slots \in Seq(Structs) /\ MaxGroups \in Nat
    BY <1>1, SlotsAre, ArrayAssumption DEF IInv, Shape, Fits
  <1>3. /\ fresh = [id |-> id, members |-> list, ready_count |-> 0, handle |-> Admitted + 1,
                    ready |-> {}]
        /\ Admitted + 1 \in Nat
    BY AdmittedIs DEF Fresh, IInv
  <1>4. fresh \in Structs /\ Good(fresh)
    <2>1. WellFormed(list) /\ Cardinality({}) = 0
      BY <1>1, FS_EmptySet DEF Admissible
    <2>2. fresh \in Structs
      BY <1>3 DEF Structs
    <2> QED
      BY <1>3, <2>1, <2>2 DEF Good
  <1> HIDE DEF fresh
  <1>5. /\ slots' \in Seq(Structs) /\ Len(slots') <= MaxGroups /\ new <= Len(slots')
        /\ slots'[new] = fresh
        /\ \A r \in DOMAIN slots' : r # new => r \in DOMAIN slots /\ slots'[r] = slots[r]
    <2>1. CASE group_count = Len(slots)
      <3>1. /\ slots' \in Seq(Structs) /\ Len(slots') = Len(slots) + 1
            /\ slots'[Len(slots) + 1] = fresh
            /\ \A r \in 1..Len(slots) : slots'[r] = slots[r]
        BY <1>1, <1>2, <1>4, <2>1
      <3>2. DOMAIN slots' = 1..(Len(slots) + 1)
        BY <3>1
      <3> QED
        BY <1>2, <2>1, <3>1, <3>2
    <2>2. CASE group_count # Len(slots)
      <3>1. new \in DOMAIN slots
        <4>1. group_count \in Nat /\ Len(slots) \in Nat /\ group_count <= Len(slots)
          BY <1>2
        <4>2. new \in 1..Len(slots)
          BY <2>2, <4>1
        <4> QED
          BY <1>2, <4>2
      <3>2. slots' = [slots EXCEPT ![new] = fresh]
        BY <1>1, <2>2
      <3> QED
        BY <1>2, <1>4, <3>1, <3>2
    <2> QED
      BY <2>1, <2>2
  <1>6. new \notin Filled /\ Filled' = Filled \cup {new}
    <2>1. group_count \in Nat /\ group_count' = group_count + 1
      BY <1>1, <1>2
    <2> QED
      BY <2>1 DEF Filled
  <1>7. \A r \in Filled : slots'[r] = slots[r]
    <2>1. DOMAIN slots' = 1..Len(slots')
      BY <1>5
    <2>2. \A r \in Filled : r \in DOMAIN slots' /\ r # new
      BY <1>2, <1>5, <2>1 DEF Filled
    <2> QED
      BY <1>5, <2>2
  <1> QED
    BY <1>1, <1>4, <1>5, <1>6, <1>7 DEF fresh

LEMMA AdmitKeeps ==
  ASSUME IInv, NEW id \in GroupIds, NEW list \in MemberLists, Admit(id, list)
  PROVE  /\ IInv' /\ NoneLost /\ HandsOver
         /\ Waiting' = Waiting \cup {Admitted + 1} /\ Admitted' = Admitted + 1
  <1> DEFINE new == group_count + 1
             h == Admitted + 1
  <1>1. /\ new \notin Filled /\ Filled' = Filled \cup {new} /\ group_count' = new
        /\ slots' \in Seq(Structs) /\ Len(slots') <= MaxGroups /\ new <= Len(slots')
        /\ slots'[new] = Fresh(id, list) /\ Good(slots'[new])
        /\ \A r \in DOMAIN slots' : r # new => r \in DOMAIN slots /\ slots'[r] = slots[r]
        /\ \A r \in Filled : slots'[r] = slots[r]
    BY AdmitIs
  <1>2. /\ Fresh(id, list).id = id /\ Fresh(id, list).members = list
        /\ Fresh(id, list).handle = h
    BY DEF Fresh
  <1>3. /\ Admissible(id, list) /\ out' = out
        /\ result' = Returns("admit", "Group", <<h>>)
    BY DEF Admit
  <1>4. group_count \in Nat /\ Admitted \in Nat /\ Waiting \cup DOMAIN out = 1..Admitted
    BY SlotsAre, AdmittedIs DEF IInv
  <1>5. Waiting' = Waiting \cup {h}
    BY <1>1, <1>2 DEF Waiting
  <1>6. Waiting' \cup DOMAIN out' = 1..h /\ h \in Nat /\ h \notin DOMAIN out
    BY <1>3, <1>4, <1>5
  <1>7. Admitted' = h
    <2>1. Cardinality(1..h) = h
      BY <1>6, FS_Interval
    <2> QED
      BY <1>6, <2>1 DEF Admitted
  <1>8. \A s \in Filled : s \in Nat /\ s < new /\ slots[s].handle \in Nat
                          /\ slots[s].handle < h
    <2>1. \A s \in Filled : s \in Nat /\ s < new
      BY <1>4 DEF Filled
    <2>2. \A s \in Filled : slots[s].handle \in 1..Admitted
      BY <1>4 DEF Waiting
    <2> QED
      BY <1>4, <2>1, <2>2
  <1> HIDE DEF h, new
  <1>9. Shape' /\ AllGood'
    <2>1. \A r \in DOMAIN slots' : Good(slots'[r])
      BY <1>1 DEF IInv, AllGood
    <2>2. group_count' \in 0..Len(slots')
      BY <1>1, <1>4 DEF new
    <2> QED
      BY <1>1, <1>3, <2>1, <2>2 DEF IInv, AllGood, Shape
  <1>10. InOrder'
    <2>1. ASSUME NEW r \in Filled', NEW s \in Filled', r < s
          PROVE  slots'[r].handle < slots'[s].handle
      <3>1. new \in Nat
        BY <1>4 DEF new
      <3>2. CASE r = new
        BY <1>1, <1>8, <2>1, <3>1, <3>2
      <3>3. CASE r # new /\ s = new
        BY <1>1, <1>2, <1>8, <3>3
      <3>4. CASE r # new /\ s # new
        BY <1>1, <2>1, <3>4 DEF IInv, InOrder
      <3> QED
        BY <3>2, <3>3, <3>4
    <2> QED
      BY <2>1 DEF InOrder
  <1>11. Apart'
    <2>1. \A r \in Filled : /\ slots[r].id # id
                            /\ Range(list) \cap Range(slots[r].members) = {}
      <3>1. Named(id) = {} /\ \A m \in Range(list) : GroupOf(m) = {}
        BY <1>3 DEF Admissible, Range
      <3> QED
        BY <3>1, Found
    <2>2. ASSUME NEW r \in Filled', NEW s \in Filled', r # s
          PROVE  /\ slots'[r].id # slots'[s].id
                 /\ Range(slots'[r].members) \cap Range(slots'[s].members) = {}
      <3>1. CASE r = new
        BY <1>1, <1>2, <2>1, <2>2, <3>1
      <3>2. CASE s = new
        BY <1>1, <1>2, <2>1, <2>2, <3>2
      <3>3. CASE r # new /\ s # new
        BY <1>1, <2>2, <3>3 DEF IInv, Apart
      <3> QED
        BY <3>1, <3>2, <3>3
    <2> QED
      BY <2>2 DEF Apart
  <1>12. OneEach'
    BY <1>3, <1>5, <1>6 DEF IInv, OneEach
  <1>13. NoneLost
    <2>1. \A r \in Filled : r \in 1..group_count'
      BY <1>1 DEF Filled
    <2> QED
      BY <1>1, <1>3, <2>1 DEF NoneLost, Kept
  <1>14. HandsOver
    BY <1>3, HandsNothing DEF Departing
  <1> QED
    BY <1>5, <1>7, <1>9, <1>10, <1>11, <1>12, <1>13, <1>14 DEF IInv, h
-----------------------------------------------------------------------------
\* Every step.

LEMMA Starts == Init => IInv
  <1> SUFFICES ASSUME Init PROVE IInv
    OBVIOUS
  <1>1. slots = <<>> /\ group_count = 0 /\ out = EmptyDict
    BY DEF Init
  <1>2. Filled = {} /\ Waiting = {} /\ DOMAIN slots = {} /\ DOMAIN out = {}
    BY <1>1 DEF Filled, Waiting, EmptyDict
  <1>3. Shape
    BY <1>1, ArrayAssumption DEF Shape
  <1>4. OneEach
    <2>1. 1..0 = {}
      OBVIOUS
    <2> QED
      BY <1>2, <2>1 DEF OneEach
  <1> QED
    BY <1>2, <1>3, <1>4 DEF IInv, AllGood, InOrder, Apart

\* What leaves a search is in line.
LEMMA OutIsFilled ==
  /\ NextOut \subseteq Filled
  /\ \A capacity : AllOut(capacity) \subseteq Filled
  BY DEF NextOut, First, AllOut

\* One group leaves, and the answer hands it over.
LEMMA OneLeaves ==
  ASSUME IInv, NEW s \in Filled, Depart({s}), NEW call, NEW value,
         result' = Returns(call, value, <<slots[s].handle>>)
  PROVE  IInv' /\ NoneLost /\ HandsOver
  <1>1. /\ IInv' /\ NoneLost /\ DOMAIN out' \ DOMAIN out = HandlesIn({s})
    BY DepartKeeps
  <1>2. HandlesIn({s}) = {slots[s].handle} /\ Range(<<slots[s].handle>>) = {slots[s].handle}
    BY RangeOfOne DEF HandlesIn
  <1> QED
    BY <1>1, <1>2 DEF HandsOver, Returns

\* The list of the groups in some slots names each of them.
LEMMA LineNames ==
  ASSUME IInv, NEW at \in SUBSET Filled, NEW list \in Line(at)
  PROVE  Range(list) = HandlesIn(at)
  <1>1. PICK places \in InSlotOrder(at) :
          list = [i \in DOMAIN places |-> slots[places[i]].handle]
    BY DEF Line
  <1>2. Range(places) = at
    BY SlotOrder DEF IInv
  <1> QED
    BY <1>1, <1>2 DEF Range, HandlesIn

\* The inductive step: a step keeps the invariant, loses no group and no flag, and hands
\* over what it takes out.
LEMMA NextKeeps ==
  ASSUME IInv, [Next]_vars
  PROVE  IInv' /\ NoneLost /\ HandsOver
  <1>1. CASE UNCHANGED vars
    BY <1>1, AnswerKeeps DEF vars, HandsOver
  <1>2. ASSUME NEW call, Refuse(call) PROVE IInv' /\ NoneLost /\ HandsOver
    BY <1>2, RefuseKeeps
  <1>3. ASSUME NEW id \in GroupIds, NEW list \in MemberLists,
               Admit(id, list) \/ AdmitRefused(id, list) \/ AdmitNoRoom(id, list)
        PROVE  IInv' /\ NoneLost /\ HandsOver
    <2>1. CASE AdmitNoRoom(id, list)
      BY <2>1, AnswerKeeps DEF AdmitNoRoom, HandsOver
    <2> QED
      BY <1>3, <1>2, <2>1, AdmitKeeps DEF AdmitRefused
  <1>4. ASSUME NEW s \in Pointers, NEW m \in Members, MarkSlot(s, m) \/ MarkSlotRefused(s, m)
        PROVE  IInv' /\ NoneLost /\ HandsOver
    <2>1. s \in DOMAIN slots
      BY SlotsAre DEF Pointers, IInv
    <2> QED
      BY <1>2, <1>4, <2>1, MarkingKeeps DEF MarkSlotRefused
  <1>5. ASSUME NEW h \in DOMAIN out, NEW m \in Members, MarkCopy(h, m) \/ MarkCopyRefused(h, m)
        PROVE  IInv' /\ NoneLost /\ HandsOver
    BY <1>2, <1>5, MarkingKeeps DEF MarkCopyRefused
  <1>6. ASSUME NEW m \in Members, MarkReady(m) \/ MarkReadyRefused(m)
        PROVE  IInv' /\ NoneLost /\ HandsOver
    <2>1. GroupOf(m) \subseteq DOMAIN slots
      BY Found, SlotsAre DEF IInv
    <2> QED
      BY <1>2, <1>6, <2>1, MarkingKeeps DEF MarkReady, MarkReadyRefused
  <1>7. ASSUME NEW id \in GroupIds, NEW s \in Named(id), MarkGroupReady(s) \/ Cancel(s)
        PROVE  IInv' /\ NoneLost /\ HandsOver
    <2>1. s \in Filled /\ s \in DOMAIN slots
      BY Found, SlotsAre DEF IInv
    <2>2. CASE Cancel(s)
      BY <2>1, <2>2, OneLeaves DEF Cancel
    <2> QED
      BY <1>7, <2>1, <2>2, MarkingKeeps
  <1>8. CASE Peek
    <2>1. /\ UNCHANGED <<slots, group_count, out>>
          /\ \E value, gs : result' = Returns("peek", value, gs)
      BY <1>8 DEF Peek
    <2> QED
      BY <2>1, AnswerKeeps, HandsNothing DEF Departing
  <1>9. CASE Release
    BY <1>9, OutIsFilled, OneLeaves DEF Release
  <1>10. CASE ReleaseNone
    <2>1. {} \in SUBSET Filled /\ HandlesIn({}) = {}
      BY DEF HandlesIn
    <2>2. IInv' /\ NoneLost /\ DOMAIN out' \ DOMAIN out = {}
      BY <1>10, <2>1, DepartKeeps DEF ReleaseNone
    <2> QED
      BY <1>10, <2>2, NoGroups DEF ReleaseNone, HandsOver, Returns
  <1>11. ASSUME NEW capacity \in Capacities, ReleaseAll(capacity)
         PROVE  IInv' /\ NoneLost /\ HandsOver
    <2> DEFINE at == AllOut(capacity)
    <2>1. at \in SUBSET Filled
      BY OutIsFilled
    <2>2. PICK list \in Line(at) : result' = Returns("release_all", "List", list)
      BY <1>11 DEF ReleaseAll
    <2>3. Depart(at)
      BY <1>11 DEF ReleaseAll
    <2> HIDE DEF at
    <2>4. IInv' /\ NoneLost /\ DOMAIN out' \ DOMAIN out = HandlesIn(at)
      BY <2>1, <2>3, DepartKeeps
    <2> QED
      BY <2>1, <2>2, <2>4, LineNames DEF HandsOver, Returns
  <1>12. ASSUME NEW capacity \in Capacities, Clear(capacity)
         PROVE  IInv' /\ NoneLost /\ HandsOver
    <2>1. PICK list \in Line(Filled) : result' = Returns("clear", "List", list)
      BY <1>12 DEF Clear
    <2>2. IInv' /\ NoneLost /\ DOMAIN out' \ DOMAIN out = HandlesIn(Filled)
      BY <1>12, ClearKeeps
    <2> QED
      BY <2>1, <2>2, LineNames DEF HandsOver, Returns
  <1>13. CASE Next
    BY <1>2, <1>3, <1>4, <1>5, <1>6, <1>7, <1>8, <1>9, <1>10, <1>11, <1>12, <1>13
       DEF Next, ClearRefused
  <1> QED
    BY <1>1, <1>13

LEMMA NextKeepsAlways == IInv /\ [Next]_vars => IInv' /\ NoneLost /\ HandsOver
  BY NextKeeps

\* Whatever a caller does with stale pointers and short buffers, array and copies stay
\* consistent.
THEOREM Consistent == Spec => []IInv
  BY Starts, NextKeepsAlways, PTL DEF Spec

\* The array holds whole groups in order of arrival, nobody twice, and every struct
\* counts its flags right, in a slot in use or not or in a caller's hands.
THEOREM ArrayStaysInOrder == Spec => []ArrayInOrder
  <1>1. ASSUME IInv PROVE ArrayInOrder
    <2>1. \A g \in Range(slots) \cup Range(out) : g.ready_count = Cardinality(g.ready)
      BY <1>1 DEF IInv, AllGood, Good, Range
    <2>2. \A r, s \in Filled : r < s => r # s
      <3>1. \A s \in Filled : s \in Nat
        BY <1>1, SlotsAre DEF IInv
      <3> QED
        BY <3>1
    <2>3. group_count <= Len(slots) /\ Len(slots) <= MaxGroups
      BY <1>1, SlotsAre DEF IInv, Shape
    <2> QED
      BY <1>1, <2>1, <2>2, <2>3 DEF IInv, InOrder, Apart, ArrayInOrder
  <1> QED
    BY <1>1, Consistent, PTL

\* A group leaves in the struct it waited in, a waiting group stays who it is and loses no
\* flag, and a call hands over exactly the groups it copied out.
THEOREM CopiedWhole == Spec => CopiedOutWhole
  <1> DEFINE Whole ==
        /\ \A r \in Filled : \/ \E s \in 1..group_count' :
                                 /\ slots'[s].handle = slots[r].handle
                                 /\ slots'[s].members = slots[r].members
                                 /\ slots[r].ready \subseteq slots'[s].ready
                             \/ /\ slots[r].handle \in DOMAIN out'
                                /\ out'[slots[r].handle] = slots[r]
        /\ \A h \in DOMAIN out : h \in DOMAIN out' /\ out[h].ready \subseteq out'[h].ready
        /\ result'.call \in Departing /\ result' # result =>
             Range(result'.groups) = DOMAIN out' \ DOMAIN out
  <1>1. IInv /\ [Next]_vars => [Whole]_vars
    BY NextKeeps DEF NoneLost, Kept, HandsOver
  <1> QED
    BY <1>1, Consistent, PTL DEF Spec, CopiedOutWhole
-----------------------------------------------------------------------------
\* What the array and the copies say, the discipline says of the groups' flags.

LEMMA StructIs ==
  IInv => /\ \A s \in Filled : /\ slots[s].handle \in 1..Admitted
                               /\ Struct(slots[s].handle) = slots[s]
          /\ \A h \in DOMAIN out : h \in 1..Admitted /\ Struct(h) = out[h]
          /\ \A h \in 1..Admitted : h \in DOMAIN out \/ \E s \in Filled : h = slots[s].handle
          /\ \A h \in 1..Admitted : Good(Struct(h))
  <1> SUFFICES ASSUME IInv
               PROVE  /\ \A s \in Filled : /\ slots[s].handle \in 1..Admitted
                                           /\ Struct(slots[s].handle) = slots[s]
                      /\ \A h \in DOMAIN out : h \in 1..Admitted /\ Struct(h) = out[h]
                      /\ \A h \in 1..Admitted : \/ h \in DOMAIN out
                                                \/ \E s \in Filled : h = slots[s].handle
                      /\ \A h \in 1..Admitted : Good(Struct(h))
    OBVIOUS
  <1>1. Waiting \cup DOMAIN out = 1..Admitted /\ Waiting \cap DOMAIN out = {}
    BY AdmittedIs DEF IInv, OneEach
  <1>2. \A s \in Filled : /\ slots[s].handle \in Waiting
                          /\ SlotOf(slots[s].handle) = s
    BY SlotIs DEF IInv, Waiting
  <1>3. \A s \in Filled : /\ slots[s].handle \in 1..Admitted
                          /\ Struct(slots[s].handle) = slots[s]
    BY <1>1, <1>2 DEF Struct
  <1>4. \A h \in DOMAIN out : h \in 1..Admitted /\ Struct(h) = out[h]
    BY <1>1 DEF Struct
  <1>5. \A h \in 1..Admitted : h \in DOMAIN out \/ \E s \in Filled : h = slots[s].handle
    BY <1>1 DEF Waiting
  <1>6. \A s \in Filled : Good(slots[s])
    BY SlotsAre DEF IInv
  <1>7. \A h \in 1..Admitted : Good(Struct(h))
    BY <1>3, <1>4, <1>5, <1>6 DEF IInv, AllGood
  <1> QED
    BY <1>3, <1>4, <1>5, <1>7

\* The struct of a group after a step.
StructThen(h) == IF h \in DOMAIN out' THEN out'[h]
                 ELSE slots'[CHOOSE s \in Filled' : slots'[s].handle = h]

LEMMA ThenIs == \A h : Struct(h)' = StructThen(h)
  BY DEF Struct, SlotOf, StructThen

LEMMA StructIsThen ==
  IInv' => /\ \A s \in Filled' : /\ slots'[s].handle \in 1..Admitted'
                                 /\ StructThen(slots'[s].handle) = slots'[s]
           /\ \A h \in DOMAIN out' : h \in 1..Admitted' /\ StructThen(h) = out'[h]
  <1>1. (IInv => /\ \A s \in Filled : /\ slots[s].handle \in 1..Admitted
                                      /\ Struct(slots[s].handle) = slots[s]
                 /\ \A h \in DOMAIN out : h \in 1..Admitted /\ Struct(h) = out[h])'
    <2>1. IInv => /\ \A s \in Filled : /\ slots[s].handle \in 1..Admitted
                                       /\ Struct(slots[s].handle) = slots[s]
                  /\ \A h \in DOMAIN out : h \in 1..Admitted /\ Struct(h) = out[h]
      BY StructIs
    <2> QED
      BY <2>1, PTL
  <1> QED
    BY <1>1 DEF Struct, SlotOf, StructThen

LEMMA RosterIs ==
  ASSUME IInv
  PROVE  /\ Promised!Handles = 1..Admitted /\ Len(Roster) = Admitted
         /\ \A h \in 1..Admitted : /\ Roster[h].group_id = Struct(h).id
                                   /\ Roster[h].members = Range(Struct(h).members)
                                   /\ Roster[h].ready = Struct(h).ready
  <1>1. Admitted \in Nat /\ DOMAIN Roster = 1..Admitted
    BY AdmittedIs DEF IInv, Roster
  <1>2. Len(Roster) = Admitted
    BY <1>1
  <1> QED
    BY <1>1, <1>2 DEF Roster, Promised!Handles

\* The roster's view of the groups in line.
LEMMA LineRoster ==
  ASSUME IInv
  PROVE  \A s \in Filled : /\ Roster[slots[s].handle].group_id = slots[s].id
                           /\ Roster[slots[s].handle].members = Range(slots[s].members)
                           /\ Roster[slots[s].handle].ready = slots[s].ready
  BY RosterIs, StructIs

\* A good struct is ready when its last flag is set.
LEMMA ReadyWhenFull ==
  ASSUME NEW g, Good(g)
  PROVE  IsReady(g) <=> g.ready = Range(g.members)
  <1>1. /\ g.ready \in SUBSET Range(g.members) /\ IsFiniteSet(Range(g.members))
        /\ Len(g.members) = Cardinality(Range(g.members))
        /\ g.ready_count = Cardinality(g.ready)
    BY GoodFinite DEF Good
  <1>2. g.ready = Range(g.members)
          <=> Cardinality(g.ready) = Cardinality(Range(g.members))
    BY <1>1, FS_Subset
  <1> QED
    BY <1>1, <1>2 DEF IsReady

LEMMA FullIs ==
  IInv => \A h \in 1..Admitted : IsReady(Struct(h)) <=> Promised!Full(h)
  <1> SUFFICES ASSUME IInv, NEW h \in 1..Admitted
               PROVE  IsReady(Struct(h)) <=> Promised!Full(h)
    OBVIOUS
  <1>1. IsReady(Struct(h)) <=> Struct(h).ready = Range(Struct(h).members)
    BY StructIs, ReadyWhenFull
  <1> QED
    BY <1>1, RosterIs DEF Promised!Full

LEMMA FullIsThen ==
  IInv' => \A h \in 1..Admitted' : IsReady(StructThen(h)) <=> Promised!Full(h)'
  <1>1. (IInv => \A h \in 1..Admitted : IsReady(Struct(h)) <=> Promised!Full(h))'
    BY FullIs, PTL
  <1> QED
    BY <1>1, ThenIs DEF IsReady

\* The searches find what the discipline finds.
LEMMA LookupsAre ==
  ASSUME IInv
  PROVE  /\ \A id : Promised!Named(id) = HandlesIn(Named(id))
         /\ \A m : Promised!Holding(m) = HandlesIn(GroupOf(m))
  <1>1. ASSUME NEW id PROVE Promised!Named(id) = HandlesIn(Named(id))
    <2>1. Promised!Named(id) = {h \in Waiting : Roster[h].group_id = id}
      BY DEF Promised!Named
    <2>2. Named(id) = {s \in Filled : slots[s].id = id}
      BY Found
    <2> QED
      BY <2>1, <2>2, LineRoster DEF HandlesIn, Waiting
  <1>2. ASSUME NEW m PROVE Promised!Holding(m) = HandlesIn(GroupOf(m))
    <2>1. Promised!Holding(m) = {h \in Waiting : m \in Roster[h].members}
      BY DEF Promised!Holding
    <2>2. GroupOf(m) = {s \in Filled : m \in Range(slots[s].members)}
      BY Found
    <2> QED
      BY <2>1, <2>2, LineRoster DEF HandlesIn, Waiting
  <1> QED
    BY <1>1, <1>2

LEMMA NoHandles == \A at : HandlesIn(at) = {} <=> at = {}
  BY DEF HandlesIn

\* The slots of the groups that may leave.
Able ==
  {s \in Filled : IsReady(slots[s]) /\ (StrictOrder => \A r \in 1..s : IsReady(slots[r]))}

\* A buffer as long as the array takes all of them.
LEMMA AllFit ==
  ASSUME IInv
  PROVE  AllOut(MaxGroups) = Able
  <1>1. ASSUME NEW s \in Able PROVE Cardinality({r \in Able : r < s}) < MaxGroups
    <2>1. s \in Nat /\ 1 <= s /\ s <= group_count /\ group_count \in Nat
          /\ group_count <= MaxGroups /\ MaxGroups \in Nat
      BY SlotsAre, ArrayAssumption DEF IInv, Able, Filled
    <2> DEFINE below == {r \in Able : r < s}
    <2>2. below \in SUBSET (1..(s - 1))
      BY <2>1 DEF Able, Filled
    <2>3. IsFiniteSet(1..(s - 1)) /\ Cardinality(1..(s - 1)) = s - 1
      BY <2>1, FS_Interval
    <2> HIDE DEF below
    <2>4. Cardinality(below) \in Nat /\ Cardinality(below) <= s - 1
      BY <2>2, <2>3, FS_Subset, FS_CardinalityType
    <2>5. Cardinality(below) < MaxGroups
      BY <2>1, <2>4
    <2> QED
      BY <2>5 DEF below
  <1> QED
    BY <1>1 DEF AllOut, Able

\* Of finitely many numbers, those with fewer than n below them are at most n, and when
\* they are fewer they are all.
LEMMA FirstFew ==
  ASSUME NEW S \in SUBSET Nat, IsFiniteSet(S), NEW n \in Nat
  PROVE  LET T == {s \in S : Cardinality({r \in S : r < s}) < n}
         IN  /\ Cardinality(T) \in Nat /\ Cardinality(T) <= n
             /\ Cardinality(T) < n => T = S
  <1> DEFINE Below(s) == {r \in S : r < s}
             T == {s \in S : Cardinality(Below(s)) < n}
  <1>1. \A s \in S : IsFiniteSet(Below(s)) /\ Cardinality(Below(s)) \in Nat
    BY FS_Subset, FS_CardinalityType
  <1>2. IsFiniteSet(T) /\ Cardinality(T) \in Nat
    BY FS_Subset, FS_CardinalityType
  <1>3. Cardinality(T) <= n
    <2> DEFINE rank == [s \in T |-> Cardinality(Below(s))]
    <2>1. IsFiniteSet(0..(n - 1)) /\ Cardinality(0..(n - 1)) = n
      <3>1. Cardinality(0..(n - 1)) = IF 0 > n - 1 THEN 0 ELSE (n - 1) - 0 + 1
        BY FS_Interval
      <3> QED
        BY <3>1, FS_Interval
    <2>2. rank \in [T -> 0..(n - 1)]
      <3>1. \A s \in T : Cardinality(Below(s)) \in 0..(n - 1)
        <4> SUFFICES ASSUME NEW s \in T PROVE Cardinality(Below(s)) \in 0..(n - 1)
          OBVIOUS
        <4>1. Cardinality(Below(s)) \in Nat /\ Cardinality(Below(s)) < n
          BY <1>1
        <4> HIDE DEF Below
        <4> QED
          BY <4>1
      <3> HIDE DEF T, Below
      <3> QED
        BY <3>1
    <2>3. ASSUME NEW s \in T, NEW t \in T, s < t PROVE rank[s] # rank[t]
      <3>1. Below(s) \subseteq Below(t) /\ s \in Below(t) /\ s \notin Below(s)
        <4>1. s \in Nat /\ t \in Nat /\ s \in S /\ ~ (s < s)
          OBVIOUS
        <4>2. \A r \in S : r < s => r < t
          BY <2>3, <4>1
        <4> QED
          BY <2>3, <4>1, <4>2
      <3>2. IsFiniteSet(Below(t))
        BY <1>1
      <3> HIDE DEF Below
      <3>3. Below(s) # Below(t)
        BY <3>1
      <3>4. Cardinality(Below(s)) # Cardinality(Below(t))
        BY <3>1, <3>2, <3>3, FS_Subset
      <3> QED
        BY <3>4
    <2>4. \A s, t \in T : s # t => rank[s] # rank[t]
      <3>1. \A s, t \in T : s # t => s < t \/ t < s
        OBVIOUS
      <3> HIDE DEF T, rank
      <3> QED
        BY <2>3, <3>1
    <2> HIDE DEF T, rank
    <2> QED
      BY <1>2, <2>1, <2>2, <2>4, FS_PigeonHole
  <1>4. ASSUME T # S PROVE Cardinality(T) >= n
    <2>1. S \ T \in SUBSET Nat /\ S \ T # {}
      BY <1>4
    <2>2. PICK s \in S \ T : \A r \in S \ T : s <= r
      BY <2>1, SameLists, Order!LeastNatural, Zenon
    <2>3. Below(s) \subseteq T
      <3> SUFFICES ASSUME NEW r \in S, r < s PROVE r \in T
        OBVIOUS
      <3> HIDE DEF T
      <3> QED
        BY <2>2
    <2>4. Cardinality(Below(s)) \in Nat /\ Cardinality(Below(s)) >= n
      BY <1>1
    <2>5. Cardinality(Below(s)) <= Cardinality(T)
      BY <1>2, <2>3, FS_Subset
    <2> HIDE DEF T, Below
    <2> QED
      BY <1>2, <2>4, <2>5
  <1>5. Cardinality(T) < n => T = S
    <2> HIDE DEF T
    <2> QED
      BY <1>2, <1>4
  <1> QED
    BY <1>2, <1>3, <1>5

\* release_all takes no more groups than its buffer holds, and all that may leave if there
\* is room to spare.
LEMMA FewLeave ==
  ASSUME IInv, NEW capacity \in Nat
  PROVE  /\ Cardinality(AllOut(capacity)) \in Nat /\ Cardinality(AllOut(capacity)) <= capacity
         /\ Cardinality(AllOut(capacity)) < capacity => AllOut(capacity) = Able
  <1>1. Able \in SUBSET Nat /\ IsFiniteSet(Able)
    BY SlotsAre, FS_Subset DEF IInv, Able
  <1>2. AllOut(capacity) = {s \in Able : Cardinality({r \in Able : r < s}) < capacity}
    BY DEF AllOut, Able
  <1> QED
    BY <1>1, <1>2, FirstFew

\* When all that may leave have left, nobody may.
LEMMA NoneAble ==
  ASSUME IInv, Depart(Able)
  PROVE  NextOut' = {}
  <1>1. Able \in SUBSET Filled
    BY DEF Able
  <1>2. PICK line : StandIn(line, Able)
    BY <1>1, DepartKeeps
  <1>3. /\ \A s \in Filled : s \in Nat /\ \A r \in 1..s : r \in Filled /\ r \in Nat /\ r <= s
        /\ \A s \in Filled' : s \in Nat /\ 1 <= s
    <2>1. group_count \in Nat /\ group_count' \in Nat
      <3>1. IInv'
        BY <1>1, DepartKeeps
      <3>2. group_count \in Nat /\ group_count' \in Int /\ Len(slots) \in Nat
        BY <3>1, SlotsAre DEF IInv, Shape
      <3> QED
        BY <3>1, <3>2 DEF IInv, Shape
    <2> QED
      BY <2>1 DEF Filled
  <1>4. \A s \in Filled' : line[s] \in Filled \ Able /\ slots'[s] = slots[line[s]]
    BY <1>2 DEF StandIn
  <1>5. CASE ~ StrictOrder
    <2>1. \A s \in Filled' : ~ IsReady(slots'[s])
      BY <1>4, <1>5 DEF Able
    <2>2. NextOut' = {s \in {r \in Filled' : IsReady(slots'[r])} :
                       \A r \in {q \in Filled' : IsReady(slots'[q])} : s <= r}
      BY <1>5 DEF NextOut, First, IsReady
    <2> QED
      BY <2>1, <2>2
  <1>6. CASE StrictOrder
    <2>1. ASSUME 1 \in Filled', IsReady(slots'[1]) PROVE FALSE
      <3>1. PICK r \in 1..line[1] : ~ IsReady(slots[r])
        BY <1>4, <1>6, <2>1 DEF Able
      <3>2. r \in Filled /\ r \notin Able /\ r < line[1] /\ line[1] \in Nat /\ r \in Nat
        <4>1. r # line[1]
          BY <1>4, <2>1, <3>1
        <4>2. r \in Filled /\ r <= line[1] /\ line[1] \in Nat /\ r \in Nat
          BY <1>3, <1>4, <2>1
        <4> QED
          BY <3>1, <4>1, <4>2 DEF Able
      <3>3. PICK q \in Filled' : r = line[q]
        BY <1>2, <3>2 DEF StandIn
      <3>4. q = 1 \/ 1 < q
        BY <1>3
      <3> QED
        BY <1>2, <2>1, <3>2, <3>3, <3>4 DEF StandIn
    <2>2. NextOut' = {s \in Filled' \cap {1} : IsReady(slots'[s])}
      BY <1>6 DEF NextOut, IsReady
    <2> QED
      BY <2>1, <2>2
  <1> QED
    BY <1>5, <1>6

\* The list of the groups in some slots is as long as they are many.
LEMMA LineLength ==
  ASSUME IInv, NEW at \in SUBSET Filled, NEW list \in Line(at)
  PROVE  Len(list) = Cardinality(at)
  <1>1. PICK places \in InSlotOrder(at) :
          list = [i \in DOMAIN places |-> slots[places[i]].handle]
    BY DEF Line
  <1>2. Cardinality(at) \in Nat /\ DOMAIN places = 1..Cardinality(at)
    BY SlotOrder DEF IInv
  <1> QED
    BY <1>1, <1>2

\* A departing call writes nothing past the end of its caller's buffer, and release_all
\* leaves a group that may leave only when the buffer is full.
THEOREM BuffersHold == Spec => BuffersRespected
  <1>1. ASSUME IInv, NEW capacity \in Capacities, ReleaseAll(capacity)
        PROVE  /\ Len(result'.groups) <= capacity
               /\ Len(result'.groups) < capacity => NextOut' = {}
    <2>1. PICK list \in Line(AllOut(capacity)) : result' = Returns("release_all", "List", list)
      BY <1>1 DEF ReleaseAll
    <2>2. result'.groups = list /\ Len(list) = Cardinality(AllOut(capacity))
      BY <1>1, <2>1, OutIsFilled, LineLength DEF Returns
    <2>3. capacity \in Nat
      BY ArrayAssumption DEF Capacities
    <2>4. AllOut(capacity) = Able => NextOut' = {}
      BY <1>1, NoneAble DEF ReleaseAll
    <2> QED
      BY <1>1, <2>2, <2>3, <2>4, FewLeave
  <1>2. ASSUME IInv, NEW capacity \in Capacities, Clear(capacity)
        PROVE  Len(result'.groups) <= capacity
    <2>1. PICK list \in Line(Filled) : result' = Returns("clear", "List", list)
      BY <1>2 DEF Clear
    <2>2. result'.groups = list /\ Len(list) = group_count
      BY <1>2, <2>1, LineLength, SlotsAre DEF IInv, Returns
    <2> QED
      BY <1>2, <2>2 DEF Clear
  <1> DEFINE Held ==
        /\ result'.call = "release_all" =>
             \A capacity \in Capacities : ReleaseAll(capacity) =>
               /\ Len(result'.groups) <= capacity
               /\ Len(result'.groups) < capacity => NextOut' = {}
        /\ result'.call = "clear" =>
             \A capacity \in Capacities : Clear(capacity) => Len(result'.groups) <= capacity
  <1>3. IInv /\ [Next]_vars => [Held]_vars
    BY <1>1, <1>2
  <1> QED
    BY <1>3, Consistent, PTL DEF Spec, BuffersRespected

\* The waiting groups that may leave, and the next one, are the discipline's.
LEMMA ScansAgree ==
  ASSUME IInv
  PROVE  /\ Promised!Departable = HandlesIn(Able)
         /\ Promised!NextOut = HandlesIn(NextOut)
  <1>1. /\ \A s \in Filled : s \in Nat /\ slots[s].handle \in Nat /\ 1 <= s
        /\ \A s \in Filled : \A r \in 1..s : r \in Filled /\ r <= s
        /\ \A s \in Filled : slots[s].handle \in Waiting
        /\ \A h \in Waiting : \E s \in Filled : h = slots[s].handle
    <2>1. \A s \in Filled : \A r \in 1..s : r \in Filled /\ r <= s
      <3>1. group_count \in Nat
        BY SlotsAre DEF IInv
      <3> QED
        BY <3>1 DEF Filled
    <2> QED
      BY <2>1, SlotsAre DEF IInv, Waiting, Filled
  <1>2. \A s \in Filled : IsReady(slots[s]) <=> Promised!Full(slots[s].handle)
    BY StructIs, FullIs
  <1>3. \A r, s \in Filled : slots[r].handle < slots[s].handle <=> r < s
    <2>1. ASSUME NEW r \in Filled, NEW s \in Filled, ~ (r < s)
          PROVE  ~ (slots[r].handle < slots[s].handle)
      <3>1. r = s \/ s < r
        BY <1>1, <2>1
      <3>2. r = s \/ slots[s].handle < slots[r].handle
        BY <3>1 DEF IInv, InOrder
      <3> QED
        BY <1>1, <3>2
    <2> QED
      BY <2>1 DEF IInv, InOrder
  <1>4. ASSUME NEW s \in Filled
        PROVE  slots[s].handle \in Promised!Departable <=> s \in Able
    <2>1. slots[s].handle \in Promised!Departable
            <=> IsReady(slots[s])
                /\ (StrictOrder => \A r \in Filled : r < s => IsReady(slots[r]))
      <3>1. (\A g \in Waiting : g < slots[s].handle => Promised!Full(g))
              <=> \A r \in Filled : slots[r].handle < slots[s].handle => IsReady(slots[r])
        BY <1>1, <1>2
      <3>2. (\A g \in Waiting : g < slots[s].handle => Promised!Full(g))
              <=> \A r \in Filled : r < s => IsReady(slots[r])
        BY <1>3, <3>1
      <3> QED
        BY <1>1, <1>2, <3>2 DEF Promised!Departable
    <2>2. ASSUME IsReady(slots[s])
          PROVE  (\A r \in Filled : r < s => IsReady(slots[r]))
                   <=> \A r \in 1..s : IsReady(slots[r])
      <3>1. \A r \in 1..s : r \in Filled /\ (r < s \/ r = s)
        BY <1>1
      <3>2. \A r \in Filled : r < s => r \in 1..s
        BY <1>1
      <3> QED
        BY <2>2, <3>1, <3>2
    <2> QED
      BY <2>1, <2>2 DEF Able
  <1>5. Promised!Departable = HandlesIn(Able)
    <2>1. Promised!Departable \subseteq Waiting /\ Able \subseteq Filled
      BY DEF Promised!Departable, Able
    <2> QED
      BY <1>1, <1>4, <2>1 DEF HandlesIn
  <1>6. \A s \in Filled :
          slots[s].handle \in Promised!NextOut
            <=> s \in Able /\ \A r \in Able : s <= r
    <2>1. ASSUME NEW s \in Filled, NEW r \in Filled
          PROVE  slots[s].handle <= slots[r].handle <=> s <= r
      <3>1. /\ slots[s].handle \in Nat /\ slots[r].handle \in Nat /\ s \in Nat /\ r \in Nat
            /\ slots[r].handle < slots[s].handle <=> r < s
        BY <1>1, <1>3
      <3> QED
        BY <3>1
    <2>2. Able \subseteq Filled
      BY DEF Able
    <2>3. \A s \in Filled :
            (\A g \in HandlesIn(Able) : slots[s].handle <= g)
              <=> \A r \in Able : s <= r
      BY <2>1, <2>2 DEF HandlesIn
    <2> QED
      BY <1>4, <1>5, <2>3 DEF Promised!NextOut
  <1>7. \A s \in Filled : s \in NextOut <=> s \in Able /\ \A r \in Able : s <= r
    <2>1. CASE StrictOrder
      <3>1. ASSUME NEW s \in Able PROVE 1 \in Able
        <4>1. s \in Filled /\ 1 \in 1..s /\ \A r \in 1..s : IsReady(slots[r])
          BY <1>1, <2>1 DEF Able
        <4>2. 1 \in Filled /\ \A r \in 1..1 : r = 1
          BY <1>1, <4>1
        <4> QED
          BY <4>1, <4>2 DEF Able
      <3>2. 1 \in Filled /\ IsReady(slots[1]) => 1 \in Able
        <4>1. \A r \in 1..1 : r = 1
          OBVIOUS
        <4> QED
          BY <4>1 DEF Able
      <3>3. NextOut = {s \in Filled \cap {1} : IsReady(slots[s])}
        BY <2>1 DEF NextOut
      <3>4. \A r \in Able : r \in Filled /\ IsReady(slots[r]) /\ 1 <= r /\ r \in Nat
        BY <1>1 DEF Able
      <3>5. ASSUME NEW s \in Filled, s \in NextOut
            PROVE  s \in Able /\ \A r \in Able : s <= r
        BY <3>2, <3>3, <3>4, <3>5
      <3>6. ASSUME NEW s \in Filled, s \in Able, \A r \in Able : s <= r PROVE s \in NextOut
        <4>1. s = 1
          BY <1>1, <3>1, <3>6
        <4> QED
          BY <3>3, <3>4, <3>6, <4>1
      <3> QED
        BY <3>5, <3>6
    <2>2. CASE ~ StrictOrder
      <3>1. Able = {s \in Filled : IsReady(slots[s])}
        BY <2>2 DEF Able
      <3> QED
        BY <2>2, <3>1 DEF NextOut, First
    <2> QED
      BY <2>1, <2>2
  <1>8. Promised!NextOut = HandlesIn(NextOut)
    <2>1. Promised!NextOut \subseteq Waiting /\ NextOut \subseteq Filled
      BY OutIsFilled DEF Promised!NextOut, Promised!Departable
    <2> QED
      BY <1>1, <1>6, <1>7, <2>1 DEF HandlesIn
  <1> QED
    BY <1>5, <1>8
-----------------------------------------------------------------------------
\* Each step with a careful caller is the discipline's step of the same name.

LEMMA AdmissibleAgrees ==
  ASSUME IInv, NEW id, NEW list
  PROVE  Admissible(id, list) <=> Promised!Admissible(id, list)
  <1>1. Named(id) = {} <=> Promised!Named(id) = {}
    BY LookupsAre, NoHandles
  <1>2. \A m : GroupOf(m) = {} <=> Promised!Holding(m) = {}
    BY LookupsAre, NoHandles
  <1>3. WellFormed(list) <=> Promised!WellFormed(list)
    BY DEF WellFormed, Promised!WellFormed, IsInjective, Promised!IsInjective
  <1> QED
    BY <1>1, <1>2, <1>3 DEF Admissible, Promised!Admissible

\* A new group is appended to the roster.
LEMMA RosterGrows ==
  ASSUME IInv, NEW id \in GroupIds, NEW list \in MemberLists, Admit(id, list)
  PROVE  Roster' = Append(Roster, [group_id |-> id, members |-> Range(list), ready |-> {}])
  <1> DEFINE new == Admitted + 1
             entry == [group_id |-> id, members |-> Range(list), ready |-> {}]
  <1>1. Admitted \in Nat /\ Admitted' = new /\ Len(Roster) = Admitted /\ IInv' /\ out' = out
    BY AdmittedIs, AdmitKeeps, RosterIs DEF IInv, Admit
  <1>2. /\ group_count + 1 \in Filled' /\ slots'[group_count + 1] = Fresh(id, list)
        /\ \A r \in Filled : r \in Filled' /\ slots'[r] = slots[r]
    BY AdmitIs
  <1>3. /\ Fresh(id, list).handle = new /\ Fresh(id, list).id = id
        /\ Fresh(id, list).members = list /\ Fresh(id, list).ready = {}
    BY DEF Fresh
  <1>4. StructThen(new) = Fresh(id, list)
    BY <1>1, <1>2, <1>3, StructIsThen
  <1>5. \A h \in 1..Admitted : StructThen(h) = Struct(h)
    <2>1. \A h \in DOMAIN out : StructThen(h) = out[h] /\ Struct(h) = out[h]
      BY <1>1 DEF Struct, StructThen
    <2>2. \A s \in Filled : /\ StructThen(slots[s].handle) = slots[s]
                            /\ Struct(slots[s].handle) = slots[s]
      <3>1. ASSUME NEW s \in Filled PROVE StructThen(slots[s].handle) = slots[s]
        <4>1. s \in Filled' /\ slots'[s] = slots[s]
          BY <1>2
        <4>2. StructThen(slots'[s].handle) = slots'[s]
          BY <1>1, <4>1, StructIsThen
        <4> QED
          BY <4>1, <4>2
      <3> QED
        BY <3>1, StructIs
    <2>3. \A h \in 1..Admitted : h \in DOMAIN out \/ \E s \in Filled : h = slots[s].handle
      BY StructIs
    <2> QED
      BY <2>1, <2>2, <2>3
  <1>6. \A h \in 1..new : Roster'[h] = IF h = new THEN entry ELSE Roster[h]
    <2>1. ASSUME NEW h \in 1..new, h # new PROVE Roster'[h] = Roster[h]
      <3>1. h \in 1..Admitted
        BY <1>1, <2>1
      <3> QED
        BY <1>1, <1>5, <2>1, <3>1, ThenIs DEF Roster
    <2>2. Roster'[new] = entry
      <3>1. new \in 1..Admitted'
        BY <1>1
      <3>2. \A h \in 1..Admitted' :
              Roster'[h] = [group_id |-> StructThen(h).id,
                            members |-> Range(StructThen(h).members),
                            ready |-> StructThen(h).ready]
        BY ThenIs DEF Roster
      <3> QED
        BY <1>3, <1>4, <3>1, <3>2
    <2> QED
      BY <2>1, <2>2
  <1>7. DOMAIN Roster = 1..Admitted /\ DOMAIN Roster' = 1..new
    BY <1>1 DEF Roster
  <1>8. Roster = [h \in 1..Admitted |-> Roster[h]] /\ Roster' = [h \in 1..new |-> Roster'[h]]
    BY <1>1 DEF Roster
  <1> HIDE DEF entry, Roster
  <1> DEFINE S == {Roster[h] : h \in 1..Admitted} \cup {entry}
  <1>9. Roster \in Seq(S) /\ entry \in S /\ Roster' \in Seq(S) /\ Len(Roster') = new
    <2>1. Roster \in [1..Admitted -> S] /\ entry \in S
      BY <1>7, <1>8
    <2>2. Roster' \in [1..new -> S]
      <3>1. \A h \in 1..new : h # new => h \in 1..Admitted
        BY <1>1
      <3>2. \A h \in 1..new : Roster'[h] \in S
        BY <1>6, <3>1
      <3> HIDE DEF S, new
      <3> QED
        BY <1>8, <3>2
    <2> HIDE DEF S
    <2> QED
      BY <1>1, <1>7, <2>1, <2>2
  <1> HIDE DEF S
  <1>10. Roster' = Append(Roster, entry)
    BY <1>1, <1>6, <1>9, AppendProperties, SeqEqual
  <1> QED
    BY <1>10 DEF entry

LEMMA AdmitMaps ==
  ASSUME IInv, NEW id \in GroupIds, NEW list \in MemberLists, Admit(id, list)
  PROVE  Promised!Admit(id, list)
  <1>1. Len(Roster) = Admitted
    BY RosterIs
  <1>2. Roster' = Append(Roster, [group_id |-> id, members |-> Promised!Range(list),
                                  ready |-> {}])
    BY RosterGrows DEF Range, Promised!Range
  <1>3. /\ Waiting' = Waiting \cup {Len(Roster) + 1}
        /\ result' = Promised!Returns("admit", "Group", <<Len(Roster) + 1>>)
    BY <1>1, AdmitKeeps DEF Admit, Returns, Promised!Returns
  <1>4. Len(Roster) < MaxAdmissions /\ Promised!Admissible(id, list)
    BY <1>1, AdmissibleAgrees DEF Admit
  <1> QED
    BY <1>2, <1>3, <1>4 DEF Promised!Admit

\* Nothing but the answer changes.
LEMMA Frame ==
  ASSUME IInv, UNCHANGED <<slots, group_count, out>>
  PROVE  Roster' = Roster /\ Waiting' = Waiting
  <1>1. Waiting' = Waiting /\ Admitted' = Admitted
    BY AnswerKeeps
  <1>2. \A h : Struct(h)' = Struct(h)
    BY DEF Struct, SlotOf, Filled
  <1> QED
    BY <1>1, <1>2 DEF Roster

LEMMA RefuseMaps ==
  ASSUME IInv, NEW call, Refuse(call)
  PROVE  Promised!Refuse(call)
  <1>1. UNCHANGED <<slots, group_count, out>> /\ result' = Raises(call)
    BY DEF Refuse
  <1> QED
    BY <1>1, Frame DEF Promised!Refuse, Raises, Promised!Raises, Returns, Promised!Returns

\* Some flags of one group are set, wherever its struct is, and nothing else.
Sets(h, ms) ==
  \A g \in 1..Admitted :
    /\ StructThen(g).id = Struct(g).id /\ StructThen(g).members = Struct(g).members
    /\ StructThen(g).ready = IF g = h THEN Struct(g).ready \cup ms ELSE Struct(g).ready

LEMMA MarkMaps ==
  ASSUME IInv, NEW h \in 1..Admitted, NEW ms, Sets(h, ms),
         Admitted' = Admitted, Waiting' = Waiting
  PROVE  Promised!Mark(h, ms)
  <1>1. \A g \in 1..Admitted :
          Roster'[g] = IF g = h THEN [Roster[h] EXCEPT !.ready = Roster[h].ready \cup ms]
                       ELSE Roster[g]
    BY ThenIs DEF Roster, Sets
  <1>2. DOMAIN Roster = 1..Admitted /\ DOMAIN Roster' = 1..Admitted
    BY DEF Roster
  <1>3. /\ Roster' = [g \in 1..Admitted |-> Roster'[g]]
        /\ Roster = [g \in 1..Admitted |-> Roster[g]]
    BY DEF Roster
  <1> HIDE DEF Roster
  <1>4. Roster' = [Roster EXCEPT ![h].ready = @ \cup ms]
    BY <1>1, <1>2, <1>3
  <1> QED
    BY <1>4 DEF Promised!Mark

\* In a slot in use.
LEMMA SlotMarkMaps ==
  ASSUME IInv, NEW s \in Filled, NEW h, h = slots[s].handle,
         NEW new, Refines(new, slots[s]), NEW ms, new.ready = slots[s].ready \cup ms,
         slots' = [slots EXCEPT ![s] = new], UNCHANGED <<group_count, out>>
  PROVE  /\ Promised!Mark(h, ms) /\ h \in 1..Admitted
         /\ IsReady(new) <=> Promised!Full(h)'
  <1>1. /\ IInv' /\ Filled' = Filled /\ Waiting' = Waiting /\ Admitted' = Admitted
        /\ s \in DOMAIN slots /\ slots'[s] = new
        /\ \A r \in Filled : slots'[r] = IF r = s THEN new ELSE slots[r]
    <2>1. s \in DOMAIN slots /\ Filled \subseteq DOMAIN slots
      BY SlotsAre DEF IInv
    <2> QED
      BY <2>1, SlotMarkKeeps
  <1>2. new.id = slots[s].id /\ new.members = slots[s].members /\ new.handle = h
    BY DEF Refines
  <1>3. \A r \in Filled : slots'[r].handle = slots[r].handle
    BY <1>1, <1>2
  <1>4. \A r \in Filled : /\ StructThen(slots[r].handle) = slots'[r]
                          /\ Struct(slots[r].handle) = slots[r]
    <2>1. \A r \in Filled : StructThen(slots'[r].handle) = slots'[r]
      BY <1>1, StructIsThen
    <2> QED
      BY <1>3, <2>1, StructIs
  <1>5. \A g \in DOMAIN out : StructThen(g) = Struct(g)
    BY DEF Struct, StructThen
  <1>6. h \in 1..Admitted /\ h \notin DOMAIN out
    BY StructIs DEF IInv, OneEach, Waiting
  <1>7. Sets(h, ms)
    <2> SUFFICES ASSUME NEW g \in 1..Admitted
                 PROVE  /\ StructThen(g).id = Struct(g).id
                        /\ StructThen(g).members = Struct(g).members
                        /\ StructThen(g).ready = IF g = h THEN Struct(g).ready \cup ms
                                                 ELSE Struct(g).ready
      BY DEF Sets
    <2>1. CASE g \in DOMAIN out
      BY <1>5, <1>6, <2>1
    <2>2. ASSUME NEW r \in Filled, g = slots[r].handle
          PROVE  /\ StructThen(g).id = Struct(g).id
                 /\ StructThen(g).members = Struct(g).members
                 /\ StructThen(g).ready = IF g = h THEN Struct(g).ready \cup ms
                                          ELSE Struct(g).ready
      <3>1. g = h <=> r = s
        BY <2>2, SlotIs DEF IInv
      <3>2. StructThen(g) = slots'[r] /\ Struct(g) = slots[r]
        BY <1>4, <2>2
      <3> QED
        BY <1>1, <1>2, <3>1, <3>2
    <2>3. g \in DOMAIN out \/ \E r \in Filled : g = slots[r].handle
      BY StructIs
    <2> QED
      BY <2>1, <2>2, <2>3
  <1>8. Promised!Mark(h, ms)
    <2>1. Waiting' = Waiting /\ Admitted' = Admitted /\ h \in 1..Admitted
      BY <1>1, <1>6
    <2> QED
      BY <1>7, <2>1, MarkMaps
  <1>9. IsReady(new) <=> Promised!Full(h)'
    <2>1. StructThen(h) = new
      BY <1>1, <1>4
    <2> QED
      BY <1>1, <1>6, <2>1, FullIsThen
  <1> QED
    BY <1>6, <1>8, <1>9

\* In a caller's copy.
LEMMA CopyMarkMaps ==
  ASSUME IInv, NEW h \in DOMAIN out, NEW new, Refines(new, out[h]), NEW ms,
         new.ready = out[h].ready \cup ms,
         out' = [out EXCEPT ![h] = new], UNCHANGED <<slots, group_count>>
  PROVE  /\ Promised!Mark(h, ms) /\ h \in 1..Admitted
         /\ IsReady(new) <=> Promised!Full(h)'
  <1>1. /\ IInv' /\ Filled' = Filled /\ Waiting' = Waiting /\ Admitted' = Admitted
        /\ DOMAIN out' = DOMAIN out
        /\ \A g \in DOMAIN out : out'[g] = IF g = h THEN new ELSE out[g]
    BY CopyMarkKeeps
  <1>2. new.id = out[h].id /\ new.members = out[h].members
    BY DEF Refines
  <1>3. h \in 1..Admitted
    BY StructIs
  <1>4. \A g : StructThen(g) = IF g = h THEN new ELSE Struct(g)
    BY <1>1 DEF Struct, SlotOf, StructThen
  <1>5. Struct(h) = out[h]
    BY DEF Struct
  <1>6. Sets(h, ms)
    BY <1>2, <1>4, <1>5 DEF Sets
  <1>7. Promised!Mark(h, ms)
    BY <1>1, <1>3, <1>6, MarkMaps
  <1>8. IsReady(new) <=> Promised!Full(h)'
    <2>1. StructThen(h) = new
      BY <1>4
    <2> QED
      BY <1>1, <1>3, <2>1, FullIsThen
  <1> QED
    BY <1>3, <1>7, <1>8
-----------------------------------------------------------------------------
\* The marks.

LEMMA MarkSlotMaps ==
  ASSUME IInv, NEW s \in Filled, NEW m, MarkSlot(s, m)
  PROVE  \E h \in 1..Admitted : Promised!MarkReady(h, m)
  <1> DEFINE new == Marked(slots[s], m)
  <1>1. /\ m \in Range(slots[s].members) /\ slots' = [slots EXCEPT ![s] = new]
        /\ UNCHANGED <<group_count, out>>
        /\ result' = Returns("mark_ready", Answer(IsReady(slots'[s])), <<>>)
    BY DEF MarkSlot
  <1>2. s \in DOMAIN slots
    BY SlotsAre DEF IInv
  <1>3. Refines(new, slots[s]) /\ new.ready = slots[s].ready \cup {m}
    BY <1>1, <1>2, MarkedIs DEF IInv, AllGood
  <1>4. slots'[s] = new
    BY <1>1, <1>2
  <1> HIDE DEF new
  <1>5. PICK h : h = slots[s].handle
    OBVIOUS
  <1>6. /\ Promised!Mark(h, {m}) /\ h \in 1..Admitted
        /\ IsReady(new) <=> Promised!Full(h)'
    BY <1>1, <1>3, <1>5, SlotMarkMaps
  <1>7. m \in Roster[h].members
    BY <1>1, <1>5, LineRoster
  <1>8. result' = Promised!Returns("mark_ready", Promised!Answer(Promised!Full(h)'), <<>>)
    BY <1>1, <1>4, <1>6 DEF Returns, Promised!Returns, Answer, Promised!Answer
  <1> QED
    BY <1>6, <1>7, <1>8 DEF Promised!MarkReady

LEMMA MarkCopyMaps ==
  ASSUME IInv, NEW h \in DOMAIN out, NEW m, MarkCopy(h, m)
  PROVE  h \in 1..Admitted /\ Promised!MarkReady(h, m)
  <1> DEFINE new == Marked(out[h], m)
  <1>1. /\ m \in Range(out[h].members) /\ out' = [out EXCEPT ![h] = new]
        /\ UNCHANGED <<slots, group_count>>
        /\ result' = Returns("mark_ready", Answer(IsReady(out'[h])), <<>>)
    BY DEF MarkCopy
  <1>2. Refines(new, out[h]) /\ new.ready = out[h].ready \cup {m}
    BY <1>1, MarkedIs DEF IInv, AllGood
  <1>3. out'[h] = new
    BY <1>1
  <1> HIDE DEF new
  <1>4. /\ Promised!Mark(h, {m}) /\ h \in 1..Admitted
        /\ IsReady(new) <=> Promised!Full(h)'
    BY <1>1, <1>2, CopyMarkMaps
  <1>5. m \in Roster[h].members
    BY <1>1, <1>4, RosterIs, StructIs
  <1>6. result' = Promised!Returns("mark_ready", Promised!Answer(Promised!Full(h)'), <<>>)
    BY <1>1, <1>3, <1>4 DEF Returns, Promised!Returns, Answer, Promised!Answer
  <1> QED
    BY <1>4, <1>5, <1>6 DEF Promised!MarkReady

\* Setting every flag and the counter is marking everybody.
LEMMA MarkGroupReadyMaps ==
  ASSUME IInv, NEW s \in Filled, MarkGroupReady(s)
  PROVE  \E h \in Waiting : Promised!MarkGroupReady(h)
  <1>1. /\ slots' = [slots EXCEPT ![s].ready = Range(slots[s].members),
                                  ![s].ready_count = Len(slots[s].members)]
        /\ UNCHANGED <<group_count, out>>
        /\ result' = Promised!Returns("mark_group_ready", "True", <<>>)
    BY DEF MarkGroupReady, Returns, Promised!Returns
  <1> DEFINE all == Range(slots[s].members)
             count == Len(slots[s].members)
             new == [slots[s] EXCEPT !.ready = all, !.ready_count = count]
  <1>2. slots' = [slots EXCEPT ![s] = new]
    BY <1>1
  <1>3. Good(slots[s]) /\ count = Cardinality(all) /\ slots[s].ready \subseteq all
        /\ all \in SUBSET Range(slots[s].members)
    <2>1. Good(slots[s])
      BY SlotsAre DEF IInv
    <2> QED
      BY <2>1, GoodFinite DEF Good
  <1>4. PICK h : h = slots[s].handle
    OBVIOUS
  <1>5. h \in Waiting /\ Roster[h].members = all
    BY <1>4, LineRoster DEF Waiting
  <1> HIDE DEF count, all
  <1>6. Refines(new, slots[s]) /\ new.ready = all
    <2>1. PICK g, ready, n : g = slots[s] /\ ready = all /\ n = count
      OBVIOUS
    <2>2. /\ Good(g) /\ ready \in SUBSET Range(g.members) /\ g.ready \subseteq ready
          /\ n = Cardinality(ready)
      BY <1>3, <2>1
    <2>3. /\ Refines([g EXCEPT !.ready = ready, !.ready_count = n], g)
          /\ [g EXCEPT !.ready = ready, !.ready_count = n].ready = ready
      BY <2>2, FlagsSet
    <2> QED
      BY <2>1, <2>3
  <1>7. new.ready = slots[s].ready \cup all
    BY <1>3, <1>6
  <1> HIDE DEF new
  <1>8. Promised!Mark(h, all)
    BY <1>1, <1>2, <1>4, <1>6, <1>7, SlotMarkMaps
  <1> QED
    BY <1>1, <1>5, <1>8 DEF Promised!MarkGroupReady

\* A mark through a pointer to a member's own group or to another's copy, or by name.
LEMMA RefusedMarks ==
  ASSUME IInv
  PROVE  /\ \A m : \A s \in Filled : m \notin Range(slots[s].members) =>
              \E h \in 1..Admitted : m \notin Roster[h].members
         /\ \A m : \A h \in DOMAIN out : m \notin Range(out[h].members) =>
              h \in 1..Admitted /\ m \notin Roster[h].members
  BY RosterIs, LineRoster, StructIs
-----------------------------------------------------------------------------
\* The departures.

LEMMA LeaveMaps ==
  ASSUME IInv, IInv', NEW at \in SUBSET Filled, CopyOut(at), NEW line, StandIn(line, at),
         Admitted' = Admitted, Waiting' = Waiting \ HandlesIn(at)
  PROVE  Promised!Leave(HandlesIn(at))
  <1>1. /\ DOMAIN out' = DOMAIN out \cup HandlesIn(at)
        /\ \A h \in DOMAIN out : out'[h] = out[h]
        /\ \A s \in at : slots[s].handle \notin DOMAIN out /\ out'[slots[s].handle] = slots[s]
    BY OutIs
  <1>2. \A h \in DOMAIN out : StructThen(h) = Struct(h)
    BY <1>1 DEF Struct, StructThen
  <1>3. ASSUME NEW s \in Filled PROVE StructThen(slots[s].handle) = Struct(slots[s].handle)
    <2>1. Struct(slots[s].handle) = slots[s]
      BY StructIs
    <2>2. CASE s \in at
      BY <1>1, <2>1, <2>2 DEF StructThen, HandlesIn
    <2>3. CASE s \notin at
      <3>1. PICK r \in Filled' : slots'[r] = slots[s]
        BY <2>3 DEF StandIn
      <3>2. StructThen(slots'[r].handle) = slots'[r]
        BY StructIsThen
      <3> QED
        BY <2>1, <3>1, <3>2
    <2> QED
      BY <2>2, <2>3
  <1>4. \A h \in 1..Admitted : StructThen(h) = Struct(h)
    BY <1>2, <1>3, StructIs
  <1>5. Roster' = Roster
    BY <1>4, ThenIs DEF Roster
  <1> QED
    BY <1>5 DEF Promised!Leave

LEMMA DepartMaps ==
  ASSUME IInv, NEW at \in SUBSET Filled, Depart(at)
  PROVE  Promised!Leave(HandlesIn(at))
  BY DepartKeeps, LeaveMaps

\* The order of the slots is the order of arrival.
LEMMA ListIs ==
  ASSUME IInv, NEW at \in SUBSET Filled, NEW list \in Line(at)
  PROVE  list \in Promised!InHandleOrder(HandlesIn(at))
  <1> DEFINE hs == HandlesIn(at)
             key == [h \in hs |-> h]
  <1>1. PICK places \in InSlotOrder(at) :
          list = [i \in DOMAIN places |-> slots[places[i]].handle]
    BY DEF Line
  <1>2. PICK n \in Nat : places \in [1..n -> at]
    BY SlotOrder DEF IInv
  <1>3. \A s \in at : slots[s].handle \in hs /\ slots[s].handle \in Nat
    BY SlotsAre DEF IInv, HandlesIn
  <1>4. hs \in SUBSET Nat
    BY <1>3 DEF HandlesIn
  <1>5. \A i, j \in 1..n : i < j => slots[places[i]].handle < slots[places[j]].handle
    BY <1>2, SlotOrder DEF IInv, InOrder
  <1>6. Range(list) = hs
    BY LineNames
  <1> HIDE DEF hs
  <1>7. list \in [1..n -> hs] /\ DOMAIN list = 1..n
    BY <1>1, <1>2, <1>3
  <1>8. list \in Seq(hs)
    BY <1>7
  <1>9. \A i, j \in DOMAIN list : i < j => key[list[i]] < key[list[j]]
    BY <1>1, <1>2, <1>5, <1>7
  <1>10. key \in [hs -> Int]
    BY <1>4
  <1>11. list \in InHandleOrder(hs)
    BY <1>6, <1>8, <1>9, <1>10, SameLists, Order!IncreasingIsSorted DEF InHandleOrder
  <1>12. Cardinality(hs) = Promised!Cardinality(hs)
    BY DEF Cardinality, Promised!Cardinality
  <1>13. InHandleOrder(hs) = Promised!InHandleOrder(hs)
    BY <1>12 DEF InHandleOrder, Promised!InHandleOrder, Sorted, Promised!Sorted
  <1> QED
    BY <1>11, <1>13 DEF hs

LEMMA DepartureMaps ==
  ASSUME Careful, IInv
  PROVE  /\ Peek => Promised!Peek
         /\ Release => Promised!Release
         /\ ReleaseNone => Promised!ReleaseNone
         /\ \A capacity \in Capacities : ReleaseAll(capacity) => Promised!ReleaseAll
         /\ \A capacity \in Capacities : Clear(capacity) => Promised!Clear
         /\ \A id \in GroupIds : \A s \in Named(id) : Cancel(s) => Promised!Cancel(id)
  <1> USE DEF Returns, Promised!Returns
  <1>1. /\ Promised!Departable = HandlesIn(Able) /\ Promised!NextOut = HandlesIn(NextOut)
        /\ Able \subseteq Filled /\ NextOut \subseteq Filled
    BY ScansAgree, OutIsFilled DEF Able
  <1>2. \A s : HandlesIn({s}) = {slots[s].handle}
    BY DEF HandlesIn
  <1>3. Capacities = {MaxGroups}
    BY DEF Capacities
  <1>4. ASSUME Peek PROVE Promised!Peek
    <2>1. UNCHANGED <<slots, group_count, out>>
      BY <1>4 DEF Peek
    <2>2. Roster' = Roster /\ Waiting' = Waiting
      BY <2>1, Frame
    <2>3. NextOut = {} <=> Promised!NextOut = {}
      BY <1>1, NoHandles
    <2>4. {Returns("peek", "Group", <<slots[s].handle>>) : s \in NextOut}
            = {Returns("peek", "Group", <<h>>) : h \in Promised!NextOut}
      BY <1>1 DEF HandlesIn
    <2> QED
      BY <1>4, <2>2, <2>3, <2>4 DEF Peek, Promised!Peek
  <1>5. ASSUME NEW s \in Filled, Depart({s}) PROVE Promised!Leave({slots[s].handle})
    <2>1. Promised!Leave(HandlesIn({s}))
      BY <1>5, DepartMaps
    <2> QED
      BY <1>2, <2>1
  <1>6. ASSUME Release PROVE Promised!Release
    <2>1. PICK s \in NextOut : /\ Depart({s})
                               /\ result' = Returns("release", "Group", <<slots[s].handle>>)
      BY <1>6 DEF Release
    <2>2. PICK h : h = slots[s].handle
      OBVIOUS
    <2>3. Promised!Leave({h}) /\ h \in Promised!NextOut
      BY <1>1, <1>5, <2>1, <2>2 DEF HandlesIn
    <2> QED
      BY <2>1, <2>2, <2>3 DEF Promised!Release
  <1>7. ASSUME ReleaseNone PROVE Promised!ReleaseNone
    <2>1. Promised!Leave(HandlesIn({})) /\ HandlesIn({}) = {}
      BY <1>7, DepartMaps, NoHandles DEF ReleaseNone
    <2>2. Promised!NextOut = {}
      BY <1>1, <1>7, NoHandles DEF ReleaseNone
    <2> QED
      BY <1>7, <2>1, <2>2 DEF ReleaseNone, Promised!ReleaseNone
  <1>8. ASSUME NEW capacity \in Capacities, ReleaseAll(capacity) PROVE Promised!ReleaseAll
    <2>1. AllOut(capacity) = Able
      BY <1>3, AllFit
    <2>2. /\ Depart(Able)
          /\ \E list \in Line(Able) : result' = Returns("release_all", "List", list)
      BY <1>8, <2>1 DEF ReleaseAll
    <2>3. PICK list \in Line(Able) : result' = Returns("release_all", "List", list)
      BY <2>2
    <2>4. list \in Promised!InHandleOrder(Promised!Departable)
      BY <1>1, <2>3, ListIs
    <2>5. Promised!Leave(Promised!Departable)
      BY <1>1, <2>2, DepartMaps
    <2> QED
      BY <2>3, <2>4, <2>5 DEF Promised!ReleaseAll
  <1>9. ASSUME NEW capacity \in Capacities, Clear(capacity) PROVE Promised!Clear
    <2>1. HandlesIn(Filled) = Waiting /\ Waiting \ Waiting = {}
      BY DEF HandlesIn, Waiting
    <2>2. PICK list \in Line(Filled) : result' = Returns("clear", "List", list)
      BY <1>9 DEF Clear
    <2>3. list \in Promised!InHandleOrder(Waiting)
      BY <2>1, <2>2, ListIs
    <2>4. /\ IInv' /\ CopyOut(Filled) /\ Waiting' = Waiting \ HandlesIn(Filled)
          /\ Admitted' = Admitted /\ \E line : StandIn(line, Filled)
      BY <1>9, <2>1, ClearKeeps
    <2>5. Promised!Leave(Waiting)
      BY <2>1, <2>4, LeaveMaps
    <2> QED
      BY <2>2, <2>3, <2>5 DEF Promised!Clear
  <1>10. ASSUME NEW id \in GroupIds, NEW s \in Named(id), Cancel(s) PROVE Promised!Cancel(id)
    <2>1. s \in Filled
      BY Found
    <2>2. Depart({s}) /\ result' = Returns("cancel", "Group", <<slots[s].handle>>)
      BY <1>10 DEF Cancel
    <2>3. PICK h : h = slots[s].handle
      OBVIOUS
    <2>4. Promised!Leave({h}) /\ h \in Promised!Named(id)
      BY <1>5, <2>1, <2>2, <2>3, LookupsAre DEF HandlesIn
    <2> QED
      BY <2>2, <2>3, <2>4 DEF Promised!Cancel
  <1> QED
    BY <1>4, <1>6, <1>7, <1>8, <1>9, <1>10
-----------------------------------------------------------------------------
\* The refinement.

LEMMA InitMaps == Init => Promised!Init
  <1> SUFFICES ASSUME Init PROVE Promised!Init
    OBVIOUS
  <1>1. Filled = {} /\ Waiting = {} /\ DOMAIN out = {}
    BY DEF Init, Filled, Waiting, EmptyDict
  <1>2. Admitted = 0
    BY <1>1, FS_EmptySet DEF Admitted
  <1>3. 1..0 = {}
    OBVIOUS
  <1>4. Roster = <<>>
    BY <1>2, <1>3 DEF Roster
  <1> QED
    BY <1>1, <1>4 DEF Init, Promised!Init, Returns, Promised!Returns

LEMMA NextMaps ==
  IInv /\ [Next]_vars => (Careful => [Promised!Next]_(Promised!vars))
  <1> SUFFICES ASSUME IInv, Careful, [Next]_vars PROVE [Promised!Next]_(Promised!vars)
    OBVIOUS
  <1>0. /\ Promised!Handles = 1..Admitted
        /\ Pointers = Filled /\ Capacities = {MaxGroups} /\ group_count <= MaxGroups
    BY RosterIs, SlotsAre DEF IInv, Pointers, Capacities
  <1>1. ASSUME NEW id \in GroupIds, NEW list \in MemberLists,
               Admit(id, list) \/ AdmitRefused(id, list)
        PROVE  Promised!Next
    <2>1. list \in Promised!MemberLists
      BY DEF MemberLists, Promised!MemberLists
    <2>2. \/ Promised!Admit(id, list)
          \/ ~ Promised!Admissible(id, list) /\ Promised!Refuse("admit")
      BY <1>1, AdmitMaps, AdmissibleAgrees, RefuseMaps DEF AdmitRefused
    <2> QED
      BY <2>1, <2>2 DEF Promised!Next
  <1>2. ASSUME NEW h \in 1..Admitted, NEW m \in Members,
               \/ Promised!MarkReady(h, m)
               \/ m \notin Roster[h].members /\ Promised!Refuse("mark_ready")
        PROVE  Promised!Next
    BY <1>0, <1>2 DEF Promised!Next
  <1>3. ASSUME NEW s \in Filled, NEW m \in Members, MarkSlot(s, m) \/ MarkSlotRefused(s, m)
        PROVE  Promised!Next
    <2>1. CASE MarkSlot(s, m)
      BY <1>2, <2>1, MarkSlotMaps
    <2>2. CASE MarkSlotRefused(s, m)
      BY <1>2, <2>2, RefusedMarks, RefuseMaps DEF MarkSlotRefused
    <2> QED
      BY <1>3, <2>1, <2>2
  <1>4. ASSUME NEW h \in DOMAIN out, NEW m \in Members,
               MarkCopy(h, m) \/ MarkCopyRefused(h, m)
        PROVE  Promised!Next
    <2>1. CASE MarkCopy(h, m)
      BY <1>2, <2>1, MarkCopyMaps
    <2>2. CASE MarkCopyRefused(h, m)
      BY <1>2, <2>2, RefusedMarks, RefuseMaps DEF MarkCopyRefused
    <2> QED
      BY <1>4, <2>1, <2>2
  <1>5. ASSUME NEW m \in Members, MarkReady(m) \/ MarkReadyRefused(m) PROVE Promised!Next
    <2>1. CASE MarkReadyRefused(m)
      <3>1. Promised!Holding(m) = {} /\ Promised!Refuse("mark_ready")
        BY <2>1, LookupsAre, NoHandles, RefuseMaps DEF MarkReadyRefused
      <3> QED
        BY <3>1 DEF Promised!Next
    <2>2. CASE MarkReady(m)
      <3>1. PICK s \in GroupOf(m) : MarkSlot(s, m)
        BY <2>2 DEF MarkReady
      <3> QED
        BY <1>3, <3>1, Found
    <2> QED
      BY <1>5, <2>1, <2>2
  <1>6. ASSUME NEW id \in GroupIds, NEW s \in Named(id), MarkGroupReady(s) \/ Cancel(s)
        PROVE  Promised!Next
    <2>1. s \in Filled
      BY Found
    <2>2. (\E h \in Waiting : Promised!MarkGroupReady(h)) \/ Promised!Cancel(id)
      BY <1>6, <2>1, MarkGroupReadyMaps, DepartureMaps
    <2> QED
      BY <2>2 DEF Promised!Next
  <1>7. ASSUME NEW id \in GroupIds, Named(id) = {},
               Refuse("mark_group_ready") \/ Refuse("cancel")
        PROVE  Promised!Next
    <2>1. /\ Promised!Named(id) = {}
          /\ Promised!Refuse("mark_group_ready") \/ Promised!Refuse("cancel")
      BY <1>7, LookupsAre, NoHandles, RefuseMaps
    <2> QED
      BY <2>1 DEF Promised!Next
  <1>8. ASSUME \/ Peek \/ Release \/ ReleaseNone
               \/ \E capacity \in Capacities : ReleaseAll(capacity) \/ Clear(capacity)
        PROVE  Promised!Next
    BY <1>8, DepartureMaps DEF Promised!Next
  \* A buffer as long as the array is never too short.
  <1>9. ASSUME NEW capacity \in Capacities PROVE ~ ClearRefused(capacity)
    <2>1. group_count \in Nat /\ MaxGroups \in Nat /\ capacity = MaxGroups
      BY <1>0, SlotsAre, ArrayAssumption DEF IInv
    <2>2. ~ (capacity < group_count)
      BY <1>0, <2>1
    <2> QED
      BY <2>2 DEF ClearRefused
  \* The discipline sees nothing of a call refused for its size alone.
  <1>10. ASSUME UNCHANGED <<slots, group_count, out, result>>
         PROVE  UNCHANGED Promised!vars
    BY <1>10, Frame DEF Promised!vars
  <1>11. ASSUME NEW id \in GroupIds, NEW list \in MemberLists, AdmitNoRoom(id, list)
         PROVE  UNCHANGED Promised!vars
    BY <1>10, <1>11 DEF AdmitNoRoom
  <1>12. CASE UNCHANGED vars
    BY <1>10, <1>12 DEF vars
  <1> QED
    BY <1>0, <1>1, <1>3, <1>4, <1>5, <1>6, <1>7, <1>8, <1>9, <1>11, <1>12 DEF Next

\* For callers that use no stale pointer and pass long enough buffers, the port is an
\* implementation of the discipline: it answers every call as a look at the flags of the
\* waiting groups would, whatever the sizes of array and groups, and says no for its size
\* alone where the discipline is not asked.
THEOREM Refinement == Careful => (Spec => ImplementsDiscipline)
  <1> SUFFICES ASSUME Careful PROVE Spec => ImplementsDiscipline
    OBVIOUS
  <1>1. IInv /\ [Next]_vars => [Promised!Next]_(Promised!vars)
    BY NextMaps
  <1> QED
    BY <1>1, InitMaps, Consistent, PTL DEF Spec, Promised!Spec, ImplementsDiscipline
=============================================================================
