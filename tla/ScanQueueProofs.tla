-------------------------- MODULE ScanQueueProofs --------------------------
(***************************************************************************)
(* Proofs about the ports of ScanQueue.tla: what they keep of their groups *)
(* tells one story, groups leave once and in order whatever callers do to  *)
(* their lists, and the ports that copy lists implement Discipline.tla.    *)
(***************************************************************************)
EXTENDS ScanQueue, FiniteSetTheorems, SequenceTheorems, TLAPS

\* The inductive invariant, conjunct by conjunct.
GroupRecord ==
  [group_id: GroupIds, list: MemberLists, entered: SUBSET Members, ready: SUBSET Members,
   ready_count: Nat]
Shape == port \in Ports /\ group \in Seq(GroupRecord) /\ order \in Seq(Handles)

\* Groups are appended to the line and none changes its place relative to others.
Arrival == \A i, j \in DOMAIN order : i < j => order[i] < order[j]

OneIdEach == \A g, h \in Waiting : group[g].group_id = group[h].group_id => g = h

\* In the ports that have it, the map by id holds the groups in the line.
ById ==
  port.store = "both" =>
    /\ \A h \in Waiting : /\ group[h].group_id \in DOMAIN by_id
                          /\ by_id[group[h].group_id] = h
    /\ \A id \in DOMAIN by_id : by_id[id] \in Waiting /\ group[by_id[id]].group_id = id

\* A copied list holds what it held when the group was made.
Copied ==
  port.copies =>
    \A h \in Handles : WellFormed(group[h].list) /\ group[h].entered = Range(group[h].list)

ByMember ==
  port.copies =>
    /\ \A h \in Waiting : \A m \in group[h].entered :
         m \in DOMAIN member_index /\ member_index[m] = group[h].group_id
    /\ \A m \in DOMAIN member_index : \E h \in Waiting : m \in group[h].entered

\* A group that a departing call has just handed over waits no longer.
Handed == result.call \in Departing => Range(result.groups) \subseteq Handles \ Waiting

IInv ==
  /\ Shape /\ Arrival /\ OneIdEach /\ ById /\ Copied /\ ByMember
  /\ CounterMatchesFlags /\ Handed
-----------------------------------------------------------------------------
\* Lists and least elements are those of DisciplineProofs.tla.

Order == INSTANCE DisciplineProofs WITH roster <- Roster, waiting <- Waiting, alive <- TRUE

LEMMA SameLists ==
  /\ StrictOrder \in BOOLEAN /\ Order!IsFiniteSet(Members)
  /\ MaxAdmissions \in Nat /\ MaxGroupSize \in Nat
  /\ \A s : Order!IsFiniteSet(s) <=> IsFiniteSet(s)
  /\ \A s : Order!Cardinality(s) = Cardinality(s)
  /\ \A list : Order!Range(list) = Range(list)
  /\ \A list : Order!IsInjective(list) <=> IsInjective(list)
  /\ \A list : Order!WellFormed(list) <=> WellFormed(list)
  /\ \A hs, key : Order!Sorted(hs, key) = Sorted(hs, key)
  /\ Order!MemberLists = MemberLists
  BY PolicyAssumption, MembersAssumption, BoundsAssumption
     DEF Order!IsFiniteSet, IsFiniteSet, Order!Cardinality, Cardinality, Order!Range, Range,
         Order!IsInjective, IsInjective, Order!WellFormed, WellFormed, Order!Sorted, Sorted,
         Order!MemberLists, MemberLists
-----------------------------------------------------------------------------
\* The line.

LEMMA GroupsAre ==
  ASSUME Shape
  PROVE  /\ Len(group) \in Nat /\ Handles = 1..Len(group) /\ Handles \subseteq Nat
         /\ \A h \in Handles : h \in Int /\ group[h] \in GroupRecord
         /\ Waiting \subseteq Handles
         /\ Len(order) \in Nat /\ DOMAIN order = 1..Len(order)
         /\ \A i \in DOMAIN order : order[i] \in Waiting /\ i \in Int
  <1>1. Len(group) \in Nat /\ Handles = 1..Len(group)
        /\ \A h \in Handles : group[h] \in GroupRecord
    BY DEF Shape, Handles
  <1>2. Len(order) \in Nat /\ DOMAIN order = 1..Len(order)
        /\ \A i \in DOMAIN order : order[i] \in Handles
    BY DEF Shape
  <1> QED
    BY <1>1, <1>2 DEF Waiting, Range

LEMMA LineIs ==
  ASSUME Shape, Arrival
  PROVE  /\ \A i, j \in DOMAIN order : order[i] = order[j] => i = j
         /\ Place \in [Waiting -> DOMAIN order]
         /\ \A h \in Waiting : order[Place[h]] = h
         /\ IsFiniteSet(Waiting)
         /\ order \in InHandleOrder(Waiting)
  <1>1. ASSUME NEW i \in DOMAIN order, NEW j \in DOMAIN order, order[i] = order[j]
        PROVE  i = j
    <2>1. i \in Int /\ j \in Int /\ order[i] \in Int
      BY GroupsAre
    <2>2. ~ (i < j) /\ ~ (j < i)
      BY <1>1, <2>1 DEF Arrival
    <2> QED
      BY <2>1, <2>2
  <1>2. \A h \in Waiting : \E i \in DOMAIN order : order[i] = h
    BY DEF Waiting, Range
  <1>3. Place \in [Waiting -> DOMAIN order] /\ \A h \in Waiting : order[Place[h]] = h
    BY <1>2 DEF Place
  <1>4. /\ order \in Seq(Waiting) /\ Range(order) = Waiting
        /\ [h \in Waiting |-> h] \in [Waiting -> Int]
        /\ \A i \in DOMAIN order : [h \in Waiting |-> h][order[i]] = order[i]
    <2>1. /\ Len(order) \in Nat /\ order \in [1..Len(order) -> Waiting]
          /\ DOMAIN order = 1..Len(order)
      BY GroupsAre DEF Shape
    <2>2. order \in Seq(Waiting) /\ \A i \in DOMAIN order : order[i] \in Waiting
      BY <2>1
    <2>3. \A h \in Waiting : h \in Int
      BY GroupsAre
    <2>4. Range(order) = Waiting
      BY DEF Waiting
    <2> QED
      BY <2>2, <2>3, <2>4
  <1> DEFINE id == [h \in Waiting |-> h]
  <1> HIDE DEF id
  <1>5. \A i, j \in DOMAIN order : i < j => id[order[i]] < id[order[j]]
    BY <1>4 DEF Arrival, id
  <1>6. IsFiniteSet(Waiting) /\ order \in Sorted(Waiting, id)
    BY <1>4, <1>5, SameLists, Order!IncreasingIsSorted DEF id
  <1> QED
    BY <1>1, <1>3, <1>6 DEF InHandleOrder, id

\* Some of the groups in line, as they stand there, are in order of arrival.
LEMMA InLineIs ==
  ASSUME Shape, Arrival, NEW hs \in SUBSET Waiting, NEW list \in InLine(hs)
  PROVE  /\ list \in InHandleOrder(hs) /\ Range(list) = hs /\ list \in Seq(hs)
         /\ \A i, j \in DOMAIN list : i < j => list[i] < list[j]
  <1>1. /\ list \in [1..Cardinality(hs) -> hs]
        /\ \A i, j \in DOMAIN list : i < j => Place[list[i]] < Place[list[j]]
    BY DEF InLine, Sorted
  <1>2. IsFiniteSet(hs) /\ Cardinality(hs) \in Nat
    BY LineIs, FS_Subset, FS_CardinalityType
  <1>3. \A i, j \in DOMAIN list : i < j => list[i] < list[j]
    <2>1. ASSUME NEW i \in DOMAIN list, NEW j \in DOMAIN list, i < j PROVE list[i] < list[j]
      <3>1. list[i] \in Waiting /\ list[j] \in Waiting /\ Place[list[i]] < Place[list[j]]
        BY <1>1, <2>1
      <3>2. order[Place[list[i]]] < order[Place[list[j]]]
        BY <3>1, LineIs DEF Arrival
      <3> QED
        BY <3>1, <3>2, LineIs
    <2> QED
      BY <2>1
  <1> DEFINE id == [h \in hs |-> h]
  <1>4. id \in [hs -> Int] /\ hs \in SUBSET Nat
    BY GroupsAre
  <1>5. \A i \in DOMAIN list : id[list[i]] = list[i]
    BY <1>1
  <1> HIDE DEF id
  <1>6. list \in Sorted(hs, id)
    BY <1>1, <1>3, <1>5 DEF Sorted
  <1>7. Range(list) = hs
    BY <1>2, <1>4, <1>6, SameLists, Order!SortedNamesAll
  <1> QED
    BY <1>1, <1>2, <1>3, <1>6, <1>7 DEF InHandleOrder, id
-----------------------------------------------------------------------------
\* Lookups.

\* However a port stores its groups, an id finds the group in line that has it.
LEMMA Found ==
  ASSUME IInv, NEW id
  PROVE  Find(id) = {h \in Waiting : group[h].group_id = id}
  <1>1. CASE port.store = "both"
    BY <1>1 DEF Find, IInv, ById
  <1>2. CASE port.store # "both"
    <2> DEFINE at == {i \in DOMAIN order : group[order[i]].group_id = id}
    <2>1. Find(id) = {order[i] : i \in {j \in at : \A k \in at : j <= k}}
      BY <1>2 DEF Find
    <2>2. \A i, j \in at : i = j
      BY LineIs, GroupsAre DEF IInv, OneIdEach
    <2>3. \A i \in at : i \in Int /\ order[i] \in Waiting
      BY GroupsAre DEF IInv
    <2>4. {j \in at : \A k \in at : j <= k} = at
      BY <2>2, <2>3
    <2> QED
      BY <2>1, <2>4, GroupsAre DEF IInv, Waiting, Range
  <1> QED
    BY <1>1, <1>2

LEMMA FoundFor ==
  ASSUME IInv, NEW m
  PROVE  /\ GroupOf(m) \subseteq Waiting
         /\ port.copies => GroupOf(m) = {h \in Waiting : m \in group[h].entered}
  <1>1. \A id : Find(id) = {h \in Waiting : group[h].group_id = id}
    BY Found
  <1>2. GroupOf(m) = {h \in Waiting : m \in DOMAIN member_index
                                       /\ group[h].group_id = member_index[m]}
    BY <1>1 DEF GroupOf
  <1>3. ASSUME port.copies
        PROVE  GroupOf(m) = {h \in Waiting : m \in group[h].entered}
    BY <1>2, <1>3 DEF IInv, ByMember, OneIdEach
  <1> QED
    BY <1>2, <1>3
-----------------------------------------------------------------------------
\* Steps that change no more than the answer.

\* An answer that hands no group over.
HandsNothing(answer) == answer.call \in Departing => answer.groups = <<>>

LEMMA AnswersHandNothing ==
  /\ \A call : HandsNothing(Raises(call))
  /\ \A call, value : HandsNothing(Returns(call, value, <<>>))
  /\ \A call, value, gs : call \notin Departing => HandsNothing(Returns(call, value, gs))
  BY DEF HandsNothing, Raises, Returns

LEMMA NoGroups == Range(<<>>) = {}
  BY DEF Range

LEMMA AnswerKeeps ==
  ASSUME IInv, UNCHANGED <<port, group, queue>>, result' = result \/ HandsNothing(result')
  PROVE  IInv' /\ Waiting' = Waiting /\ Handles' = Handles
  <1>1. UNCHANGED <<port, group, order, by_id, member_index>>
    BY DEF queue
  <1>2. Waiting' = Waiting /\ Handles' = Handles
    BY <1>1 DEF Waiting, Handles
  <1>3. Handed'
    BY <1>2, NoGroups DEF IInv, Handed, HandsNothing
  <1>4. /\ Shape' /\ Arrival' /\ OneIdEach' /\ ById' /\ Copied' /\ ByMember'
        /\ CounterMatchesFlags'
    BY <1>1, <1>2 DEF IInv, Shape, Arrival, OneIdEach, ById, Copied, ByMember,
                      CounterMatchesFlags
  <1> QED
    BY <1>2, <1>3, <1>4 DEF IInv

LEMMA RefuseKeeps ==
  ASSUME IInv, NEW call, Refuse(call)
  PROVE  IInv' /\ Waiting' = Waiting /\ Handles' = Handles
  <1>1. HandsNothing(result') /\ UNCHANGED <<port, group, queue>>
    BY AnswersHandNothing DEF Refuse
  <1> QED
    BY <1>1, AnswerKeeps
-----------------------------------------------------------------------------
\* Marking.

\* What is left of the group when some of its members are marked.
LEMMA MarkIs ==
  ASSUME IInv, NEW h \in Handles, NEW ms \in SUBSET group[h].entered, Mark(h, ms)
  PROVE  /\ Handles' = Handles /\ group' \in Seq(GroupRecord)
         /\ \A g \in Handles :
              /\ group'[g].group_id = group[g].group_id /\ group'[g].list = group[g].list
              /\ group'[g].entered = group[g].entered
              /\ group'[g].ready = IF g = h THEN group[g].ready \cup ms ELSE group[g].ready
              /\ group'[g].ready_count = Cardinality(group'[g].ready)
  <1> DEFINE old == group[h]
             new == [old EXCEPT !.ready = old.ready \cup ms,
                                !.ready_count = old.ready_count + Cardinality(ms \ old.ready)]
  <1>1. /\ old \in GroupRecord /\ group \in Seq(GroupRecord) /\ Handles = 1..Len(group)
        /\ Len(group) \in Nat
    BY GroupsAre DEF IInv, Shape
  <1>2. IsFiniteSet(old.ready) /\ IsFiniteSet(ms) /\ IsFiniteSet(ms \ old.ready)
    <2>1. old.ready \subseteq Members /\ ms \subseteq Members
      BY <1>1 DEF GroupRecord
    <2> QED
      BY <2>1, MembersAssumption, FS_Subset
  <1>3. Cardinality(old.ready \cup ms) = old.ready_count + Cardinality(ms \ old.ready)
    <2>1. old.ready \cup ms = old.ready \cup (ms \ old.ready)
          /\ old.ready \cap (ms \ old.ready) = {}
      OBVIOUS
    <2>2. Cardinality(old.ready) = old.ready_count
      BY DEF IInv, CounterMatchesFlags
    <2>3. /\ Cardinality(old.ready) \in Nat /\ Cardinality(ms \ old.ready) \in Nat
          /\ Cardinality(old.ready \cup (ms \ old.ready))
               = Cardinality(old.ready) + Cardinality(ms \ old.ready)
                   - Cardinality(old.ready \cap (ms \ old.ready))
      BY <1>2, FS_Union, FS_CardinalityType
    <2>4. Cardinality(old.ready \cap (ms \ old.ready)) = 0
      BY <2>1, FS_EmptySet
    <2>5. Cardinality(old.ready \cup (ms \ old.ready))
            = old.ready_count + Cardinality(ms \ old.ready)
      BY <2>2, <2>3, <2>4
    <2> QED
      BY <2>1, <2>5
  <1>4. Cardinality(ms \ old.ready) \in Nat
    BY <1>2, FS_CardinalityType
  <1>5. /\ new \in GroupRecord
        /\ new.group_id = old.group_id /\ new.list = old.list /\ new.entered = old.entered
        /\ new.ready = old.ready \cup ms
        /\ new.ready_count = old.ready_count + Cardinality(ms \ old.ready)
    <2> HIDE DEF old
    <2>1. old.ready \cup ms \in SUBSET Members
      <3>1. ms \in SUBSET old.entered
        BY DEF old
      <3> QED
        BY <1>1, <3>1 DEF GroupRecord
    <2>2. old.ready_count + Cardinality(ms \ old.ready) \in Nat
      BY <1>1, <1>4 DEF GroupRecord
    <2> DEFINE upd(r, n) == [old EXCEPT !.ready = r, !.ready_count = n]
               r0 == old.ready \cup ms
               n0 == old.ready_count + Cardinality(ms \ old.ready)
    <2>3. ASSUME NEW r \in SUBSET Members, NEW n \in Nat
          PROVE  /\ upd(r, n) \in GroupRecord
                 /\ upd(r, n).group_id = old.group_id /\ upd(r, n).list = old.list
                 /\ upd(r, n).entered = old.entered
                 /\ upd(r, n).ready = r /\ upd(r, n).ready_count = n
      BY <1>1, <2>3 DEF GroupRecord
    <2>4. new = upd(r0, n0) /\ r0 \in SUBSET Members /\ n0 \in Nat
      BY <2>1, <2>2
    <2> HIDE DEF new, upd, r0, n0
    <2>5. /\ new \in GroupRecord
          /\ new.group_id = old.group_id /\ new.list = old.list
          /\ new.entered = old.entered /\ new.ready = r0 /\ new.ready_count = n0
      BY <2>3, <2>4
    <2> QED
      BY <2>5 DEF r0, n0
  <1>6. group' = [group EXCEPT ![h] = new]
    BY DEF Mark
  <1> HIDE DEF new, old
  <1>7. /\ Handles' = Handles /\ group' \in Seq(GroupRecord)
        /\ \A g \in Handles : group'[g] = IF g = h THEN new ELSE group[g]
    BY <1>1, <1>5, <1>6 DEF Handles
  <1>8. \A g \in Handles : group[g].ready_count = Cardinality(group[g].ready)
    BY DEF IInv, CounterMatchesFlags
  <1> QED
    BY <1>3, <1>5, <1>7, <1>8 DEF old

LEMMA MarkKeeps ==
  ASSUME IInv, NEW h \in Handles, NEW ms \in SUBSET group[h].entered, Mark(h, ms),
         HandsNothing(result')
  PROVE  IInv' /\ Waiting' = Waiting /\ Handles' = Handles
  <1>1. /\ UNCHANGED <<port, order, by_id, member_index>>
        /\ Waiting' = Waiting /\ Handles' = Handles
    BY MarkIs DEF Mark, queue, Waiting
  <1>2. Shape'
    BY <1>1, MarkIs DEF IInv, Shape
  <1>3. Waiting \subseteq Handles
    BY GroupsAre DEF IInv
  <1>4. /\ \A g \in Handles : /\ group'[g].group_id = group[g].group_id
                              /\ group'[g].list = group[g].list
                              /\ group'[g].entered = group[g].entered
        /\ \A g \in Handles : /\ group'[g].ready_count = Cardinality(group'[g].ready)
                              /\ group'[g].ready \subseteq group'[g].entered
    <2>1. \A g \in Handles : group[g].ready \subseteq group[g].entered
      BY DEF IInv, CounterMatchesFlags
    <2>2. \A g \in Handles :
            /\ group'[g].entered = group[g].entered
            /\ group'[g].ready = IF g = h THEN group[g].ready \cup ms ELSE group[g].ready
      BY MarkIs
    <2>3. \A g \in Handles : group'[g].ready \subseteq group'[g].entered
      BY <2>1, <2>2
    <2> QED
      BY <2>3, MarkIs
  <1>5. OneIdEach' /\ Arrival'
    BY <1>1, <1>3, <1>4 DEF IInv, OneIdEach, Arrival
  <1>6. ById'
    BY <1>1, <1>3, <1>4 DEF IInv, ById
  <1>7. Copied' /\ CounterMatchesFlags'
    BY <1>1, <1>4 DEF IInv, Copied, CounterMatchesFlags
  <1>8. ByMember'
    BY <1>1, <1>3, <1>4 DEF IInv, ByMember
  <1>9. Handed'
    BY <1>1, NoGroups DEF Handed, HandsNothing
  <1> QED
    BY <1>1, <1>2, <1>5, <1>6, <1>7, <1>8, <1>9 DEF IInv

LEMMA GroupMarkReadyKeeps ==
  ASSUME IInv, NEW h \in Handles, NEW m, GroupMarkReady(h, m)
  PROVE  IInv' /\ Waiting' = Waiting /\ Handles' = Handles
  <1>1. CASE m \in group[h].entered
    <2>1. Mark(h, {m}) /\ \E value : result' = Returns("mark_ready", value, <<>>)
      BY <1>1 DEF GroupMarkReady
    <2>2. HandsNothing(result') /\ {m} \in SUBSET group[h].entered
      BY <1>1, <2>1, AnswersHandNothing
    <2> QED
      BY <2>1, <2>2, MarkKeeps
  <1>2. CASE m \notin group[h].entered
    BY <1>2, RefuseKeeps DEF GroupMarkReady
  <1> QED
    BY <1>1, <1>2

LEMMA MarkGroupReadyKeeps ==
  ASSUME IInv, NEW h \in Handles, MarkGroupReady(h)
  PROVE  IInv' /\ Waiting' = Waiting /\ Handles' = Handles
  <1> DEFINE ms == {group[h].list[i] : i \in Known(group[h])}
  <1>1. \A i \in Known(group[h]) : group[h].list[i] \in group[h].entered
    <2>1. group[h].list \in MemberLists
      BY GroupsAre DEF IInv, GroupRecord
    <2>2. PICK n \in Nat : DOMAIN group[h].list = 1..n
      BY <2>1, BoundsAssumption DEF MemberLists
    <2> QED
      BY <2>2 DEF Known
  <1>2. ms \in SUBSET group[h].entered /\ Mark(h, ms)
    BY <1>1 DEF MarkGroupReady
  <1>3. HandsNothing(result')
    BY AnswersHandNothing DEF MarkGroupReady
  <1> HIDE DEF ms
  <1> QED
    BY <1>2, <1>3, MarkKeeps
-----------------------------------------------------------------------------
\* Leaving.

\* The groups of hs are out, by remove or by clear, and the answer hands them over.
LEMMA LeaveKeeps ==
  ASSUME IInv, NEW hs \in SUBSET Waiting, UNCHANGED <<port, group>>,
         order' \in Seq(Waiting \ hs), Range(order') = Waiting \ hs, Arrival',
         port.store = "both" => by_id' = Without(by_id, {group[h].group_id : h \in hs}),
         port.copies =>
           member_index' = Without(member_index, UNION {group[h].entered : h \in hs}),
         result'.call \in Departing => Range(result'.groups) = hs
  PROVE  IInv' /\ Waiting' = Waiting \ hs /\ Handles' = Handles
  <1>1. Waiting' = Waiting \ hs /\ Handles' = Handles
    BY DEF Waiting, Handles
  <1>2. Waiting \subseteq Handles /\ Waiting' \subseteq Waiting
    BY <1>1, GroupsAre DEF IInv
  <1>3. Shape'
    <2>1. order' \in Seq(Handles)
      <3>1. Waiting \ hs \subseteq Handles
        BY <1>2
      <3>2. /\ Len(order') \in Nat /\ order' \in [1..Len(order') -> Waiting \ hs]
        OBVIOUS
      <3> QED
        BY <3>1, <3>2
    <2> QED
      BY <1>1, <2>1 DEF IInv, Shape
  <1>4. OneIdEach'
    BY <1>2 DEF IInv, OneIdEach
  <1>5. ById'
    <2>1. ASSUME port.store = "both", NEW h \in Waiting'
          PROVE  group[h].group_id \in DOMAIN by_id' /\ by_id'[group[h].group_id] = h
      <3>1. group[h].group_id \notin {group[g].group_id : g \in hs}
        BY <1>1, <2>1 DEF IInv, OneIdEach
      <3>2. group[h].group_id \in DOMAIN by_id /\ by_id[group[h].group_id] = h
        BY <1>2, <2>1 DEF IInv, ById
      <3> QED
        BY <2>1, <3>1, <3>2 DEF Without, Restrict
    <2>2. ASSUME port.store = "both", NEW id \in DOMAIN by_id'
          PROVE  by_id'[id] \in Waiting' /\ group[by_id'[id]].group_id = id
      <3>1. /\ id \in DOMAIN by_id /\ by_id'[id] = by_id[id]
            /\ id \notin {group[g].group_id : g \in hs}
        BY <2>2 DEF Without, Restrict
      <3>2. by_id[id] \in Waiting /\ group[by_id[id]].group_id = id
        BY <2>2, <3>1 DEF IInv, ById
      <3> QED
        BY <1>1, <3>1, <3>2
    <2> QED
      BY <2>1, <2>2 DEF ById
  <1>6. Copied' /\ CounterMatchesFlags'
    BY <1>1 DEF IInv, Copied, CounterMatchesFlags
  <1>7. ByMember'
    <2> DEFINE gone == UNION {group[h].entered : h \in hs}
    <2>1. ASSUME port.copies, NEW h \in Waiting', NEW m \in group[h].entered
          PROVE  m \in DOMAIN member_index' /\ member_index'[m] = group[h].group_id
      <3>1. m \in DOMAIN member_index /\ member_index[m] = group[h].group_id
        BY <1>2, <2>1 DEF IInv, ByMember
      <3>2. ASSUME NEW g \in hs, m \in group[g].entered PROVE FALSE
        <4>1. member_index[m] = group[g].group_id
          BY <2>1, <3>2 DEF IInv, ByMember
        <4> QED
          BY <1>1, <3>1, <4>1 DEF IInv, OneIdEach
      <3>3. m \notin gone
        BY <3>2
      <3> QED
        BY <2>1, <3>1, <3>3 DEF Without, Restrict
    <2>2. ASSUME port.copies, NEW m \in DOMAIN member_index'
          PROVE  \E h \in Waiting' : m \in group[h].entered
      <3>1. m \in DOMAIN member_index /\ m \notin gone
        BY <2>2 DEF Without, Restrict
      <3>2. PICK h \in Waiting : m \in group[h].entered
        BY <2>2, <3>1 DEF IInv, ByMember
      <3> QED
        BY <1>1, <3>1, <3>2
    <2> QED
      BY <2>1, <2>2 DEF ByMember
  <1>8. Handed'
    BY <1>1, <1>2 DEF Handed
  <1> QED
    BY <1>1, <1>3, <1>4, <1>5, <1>6, <1>7, <1>8 DEF IInv

\* In a port that copies lists, what a group takes out of the index are its members.
LEMMA ListsAreMembers ==
  ASSUME IInv, port.copies, NEW hs \in SUBSET Handles
  PROVE  UNION {Range(group[h].list) : h \in hs} = UNION {group[h].entered : h \in hs}
  BY DEF IInv, Copied

LEMMA RemoveKeeps ==
  ASSUME IInv, NEW hs \in SUBSET Waiting, Remove(hs),
         result'.call \in Departing => Range(result'.groups) = hs
  PROVE  IInv' /\ Waiting' = Waiting \ hs /\ Handles' = Handles
  <1>1. /\ order' \in InLine(Waiting \ hs) /\ UNCHANGED <<port, group>>
        /\ by_id' = Without(by_id, {group[h].group_id : h \in hs})
        /\ member_index' = Without(member_index, UNION {Range(group[h].list) : h \in hs})
    BY DEF Remove
  <1>2. /\ order' \in Seq(Waiting \ hs) /\ Range(order') = Waiting \ hs
        /\ \A i, j \in DOMAIN order' : i < j => order'[i] < order'[j]
    BY <1>1, InLineIs DEF IInv
  <1>3. port.copies =>
          member_index' = Without(member_index, UNION {group[h].entered : h \in hs})
    BY <1>1, ListsAreMembers, GroupsAre DEF IInv
  <1> QED
    BY <1>1, <1>2, <1>3, LeaveKeeps DEF Arrival

LEMMA ClearKeeps ==
  ASSUME IInv, Clear
  PROVE  /\ IInv' /\ Waiting' = {} /\ Handles' = Handles
         /\ result' = Returns("clear", "List", order)
  <1>1. /\ order' = <<>> /\ by_id' = EmptyDict /\ member_index' = EmptyDict
        /\ UNCHANGED <<port, group>> /\ result' = Returns("clear", "List", order)
    BY DEF Clear
  <1> DEFINE none == Waiting \ Waiting
  <1>2. none = {} /\ order' \in Seq(none) /\ Range(order') = none /\ DOMAIN order' = {}
    BY <1>1 DEF Range
  <1>3. Arrival'
    BY <1>2 DEF Arrival
  <1>4. ASSUME port.store = "both"
        PROVE  by_id' = Without(by_id, {group[h].group_id : h \in Waiting})
    <2>1. DOMAIN by_id \subseteq {group[h].group_id : h \in Waiting}
      BY <1>4 DEF IInv, ById
    <2> QED
      BY <1>1, <2>1 DEF Without, Restrict, EmptyDict
  <1>5. ASSUME port.copies
        PROVE  member_index' = Without(member_index, UNION {group[h].entered : h \in Waiting})
    <2>1. DOMAIN member_index \subseteq UNION {group[h].entered : h \in Waiting}
      BY <1>5 DEF IInv, ByMember
    <2> QED
      BY <1>1, <2>1 DEF Without, Restrict, EmptyDict
  <1>6. Range(result'.groups) = Waiting
    BY <1>1 DEF Returns, Waiting
  <1> HIDE DEF none
  <1>7. IInv' /\ Waiting' = Waiting \ Waiting /\ Handles' = Handles
    BY <1>1, <1>2, <1>3, <1>4, <1>5, <1>6, LeaveKeeps DEF none
  <1> QED
    BY <1>1, <1>7

LEMMA RangeOfOne == ASSUME NEW h PROVE Range(<<h>>) = {h}
  BY DEF Range

\* What a departing call of the queue takes out, and what it says.
LEMMA ReadyWait ==
  ASSUME IInv
  PROVE  NextOut \subseteq Waiting /\ AllOut \subseteq Waiting
  BY GroupsAre DEF IInv, NextOut, AllOut

LEMMA OneLeaves ==
  ASSUME IInv, NEW h \in Waiting, NEW call, Remove({h}),
         result' = Returns(call, "Group", <<h>>)
  PROVE  IInv' /\ Waiting' = Waiting \ {h} /\ Handles' = Handles
  <1>1. Range(result'.groups) = {h}
    BY RangeOfOne DEF Returns
  <1> QED
    BY <1>1, RemoveKeeps

LEMMA ReleaseAllKeeps ==
  ASSUME IInv, ReleaseAll
  PROVE  IInv' /\ Waiting' = Waiting \ AllOut /\ Handles' = Handles
  <1>1. PICK list \in InLine(AllOut) : result' = Returns("release_all", "List", list)
    BY DEF ReleaseAll
  <1>2. Range(list) = AllOut /\ AllOut \in SUBSET Waiting
    BY ReadyWait, InLineIs DEF IInv
  <1>3. Range(result'.groups) = AllOut
    BY <1>1, <1>2 DEF Returns
  <1> QED
    BY <1>2, <1>3, RemoveKeeps DEF ReleaseAll
-----------------------------------------------------------------------------
\* Admission, and a caller that edits its list.

LEMMA AdmitIs ==
  ASSUME IInv, NEW id \in GroupIds, NEW list \in MemberLists, Admit(id, list)
  PROVE  LET new == Len(group) + 1
         IN  /\ new \notin Handles /\ Handles' = 1..new /\ Handles' = Handles \cup {new}
             /\ group' \in Seq(GroupRecord)
             /\ \A h \in Handles : group'[h] = group[h]
             /\ group'[new] = [group_id |-> id, list |-> list, entered |-> Range(list),
                               ready |-> {}, ready_count |-> 0]
             /\ order' \in Seq(Handles') /\ Arrival'
             /\ Waiting' = Waiting \cup {new}
             /\ result' = Returns("admit", "Group", <<new>>)
  <1> DEFINE new == Len(group) + 1
             made == [group_id |-> id, list |-> list, entered |-> Range(list),
                      ready |-> {}, ready_count |-> 0]
  <1>1. /\ group' = Append(group, made) /\ order' = Append(order, new)
        /\ result' = Returns("admit", "Group", <<new>>)
    BY DEF Admit
  <1>2. /\ Len(group) \in Nat /\ Handles = 1..Len(group) /\ group \in Seq(GroupRecord)
        /\ Len(order) \in Nat /\ DOMAIN order = 1..Len(order)
        /\ \A i \in DOMAIN order : order[i] \in Handles
    BY GroupsAre DEF IInv, Shape
  <1>3. made \in GroupRecord
    <2>1. Range(list) \in SUBSET Members
      <3>1. PICK n \in Nat : list \in [1..n -> Members]
        BY BoundsAssumption DEF MemberLists
      <3> QED
        BY <3>1 DEF Range
    <2> QED
      BY <2>1 DEF GroupRecord
  <1> HIDE DEF made
  <1>4. /\ group' \in Seq(GroupRecord) /\ Len(group') = new /\ group'[new] = made
        /\ \A h \in Handles : group'[h] = group[h]
    BY <1>1, <1>2, <1>3
  <1>5. new \notin Handles /\ Handles' = 1..new /\ Handles' = Handles \cup {new}
    <2>1. DOMAIN group' = 1..new
      BY <1>4
    <2> QED
      BY <1>2, <2>1 DEF Handles
  <1>6. /\ order' \in Seq(Handles') /\ Len(order') = Len(order) + 1
        /\ DOMAIN order' = 1..(Len(order) + 1) /\ order'[Len(order) + 1] = new
        /\ \A i \in DOMAIN order : order'[i] = order[i]
    <2>1. order \in Seq(Handles') /\ new \in Handles'
      <3>1. order \in [1..Len(order) -> Handles']
        BY <1>2, <1>5 DEF IInv, Shape
      <3> QED
        BY <1>2, <1>5, <3>1
    <2> HIDE DEF new
    <2> QED
      BY <1>1, <1>2, <2>1
  <1>7. ASSUME NEW i \in DOMAIN order', NEW j \in DOMAIN order', i < j
        PROVE  order'[i] < order'[j]
    <2>1. i \in DOMAIN order /\ order'[i] = order[i]
      BY <1>2, <1>6, <1>7
    <2>2. CASE j \in DOMAIN order
      BY <1>6, <1>7, <2>1, <2>2 DEF IInv, Arrival
    <2>3. CASE j \notin DOMAIN order
      BY <1>2, <1>6, <2>1, <2>3
    <2> QED
      BY <2>2, <2>3
  <1>8. Waiting' = Waiting \cup {new}
    BY <1>2, <1>6 DEF Waiting, Range
  <1> QED
    BY <1>1, <1>4, <1>5, <1>6, <1>7, <1>8 DEF Arrival, made

LEMMA AdmitKeeps ==
  ASSUME IInv, NEW id \in GroupIds, NEW list \in MemberLists, Admit(id, list)
  PROVE  IInv'
  <1> DEFINE new == Len(group) + 1
             members == Range(list)
  <1>1. /\ new \notin Handles /\ Handles' = Handles \cup {new}
        /\ group' \in Seq(GroupRecord) /\ order' \in Seq(Handles') /\ Arrival'
        /\ \A h \in Handles : group'[h] = group[h]
        /\ group'[new] = [group_id |-> id, list |-> list, entered |-> members,
                          ready |-> {}, ready_count |-> 0]
        /\ Waiting' = Waiting \cup {new} /\ result' = Returns("admit", "Group", <<new>>)
    BY AdmitIs
  <1>2. /\ group'[new].group_id = id /\ group'[new].list = list
        /\ group'[new].entered = members /\ group'[new].ready = {}
        /\ group'[new].ready_count = 0
    BY <1>1
  <1>3. /\ Admissible(id, list) /\ port' = port
        /\ by_id' = IF port.store = "both" THEN Put(by_id, {id}, new) ELSE by_id
        /\ member_index' = Put(member_index, members, id)
    BY DEF Admit
  <1> HIDE DEF new, members
  <1>4. Waiting \subseteq Handles
    BY GroupsAre DEF IInv
  <1>5. \A h \in Waiting : group[h].group_id # id
    BY <1>3, Found DEF Admissible
  <1>6. Shape'
    BY <1>1, <1>3 DEF IInv, Shape
  <1>7. OneIdEach'
    BY <1>1, <1>2, <1>4, <1>5 DEF IInv, OneIdEach
  <1>8. ById'
    <2>1. ASSUME port.store = "both"
          PROVE  /\ DOMAIN by_id' = DOMAIN by_id \cup {id} /\ by_id'[id] = new
                 /\ \A i \in DOMAIN by_id : i # id => by_id'[i] = by_id[i]
      BY <1>3, <2>1 DEF Put
    <2>2. ASSUME port.store = "both", NEW h \in Waiting'
          PROVE  group'[h].group_id \in DOMAIN by_id' /\ by_id'[group'[h].group_id] = h
      <3>1. CASE h = new
        BY <1>2, <2>1, <2>2, <3>1
      <3>2. CASE h # new
        BY <1>1, <1>4, <1>5, <2>1, <2>2, <3>2 DEF IInv, ById
      <3> QED
        BY <3>1, <3>2
    <2>3. ASSUME port.store = "both", NEW i \in DOMAIN by_id'
          PROVE  by_id'[i] \in Waiting' /\ group'[by_id'[i]].group_id = i
      <3>1. CASE i = id
        BY <1>1, <1>2, <2>1, <2>3, <3>1
      <3>2. CASE i # id
        <4>1. by_id'[i] = by_id[i] /\ by_id[i] \in Waiting /\ group[by_id[i]].group_id = i
          BY <2>1, <2>3, <3>2 DEF IInv, ById
        <4> QED
          BY <1>1, <1>4, <4>1
      <3> QED
        BY <3>1, <3>2
    <2> QED
      BY <1>3, <2>2, <2>3 DEF ById
  <1>9. Copied' /\ CounterMatchesFlags'
    <2>1. WellFormed(list)
      BY <1>3 DEF Admissible
    <2>2. Cardinality({}) = 0
      BY FS_EmptySet
    <2>3. CounterMatchesFlags'
      BY <1>1, <1>2, <2>2 DEF IInv, CounterMatchesFlags
    <2> QED
      BY <1>1, <1>2, <1>3, <2>1, <2>3 DEF IInv, Copied, members
  <1>10. ByMember'
    <2>1. /\ DOMAIN member_index' = DOMAIN member_index \cup members
          /\ \A m \in members : member_index'[m] = id
          /\ \A m \in DOMAIN member_index :
               m \notin members => member_index'[m] = member_index[m]
      BY <1>3 DEF Put
    <2>2. \A m \in members : m \notin DOMAIN member_index
      BY <1>3 DEF Admissible, members
    <2>3. ASSUME port.copies, NEW h \in Waiting', NEW m \in group'[h].entered
          PROVE  m \in DOMAIN member_index' /\ member_index'[m] = group'[h].group_id
      <3>1. CASE h = new
        BY <1>2, <2>1, <2>3, <3>1
      <3>2. CASE h # new
        <4>1. h \in Waiting /\ group'[h] = group[h]
          BY <1>1, <1>4, <2>3, <3>2
        <4>2. m \in DOMAIN member_index /\ member_index[m] = group[h].group_id
          BY <2>3, <4>1 DEF IInv, ByMember
        <4> QED
          BY <2>1, <2>2, <4>1, <4>2
      <3> QED
        BY <3>1, <3>2
    <2>4. ASSUME port.copies, NEW m \in DOMAIN member_index'
          PROVE  \E h \in Waiting' : m \in group'[h].entered
      <3>1. CASE m \in members
        BY <1>1, <1>2, <3>1
      <3>2. CASE m \notin members
        <4>1. PICK h \in Waiting : m \in group[h].entered
          BY <2>1, <2>4, <3>2 DEF IInv, ByMember
        <4> QED
          BY <1>1, <1>4, <4>1
      <3> QED
        BY <3>1, <3>2
    <2> QED
      BY <1>3, <2>3, <2>4 DEF ByMember
  <1>11. Handed'
    BY <1>1 DEF Handed, Returns, Departing
  <1> QED
    BY <1>1, <1>6, <1>7, <1>8, <1>9, <1>10, <1>11 DEF IInv

LEMMA EditListKeeps ==
  ASSUME IInv, NEW h \in Handles, NEW list \in MemberLists, EditList(h, list)
  PROVE  /\ IInv' /\ Waiting' = Waiting /\ Handles' = Handles
         /\ port.copies => group' = group
  <1>1. /\ group' = IF port.copies THEN group ELSE [group EXCEPT ![h].list = list]
        /\ UNCHANGED <<port, order, by_id, member_index, result>>
    BY DEF EditList, queue
  <1>2. Waiting' = Waiting
    BY <1>1 DEF Waiting
  <1>3. /\ group' \in Seq(GroupRecord) /\ Handles' = Handles
        /\ \A g \in Handles :
             /\ group'[g].group_id = group[g].group_id /\ group'[g].entered = group[g].entered
             /\ group'[g].ready = group[g].ready
             /\ group'[g].ready_count = group[g].ready_count
    <2>1. group \in Seq(GroupRecord) /\ group[h] \in GroupRecord /\ Handles = 1..Len(group)
          /\ Len(group) \in Nat
      BY GroupsAre DEF IInv, Shape
    <2>2. CASE port.copies
      BY <1>1, <2>1, <2>2 DEF Handles
    <2>3. CASE ~ port.copies
      <3> DEFINE new == [group[h] EXCEPT !.list = list]
      <3>1. /\ new \in GroupRecord /\ new.group_id = group[h].group_id
            /\ new.entered = group[h].entered /\ new.ready = group[h].ready
            /\ new.ready_count = group[h].ready_count
        BY <2>1 DEF GroupRecord
      <3>2. group' = [group EXCEPT ![h] = new]
        BY <1>1, <2>3
      <3> HIDE DEF new
      <3>3. /\ group' \in Seq(GroupRecord) /\ Handles' = Handles
            /\ \A g \in Handles : group'[g] = IF g = h THEN new ELSE group[g]
        BY <2>1, <3>1, <3>2 DEF Handles
      <3> QED
        BY <3>1, <3>3
    <2> QED
      BY <2>2, <2>3
  <1>4. Waiting \subseteq Handles
    BY GroupsAre DEF IInv
  <1>5. Shape' /\ Arrival' /\ Handed'
    BY <1>1, <1>2, <1>3 DEF IInv, Shape, Arrival, Handed
  <1>6. OneIdEach' /\ CounterMatchesFlags'
    BY <1>2, <1>3, <1>4 DEF IInv, OneIdEach, CounterMatchesFlags
  <1>7. ById'
    BY <1>1, <1>2, <1>3, <1>4 DEF IInv, ById
  <1>8. Copied' /\ ByMember'
    BY <1>1, <1>2, <1>3, <1>4 DEF IInv, Copied, ByMember
  <1> QED
    BY <1>1, <1>2, <1>3, <1>5, <1>6, <1>7, <1>8 DEF IInv
-----------------------------------------------------------------------------
\* Every step.

LEMMA Starts == Init => IInv
  <1> SUFFICES ASSUME Init PROVE IInv
    OBVIOUS
  <1>1. /\ port \in Ports /\ group = <<>> /\ order = <<>> /\ by_id = EmptyDict
        /\ member_index = EmptyDict /\ result = Returns("init", "None", <<>>)
    BY DEF Init
  <1>2. Handles = {} /\ Waiting = {} /\ DOMAIN order = {} /\ DOMAIN EmptyDict = {}
    BY <1>1 DEF Handles, Waiting, Range, EmptyDict
  <1>3. Shape
    BY <1>1 DEF Shape
  <1>4. Handed
    BY <1>1 DEF Handed, Returns, Departing
  <1> QED
    BY <1>1, <1>2, <1>3, <1>4
       DEF IInv, Arrival, OneIdEach, ById, Copied, ByMember, CounterMatchesFlags

\* The steps that leave the line alone, and what the others do to it.
Lets(hs) == Waiting' = Waiting \ hs /\ Handles' = Handles
LeavesAlone == Waiting' = Waiting /\ Handles' = Handles

\* The calls that look a group up and mark it, or take it out.
LEMMA LookupKeeps ==
  ASSUME IInv, NEW id, NEW h \in Find(id)
  PROVE  /\ MarkGroupReady(h) => IInv' /\ LeavesAlone
         /\ Cancel(h) => IInv' /\ Lets({h}) /\ h \in Waiting
  <1>1. h \in Waiting /\ h \in Handles
    BY Found, GroupsAre DEF IInv
  <1>2. MarkGroupReady(h) => IInv' /\ LeavesAlone
    BY <1>1, MarkGroupReadyKeeps DEF LeavesAlone
  <1>3. Cancel(h) => IInv' /\ Lets({h})
    BY <1>1, OneLeaves DEF Cancel, Lets
  <1> QED
    BY <1>1, <1>2, <1>3

LEMMA MarkReadyKeeps ==
  ASSUME IInv, NEW m, MarkReady(m)
  PROVE  IInv' /\ LeavesAlone
  <1>1. CASE GroupOf(m) = {}
    BY <1>1, RefuseKeeps DEF MarkReady, LeavesAlone
  <1>2. CASE GroupOf(m) # {}
    <2>1. PICK h \in GroupOf(m) : GroupMarkReady(h, m)
      BY <1>2 DEF MarkReady
    <2>2. h \in Handles
      BY <2>1, FoundFor, GroupsAre DEF IInv
    <2> QED
      BY <2>1, <2>2, GroupMarkReadyKeeps DEF LeavesAlone
  <1> QED
    BY <1>1, <1>2

LEMMA PeekKeeps ==
  ASSUME IInv, Peek \/ ReleaseNone
  PROVE  IInv' /\ LeavesAlone
  <1>1. UNCHANGED <<port, group, queue>>
    BY DEF Peek, ReleaseNone
  <1>2. HandsNothing(result')
    <2>1. CASE Peek
      <3>1. \E value, gs : result' = Returns("peek", value, gs)
        BY <2>1 DEF Peek
      <3> QED
        BY <3>1, AnswersHandNothing DEF Departing
    <2>2. CASE ReleaseNone
      BY <2>2, AnswersHandNothing DEF ReleaseNone
    <2> QED
      BY <2>1, <2>2
  <1> QED
    BY <1>1, <1>2, AnswerKeeps DEF LeavesAlone

LEMMA ReleaseKeeps ==
  ASSUME IInv, NEW h \in NextOut, Remove({h}), result' = Returns("release", "Group", <<h>>)
  PROVE  IInv' /\ Lets({h})
  BY ReadyWait, OneLeaves DEF Lets

\* What a step may do to the line: nothing, let in one group at its end, or hand over
\* the groups that it takes out, as they stand.
HandsOut(hs) ==
  /\ hs \subseteq Waiting /\ Lets(hs)
  /\ \E value : \E call \in Departing, list \in InLine(hs) :
       result' = Returns(call, value, list)
LineMoves ==
  \/ LeavesAlone /\ (HandsNothing(result') \/ result' = result)
  \/ /\ Waiting' = Waiting \cup {Len(group) + 1} /\ result'.call \notin Departing
  \/ \E hs : HandsOut(hs)

LEMMA InLineOf ==
  ASSUME IInv
  PROVE  /\ order \in InLine(Waiting) /\ <<>> \in InLine({})
         /\ \A h \in Waiting : <<h>> \in InLine({h})
  <1>1. order \in InLine(Waiting)
    <2>1. order \in [1..Cardinality(Waiting) -> Waiting]
      BY LineIs DEF IInv, InHandleOrder, Sorted
    <2>2. \A i \in DOMAIN order : Place[order[i]] = i
      <3>1. \A i \in DOMAIN order : order[i] \in Waiting
        BY GroupsAre DEF IInv
      <3> QED
        BY <3>1, LineIs DEF IInv
    <2> QED
      BY <2>1, <2>2 DEF InLine, Sorted
  <1>2. <<>> \in InLine({})
    <2>1. Cardinality({}) = 0
      BY FS_EmptySet
    <2> QED
      BY <2>1 DEF InLine, Sorted
  <1>3. ASSUME NEW h \in Waiting PROVE <<h>> \in InLine({h})
    <2>1. Cardinality({h}) = 1
      BY FS_Singleton
    <2> QED
      BY <2>1 DEF InLine, Sorted
  <1> QED
    BY <1>1, <1>2, <1>3

LEMMA HandedOver ==
  ASSUME NEW hs \in SUBSET Waiting, Lets(hs), NEW call \in Departing, NEW value,
         NEW list \in InLine(hs), result' = Returns(call, value, list)
  PROVE  HandsOut(hs)
  BY Zenon DEF HandsOut

LEMMA OneHandedOut ==
  ASSUME IInv, NEW h \in Waiting, Lets({h}), NEW call \in Departing,
         result' = Returns(call, "Group", <<h>>)
  PROVE  HandsOut({h})
  <1>1. <<h>> \in InLine({h}) /\ {h} \in SUBSET Waiting
    BY InLineOf
  <1> QED
    BY <1>1, HandedOver

\* The inductive step: whatever a caller does, the invariant is kept and the line moves
\* in one of the ways above.
LEMMA NextKeeps ==
  ASSUME IInv, [Next]_vars
  PROVE  IInv' /\ LineMoves
  <1>1. ASSUME LeavesAlone, HandsNothing(result') \/ result' = result PROVE LineMoves
    BY <1>1 DEF LineMoves
  <1>2. CASE UNCHANGED vars
    <2>1. UNCHANGED <<port, group, queue>> /\ result' = result
      BY <1>2 DEF vars
    <2> QED
      BY <1>1, <2>1, AnswerKeeps DEF LeavesAlone
  <1>3. ASSUME NEW call, Refuse(call) PROVE IInv' /\ LineMoves
    <2>1. HandsNothing(result')
      BY <1>3, AnswersHandNothing DEF Refuse
    <2> QED
      BY <1>1, <1>3, <2>1, RefuseKeeps DEF LeavesAlone
  <1>4. ASSUME NEW id \in GroupIds, NEW list \in MemberLists, Admit(id, list)
        PROVE  IInv' /\ LineMoves
    <2>1. Waiting' = Waiting \cup {Len(group) + 1} /\ result'.call \notin Departing
      <3>1. /\ Waiting' = Waiting \cup {Len(group) + 1}
            /\ result' = Returns("admit", "Group", <<Len(group) + 1>>)
        BY <1>4, AdmitIs
      <3> QED
        BY <3>1 DEF Returns, Departing
    <2> QED
      BY <1>4, <2>1, AdmitKeeps DEF LineMoves
  <1>5. ASSUME NEW h \in Handles, NEW m \in Members, GroupMarkReady(h, m)
        PROVE  IInv' /\ LineMoves
    <2>1. HandsNothing(result')
      BY <1>5, AnswersHandNothing DEF GroupMarkReady, Refuse
    <2> QED
      BY <1>1, <1>5, <2>1, GroupMarkReadyKeeps DEF LeavesAlone
  <1>6. ASSUME NEW m \in Members, MarkReady(m) PROVE IInv' /\ LineMoves
    <2>1. HandsNothing(result')
      BY <1>6, AnswersHandNothing DEF MarkReady, GroupMarkReady, Refuse
    <2> QED
      BY <1>1, <1>6, <2>1, MarkReadyKeeps
  <1>7. ASSUME NEW id \in GroupIds, NEW h \in Find(id), MarkGroupReady(h)
        PROVE  IInv' /\ LineMoves
    <2>1. HandsNothing(result')
      BY <1>7, AnswersHandNothing DEF MarkGroupReady
    <2> QED
      BY <1>1, <1>7, <2>1, LookupKeeps
  <1>8. ASSUME NEW id \in GroupIds, NEW h \in Find(id), Cancel(h)
        PROVE  IInv' /\ LineMoves
    <2>1. IInv' /\ Lets({h}) /\ h \in Waiting
      BY <1>8, LookupKeeps
    <2>2. HandsOut({h})
      BY <1>8, <2>1, OneHandedOut DEF Cancel, Departing
    <2> QED
      BY <2>1, <2>2 DEF LineMoves
  <1>9. CASE Peek \/ ReleaseNone
    <2>1. HandsNothing(result')
      <3>1. Peek => \E value, gs : result' = Returns("peek", value, gs)
        BY DEF Peek
      <3> QED
        BY <1>9, <3>1, AnswersHandNothing DEF ReleaseNone, Departing
    <2> QED
      BY <1>1, <1>9, <2>1, PeekKeeps
  <1>10. CASE Release
    <2>1. PICK h \in NextOut : Remove({h}) /\ result' = Returns("release", "Group", <<h>>)
      BY <1>10 DEF Release
    <2>2. IInv' /\ Lets({h}) /\ h \in Waiting
      BY <2>1, ReleaseKeeps, ReadyWait
    <2>3. HandsOut({h})
      BY <2>1, <2>2, OneHandedOut DEF Departing
    <2> QED
      BY <2>2, <2>3 DEF LineMoves
  <1>11. CASE ReleaseAll
    <2>1. IInv' /\ Lets(AllOut) /\ AllOut \subseteq Waiting
      BY <1>11, ReleaseAllKeeps, ReadyWait DEF Lets
    <2>2. HandsOut(AllOut)
      <3>1. PICK list \in InLine(AllOut) : result' = Returns("release_all", "List", list)
        BY <1>11 DEF ReleaseAll
      <3>2. "release_all" \in Departing
        BY DEF Departing
      <3> QED
        BY <2>1, <3>1, <3>2, HandedOver
    <2> QED
      BY <2>1, <2>2 DEF LineMoves
  <1>12. CASE Clear
    <2>1. IInv' /\ Lets(Waiting) /\ result' = Returns("clear", "List", order)
      BY <1>12, ClearKeeps DEF Lets
    <2>2. HandsOut(Waiting)
      <3>1. "clear" \in Departing /\ order \in InLine(Waiting)
        BY InLineOf DEF Departing
      <3> QED
        BY <2>1, <3>1, HandedOver
    <2> QED
      BY <2>1, <2>2 DEF LineMoves
  <1>13. ASSUME NEW h \in Handles, NEW list \in MemberLists, EditList(h, list)
         PROVE  IInv' /\ LineMoves
    <2>1. result' = result
      BY <1>13 DEF EditList
    <2> QED
      BY <1>1, <1>13, <2>1, EditListKeeps DEF LeavesAlone
  <1>14. CASE Next
    BY <1>14, <1>3, <1>4, <1>5, <1>6, <1>7, <1>8, <1>9, <1>10, <1>11, <1>12, <1>13
       DEF Next, AdmitRefused
  <1> QED
    BY <1>2, <1>14

LEMMA NextKeepsAlways == IInv /\ [Next]_vars => IInv' /\ LineMoves
  BY NextKeeps

\* What every port keeps of its groups is consistent, whatever its callers do.
THEOREM Consistent == Spec => []IInv
  BY Starts, NextKeepsAlways, PTL DEF Spec

\* The counter of every group is the number of its flags set, even when a caller edits
\* the list that the group counts by.
THEOREM CountersMatch == Spec => []CounterMatchesFlags
  <1>1. IInv => CounterMatchesFlags
    BY DEF IInv
  <1> QED
    BY <1>1, Consistent, PTL

\* In the ports that copy lists, lookups by id and by member find the groups that a scan
\* of the line finds.
THEOREM LookupsAgree == Spec => []IndexesAgree
  <1>1. ASSUME IInv, port.copies
        PROVE  /\ \A h \in Waiting : Find(group[h].group_id) = {h}
               /\ \A id \in GroupIds : Find(id) \subseteq Waiting
               /\ \A m \in Members : GroupOf(m) = {h \in Waiting : m \in group[h].entered}
    <2>1. \A id : Find(id) = {h \in Waiting : group[h].group_id = id}
      BY <1>1, Found
    <2>2. \A h \in Waiting : Find(group[h].group_id) = {h}
      BY <1>1, <2>1 DEF IInv, OneIdEach
    <2> QED
      BY <1>1, <2>1, <2>2, FoundFor
  <1>2. IInv => IndexesAgree
    BY <1>1 DEF IndexesAgree
  <1> QED
    BY <1>2, Consistent, PTL

\* In all the ports groups leave once and in the order of the line: a departing call hands
\* over exactly the groups that it takes out, oldest first, and no other call loses one.
THEOREM LeaveOnceInOrder == Spec => OutOnceInOrder
  <1> DEFINE Out == /\ \A i, j \in DOMAIN order' : i < j => order'[i] < order'[j]
                    /\ Waiting' \cap Handles \subseteq Waiting
                    /\ IF result' # result /\ result'.call \in Departing
                       THEN result'.groups \in InLine(Waiting \ Waiting')
                       ELSE Waiting \subseteq Waiting'
  <1>1. ASSUME IInv, LineMoves, IInv' PROVE Out
    <2>1. \A i, j \in DOMAIN order' : i < j => order'[i] < order'[j]
      BY <1>1 DEF IInv, Arrival
    <2>2. CASE LeavesAlone /\ (HandsNothing(result') \/ result' = result)
      <3>1. Waiting' = Waiting /\ Waiting \ Waiting' = {}
        BY <2>2 DEF LeavesAlone
      <3>2. ASSUME result' # result, result'.call \in Departing
            PROVE  result'.groups \in InLine({})
        BY <1>1, <2>2, <3>2, InLineOf DEF HandsNothing
      <3> QED
        BY <2>1, <3>1, <3>2
    <2>3. CASE Waiting' = Waiting \cup {Len(group) + 1} /\ result'.call \notin Departing
      <3>1. Len(group) + 1 \notin Handles
        BY <1>1, GroupsAre DEF IInv
      <3> QED
        BY <2>1, <2>3, <3>1
    <2>4. ASSUME NEW hs, HandsOut(hs) PROVE Out
      <3>1. hs \subseteq Waiting /\ Waiting' = Waiting \ hs /\ Waiting \ Waiting' = hs
        BY <2>4 DEF HandsOut, Lets
      <3>2. PICK value : \E call \in Departing, list \in InLine(hs) :
                            result' = Returns(call, value, list)
        BY <2>4 DEF HandsOut
      <3>3. PICK call \in Departing, list \in InLine(hs) :
              result' = Returns(call, value, list)
        BY <3>2
      <3>4. result'.groups = list /\ result'.call \in Departing
        BY <3>3 DEF Returns
      <3>5. ASSUME result' = result PROVE Waiting \subseteq Waiting'
        <4>1. Range(list) = hs
          BY <1>1, <3>1, <3>3, InLineIs DEF IInv
        <4>2. hs \subseteq Handles \ Waiting
          BY <1>1, <3>4, <3>5, <4>1 DEF IInv, Handed
        <4> QED
          BY <3>1, <4>2
      <3> QED
        BY <2>1, <3>1, <3>3, <3>4, <3>5
    <2> QED
      BY <1>1, <2>2, <2>3, <2>4 DEF LineMoves
  <1>2. IInv /\ [Next]_vars => [Out]_vars
    BY <1>1, NextKeeps
  <1> QED
    BY <1>2, Consistent, PTL DEF Spec, OutOnceInOrder
-----------------------------------------------------------------------------
\* What a port that copies lists shows of its groups, the discipline says of their flags.

LEMMA RosterIs ==
  ASSUME Shape
  PROVE  /\ Promised!Handles = Handles /\ Len(Roster) = Len(group)
         /\ \A h \in Handles : /\ Roster[h].group_id = group[h].group_id
                               /\ Roster[h].members = group[h].entered
                               /\ Roster[h].ready = group[h].ready
  <1>1. Handles = 1..Len(group) /\ Len(group) \in Nat /\ DOMAIN Roster = Handles
    BY GroupsAre DEF Roster
  <1>2. Len(Roster) = Len(group)
    BY <1>1
  <1> QED
    BY <1>1, <1>2 DEF Roster, Promised!Handles

\* The length of a copied list is the number of its members.
LEMMA LengthCounts ==
  ASSUME IInv, port.copies, NEW h \in Handles
  PROVE  Len(group[h].list) = Cardinality(group[h].entered) /\ IsFiniteSet(group[h].entered)
  <1>1. /\ group[h].list \in MemberLists /\ WellFormed(group[h].list)
        /\ group[h].entered = Range(group[h].list)
    BY GroupsAre DEF IInv, Copied, GroupRecord
  <1> QED
    BY <1>1, SameLists, Order!WellFormedLength

LEMMA FullIs ==
  IInv /\ port.copies => \A h \in Handles : IsReady(h) <=> Promised!Full(h)
  <1> SUFFICES ASSUME IInv, port.copies, NEW h \in Handles
               PROVE  IsReady(h) <=> Promised!Full(h)
    OBVIOUS
  <1>1. /\ group[h].ready_count = Cardinality(group[h].ready)
        /\ group[h].ready \in SUBSET group[h].entered
    BY DEF IInv, CounterMatchesFlags
  <1>2. Len(group[h].list) = Cardinality(group[h].entered) /\ IsFiniteSet(group[h].entered)
    BY LengthCounts
  <1>3. group[h].ready = group[h].entered
          <=> Cardinality(group[h].ready) = Cardinality(group[h].entered)
    BY <1>1, <1>2, FS_Subset
  <1>4. Promised!Full(h) <=> group[h].ready = group[h].entered
    BY RosterIs DEF IInv, Promised!Full
  <1> QED
    BY <1>1, <1>2, <1>3, <1>4 DEF IsReady

LEMMA LookupsAre ==
  ASSUME IInv, port.copies
  PROVE  /\ \A id : Promised!Named(id) = Find(id)
         /\ \A m : Promised!Holding(m) = GroupOf(m)
         /\ \A m : Promised!Holding(m) = {} <=> m \notin DOMAIN member_index
  <1>1. Waiting \subseteq Handles
    BY GroupsAre DEF IInv
  <1>2. \A h \in Waiting : /\ Roster[h].group_id = group[h].group_id
                           /\ Roster[h].members = group[h].entered
    BY <1>1, RosterIs DEF IInv
  <1>3. \A id : Promised!Named(id) = Find(id)
    BY <1>2, Found DEF Promised!Named
  <1>4. \A m : Promised!Holding(m) = {h \in Waiting : m \in group[h].entered}
    BY <1>2 DEF Promised!Holding
  <1>5. \A m : Promised!Holding(m) = GroupOf(m)
    BY <1>4, FoundFor
  <1>6. \A m : Promised!Holding(m) = {} <=> m \notin DOMAIN member_index
    BY <1>4 DEF IInv, ByMember
  <1> QED
    BY <1>3, <1>5, <1>6

\* The scans find what may leave.
LEMMA ScansAgree ==
  ASSUME IInv, port.copies
  PROVE  AllOut = Promised!Departable /\ NextOut = Promised!NextOut
  <1>1. /\ \A i \in DOMAIN order : order[i] \in Waiting /\ i \in Int
        /\ DOMAIN order = 1..Len(order) /\ Len(order) \in Nat
        /\ Waiting \subseteq Handles /\ \A h \in Waiting : h \in Int
        /\ \A h \in Waiting : IsReady(h) <=> Promised!Full(h)
    BY GroupsAre, FullIs DEF IInv
  <1>2. \A h \in Waiting : Place[h] \in DOMAIN order /\ order[Place[h]] = h
    BY LineIs DEF IInv
  <1>3. \A i, j \in DOMAIN order : i < j <=> order[i] < order[j]
    <2>1. \A i, j \in DOMAIN order : i < j => order[i] < order[j]
      BY DEF IInv, Arrival
    <2>2. ASSUME NEW i \in DOMAIN order, NEW j \in DOMAIN order, ~ (i < j)
          PROVE  ~ (order[i] < order[j])
      <3>1. i \in Int /\ j \in Int /\ order[i] \in Int /\ order[j] \in Int
        BY <1>1
      <3>2. i = j \/ j < i
        BY <2>2, <3>1
      <3>3. i = j \/ order[j] < order[i]
        BY <2>1, <3>2
      <3> QED
        BY <3>1, <3>3
    <2> QED
      BY <2>1, <2>2
  \* The groups before a place in line are the older ones.
  <1>4. ASSUME NEW i \in DOMAIN order
        PROVE  /\ 1..(i - 1) \subseteq DOMAIN order
               /\ \A k \in 1..(i - 1) : order[k] < order[i]
               /\ \A g \in Waiting : g < order[i] => Place[g] \in 1..(i - 1)
    <2>1. i \in 1..Len(order)
      BY <1>1
    <2>2. \A k \in 1..(i - 1) : k \in DOMAIN order /\ k < i
      BY <1>1, <2>1
    <2>3. \A g \in Waiting : g < order[i] => Place[g] < i
      BY <1>2, <1>3
    <2>4. \A k \in DOMAIN order : k < i => k \in 1..(i - 1)
      BY <1>1, <2>1
    <2> QED
      BY <1>2, <1>3, <2>2, <2>3, <2>4
  <1>5. ASSUME NEW i \in DOMAIN order
        PROVE  order[i] \in AllOut <=> order[i] \in Promised!Departable
    <2>1. order[i] \in AllOut
            <=> IsReady(order[i]) /\ (StrictOrder => \A k \in 1..i : IsReady(order[k]))
      BY LineIs DEF IInv, AllOut
    <2>2. order[i] \in Promised!Departable
            <=> IsReady(order[i])
                /\ (StrictOrder => \A g \in Waiting : g < order[i] => IsReady(g))
      BY <1>1 DEF Promised!Departable
    <2>3. ASSUME IsReady(order[i])
          PROVE  (\A k \in 1..i : IsReady(order[k]))
                   <=> \A g \in Waiting : g < order[i] => IsReady(g)
      <3>1. ASSUME \A k \in 1..i : IsReady(order[k]), NEW g \in Waiting, g < order[i]
            PROVE  IsReady(g)
        <4>1. Place[g] \in 1..i /\ order[Place[g]] = g
          BY <1>1, <1>2, <1>4, <3>1
        <4> QED
          BY <3>1, <4>1
      <3>2. ASSUME \A g \in Waiting : g < order[i] => IsReady(g), NEW k \in 1..i
            PROVE  IsReady(order[k])
        <4>1. k = i \/ k \in 1..(i - 1)
          BY <1>1
        <4>2. k \in 1..(i - 1) => order[k] \in Waiting /\ order[k] < order[i]
          BY <1>1, <1>4
        <4> QED
          BY <2>3, <3>2, <4>1, <4>2
      <3> QED
        BY <3>1, <3>2
    <2> QED
      BY <2>1, <2>2, <2>3
  <1>6. /\ AllOut \subseteq Waiting /\ Promised!Departable \subseteq Waiting
        /\ \A h \in Waiting : \E i \in DOMAIN order : h = order[i]
    BY <1>2, ReadyWait DEF Promised!Departable
  <1>7. AllOut = Promised!Departable
    <2>1. \A h \in Waiting : h \in AllOut <=> h \in Promised!Departable
      BY <1>5, <1>6
    <2> QED
      BY <1>6, <2>1
  <1>8. ASSUME NEW h \in NextOut PROVE h \in Promised!NextOut
    <2>1. PICK i \in DOMAIN order :
            /\ h = order[i] /\ IsReady(order[i])
            /\ \A k \in 1..(i - 1) : ~ IsReady(order[k])
            /\ StrictOrder => i = 1
      BY <1>8 DEF NextOut
    <2>2. \A g \in Waiting : g < h => ~ IsReady(g)
      BY <1>2, <1>4, <2>1
    <2>3. StrictOrder => \A g \in Waiting : ~ (g < h)
      <3>1. StrictOrder => 1..(i - 1) = {}
        BY <2>1
      <3> QED
        BY <1>4, <2>1, <3>1
    <2>4. h \in Promised!Departable
      BY <1>1, <2>1, <2>3 DEF Promised!Departable
    <2>5. \A g \in Promised!Departable : h <= g
      BY <1>1, <2>1, <2>2 DEF Promised!Departable
    <2> QED
      BY <2>4, <2>5 DEF Promised!NextOut
  <1>9. ASSUME NEW h \in Promised!NextOut PROVE h \in NextOut
    <2>1. /\ h \in Waiting /\ IsReady(h)
          /\ StrictOrder => \A g \in Waiting : g < h => IsReady(g)
          /\ \A g \in Promised!Departable : h <= g
      BY <1>1, <1>9 DEF Promised!NextOut, Promised!Departable
    <2>2. PICK i \in DOMAIN order : h = order[i]
      BY <1>6, <2>1
    <2>3. ASSUME NEW k \in 1..(i - 1), IsReady(order[k]) PROVE FALSE
      <3>1. k \in DOMAIN order /\ order[k] \in Waiting /\ order[k] < h
        BY <1>1, <1>4, <2>2
      <3>2. order[k] \in Promised!Departable
        <4>1. StrictOrder => \A g \in Waiting : g < order[k] => IsReady(g)
          BY <1>1, <2>1, <3>1
        <4> QED
          BY <1>1, <2>3, <3>1, <4>1 DEF Promised!Departable
      <3> QED
        BY <1>1, <2>1, <3>1, <3>2
    <2>4. ASSUME StrictOrder PROVE i = 1
      <3>1. ASSUME 1 < i PROVE FALSE
        <4>1. 1 \in 1..(i - 1)
          BY <1>1, <3>1
        <4>2. order[1] \in Waiting /\ order[1] < h
          BY <1>1, <1>4, <2>2, <4>1
        <4> QED
          BY <2>1, <2>3, <2>4, <4>1, <4>2
      <3> QED
        BY <1>1, <3>1
    <2> QED
      BY <2>1, <2>2, <2>3, <2>4 DEF NextOut
  <1> QED
    BY <1>7, <1>8, <1>9
-----------------------------------------------------------------------------
\* Each step of a port that copies lists is the discipline's step of the same name.

LEMMA AdmissibleAgrees ==
  ASSUME IInv, port.copies, NEW id, NEW list
  PROVE  Admissible(id, list) <=> Promised!Admissible(id, list)
  <1>1. Find(id) = {} <=> Promised!Named(id) = {}
    BY LookupsAre
  <1>2. \A m : m \notin DOMAIN member_index <=> Promised!Holding(m) = {}
    BY LookupsAre
  <1>3. Range(list) \cap DOMAIN member_index = {}
          <=> \A i \in DOMAIN list : list[i] \notin DOMAIN member_index
    BY DEF Range
  <1>4. WellFormed(list) <=> Promised!WellFormed(list)
    BY DEF WellFormed, Promised!WellFormed, IsInjective, Promised!IsInjective
  <1> QED
    BY <1>1, <1>2, <1>3, <1>4 DEF Admissible, Promised!Admissible

\* A new group is appended to the roster.
LEMMA RosterGrows ==
  ASSUME IInv, NEW id \in GroupIds, NEW list \in MemberLists, Admit(id, list)
  PROVE  Roster' = Append(Roster, [group_id |-> id, members |-> Range(list), ready |-> {}])
  <1> DEFINE new == Len(group) + 1
             entry == [group_id |-> id, members |-> Range(list), ready |-> {}]
  <1>1. /\ Handles' = 1..new /\ \A h \in Handles : group'[h] = group[h]
        /\ group'[new].group_id = id /\ group'[new].entered = Range(list)
        /\ group'[new].ready = {}
    <2>1. /\ Handles' = 1..new /\ \A h \in Handles : group'[h] = group[h]
          /\ group'[new] = [group_id |-> id, list |-> list, entered |-> Range(list),
                            ready |-> {}, ready_count |-> 0]
      BY AdmitIs
    <2> HIDE DEF new
    <2> QED
      BY <2>1
  <1>2. Handles = 1..Len(group) /\ Len(group) \in Nat /\ Len(Roster) = Len(group)
    BY GroupsAre, RosterIs DEF IInv
  <1>3. \A h \in 1..new : Roster'[h] = IF h = new THEN entry ELSE Roster[h]
    <2>1. ASSUME NEW h \in 1..new, h # new PROVE Roster'[h] = Roster[h]
      <3>1. h \in Handles
        BY <1>2, <2>1
      <3> QED
        BY <1>1, <3>1 DEF Roster
    <2>2. Roster'[new] = entry
      <3>1. new \in Handles'
        BY <1>1, <1>2
      <3>2. Roster'[new] = [group_id |-> group'[new].group_id,
                            members |-> group'[new].entered, ready |-> group'[new].ready]
        BY <3>1, Zenon DEF Roster
      <3> QED
        BY <1>1, <3>2
    <2> QED
      BY <2>1, <2>2
  <1>4. DOMAIN Roster = 1..Len(group) /\ DOMAIN Roster' = 1..new
    BY <1>1, <1>2 DEF Roster
  <1>5. Roster = [h \in 1..Len(group) |-> Roster[h]] /\ Roster' = [h \in 1..new |-> Roster'[h]]
    BY <1>1, <1>2 DEF Roster
  <1> HIDE DEF entry, Roster
  <1> DEFINE S == {Roster[h] : h \in 1..Len(group)} \cup {entry}
  <1>6. Roster \in Seq(S) /\ entry \in S /\ Roster' \in Seq(S) /\ Len(Roster') = new
    <2>1. Roster \in [1..Len(group) -> S] /\ entry \in S
      BY <1>4, <1>5
    <2>2. Roster' \in [1..new -> S]
      <3>1. \A h \in 1..new : h # new => h \in 1..Len(group)
        BY <1>2
      <3>2. \A h \in 1..new : Roster'[h] \in S
        BY <1>3, <3>1
      <3> HIDE DEF S, new
      <3> QED
        BY <1>5, <3>2
    <2> HIDE DEF S
    <2> QED
      BY <1>2, <1>4, <2>1, <2>2
  <1> HIDE DEF S
  <1>7. Roster' = Append(Roster, entry)
    BY <1>2, <1>3, <1>6, AppendProperties, SeqEqual
  <1> QED
    BY <1>7 DEF entry

LEMMA AdmitMaps ==
  ASSUME IInv, port.copies, NEW id \in GroupIds, NEW list \in MemberLists, Admit(id, list)
  PROVE  Promised!Admit(id, list)
  <1>1. Len(Roster) = Len(group)
    BY RosterIs DEF IInv
  <1>2. Roster' = Append(Roster, [group_id |-> id, members |-> Promised!Range(list),
                                  ready |-> {}])
    BY RosterGrows DEF Range, Promised!Range
  <1>3. /\ Waiting' = Waiting \cup {Len(Roster) + 1}
        /\ result' = Promised!Returns("admit", "Group", <<Len(Roster) + 1>>)
    BY <1>1, AdmitIs DEF Returns, Promised!Returns
  <1>4. Len(Roster) < MaxAdmissions /\ Promised!Admissible(id, list)
    BY <1>1, AdmissibleAgrees DEF Admit
  <1> QED
    BY <1>2, <1>3, <1>4 DEF Promised!Admit

LEMMA RefuseMaps ==
  ASSUME NEW call, Refuse(call)
  PROVE  Promised!Refuse(call)
  <1>1. UNCHANGED <<group, order>> /\ result' = Raises(call)
    BY DEF Refuse, queue
  <1>2. Roster' = Roster /\ Waiting' = Waiting
    BY <1>1 DEF Roster, Waiting, Handles
  <1> QED
    BY <1>1, <1>2 DEF Promised!Refuse, Raises, Promised!Raises, Returns, Promised!Returns

LEMMA MarkMaps ==
  ASSUME IInv, NEW h \in Handles, NEW ms \in SUBSET group[h].entered, Mark(h, ms)
  PROVE  Promised!Mark(h, ms)
  <1>1. /\ Handles' = Handles
        /\ \A g \in Handles :
             /\ group'[g].group_id = group[g].group_id
             /\ group'[g].entered = group[g].entered
             /\ group'[g].ready = IF g = h THEN group[g].ready \cup ms ELSE group[g].ready
    BY MarkIs
  <1>2. Waiting' = Waiting
    BY DEF Mark, queue, Waiting
  <1>3. \A g \in Handles :
          Roster'[g] = IF g = h THEN [Roster[h] EXCEPT !.ready = Roster[h].ready \cup ms]
                       ELSE Roster[g]
    BY <1>1 DEF Roster
  <1>4. DOMAIN Roster = Handles /\ DOMAIN Roster' = Handles
    BY <1>1 DEF Roster
  <1>5. Roster' = [g \in Handles |-> Roster'[g]] /\ Roster = [g \in Handles |-> Roster[g]]
    BY <1>1 DEF Roster
  <1> HIDE DEF Roster
  <1>6. Roster' = [Roster EXCEPT ![h].ready = @ \cup ms]
    BY <1>3, <1>4, <1>5
  <1> QED
    BY <1>2, <1>6 DEF Promised!Mark

\* FullIs, after a step.
LEMMA FullIsThen ==
  (IInv /\ port.copies => \A h \in Handles : IsReady(h) <=> Promised!Full(h))'
  BY FullIs, PTL

LEMMA GroupMarkReadyMaps ==
  ASSUME IInv, port.copies, NEW h \in Handles, NEW m \in Members, GroupMarkReady(h, m)
  PROVE  \/ Promised!MarkReady(h, m)
         \/ m \notin Roster[h].members /\ Promised!Refuse("mark_ready")
  <1>1. Roster[h].members = group[h].entered
    BY RosterIs DEF IInv
  <1>2. CASE m \notin group[h].entered
    BY <1>1, <1>2, RefuseMaps DEF GroupMarkReady
  <1>3. CASE m \in group[h].entered
    <2>1. Mark(h, {m}) /\ result' = Returns("mark_ready", Answer(IsReady(h)'), <<>>)
      BY <1>3 DEF GroupMarkReady
    <2>2. IInv' /\ port' = port /\ Handles' = Handles
      BY <2>1, GroupMarkReadyKeeps DEF Mark
    <2>3. IsReady(h)' <=> Promised!Full(h)'
      BY <2>2, FullIsThen
    <2>4. Answer(IsReady(h)') = Promised!Answer(Promised!Full(h)')
      BY <2>3 DEF Answer, Promised!Answer
    <2>5. Promised!Mark(h, {m})
      BY <1>3, <2>1, MarkMaps
    <2> QED
      BY <1>1, <1>3, <2>1, <2>4, <2>5 DEF Promised!MarkReady, Returns, Promised!Returns
  <1> QED
    BY <1>2, <1>3

\* The loop over a copied list marks everybody who entered with the group.
LEMMA MarkGroupReadyMaps ==
  ASSUME IInv, port.copies, NEW h \in Waiting, MarkGroupReady(h)
  PROVE  Promised!MarkGroupReady(h)
  <1>1. h \in Handles /\ Roster[h].members = group[h].entered
    BY GroupsAre, RosterIs DEF IInv
  <1>2. group[h].entered = Range(group[h].list)
    BY <1>1 DEF IInv, Copied
  <1>3. Known(group[h]) = DOMAIN group[h].list
    <2>1. group[h].list \in MemberLists
      BY <1>1, GroupsAre DEF IInv, GroupRecord
    <2>2. PICK n \in Nat : DOMAIN group[h].list = 1..n
      BY <2>1, BoundsAssumption DEF MemberLists
    <2>3. \A i \in 1..n : \A j \in 1..i : j \in 1..n
      BY <2>2
    <2> QED
      BY <1>2, <2>2, <2>3 DEF Known, Range
  <1>4. {group[h].list[i] : i \in Known(group[h])} = group[h].entered
    BY <1>2, <1>3 DEF Range
  <1>5. /\ Mark(h, group[h].entered)
        /\ result' = Promised!Returns("mark_group_ready", "True", <<>>)
    BY <1>3, <1>4 DEF MarkGroupReady, Returns, Promised!Returns
  <1>6. Promised!Mark(h, group[h].entered)
    BY <1>1, <1>5, MarkMaps
  <1> QED
    BY <1>1, <1>5, <1>6 DEF Promised!MarkGroupReady

LEMMA LeaveMaps ==
  ASSUME group' = group, NEW hs, Waiting' = Waiting \ hs
  PROVE  Promised!Leave(hs)
  BY DEF Promised!Leave, Roster, Handles

\* The two specifications mean the same lists.
LEMMA ListsAgree ==
  ASSUME IInv, NEW hs \in SUBSET Waiting, NEW list \in InLine(hs)
  PROVE  list \in Promised!InHandleOrder(hs)
  <1>1. Cardinality(hs) = Promised!Cardinality(hs)
    BY DEF Cardinality, Promised!Cardinality
  <1>2. \A key : Sorted(hs, key) = Promised!Sorted(hs, key)
    BY <1>1 DEF Sorted, Promised!Sorted
  <1>3. list \in InHandleOrder(hs)
    BY InLineIs DEF IInv
  <1> QED
    BY <1>2, <1>3 DEF InHandleOrder, Promised!InHandleOrder

LEMMA DepartureMaps ==
  ASSUME IInv, port.copies
  PROVE  /\ Peek => Promised!Peek
         /\ Release => Promised!Release
         /\ ReleaseNone => Promised!ReleaseNone
         /\ ReleaseAll => Promised!ReleaseAll
         /\ Clear => Promised!Clear
         /\ \A id \in GroupIds : \A h \in Find(id) : Cancel(h) => Promised!Cancel(id)
  <1> USE DEF Returns, Promised!Returns
  <1>1. /\ AllOut = Promised!Departable /\ NextOut = Promised!NextOut
        /\ AllOut \subseteq Waiting /\ NextOut \subseteq Waiting
    BY ScansAgree, ReadyWait
  <1>2. ASSUME Peek PROVE Promised!Peek
    <2>1. Roster' = Roster /\ Waiting' = Waiting
      BY <1>2 DEF Peek, queue, Roster, Waiting, Handles
    <2> QED
      BY <1>1, <1>2, <2>1 DEF Peek, Promised!Peek
  <1>3. ASSUME Release PROVE Promised!Release
    <2>1. PICK h \in NextOut : Remove({h}) /\ result' = Returns("release", "Group", <<h>>)
      BY <1>3 DEF Release
    <2>2. Waiting' = Waiting \ {h} /\ group' = group
      BY <1>1, <2>1, OneLeaves DEF Remove
    <2> QED
      BY <1>1, <2>1, <2>2, LeaveMaps DEF Promised!Release
  <1>4. ASSUME ReleaseNone PROVE Promised!ReleaseNone
    <2>1. Roster' = Roster /\ Waiting' = Waiting
      BY <1>4 DEF ReleaseNone, queue, Roster, Waiting, Handles
    <2> QED
      BY <1>1, <1>4, <2>1 DEF ReleaseNone, Promised!ReleaseNone, Promised!Leave
  <1>5. ASSUME ReleaseAll PROVE Promised!ReleaseAll
    <2>1. PICK list \in InLine(AllOut) : result' = Returns("release_all", "List", list)
      BY <1>5 DEF ReleaseAll
    <2>2. Waiting' = Waiting \ AllOut /\ group' = group
      BY <1>5, ReleaseAllKeeps DEF ReleaseAll, Remove
    <2>3. list \in Promised!InHandleOrder(AllOut)
      BY <1>1, <2>1, ListsAgree
    <2>4. Promised!Leave(AllOut)
      BY <2>2, LeaveMaps
    <2> QED
      BY <1>1, <2>1, <2>3, <2>4 DEF Promised!ReleaseAll
  <1>6. ASSUME Clear PROVE Promised!Clear
    <2>1. /\ Waiting' = Waiting \ Waiting /\ group' = group
          /\ result' = Returns("clear", "List", order)
      BY <1>6, ClearKeeps DEF Clear
    <2>2. order \in Promised!InHandleOrder(Waiting)
      BY InLineOf, ListsAgree
    <2>3. Promised!Leave(Waiting)
      BY <2>1, LeaveMaps
    <2> QED
      BY <2>1, <2>2, <2>3 DEF Promised!Clear
  <1>7. ASSUME NEW id \in GroupIds, NEW h \in Find(id), Cancel(h) PROVE Promised!Cancel(id)
    <2>1. h \in Promised!Named(id) /\ h \in Waiting
      BY LookupsAre, Found
    <2>2. Remove({h}) /\ result' = Returns("cancel", "Group", <<h>>)
      BY <1>7 DEF Cancel
    <2>3. Waiting' = Waiting \ {h} /\ group' = group
      BY <2>1, <2>2, OneLeaves DEF Remove
    <2> QED
      BY <2>1, <2>2, <2>3, LeaveMaps DEF Promised!Cancel
  <1> QED
    BY <1>2, <1>3, <1>4, <1>5, <1>6, <1>7
-----------------------------------------------------------------------------
\* The refinement.

LEMMA InitMaps == Init => Promised!Init
  BY DEF Init, Promised!Init, Roster, Waiting, Handles, Range, Returns, Promised!Returns

LEMMA NextMaps ==
  IInv /\ [Next]_vars => [port.copies => Promised!Next]_(Promised!vars)
  <1> SUFFICES ASSUME IInv, port.copies, [Next]_vars PROVE [Promised!Next]_(Promised!vars)
    OBVIOUS
  <1>0. Promised!Handles = Handles /\ Waiting \subseteq Handles
    BY RosterIs, GroupsAre DEF IInv
  <1>1. ASSUME NEW id \in GroupIds, NEW list \in MemberLists,
               Admit(id, list) \/ AdmitRefused(id, list)
        PROVE  Promised!Next
    <2>1. list \in Promised!MemberLists
      BY DEF MemberLists, Promised!MemberLists
    <2>2. \/ Promised!Admit(id, list)
          \/ ~ Promised!Admissible(id, list) /\ Promised!Refuse("admit")
      BY <1>1, AdmitMaps, AdmissibleAgrees, RefuseMaps DEF AdmitRefused
    <2> QED
      BY <2>1, <2>2 DEF Promised!Next
  <1>2. ASSUME NEW h \in Handles, NEW m \in Members, GroupMarkReady(h, m)
        PROVE  Promised!Next
    BY <1>0, <1>2, GroupMarkReadyMaps DEF Promised!Next
  <1>3. ASSUME NEW m \in Members, MarkReady(m) PROVE Promised!Next
    <2>1. CASE GroupOf(m) = {}
      <3>1. Promised!Holding(m) = {} /\ Promised!Refuse("mark_ready")
        BY <1>3, <2>1, LookupsAre, RefuseMaps DEF MarkReady
      <3> QED
        BY <3>1 DEF Promised!Next
    <2>2. CASE GroupOf(m) # {}
      <3>1. PICK h \in GroupOf(m) : GroupMarkReady(h, m)
        BY <1>3, <2>2 DEF MarkReady
      <3> QED
        BY <1>0, <1>2, <3>1, FoundFor
    <2> QED
      BY <2>1, <2>2
  <1>4. ASSUME NEW id \in GroupIds, NEW h \in Find(id), MarkGroupReady(h) \/ Cancel(h)
        PROVE  Promised!Next
    <2>1. h \in Waiting
      BY Found
    <2>2. Promised!MarkGroupReady(h) \/ Promised!Cancel(id)
      BY <1>4, <2>1, MarkGroupReadyMaps, DepartureMaps
    <2> QED
      BY <2>1, <2>2 DEF Promised!Next
  <1>5. ASSUME NEW id \in GroupIds, Find(id) = {},
               Refuse("mark_group_ready") \/ Refuse("cancel")
        PROVE  Promised!Next
    <2>1. /\ Promised!Named(id) = {}
          /\ Promised!Refuse("mark_group_ready") \/ Promised!Refuse("cancel")
      BY <1>5, LookupsAre, RefuseMaps
    <2> QED
      BY <2>1 DEF Promised!Next
  <1>6. CASE Peek \/ Release \/ ReleaseNone \/ ReleaseAll \/ Clear
    BY <1>6, DepartureMaps DEF Promised!Next
  \* The discipline sees nothing of a caller that edits its list.
  <1>7. ASSUME NEW h \in Handles, NEW list \in MemberLists, EditList(h, list)
        PROVE  UNCHANGED Promised!vars
    <2>1. UNCHANGED <<group, order, result>>
      BY <1>7 DEF EditList, queue
    <2> QED
      BY <2>1 DEF Promised!vars, Roster, Waiting, Handles
  <1>8. CASE UNCHANGED vars
    BY <1>8 DEF vars, queue, Promised!vars, Roster, Waiting, Handles
  <1> QED
    BY <1>1, <1>2, <1>3, <1>4, <1>5, <1>6, <1>7, <1>8 DEF Next

\* A port that copies lists, with its lookups, counters and scans, is an implementation
\* of the discipline: it answers every call as a look at the flags of the waiting groups
\* would, for every number of groups, members and calls.
THEOREM Refinement == Spec => ImplementsDiscipline
  <1>1. Init => (port.copies => Promised!Init)
    BY InitMaps
  <1> QED
    BY <1>1, NextMaps, Consistent, PTL DEF Spec, ImplementsDiscipline

\* What the port that shares its callers' lists breaks (EnteredLeaveReady), the ports that
\* copy them keep: whoever entered with a released group is marked when it leaves.
CopiersLetOutReady ==
  [][ port.copies /\ result'.call \in {"release", "release_all"} =>
        \A h \in Waiting \ Waiting' : group[h].ready = group[h].entered ]_vars

THEOREM CopiedLeaveReady == Spec => CopiersLetOutReady
  <1> DEFINE Marked == port.copies /\ result'.call \in {"release", "release_all"} =>
                         \A h \in Waiting \ Waiting' : group[h].ready = group[h].entered
  <1>1. ASSUME IInv, port.copies, [Next]_vars, result'.call \in {"release", "release_all"},
               NEW h \in Waiting \ Waiting'
        PROVE  group[h].ready = group[h].entered
    <2>1. Promised!Next
      BY <1>1, NextMaps DEF Promised!vars
    <2>2. h \in Promised!Departable
      <3>1. Promised!Release \/ Promised!ReleaseAll
        <4>1. \A call : Promised!Refuse(call) => Waiting' = Waiting
          BY DEF Promised!Refuse
        <4>2. \A g, ms : Promised!Mark(g, ms) => Waiting' = Waiting
          BY DEF Promised!Mark
        <4>3. \A id, list : Promised!Admit(id, list) => Waiting \subseteq Waiting'
          BY DEF Promised!Admit
        <4>4. (Promised!Peek \/ Promised!ReleaseNone) => Waiting' = Waiting
          BY DEF Promised!Peek, Promised!ReleaseNone, Promised!Leave
        <4>5. /\ \A id : Promised!Cancel(id) => result'.call = "cancel"
              /\ Promised!Clear => result'.call = "clear"
              /\ Promised!DropQueue => result'.call = "drop"
          <5>1. \A call, value, gs : Promised!Returns(call, value, gs).call = call
            BY DEF Promised!Returns
          <5>2. \A id : Promised!Cancel(id) => result'.call = "cancel"
            BY <5>1 DEF Promised!Cancel
          <5>3. Promised!Clear => result'.call = "clear"
            BY <5>1 DEF Promised!Clear
          <5>4. Promised!DropQueue => result'.call = "drop"
            BY <5>1 DEF Promised!DropQueue
          <5> QED
            BY <5>2, <5>3, <5>4
        <4> QED
          BY <1>1, <2>1, <4>1, <4>2, <4>3, <4>4, <4>5
             DEF Promised!Next, Promised!MarkReady, Promised!MarkGroupReady
      <3> QED
        BY <1>1, <3>1 DEF Promised!Release, Promised!ReleaseAll, Promised!Leave,
                          Promised!NextOut
    <2>3. h \in Handles /\ Promised!Full(h)
      BY <1>1, <2>2, GroupsAre DEF IInv, Promised!Departable
    <2> QED
      BY <1>1, <2>3, RosterIs DEF IInv, Promised!Full
  <1>2. IInv /\ [Next]_vars => [Marked]_vars
    BY <1>1
  <1> QED
    BY <1>2, Consistent, PTL DEF Spec, CopiersLetOutReady
=============================================================================
