----------------------------- MODULE TitoProofs -----------------------------
(***************************************************************************)
(* Proofs about Tito.tla, for every set of ids and members, both policies, *)
(* every slack and every bound: first its inductive invariant, then that   *)
(* TitoQueue, with its indexes, counters, heap and callbacks, answers      *)
(* every call as Discipline.tla says, and so has every property that       *)
(* DisciplineProofs.tla shows of the discipline.                           *)
(***************************************************************************)
EXTENDS Tito, FiniteSetTheorems, SequenceTheorems, TLAPS

\* What the type invariant says of one group.
LEMMA GroupType ==
  ASSUME TypeOK
  PROVE  /\ Len(group) \in Nat
         /\ Handles = 1..Len(group)
         /\ group \in [Handles -> GroupRecord]
         /\ \A h \in Handles :
              /\ group[h].group_id \in GroupIds
              /\ group[h].members \in SUBSET Members
              /\ group[h].ready \in SUBSET group[h].members
              /\ group[h].ready_count \in Nat
              /\ group[h].sequence \in Nat
              /\ group[h].on_ready \in BOOLEAN
  <1>1. group \in Seq(GroupRecord)
    BY DEF TypeOK
  <1>2. Len(group) \in Nat /\ Handles = 1..Len(group) /\ group \in [Handles -> GroupRecord]
    BY <1>1 DEF Handles
  <1>3. \A h \in Handles : group[h] \in GroupRecord
    BY <1>2
  <1> QED
    BY <1>2, <1>3 DEF TypeOK, GroupRecord

\* Sets of members are finite.
LEMMA GroupFinite ==
  ASSUME TypeOK, NEW h \in Handles, NEW ms \in SUBSET group[h].members
  PROVE  IsFiniteSet(ms) /\ Cardinality(ms) \in Nat
                         /\ Cardinality(ms) <= Cardinality(group[h].members)
  <1>1. IsFiniteSet(group[h].members)
    BY GroupType, MembersAssumption, FS_Subset
  <1>2. IsFiniteSet(ms) /\ Cardinality(ms) <= Cardinality(group[h].members)
    BY <1>1, FS_Subset
  <1> QED
    BY <1>2, FS_CardinalityType

\* The waiting groups are found under their own ids, and two of them share
\* neither an id nor a member.
LEMMA WaitingFacts ==
  ASSUME TypeOK, IndexesAgree
  PROVE  /\ Waiting \subseteq Handles
         /\ \A h \in Waiting : /\ group[h].group_id \in DOMAIN groups
                               /\ groups[group[h].group_id] = h
         /\ \A g, h \in Waiting :
              group[g].members \cap group[h].members # {} => g = h
  <1>1. Waiting \subseteq Handles
    BY DEF TypeOK, Waiting
  <1>2. \A h \in Waiting : /\ group[h].group_id \in DOMAIN groups
                           /\ groups[group[h].group_id] = h
    BY DEF IndexesAgree, Waiting
  <1>3. \A g, h \in Waiting : group[g].members \cap group[h].members # {} => g = h
    BY <1>2 DEF IndexesAgree
  <1> QED
    BY <1>1, <1>2, <1>3

\* The heap and the ready index are finite.
LEMMA HeapFinite ==
  ASSUME TypeOK, Numbered, HeapCoversReady
  PROVE  /\ IsFiniteSet(ready_heap) /\ Cardinality(ready_heap) \in Nat
         /\ IsFiniteSet(DOMAIN ready_groups)
         /\ Cardinality(DOMAIN ready_groups) \in Nat
  <1>0. 0 \in Int /\ next_sequence - 1 \in Int
    BY DEF TypeOK
  <1>1. IsFiniteSet(0..(next_sequence - 1))
    BY <1>0, FS_Interval
  <1>2. IsFiniteSet(ready_heap)
    BY <1>1, FS_Subset DEF Numbered
  <1>3. IsFiniteSet(DOMAIN ready_groups)
    BY <1>2, FS_Subset DEF HeapCoversReady
  <1> QED
    BY <1>2, <1>3, FS_CardinalityType
-----------------------------------------------------------------------------
\* Marking.

\* MarkMembers completes a group exactly when it sets the last of its flags.
LEMMA CompletesLastFlag ==
  ASSUME TypeOK, CounterMatchesFlags,
         NEW h \in Handles, NEW ms \in SUBSET group[h].members
  PROVE  /\ Cardinality(group[h].ready \cup ms)
              = group[h].ready_count + Cardinality(ms \ group[h].ready)
         /\ Completes(h, ms) <=> /\ group[h].ready # group[h].members
                                 /\ group[h].ready \cup ms = group[h].members
  <1> DEFINE all == group[h].members
             old == group[h].ready
             fresh == ms \ old
  <1>1. old \in SUBSET all /\ fresh \in SUBSET all /\ old \cup fresh \in SUBSET all
    BY GroupType
  <1>2. /\ IsFiniteSet(all) /\ Cardinality(all) \in Nat
        /\ IsFiniteSet(old) /\ Cardinality(old) \in Nat
        /\ IsFiniteSet(fresh) /\ Cardinality(fresh) \in Nat
        /\ Cardinality(old) <= Cardinality(all)
        /\ Cardinality(old \cup fresh) <= Cardinality(all)
    BY <1>1, GroupFinite
  <1>3. Cardinality(old \cup fresh) = Cardinality(old) + Cardinality(fresh)
    <2>1. Cardinality(old \cup fresh)
            = Cardinality(old) + Cardinality(fresh) - Cardinality(old \cap fresh)
      BY <1>2, FS_Union
    <2>2. old \cap fresh = {}
      OBVIOUS
    <2>3. Cardinality(old \cap fresh) = 0
      BY <2>2, FS_EmptySet, Zenon
    <2> HIDE DEF fresh, old
    <2> QED
      BY <2>1, <2>3, <1>2
  <1>4. old \cup fresh = old \cup ms
    OBVIOUS
  <1>5. Cardinality(old) = group[h].ready_count
    BY DEF CounterMatchesFlags
  <1>6. old = all <=> Cardinality(old) = Cardinality(all)
    BY <1>1, <1>2, FS_Subset
  <1>7. old \cup fresh = all <=> Cardinality(old \cup fresh) = Cardinality(all)
    BY <1>1, <1>2, FS_Subset
  <1>8. Completes(h, ms) <=> /\ Cardinality(old) < Cardinality(all)
                             /\ Cardinality(all) <= Cardinality(old) + Cardinality(fresh)
    BY <1>5 DEF Completes
  <1> HIDE DEF all, old, fresh
  <1>9. Completes(h, ms) <=> old # all /\ old \cup fresh = all
    BY <1>2, <1>3, <1>6, <1>7, <1>8
  <1> QED
    BY <1>3, <1>4, <1>5, <1>9 DEF all, old, fresh

\* MarkMembers changes nothing about a group but its flags and its counter.
LEMMA MarkFrame ==
  ASSUME TypeOK, CounterMatchesFlags,
         NEW h \in Handles, NEW ms \in SUBSET group[h].members, MarkMembers(h, ms)
  PROVE  /\ group' \in Seq(GroupRecord)
         /\ Len(group') = Len(group) /\ Handles' = Handles
         /\ \A g \in Handles :
              /\ group'[g].group_id = group[g].group_id
              /\ group'[g].members = group[g].members
              /\ group'[g].sequence = group[g].sequence
              /\ group'[g].on_ready = group[g].on_ready
              /\ group'[g].ready =
                   IF g = h THEN group[g].ready \cup ms ELSE group[g].ready
              /\ group'[g].ready_count = Cardinality(group'[g].ready)
  <1>1. Handles = 1..Len(group) /\ Len(group) \in Nat /\ group[h] \in GroupRecord
    BY GroupType
  <1>2. group \in Seq(GroupRecord)
    BY DEF TypeOK
  <1>3. Cardinality(ms \ group[h].ready) \in Nat
    BY GroupFinite
  <1> DEFINE marked == Marked(h, ms)
  <1>4. /\ marked.group_id = group[h].group_id
        /\ marked.members = group[h].members
        /\ marked.sequence = group[h].sequence
        /\ marked.on_ready = group[h].on_ready
        /\ marked.ready = group[h].ready \cup ms
        /\ marked.ready_count
             = group[h].ready_count + Cardinality(ms \ group[h].ready)
        /\ marked \in GroupRecord
    <2>1. group[h].ready \cup ms \in SUBSET Members
      BY GroupType
    <2>0. group[h].ready_count \in Nat
      BY GroupType
    <2>2. group[h].ready_count + Cardinality(ms \ group[h].ready) \in Nat
      BY <1>3, <2>0
    <2>3. marked = [group[h] EXCEPT
                      !.ready = group[h].ready \cup ms,
                      !.ready_count = group[h].ready_count + Cardinality(ms \ group[h].ready)]
      BY DEF Marked
    <2> QED
      BY <1>1, <2>1, <2>2, <2>3 DEF GroupRecord
  <1>5. group' = [group EXCEPT ![h] = marked]
    BY DEF MarkMembers
  <1> HIDE DEF marked
  <1>6. group' \in Seq(GroupRecord) /\ Len(group') = Len(group) /\ Handles' = Handles
    <2>1. h \in 1..Len(group)
      BY <1>1
    <2> HIDE DEF Handles
    <2> QED
      BY <2>1, <1>2, <1>4, <1>5 DEF Handles
  <1>7. group'[h] = marked /\ \A g \in Handles : g # h => group'[g] = group[g]
    BY <1>5 DEF Handles
  <1>8. \A g \in Handles : group'[g].ready_count = Cardinality(group'[g].ready)
    BY <1>4, <1>7, CompletesLastFlag DEF CounterMatchesFlags
  <1> QED
    BY <1>4, <1>6, <1>7, <1>8

\* A sequence names its group.
LEMMA SequenceNames ==
  ASSUME TypeOK, Numbered
  PROVE  \A g, h \in Handles : group[g].sequence = group[h].sequence => g = h
  BY GroupType DEF Numbered

\* A group of a relaxed, living queue that reports its readiness is waiting, and
\* its sequence has never been on the heap.
LEMMA NotesAreFresh ==
  ASSUME IInv, NEW h \in Handles, alive, group[h].on_ready,
         group[h].ready # group[h].members
  PROVE  /\ h \in Waiting /\ ~ StrictOrder
         /\ group[h].sequence \notin DOMAIN ready_groups
         /\ group[h].sequence \notin ready_heap
  <1>1. h \in Waiting
    BY DEF IInv, CallbackWhileWaiting
  <1>2. ~ StrictOrder
    BY <1>1, PolicyAssumption DEF IInv, CallbackWhileWaiting
  <1>3. group[h].sequence \notin DOMAIN ready_groups
    <2>1. SUFFICES ASSUME group[h].sequence \in DOMAIN ready_groups PROVE FALSE
      OBVIOUS
    <2>2. LET g == ready_groups[group[h].sequence]
          IN  /\ g \in Waiting
              /\ group[g].sequence = group[h].sequence
              /\ group[g].ready = group[g].members
      BY <2>1 DEF IInv, ReadyIndexExact
    <2>3. ready_groups[group[h].sequence] = h
      BY <2>2, SequenceNames, WaitingFacts DEF IInv
    <2> QED
      BY <2>2, <2>3
  <1>4. group[h].sequence \notin ready_heap
    BY <1>1, <1>3 DEF IInv, HeapCoversReady
  <1> QED
    BY <1>1, <1>2, <1>3, <1>4

\* Marking any members of any group, waiting or departed, keeps the invariant.
LEMMA MarkPreserves ==
  ASSUME IInv, NEW h \in Handles, NEW ms \in SUBSET group[h].members,
         MarkMembers(h, ms), result'.groups = <<>>
  PROVE  IInv'
  <1> USE DEF IInv
  <1> DEFINE s == group[h].sequence
             notes == Completes(h, ms) /\ group[h].on_ready /\ alive
  <1>1. /\ group' \in Seq(GroupRecord)
        /\ Len(group') = Len(group) /\ Handles' = Handles
        /\ \A g \in Handles :
              /\ group'[g].group_id = group[g].group_id
              /\ group'[g].members = group[g].members
              /\ group'[g].sequence = group[g].sequence
              /\ group'[g].on_ready = group[g].on_ready
              /\ group'[g].ready =
                   IF g = h THEN group[g].ready \cup ms ELSE group[g].ready
              /\ group'[g].ready_count = Cardinality(group'[g].ready)
    BY MarkFrame
  <1>2. Waiting' = Waiting /\ UNCHANGED <<groups, member_index, next_sequence, alive>>
    BY DEF MarkMembers, Waiting
  <1>3. /\ Completes(h, ms) <=> /\ group[h].ready # group[h].members
                                /\ group'[h].ready = group'[h].members
    <2>1. Completes(h, ms) <=> /\ group[h].ready # group[h].members
                               /\ group[h].ready \cup ms = group[h].members
      BY CompletesLastFlag
    <2>2. group'[h].ready = group[h].ready \cup ms /\ group'[h].members = group[h].members
      BY <1>1
    <2> QED
      BY <2>1, <2>2
  <1>4. /\ Waiting \subseteq Handles
        /\ \A g \in Handles : group[g].ready \subseteq group[g].members
    BY WaitingFacts, GroupType
  <1>0. /\ group' \in Seq(GroupRecord)
        /\ \A g \in Handles' : group'[g].ready \subseteq group'[g].members
        /\ groups' \in [DOMAIN groups' -> Handles'] /\ DOMAIN groups' \subseteq GroupIds
        /\ member_index' \in [DOMAIN member_index' -> GroupIds]
        /\ DOMAIN member_index' \subseteq Members
        /\ next_sequence' \in Nat /\ alive' \in BOOLEAN
        /\ result'.groups \in Seq(Handles') /\ Handles' = Handles
    <2>1. \A g \in Handles' : group'[g].ready \subseteq group'[g].members
      BY <1>1, <1>4
    <2>2. result'.groups \in Seq(Handles')
      OBVIOUS
    <2>3. /\ groups \in [DOMAIN groups -> Handles] /\ DOMAIN groups \subseteq GroupIds
          /\ member_index \in [DOMAIN member_index -> GroupIds]
          /\ DOMAIN member_index \subseteq Members
          /\ next_sequence \in Nat /\ alive \in BOOLEAN
      BY DEF TypeOK
    <2> QED
      BY <1>1, <1>2, <2>1, <2>2, <2>3
  <1>5a. \A t \in DOMAIN ready_groups :
           LET g == ready_groups[t]
           IN  g \in Waiting /\ group'[g].sequence = t /\ group'[g].ready = group'[g].members
    <2>1. ASSUME NEW t \in DOMAIN ready_groups
          PROVE  LET g == ready_groups[t]
                 IN  g \in Waiting /\ group[g].sequence = t /\ group[g].ready = group[g].members
      BY DEF ReadyIndexExact
    <2> QED
      BY <1>1, <1>4, <2>1, ZenonT(60)
  <1>5. CounterMatchesFlags'
    BY <1>1 DEF CounterMatchesFlags
  <1>6. IndexesAgree'
    <2>1. \A id \in DOMAIN groups : groups[id] \in Handles
      BY DEF TypeOK
    <2> QED
      BY <1>1, <1>2, <1>4, <2>1, ZenonT(60) DEF IndexesAgree
  <1>7. CallbackWhileWaiting'
    BY <1>1, <1>2, <1>4 DEF CallbackWhileWaiting
  <1>8. CASE notes
    <2>1. /\ h \in Waiting /\ ~ StrictOrder
          /\ s \notin DOMAIN ready_groups /\ s \notin ready_heap
      BY <1>3, <1>8, NotesAreFresh
    <2>2. /\ ready_groups' = Put(ready_groups, s, h)
          /\ ready_heap' = ready_heap \cup {s}
      BY <1>8, <2>1 DEF MarkMembers, NoteReady
    <2>3. /\ DOMAIN ready_groups' = DOMAIN ready_groups \cup {s}
          /\ ready_groups'[s] = h
          /\ \A t \in DOMAIN ready_groups : ready_groups'[t] = ready_groups[t]
          /\ ready_groups' \in [DOMAIN ready_groups' -> Handles]
      BY <2>1, <2>2 DEF Put, TypeOK
    <2>4. TypeOK'
      <3>1. s \in Nat
        BY GroupType
      <3>2. DOMAIN ready_groups' \subseteq Nat /\ ready_heap' \subseteq Nat
        BY <2>2, <2>3, <3>1 DEF TypeOK
      <3> QED
        BY <1>0, <2>3, <3>2 DEF TypeOK
    <2>5. Numbered'
      <3>1. s \in 0..(next_sequence - 1)
        BY GroupType DEF Numbered
      <3>2. ready_heap' \subseteq 0..(next_sequence' - 1)
        BY <1>2, <2>2, <3>1 DEF Numbered
      <3> QED
        BY <1>1, <1>2, <3>2 DEF Numbered
    <2>6. ReadyIndexExact'
      <3>1. \A t \in DOMAIN ready_groups' :
              LET g == ready_groups'[t]
              IN  g \in Waiting' /\ group'[g].sequence = t
                                 /\ group'[g].ready = group'[g].members
        <4>1. /\ ready_groups'[s] \in Waiting' /\ group'[ready_groups'[s]].sequence = s
              /\ group'[ready_groups'[s]].ready = group'[ready_groups'[s]].members
          BY <1>1, <1>2, <1>3, <1>8, <2>1, <2>3
        <4>2. ASSUME NEW t \in DOMAIN ready_groups
              PROVE  /\ ready_groups'[t] \in Waiting' /\ group'[ready_groups'[t]].sequence = t
                     /\ group'[ready_groups'[t]].ready = group'[ready_groups'[t]].members
          BY <1>5a, <1>2, <2>3
        <4> QED
          BY <2>3, <4>1, <4>2
      <3>2. \A g \in Waiting' : ~ StrictOrder /\ group'[g].ready = group'[g].members
                               => group'[g].sequence \in DOMAIN ready_groups'
        BY <1>1, <1>2, <1>4, <2>3 DEF ReadyIndexExact
      <3> QED
        BY <2>1, <3>1, <3>2 DEF ReadyIndexExact
    <2>7. HeapCoversReady'
      BY <1>1, <1>2, <1>4, <2>2, <2>3 DEF HeapCoversReady
    <2>8. HeapBounded'
      <3>1. Cardinality(ready_heap') = Cardinality(ready_heap) + 1
        BY <2>1, <2>2, HeapFinite, FS_AddElement
      <3>2. Cardinality(DOMAIN ready_groups') = Cardinality(DOMAIN ready_groups) + 1
        BY <2>1, <2>3, HeapFinite, FS_AddElement, ZenonT(60)
      <3> QED
        BY <3>1, <3>2, HeapFinite, SlackAssumption DEF HeapBounded
    <2> QED
      BY <1>5, <1>6, <1>7, <2>4, <2>5, <2>6, <2>7, <2>8
  <1>9. CASE ~ notes
    <2>1. UNCHANGED <<ready_groups, ready_heap>>
      BY <1>9 DEF MarkMembers, NoteReady
    <2>2. TypeOK'
      <3>1. ready_groups \in [DOMAIN ready_groups -> Handles]
        BY DEF TypeOK
      <3> QED
        BY <1>0, <1>1, <2>1, <3>1 DEF TypeOK
    <2>3. Numbered'
      BY <1>1, <1>2, <2>1 DEF Numbered
    <2>4. h \in Waiting /\ ~ StrictOrder => ~ Completes(h, ms)
      BY <1>9 DEF CallbackWhileWaiting, Waiting
    <2>5. ReadyIndexExact'
      <3>1. \A g \in Waiting : ~ StrictOrder /\ group'[g].ready = group'[g].members
                               => group[g].sequence \in DOMAIN ready_groups
        BY <1>1, <1>3, <1>4, <2>4 DEF ReadyIndexExact
      <3>2. StrictOrder => DOMAIN ready_groups = {}
        BY DEF ReadyIndexExact
      <3> QED
        BY <1>1, <1>2, <1>4, <1>5a, <2>1, <3>1, <3>2 DEF ReadyIndexExact
    <2>6. HeapCoversReady'
      BY <1>1, <1>2, <1>4, <2>1 DEF HeapCoversReady
    <2>7. HeapBounded'
      BY <2>1 DEF HeapBounded
    <2> QED
      BY <1>5, <1>6, <1>7, <2>2, <2>3, <2>5, <2>6, <2>7
  <1> QED
    BY <1>8, <1>9
-----------------------------------------------------------------------------
\* Departure.

\* Remove(hs) touches nothing of a group but its callback, takes exactly hs out of
\* the waiting groups, and leaves the others where the indexes had them.
LEMMA RemoveFrame ==
  ASSUME TypeOK, IndexesAgree, NEW hs \in SUBSET Waiting, Remove(hs)
  PROVE  /\ group' \in Seq(GroupRecord)
         /\ Len(group') = Len(group) /\ Handles' = Handles
         /\ \A g \in Handles :
              /\ group'[g].group_id = group[g].group_id
              /\ group'[g].members = group[g].members
              /\ group'[g].sequence = group[g].sequence
              /\ group'[g].ready = group[g].ready
              /\ group'[g].ready_count = group[g].ready_count
              /\ group'[g].on_ready = (g \notin hs /\ group[g].on_ready)
         /\ Waiting' = Waiting \ hs
         /\ \A id \in DOMAIN groups' : id \in DOMAIN groups /\ groups'[id] = groups[id]
         /\ groups' \in [DOMAIN groups' -> Handles]
  <1>1. Len(group) \in Nat /\ Handles = 1..Len(group) /\ group \in [Handles -> GroupRecord]
    BY GroupType
  <1>2. hs \subseteq Handles
    BY WaitingFacts
  <1>3. ASSUME NEW g \in Handles
        PROVE  /\ group'[g] \in GroupRecord
               /\ group'[g].group_id = group[g].group_id
               /\ group'[g].members = group[g].members
               /\ group'[g].sequence = group[g].sequence
               /\ group'[g].ready = group[g].ready
               /\ group'[g].ready_count = group[g].ready_count
               /\ group'[g].on_ready = (g \notin hs /\ group[g].on_ready)
    <2>1. group[g] \in GroupRecord
      BY <1>1
    <2>2. group'[g] = IF g \in hs THEN [group[g] EXCEPT !.on_ready = FALSE] ELSE group[g]
      BY DEF Remove, Detached
    <2> QED
      BY <2>1, <2>2 DEF GroupRecord
  <1>4. group' \in Seq(GroupRecord) /\ Len(group') = Len(group) /\ Handles' = Handles
    <2>1. DOMAIN group' = 1..Len(group)
      BY <1>1 DEF Remove, Detached
    <2>2. group' \in [1..Len(group) -> GroupRecord]
      BY <1>1, <1>3, <2>1 DEF Remove, Detached
    <2> QED
      BY <1>1, <2>1, <2>2 DEF Handles
  <1>5. /\ DOMAIN groups' = DOMAIN groups \ {group[h].group_id : h \in hs}
        /\ \A id \in DOMAIN groups' : groups'[id] = groups[id]
    BY DEF Remove, Without, Restrict
  <1>6. Waiting' = Waiting \ hs
    <2>1. ASSUME NEW h \in Waiting' PROVE h \in Waiting \ hs
      <3>1. PICK id \in DOMAIN groups' : h = groups'[id]
        BY DEF Waiting
      <3>2. h \in Waiting /\ group[h].group_id = id
        BY <1>5, <3>1 DEF Waiting, IndexesAgree
      <3> QED
        BY <1>5, <3>1, <3>2
    <2>2. ASSUME NEW h \in Waiting \ hs PROVE h \in Waiting'
      <3>1. group[h].group_id \in DOMAIN groups /\ groups[group[h].group_id] = h
        BY WaitingFacts
      <3>2. \A g \in hs : group[g].group_id # group[h].group_id
        BY <3>1, WaitingFacts
      <3> QED
        BY <1>5, <3>1, <3>2 DEF Waiting
    <2> QED
      BY <2>1, <2>2
  <1>7. groups' \in [DOMAIN groups' -> Handles]
    <2>1. groups \in [DOMAIN groups -> Handles]
      BY DEF TypeOK
    <2> QED
      BY <2>1, <1>5 DEF Remove, Without, Restrict
  <1> QED
    BY <1>3, <1>4, <1>5, <1>6, <1>7

\* Taking waiting groups out keeps the invariant, whatever stale entries are
\* dropped from the heap on the way, if the heap keeps the live ones and its bound.
LEMMA RemovePreserves ==
  ASSUME IInv, alive, NEW hs \in SUBSET Waiting, Remove(hs),
         ready_heap' \in SUBSET ready_heap,
         DOMAIN ready_groups' \subseteq ready_heap',
         HeapBounded', result'.groups \in Seq(Handles)
  PROVE  IInv'
  <1> USE DEF IInv
  <1>1. /\ group' \in Seq(GroupRecord)
        /\ Len(group') = Len(group) /\ Handles' = Handles
        /\ \A g \in Handles :
              /\ group'[g].group_id = group[g].group_id
              /\ group'[g].members = group[g].members
              /\ group'[g].sequence = group[g].sequence
              /\ group'[g].ready = group[g].ready
              /\ group'[g].ready_count = group[g].ready_count
              /\ group'[g].on_ready = (g \notin hs /\ group[g].on_ready)
        /\ Waiting' = Waiting \ hs
        /\ \A id \in DOMAIN groups' : id \in DOMAIN groups /\ groups'[id] = groups[id]
        /\ groups' \in [DOMAIN groups' -> Handles]
    BY RemoveFrame
  <1>2. UNCHANGED <<next_sequence, alive>>
    BY DEF Remove
  <1>3. /\ DOMAIN member_index' = DOMAIN member_index \ UNION {group[h].members : h \in hs}
        /\ \A m \in DOMAIN member_index' : member_index'[m] = member_index[m]
        /\ member_index' \in [DOMAIN member_index' -> GroupIds]
    BY DEF Remove, Without, Restrict, TypeOK
  <1>4. /\ DOMAIN ready_groups' = DOMAIN ready_groups \ {group[h].sequence : h \in hs}
        /\ \A t \in DOMAIN ready_groups' : ready_groups'[t] = ready_groups[t]
        /\ ready_groups' \in [DOMAIN ready_groups' -> Handles]
    BY DEF Remove, Without, Restrict, TypeOK
  <1>5. /\ Waiting \subseteq Handles
        /\ \A g \in Handles : group[g].ready \subseteq group[g].members
        /\ \A g, h \in Handles : group[g].sequence = group[h].sequence => g = h
    BY WaitingFacts, GroupType, SequenceNames
  <1>6. TypeOK'
    <2>1. \A g \in Handles' : group'[g].ready \subseteq group'[g].members
      BY <1>1, <1>5
    <2>2. DOMAIN groups' \subseteq GroupIds /\ DOMAIN member_index' \subseteq Members
      BY <1>1, <1>3 DEF TypeOK
    <2>3. ready_heap' \subseteq Nat /\ DOMAIN ready_groups' \subseteq Nat
      BY <1>4 DEF TypeOK
    <2>4. next_sequence' \in Nat /\ alive' \in BOOLEAN
      BY <1>2 DEF TypeOK
    <2> QED
      BY <1>1, <1>3, <1>4, <2>1, <2>2, <2>3, <2>4 DEF TypeOK
  <1>7. Numbered'
    BY <1>1, <1>2 DEF Numbered
  <1>8. CounterMatchesFlags'
    BY <1>1 DEF CounterMatchesFlags
  <1>9. IndexesAgree'
    <2>1. \A id \in DOMAIN groups' : group'[groups'[id]].group_id = id
      <3>1. \A id \in DOMAIN groups' : groups[id] \in Handles
        BY <1>1 DEF TypeOK
      <3> QED
        BY <1>1, <3>1 DEF IndexesAgree
    <2>2. ASSUME NEW h \in Waiting', NEW m \in group'[h].members
          PROVE  m \in DOMAIN member_index' /\ member_index'[m] = group'[h].group_id
      <3>1. h \in Waiting /\ h \notin hs /\ h \in Handles /\ m \in group[h].members
        BY <1>1, <1>5
      <3>2. m \in DOMAIN member_index /\ member_index[m] = group[h].group_id
        BY <3>1 DEF IndexesAgree
      <3>3. \A g \in hs : m \notin group[g].members
        BY <3>1, WaitingFacts
      <3> QED
        BY <1>1, <1>3, <3>1, <3>2, <3>3
    <2>3. ASSUME NEW m \in DOMAIN member_index'
          PROVE  \E h \in Waiting' : m \in group'[h].members
      <3>1. PICK h \in Waiting : m \in group[h].members
        BY <1>3 DEF IndexesAgree
      <3>2. h \notin hs
        BY <1>3, <3>1
      <3> QED
        BY <1>1, <1>5, <3>1, <3>2
    <2> QED
      BY <2>1, <2>2, <2>3 DEF IndexesAgree
  <1>10. CallbackWhileWaiting'
    BY <1>1, <1>2, <1>5 DEF CallbackWhileWaiting
  <1>11. ReadyIndexExact'
    <2>1. ASSUME NEW t \in DOMAIN ready_groups'
          PROVE  LET h == ready_groups'[t]
                 IN  /\ h \in Waiting' /\ group'[h].sequence = t
                     /\ group'[h].ready = group'[h].members
      <3>1. LET h == ready_groups[t]
            IN  h \in Waiting /\ group[h].sequence = t /\ group[h].ready = group[h].members
        BY <1>4 DEF ReadyIndexExact
      <3>2. ready_groups[t] \notin hs
        BY <1>4, <3>1
      <3> QED
        BY <1>1, <1>4, <1>5, <3>1, <3>2
    <2>2. ASSUME NEW h \in Waiting', ~ StrictOrder, group'[h].ready = group'[h].members
          PROVE  group'[h].sequence \in DOMAIN ready_groups'
      <3>1. h \in Waiting /\ h \notin hs /\ group[h].ready = group[h].members
        BY <1>1, <1>5, <2>2
      <3>2. group[h].sequence \in DOMAIN ready_groups
        BY <2>2, <3>1 DEF ReadyIndexExact
      <3> QED
        BY <1>1, <1>4, <1>5, <3>1, <3>2
    <2>3. StrictOrder => DOMAIN ready_groups' = {}
      BY <1>4 DEF ReadyIndexExact
    <2> QED
      BY <2>1, <2>2, <2>3 DEF ReadyIndexExact
  <1>12. HeapCoversReady'
    <2>1. ASSUME NEW h \in Waiting', group'[h].sequence \in ready_heap'
          PROVE  group'[h].sequence \in DOMAIN ready_groups'
      <3>1. h \in Waiting /\ h \notin hs /\ group'[h].sequence = group[h].sequence
        BY <1>1, <1>5
      <3>2. group[h].sequence \in DOMAIN ready_groups
        BY <2>1, <3>1 DEF HeapCoversReady
      <3> QED
        BY <1>4, <1>5, <3>1, <3>2
    <2> QED
      BY <2>1 DEF HeapCoversReady
  <1> QED
    BY <1>6, <1>7, <1>8, <1>9, <1>10, <1>11, <1>12

\* Every ready group has a live heap entry, and what peek purges is not live.
LEMMA PurgedKeepsLive ==
  ASSUME TypeOK, HeapCoversReady
  PROVE  /\ Live = DOMAIN ready_groups
         /\ Purged \in SUBSET ready_heap
         /\ DOMAIN ready_groups \subseteq Purged
  <1>1. Live = DOMAIN ready_groups /\ Live \subseteq ready_heap
    BY DEF Live, HeapCoversReady
  <1>2. \A t \in Live : t <= t
    BY <1>1 DEF TypeOK
  <1>3. Purged \in SUBSET ready_heap /\ Live \subseteq Purged
    BY <1>1, <1>2 DEF Purged
  <1> QED
    BY <1>1, <1>3

\* RemoveOne keeps the invariant: the heap is compacted whenever losing a live
\* entry would leave it over its bound.
LEMMA RemoveOnePreserves ==
  ASSUME IInv, alive, NEW h \in Waiting, NEW heap \in SUBSET ready_heap,
         DOMAIN ready_groups \subseteq heap, RemoveOne(h, heap),
         result'.groups \in Seq(Handles)
  PROVE  IInv'
  <1> DEFINE s == group[h].sequence
             live == DOMAIN ready_groups \ {s}
  <1>1. Remove({h})
    BY DEF RemoveOne
  <1>2. DOMAIN ready_groups' = live
    BY <1>1 DEF Remove, Without, Restrict
  <1>3. /\ IsFiniteSet(heap) /\ Cardinality(heap) \in Nat
        /\ Cardinality(heap) <= Cardinality(ready_heap)
        /\ Cardinality(ready_heap) \in Nat
        /\ IsFiniteSet(live) /\ Cardinality(live) \in Nat
        /\ CompactSlack \in Nat
    BY HeapFinite, FS_Subset, FS_CardinalityType, SlackAssumption DEF IInv
  <1>4. CASE s \in DOMAIN ready_groups
    <2>1. ready_heap' = Compacted(heap, live)
      BY <1>4 DEF RemoveOne
    <2>2. ready_heap' \in SUBSET ready_heap /\ live \subseteq ready_heap'
      BY <2>1 DEF Compacted
    <2>3. Cardinality(ready_heap') <= 2 * Cardinality(live) + CompactSlack
      <3>1. CASE Cardinality(heap) <= 2 * Cardinality(live) + CompactSlack
        BY <3>1, <2>1 DEF Compacted
      <3>2. CASE ~ (Cardinality(heap) <= 2 * Cardinality(live) + CompactSlack)
        <4>1. ready_heap' = live
          BY <3>2, <2>1 DEF Compacted
        <4> HIDE DEF live
        <4> QED
          BY <4>1, <1>3
      <3> QED
        BY <3>1, <3>2
    <2>4. HeapBounded'
      BY <1>2, <2>3 DEF HeapBounded
    <2> QED
      BY <1>1, <1>2, <2>2, <2>4, RemovePreserves
  <1>5. CASE s \notin DOMAIN ready_groups
    <2>1. ready_heap' = heap /\ live = DOMAIN ready_groups
      BY <1>5 DEF RemoveOne
    <2>2. HeapBounded'
      <3>1. Cardinality(ready_heap) <= 2 * Cardinality(DOMAIN ready_groups) + CompactSlack
        BY DEF IInv, HeapBounded
      <3>2. /\ Cardinality(ready_heap') = Cardinality(heap)
            /\ Cardinality(DOMAIN ready_groups') = Cardinality(DOMAIN ready_groups)
            /\ Cardinality(DOMAIN ready_groups) \in Nat
        BY <1>2, <1>3, <2>1
      <3> QED
        BY <1>3, <3>1, <3>2 DEF HeapBounded
    <2> QED
      BY <1>1, <1>2, <2>1, <2>2, RemovePreserves
  <1> QED
    BY <1>4, <1>5

\* Taking out every group with a live heap entry leaves the ready index empty, so
\* the heap may be emptied with it.
LEMMA RemoveAllPreserves ==
  ASSUME IInv, alive, NEW hs \in SUBSET Waiting, Remove(hs), ready_heap' = {},
         \A t \in DOMAIN ready_groups : ready_groups[t] \in hs,
         result'.groups \in Seq(Handles)
  PROVE  IInv'
  <1>1. DOMAIN ready_groups' = {}
    <2>1. DOMAIN ready_groups' = DOMAIN ready_groups \ {group[h].sequence : h \in hs}
      BY DEF Remove, Without, Restrict
    <2>2. \A t \in DOMAIN ready_groups : group[ready_groups[t]].sequence = t
      BY DEF IInv, ReadyIndexExact
    <2> QED
      BY <2>1, <2>2
  <1>2. HeapBounded'
    <2>1. Cardinality({}) = 0
      BY FS_EmptySet
    <2>2. Cardinality(ready_heap') = 0 /\ Cardinality(DOMAIN ready_groups') = 0
      BY <1>1, <2>1
    <2> QED
      BY <2>2, SlackAssumption DEF HeapBounded
  <1> QED
    BY <1>1, <1>2, RemovePreserves
-----------------------------------------------------------------------------
\* Admission.

LEMMA AdmitPreserves ==
  ASSUME IInv, NEW id \in GroupIds, NEW list \in MemberLists, Admit(id, list)
  PROVE  IInv'
  <1> USE DEF IInv
  <1> DEFINE new == Len(group) + 1
             rec == NewGroup(id, list)
  <1>1. /\ Len(group) \in Nat /\ Handles = 1..Len(group) /\ group \in Seq(GroupRecord)
        /\ new \notin Handles /\ alive /\ Waiting \subseteq Handles
    BY GroupType, WaitingFacts DEF Admit, TypeOK
  <1>2. Range(list) \in SUBSET Members
    BY DEF MemberLists, Range
  <1>3. /\ rec \in GroupRecord /\ rec.group_id = id /\ rec.members = Range(list)
        /\ rec.ready = {} /\ rec.ready_count = 0 /\ rec.sequence = next_sequence
        /\ rec.on_ready = ~ StrictOrder
    BY <1>2, PolicyAssumption DEF NewGroup, GroupRecord, TypeOK
  <1>4. rec.members # {}
    <2>1. list # <<>>
      BY DEF Admit, Admissible, WellFormed
    <2>2. PICK n \in Nat : list \in [1..n -> Members]
      BY DEF MemberLists
    <2>3. n # 0
      <3>1. n = 0 => list = <<>>
        BY <2>2
      <3> QED
        BY <2>1, <3>1
    <2>4. 1 \in DOMAIN list
      BY <2>2, <2>3
    <2> QED
      BY <1>3, <2>4 DEF Range
  <1> HIDE DEF rec
  <1>5. /\ group' \in Seq(GroupRecord) /\ Len(group') = new
        /\ Handles' = Handles \cup {new} /\ group'[new] = rec
        /\ \A g \in Handles : group'[g] = group[g]
    <2>1. group' = Append(group, rec)
      BY DEF Admit, rec
    <2> QED
      BY <1>1, <1>3, <2>1 DEF Handles
  <1>6. /\ id \notin DOMAIN groups /\ DOMAIN groups' = DOMAIN groups \cup {id}
        /\ groups'[id] = new
        /\ \A i \in DOMAIN groups : groups'[i] = groups[i]
        /\ groups' \in [DOMAIN groups' -> Handles']
    BY <1>5 DEF Admit, Admissible, Put, TypeOK
  <1>7. Waiting' = Waiting \cup {new}
    BY <1>6 DEF Waiting
  <1>8. /\ rec.members \cap DOMAIN member_index = {}
        /\ DOMAIN member_index' = DOMAIN member_index \cup rec.members
        /\ \A m \in rec.members : member_index'[m] = id
        /\ \A m \in DOMAIN member_index : member_index'[m] = member_index[m]
        /\ member_index' \in [DOMAIN member_index' -> GroupIds]
    BY <1>3 DEF Admit, Admissible, IndexMembers, TypeOK
  <1>9. /\ UNCHANGED <<ready_groups, ready_heap, alive>>
        /\ next_sequence' = next_sequence + 1 /\ next_sequence \in Nat
        /\ result'.groups = <<new>>
    BY DEF Admit, Returns, TypeOK
  <1>10. TypeOK'
    <2>1. \A g \in Handles' : group'[g].ready \subseteq group'[g].members
      BY <1>3, <1>5, GroupType
    <2>2. ready_groups' \in [DOMAIN ready_groups' -> Handles']
      BY <1>5, <1>9 DEF TypeOK
    <2>3. DOMAIN groups' \subseteq GroupIds /\ DOMAIN member_index' \subseteq Members
      BY <1>2, <1>3, <1>6, <1>8 DEF TypeOK
    <2>4. result'.groups \in Seq(Handles')
      BY <1>5, <1>9
    <2>5. next_sequence' \in Nat /\ alive' \in BOOLEAN /\ ready_heap' \subseteq Nat
          /\ DOMAIN ready_groups' \subseteq Nat
      BY <1>9 DEF TypeOK
    <2> QED
      BY <1>5, <1>6, <1>8, <2>1, <2>2, <2>3, <2>4, <2>5 DEF TypeOK
  <1>11. Numbered'
    <2>1. next_sequence = Len(group)
      BY DEF Numbered
    <2>2. ready_heap' \subseteq 0..(next_sequence' - 1)
      BY <1>9 DEF Numbered
    <2>3. \A g \in Handles' : group'[g].sequence = g - 1
      BY <1>1, <1>3, <1>5, <2>1 DEF Numbered
    <2> QED
      BY <1>5, <1>9, <2>1, <2>2, <2>3 DEF Numbered
  <1>12. CounterMatchesFlags'
    <2>1. rec.ready_count = Cardinality(rec.ready)
      BY <1>3, FS_EmptySet
    <2> QED
      BY <1>5, <2>1 DEF CounterMatchesFlags
  <1>13. IndexesAgree'
    <2>1. \A i \in DOMAIN groups' : group'[groups'[i]].group_id = i
      <3>1. \A i \in DOMAIN groups : groups[i] \in Handles /\ group[groups[i]].group_id = i
        BY DEF TypeOK, IndexesAgree
      <3> QED
        BY <1>3, <1>5, <1>6, <3>1
    <2>2. \A h \in Waiting' : \A m \in group'[h].members :
            m \in DOMAIN member_index' /\ member_index'[m] = group'[h].group_id
      <3>1. \A h \in Waiting : \A m \in group[h].members :
              m \in DOMAIN member_index /\ member_index[m] = group[h].group_id
        BY DEF IndexesAgree
      <3> QED
        BY <1>1, <1>3, <1>5, <1>7, <1>8, <3>1
    <2>3. \A m \in DOMAIN member_index' : \E h \in Waiting' : m \in group'[h].members
      <3>1. \A m \in DOMAIN member_index : \E h \in Waiting : m \in group[h].members
        BY DEF IndexesAgree
      <3> QED
        BY <1>1, <1>5, <1>7, <1>8, <3>1
    <2> QED
      BY <2>1, <2>2, <2>3 DEF IndexesAgree
  <1>14. CallbackWhileWaiting'
    <2>1. \A h \in Waiting' : group'[h].on_ready = ~ StrictOrder
      BY <1>1, <1>3, <1>5, <1>7 DEF CallbackWhileWaiting
    <2>2. \A h \in Handles' \ Waiting' : ~ group'[h].on_ready
      BY <1>1, <1>5, <1>7 DEF CallbackWhileWaiting
    <2> QED
      BY <1>1, <1>9, <2>1, <2>2 DEF CallbackWhileWaiting
  <1>15. ReadyIndexExact'
    <2>1. ASSUME NEW t \in DOMAIN ready_groups'
          PROVE  LET h == ready_groups'[t]
                 IN  /\ h \in Waiting' /\ group'[h].sequence = t
                     /\ group'[h].ready = group'[h].members
      <3>1. LET h == ready_groups[t]
            IN  h \in Waiting /\ group[h].sequence = t /\ group[h].ready = group[h].members
        BY <1>9 DEF ReadyIndexExact
      <3> QED
        BY <1>1, <1>5, <1>7, <1>9, <3>1
    <2>2. ASSUME NEW h \in Waiting', ~ StrictOrder, group'[h].ready = group'[h].members
          PROVE  group'[h].sequence \in DOMAIN ready_groups'
      <3>1. h # new
        BY <1>3, <1>4, <1>5, <2>2
      <3>2. h \in Waiting /\ group'[h] = group[h]
        BY <1>1, <1>5, <1>7, <3>1
      <3> QED
        BY <1>9, <2>2, <3>2 DEF ReadyIndexExact
    <2>3. StrictOrder => DOMAIN ready_groups' = {}
      BY <1>9 DEF ReadyIndexExact
    <2> QED
      BY <2>1, <2>2, <2>3 DEF ReadyIndexExact
  <1>16. HeapCoversReady'
    <2>1. next_sequence \notin ready_heap
      BY <1>9 DEF Numbered
    <2>2. ASSUME NEW h \in Waiting', group'[h].sequence \in ready_heap'
          PROVE  group'[h].sequence \in DOMAIN ready_groups'
      <3>1. h # new
        BY <1>3, <1>5, <1>9, <2>1, <2>2
      <3>2. h \in Waiting /\ group'[h] = group[h]
        BY <1>1, <1>5, <1>7, <3>1
      <3> QED
        BY <1>9, <2>2, <3>2 DEF HeapCoversReady
    <2> QED
      BY <1>9, <2>2 DEF HeapCoversReady
  <1>17. HeapBounded'
    BY <1>9 DEF HeapBounded
  <1> QED
    BY <1>10, <1>11, <1>12, <1>13, <1>14, <1>15, <1>16, <1>17
-----------------------------------------------------------------------------
\* The invariant.

LEMMA InitEstablishes == Init => IInv
  <1> SUFFICES ASSUME Init PROVE IInv
    OBVIOUS
  <1> USE DEF Init, EmptyDict
  <1>1. Handles = {} /\ Waiting = {} /\ DOMAIN groups = {} /\ DOMAIN member_index = {}
        /\ DOMAIN ready_groups = {}
    BY DEF Handles, Waiting
  <1>2. TypeOK
    BY <1>1 DEF TypeOK, Returns
  <1>3. Numbered /\ CounterMatchesFlags /\ IndexesAgree /\ CallbackWhileWaiting
    BY <1>1 DEF Numbered, CounterMatchesFlags, IndexesAgree, CallbackWhileWaiting
  <1>4. ReadyIndexExact /\ HeapCoversReady
    BY <1>1 DEF ReadyIndexExact, HeapCoversReady
  <1>5. HeapBounded
    <2>1. Cardinality(ready_heap) = 0 /\ Cardinality(DOMAIN ready_groups) = 0
      BY <1>1, FS_EmptySet
    <2> QED
      BY <2>1, SlackAssumption DEF HeapBounded
  <1> QED
    BY <1>2, <1>3, <1>4, <1>5 DEF IInv

\* A step that changes nothing but the answer, and answers with groups that exist,
\* keeps the invariant.
LEMMA AnswerPreserves ==
  ASSUME IInv, UNCHANGED <<group, queue>>, result'.groups \in Seq(Handles)
  PROVE  IInv'
  <1>1. UNCHANGED <<group, groups, member_index, next_sequence, ready_groups,
                    ready_heap, alive>>
    BY DEF queue
  <1>2. Handles' = Handles /\ Waiting' = Waiting
    BY <1>1 DEF Handles, Waiting
  <1>3. TypeOK'
    BY <1>1, <1>2 DEF IInv, TypeOK
  <1>4. Numbered' /\ CounterMatchesFlags' /\ IndexesAgree' /\ CallbackWhileWaiting'
    BY <1>1, <1>2
       DEF IInv, Numbered, CounterMatchesFlags, IndexesAgree, CallbackWhileWaiting
  <1>5. ReadyIndexExact' /\ HeapCoversReady' /\ HeapBounded'
    BY <1>1, <1>2 DEF IInv, ReadyIndexExact, HeapCoversReady, HeapBounded
  <1> QED
    BY <1>3, <1>4, <1>5 DEF IInv

LEMMA RefusePreserves ==
  ASSUME IInv, NEW call, Refuse(call)
  PROVE  IInv'
  BY AnswerPreserves DEF Refuse, Raises, Returns

\* A group that may leave is waiting.
LEMMA OutIsWaiting ==
  ASSUME IInv
  PROVE  NextOut \subseteq Waiting /\ AllOut \subseteq Waiting
  <1>1. \A s \in Live : ready_groups[s] \in Waiting
    BY DEF IInv, ReadyIndexExact, Live
  <1> QED
    BY <1>1 DEF NextOut, AllOut

\* A list of handles is a sequence of them.
LEMMA SortedType ==
  ASSUME NEW hs, IsFiniteSet(hs), NEW key, NEW list \in Sorted(hs, key)
  PROVE  list \in Seq(hs)
  <1>1. list \in [1..Cardinality(hs) -> hs]
    BY DEF Sorted
  <1>2. Cardinality(hs) \in Nat
    BY FS_CardinalityType
  <1> QED
    BY <1>1, <1>2

LEMMA HandlesFinite ==
  ASSUME TypeOK, NEW hs \in SUBSET Handles
  PROVE  IsFiniteSet(hs)
  <1>1. Len(group) \in Int /\ 1 \in Int /\ Handles = 1..Len(group)
    BY GroupType
  <1>2. IsFiniteSet(Handles)
    BY <1>1, FS_Interval
  <1> QED
    BY <1>2, FS_Subset

\* Purging stale entries is all that peek does to the queue.
LEMMA PurgePreserves ==
  ASSUME IInv, ready_heap' = Purged, result'.groups \in Seq(Handles),
         UNCHANGED <<group, groups, member_index, next_sequence, ready_groups, alive>>
  PROVE  IInv'
  <1>1. Handles' = Handles /\ Waiting' = Waiting
    BY DEF Handles, Waiting
  <1>2. /\ ready_heap' \in SUBSET ready_heap
        /\ DOMAIN ready_groups \subseteq ready_heap'
    BY PurgedKeepsLive DEF IInv
  <1>3. TypeOK'
    BY <1>1, <1>2 DEF IInv, TypeOK
  <1>4. Numbered' /\ CounterMatchesFlags' /\ IndexesAgree' /\ CallbackWhileWaiting'
    BY <1>1, <1>2
       DEF IInv, Numbered, CounterMatchesFlags, IndexesAgree, CallbackWhileWaiting
  <1>5. ReadyIndexExact' /\ HeapCoversReady'
    BY <1>1, <1>2 DEF IInv, ReadyIndexExact, HeapCoversReady
  <1>6. HeapBounded'
    <2>1. /\ Cardinality(ready_heap') <= Cardinality(ready_heap)
          /\ Cardinality(ready_heap') \in Nat /\ Cardinality(ready_heap) \in Nat
          /\ Cardinality(DOMAIN ready_groups) \in Nat
      BY <1>2, HeapFinite, FS_Subset, FS_CardinalityType DEF IInv
    <2> QED
      BY <2>1, SlackAssumption DEF IInv, HeapBounded
  <1> QED
    BY <1>3, <1>4, <1>5, <1>6 DEF IInv

LEMMA PeekPreserves == IInv /\ Peek => IInv'
  <1> SUFFICES ASSUME IInv, Peek PROVE IInv'
    OBVIOUS
  <1>1. NextOut \subseteq Handles
    BY OutIsWaiting, WaitingFacts DEF IInv
  <1>2. result'.groups = <<>> \/ \E h \in Handles : result'.groups = <<h>>
    BY <1>1 DEF Peek, Returns
  <1>3. result'.groups \in Seq(Handles)
    <2>1. CASE result'.groups = <<>>
      BY <2>1
    <2>2. ASSUME NEW h \in Handles, result'.groups = <<h>>
          PROVE  result'.groups \in Seq(Handles)
      BY <2>2
    <2> QED
      BY <1>2, <2>1, <2>2
  <1> QED
    BY <1>3, PurgePreserves DEF Peek

LEMMA ReleasePreserves == IInv /\ (Release \/ ReleaseNone) => IInv'
  <1>1. ASSUME IInv, Release PROVE IInv'
    <2>1. PICK h \in NextOut : /\ RemoveOne(h, Purged)
                               /\ result' = Returns("release", "Group", <<h>>)
      BY <1>1 DEF Release
    <2>2. h \in Waiting /\ h \in Handles
      BY <1>1, OutIsWaiting, WaitingFacts DEF IInv
    <2>3. result'.groups \in Seq(Handles)
      BY <2>1, <2>2 DEF Returns
    <2>4. Purged \in SUBSET ready_heap /\ DOMAIN ready_groups \subseteq Purged
      BY <1>1, PurgedKeepsLive DEF IInv
    <2>5. alive
      BY <1>1 DEF Release
    <2> HIDE DEF Purged
    <2> QED
      BY <1>1, <2>1, <2>2, <2>3, <2>4, <2>5, RemoveOnePreserves
  <1>2. ASSUME IInv, ReleaseNone PROVE IInv'
    BY <1>2, PurgePreserves DEF ReleaseNone, Returns
  <1> QED
    BY <1>1, <1>2

LEMMA ReleaseAllPreserves == IInv /\ ReleaseAll => IInv'
  <1> SUFFICES ASSUME IInv, ReleaseAll PROVE IInv'
    OBVIOUS
  <1>1. AllOut \in SUBSET Waiting /\ AllOut \in SUBSET Handles /\ IsFiniteSet(AllOut)
    BY OutIsWaiting, WaitingFacts, HandlesFinite DEF IInv
  <1>2. PICK list \in Sorted(AllOut, [h \in AllOut |-> Age(h)]) :
          result' = Returns("release_all", "List", list)
    BY DEF ReleaseAll
  <1>3. list \in Seq(AllOut)
    BY <1>1, SortedType
  <1>4. result'.groups \in Seq(Handles)
    BY <1>1, <1>2, <1>3 DEF Returns
  <1>5. Remove(AllOut) /\ alive
    BY DEF ReleaseAll
  <1>6. CASE StrictOrder
    <2>1. ready_heap' = ready_heap /\ DOMAIN ready_groups = {}
      BY <1>6 DEF ReleaseAll, IInv, ReadyIndexExact
    <2>2. DOMAIN ready_groups' = {}
      BY <1>5, <2>1 DEF Remove, Without, Restrict
    <2>3. HeapBounded'
      BY <2>1, <2>2 DEF IInv, HeapBounded
    <2> QED
      BY <1>1, <1>4, <1>5, <2>1, <2>2, <2>3, RemovePreserves
  <1>7. CASE ~ StrictOrder
    <2>1. ready_heap' = {}
      BY <1>7 DEF ReleaseAll
    <2>2. \A t \in DOMAIN ready_groups : ready_groups[t] \in AllOut
      BY <1>7, PurgedKeepsLive DEF AllOut, IInv
    <2> QED
      BY <1>1, <1>4, <1>5, <2>1, <2>2, RemoveAllPreserves
  <1> QED
    BY <1>6, <1>7

LEMMA CancelPreserves ==
  ASSUME NEW id \in GroupIds
  PROVE  IInv /\ Cancel(id) => IInv'
  <1> SUFFICES ASSUME IInv, Cancel(id) PROVE IInv'
    OBVIOUS
  <1>1. groups[id] \in Waiting /\ groups[id] \in Handles
    BY WaitingFacts DEF Cancel, Waiting, IInv
  <1>2. /\ RemoveOne(groups[id], ready_heap) /\ alive
        /\ result'.groups \in Seq(Handles)
    BY <1>1 DEF Cancel, Returns
  <1>3. DOMAIN ready_groups \subseteq ready_heap
    BY DEF IInv, HeapCoversReady
  <1> QED
    BY <1>1, <1>2, <1>3, RemoveOnePreserves

\* clear does to the queue what _remove would do for every waiting group.
LEMMA ClearPreserves == IInv /\ Clear => IInv'
  <1> SUFFICES ASSUME IInv, Clear PROVE IInv'
    OBVIOUS
  <1>1. Waiting \in SUBSET Waiting /\ Waiting \subseteq Handles /\ IsFiniteSet(Waiting)
    BY WaitingFacts, HandlesFinite DEF IInv
  <1>2. PICK list \in InHandleOrder(Waiting) : result' = Returns("clear", "List", list)
    BY DEF Clear
  <1>3. list \in Seq(Waiting)
    BY <1>1, SortedType DEF InHandleOrder
  <1>4. result'.groups \in Seq(Handles)
    BY <1>1, <1>2, <1>3 DEF Returns
  <1>5. \A t \in DOMAIN ready_groups : /\ ready_groups[t] \in Waiting
                                      /\ group[ready_groups[t]].sequence = t
    BY DEF IInv, ReadyIndexExact
  <1>6. Remove(Waiting)
    <2>1. DOMAIN groups \ {group[h].group_id : h \in Waiting} = {}
      BY DEF IInv, IndexesAgree, Waiting
    <2>2. DOMAIN member_index \ UNION {group[h].members : h \in Waiting} = {}
      BY DEF IInv, IndexesAgree
    <2>3. DOMAIN ready_groups \ {group[h].sequence : h \in Waiting} = {}
      BY <1>5
    <2> QED
      BY <2>1, <2>2, <2>3 DEF Clear, Remove, Without, Restrict, EmptyDict
  <1> QED
    BY <1>1, <1>4, <1>5, <1>6, RemoveAllPreserves DEF Clear

LEMMA DropPreserves == IInv /\ DropQueue => IInv'
  <1> SUFFICES ASSUME IInv, DropQueue PROVE IInv'
    OBVIOUS
  <1>1. /\ Handles' = Handles /\ Waiting' = {} /\ DOMAIN groups' = {}
        /\ DOMAIN member_index' = {} /\ DOMAIN ready_groups' = {}
        /\ ready_heap' = {} /\ alive' = FALSE /\ UNCHANGED <<group, next_sequence>>
    BY DEF DropQueue, Handles, Waiting, EmptyDict
  <1>2. TypeOK'
    <2>1. /\ groups' \in [DOMAIN groups' -> Handles']
          /\ member_index' \in [DOMAIN member_index' -> GroupIds]
          /\ ready_groups' \in [DOMAIN ready_groups' -> Handles']
      BY <1>1 DEF DropQueue, EmptyDict
    <2>2. result'.groups \in Seq(Handles')
      BY DEF DropQueue, Returns
    <2> QED
      BY <1>1, <2>1, <2>2 DEF IInv, TypeOK
  <1>3. Numbered' /\ CounterMatchesFlags' /\ IndexesAgree' /\ CallbackWhileWaiting'
    BY <1>1 DEF IInv, Numbered, CounterMatchesFlags, IndexesAgree, CallbackWhileWaiting
  <1>4. ReadyIndexExact' /\ HeapCoversReady'
    BY <1>1 DEF IInv, ReadyIndexExact, HeapCoversReady
  <1>5. HeapBounded'
    <2>1. Cardinality(ready_heap') = 0 /\ Cardinality(DOMAIN ready_groups') = 0
      BY <1>1, FS_EmptySet
    <2> QED
      BY <2>1, SlackAssumption DEF HeapBounded
  <1> QED
    BY <1>2, <1>3, <1>4, <1>5 DEF IInv

LEMMA MarkingPreserves ==
  ASSUME IInv
  PROVE  /\ \A h \in Handles, m \in Members : GroupMarkReady(h, m) => IInv'
         /\ \A m \in Members : MarkReady(m) => IInv'
         /\ \A id \in GroupIds : MarkGroupReady(id) => IInv'
  <1>1. ASSUME NEW h \in Handles, NEW m \in Members, GroupMarkReady(h, m)
        PROVE  IInv'
    <2>1. MarkMembers(h, {m}) /\ {m} \in SUBSET group[h].members /\ result'.groups = <<>>
      BY <1>1 DEF GroupMarkReady, Returns
    <2> QED
      BY <2>1, MarkPreserves
  <1>2. ASSUME NEW m \in Members, MarkReady(m) PROVE IInv'
    <2>1. groups[member_index[m]] \in Handles
      <3>1. PICK h \in Waiting : m \in group[h].members
        BY <1>2 DEF MarkReady, IInv, IndexesAgree
      <3>2. member_index[m] = group[h].group_id
        BY <3>1 DEF IInv, IndexesAgree
      <3> QED
        BY <3>2, WaitingFacts DEF IInv
    <2> QED
      BY <1>1, <1>2, <2>1 DEF MarkReady
  <1>3. ASSUME NEW id \in GroupIds, MarkGroupReady(id) PROVE IInv'
    <2>1. groups[id] \in Handles
      BY <1>3 DEF MarkGroupReady, IInv, TypeOK
    <2>2. /\ MarkMembers(groups[id], group[groups[id]].members)
          /\ result'.groups = <<>>
      BY <1>3 DEF MarkGroupReady, Returns
    <2> QED
      BY <2>1, <2>2, MarkPreserves
  <1> QED
    BY <1>1, <1>2, <1>3

LEMMA NextPreserves == IInv /\ [Next]_vars => IInv'
  <1> SUFFICES ASSUME IInv, [Next]_vars PROVE IInv'
    OBVIOUS
  <1>1. ASSUME NEW id \in GroupIds, NEW list \in MemberLists,
               Admit(id, list) \/ AdmitRefused(id, list)
        PROVE  IInv'
    BY <1>1, AdmitPreserves, RefusePreserves DEF AdmitRefused
  <1>2. ASSUME NEW h \in Handles, NEW m \in Members,
               GroupMarkReady(h, m) \/ GroupMarkReadyRefused(h, m)
        PROVE  IInv'
    BY <1>2, MarkingPreserves, RefusePreserves DEF GroupMarkReadyRefused
  <1>3. ASSUME NEW m \in Members, MarkReady(m) \/ MarkReadyRefused(m)
        PROVE  IInv'
    BY <1>3, MarkingPreserves, RefusePreserves DEF MarkReadyRefused
  <1>4. ASSUME NEW id \in GroupIds, MarkGroupReady(id) \/ MarkGroupReadyRefused(id)
        PROVE  IInv'
    BY <1>4, MarkingPreserves, RefusePreserves DEF MarkGroupReadyRefused
  <1>5. ASSUME NEW id \in GroupIds, Cancel(id) \/ CancelRefused(id)
        PROVE  IInv'
    BY <1>5, CancelPreserves, RefusePreserves DEF CancelRefused
  <1>6. CASE Peek
    BY <1>6, PeekPreserves
  <1>7. CASE Release \/ ReleaseNone
    BY <1>7, ReleasePreserves
  <1>8. CASE ReleaseAll
    BY <1>8, ReleaseAllPreserves
  <1>9. CASE Clear
    BY <1>9, ClearPreserves
  <1>10. CASE DropQueue
    BY <1>10, DropPreserves
  <1>11. CASE UNCHANGED vars
    BY <1>11, AnswerPreserves DEF vars, IInv, TypeOK
  <1> QED
    BY <1>1, <1>2, <1>3, <1>4, <1>5, <1>6, <1>7, <1>8, <1>9, <1>10, <1>11 DEF Next

\* Whatever calls are made, in whatever order, the queue's indexes, counters and
\* callbacks stay consistent with the groups.
THEOREM Consistency == Spec => []IInv
  BY InitEstablishes, NextPreserves, PTL DEF Spec

\* Every variable keeps its type.
THEOREM TypeCorrect == Spec => []TypeOK
  <1>1. IInv => TypeOK
    BY DEF IInv
  <1> QED
    BY <1>1, Consistency, PTL

\* The two indexes never disagree, so neither group_of nor _remove can meet a
\* member or an id that the other index does not have.
THEOREM IndexesNeverDisagree == Spec => []IndexesAgree
  <1>1. IInv => IndexesAgree
    BY DEF IInv
  <1> QED
    BY <1>1, Consistency, PTL

\* The ready index holds exactly the ready waiting groups, however late a departed
\* group is marked.
THEOREM ReadyIndexIsExact == Spec => []ReadyIndexExact
  <1>1. IInv => ReadyIndexExact
    BY DEF IInv
  <1> QED
    BY <1>1, Consistency, PTL

\* The counter that is_ready trusts is the number of flags set, whoever sets them,
\* in whatever order and however often.
THEOREM CountersMatch == Spec => []CounterMatchesFlags
  <1>1. IInv => CounterMatchesFlags
    BY DEF IInv
  <1> QED
    BY <1>1, Consistency, PTL

\* No ready group is missing from the heap, and none is pushed twice.
THEOREM HeapCovers == Spec => []HeapCoversReady
  <1>1. IInv => HeapCoversReady
    BY DEF IInv
  <1> QED
    BY <1>1, Consistency, PTL

\* The heap never outgrows twice its live entries plus the slack, over any number
\* of admissions and departures.
THEOREM HeapStaysBounded == Spec => []HeapBounded
  <1>1. IInv => HeapBounded
    BY DEF IInv
  <1> QED
    BY <1>1, Consistency, PTL

\* Sequence numbers follow arrival order.
THEOREM SequencesInOrder == Spec => []SequencesFollowArrival
  <1>1. IInv => SequencesFollowArrival
    BY GroupType DEF IInv, Numbered, SequencesFollowArrival
  <1> QED
    BY <1>1, Consistency, PTL
-----------------------------------------------------------------------------
\* The refinement of Discipline.tla.

\* The same discipline, with what is proved about it.
Proved == INSTANCE DisciplineProofs WITH roster <- Roster, waiting <- Waiting
-----------------------------------------------------------------------------
\* What the bookkeeping says, the flags say too.

\* The roster tells of a group what its object does.
LEMMA RosterFacts ==
  ASSUME TypeOK
  PROVE  /\ Promised!Handles = Handles /\ Len(Roster) = Len(group)
         /\ \A h \in Handles : /\ Roster[h].group_id = group[h].group_id
                               /\ Roster[h].members = group[h].members
                               /\ Roster[h].ready = group[h].ready
  <1>1. Handles = 1..Len(group) /\ Len(group) \in Nat
    BY GroupType
  <1>2. DOMAIN Roster = Handles
    BY DEF Roster
  <1>3. Len(Roster) = Len(group)
    BY <1>1, <1>2
  <1> QED
    BY <1>2, <1>3 DEF Roster, Promised!Handles

\* The counter of a group reaches its size when the last flag is set.
LEMMA ReadyIsFull ==
  ASSUME IInv, NEW h \in Handles
  PROVE  /\ IsReady(group[h]) <=> Promised!Full(h)
         /\ Promised!Full(h) <=> group[h].ready = group[h].members
  <1>1. group[h].ready \in SUBSET group[h].members
    BY GroupType DEF IInv
  <1>2. IsFiniteSet(group[h].members)
    BY GroupFinite DEF IInv
  <1>3. group[h].ready = group[h].members
          <=> Cardinality(group[h].ready) = Cardinality(group[h].members)
    BY <1>1, <1>2, FS_Subset
  <1>4. group[h].ready_count = Cardinality(group[h].ready)
    BY DEF IInv, CounterMatchesFlags
  <1>5. IsReady(group[h]) <=> group[h].ready = group[h].members
    BY <1>3, <1>4 DEF IsReady
  <1>6. Promised!Full(h) <=> group[h].ready = group[h].members
    BY RosterFacts DEF IInv, Promised!Full
  <1> QED
    BY <1>5, <1>6

\* The indexes find the groups that a look at every waiting group would find.
LEMMA LookupsAgree ==
  ASSUME IInv
  PROVE  /\ \A id : Promised!Named(id) = IF id \in DOMAIN groups THEN {groups[id]} ELSE {}
         /\ \A m : Promised!Holding(m) = IF m \in DOMAIN member_index
                                         THEN {groups[member_index[m]]} ELSE {}
  <1>1. /\ Waiting \subseteq Handles
        /\ \A h \in Waiting : /\ group[h].group_id \in DOMAIN groups
                              /\ groups[group[h].group_id] = h
        /\ \A g, h \in Waiting : group[g].members \cap group[h].members # {} => g = h
    BY WaitingFacts DEF IInv
  <1>2. \A h \in Waiting : /\ Roster[h].group_id = group[h].group_id
                           /\ Roster[h].members = group[h].members
    BY <1>1, RosterFacts DEF IInv
  <1>3. \A id \in DOMAIN groups : groups[id] \in Waiting /\ group[groups[id]].group_id = id
    BY DEF Waiting, IInv, IndexesAgree
  <1>4. \A h \in Waiting : \A m \in group[h].members :
          m \in DOMAIN member_index /\ member_index[m] = group[h].group_id
    BY DEF IInv, IndexesAgree
  <1>5. \A m \in DOMAIN member_index : \E h \in Waiting : m \in group[h].members
    BY DEF IInv, IndexesAgree
  <1>6. ASSUME NEW id
        PROVE  Promised!Named(id) = IF id \in DOMAIN groups THEN {groups[id]} ELSE {}
    BY <1>1, <1>2, <1>3 DEF Promised!Named
  <1>7. ASSUME NEW m
        PROVE  Promised!Holding(m) = IF m \in DOMAIN member_index
                                     THEN {groups[member_index[m]]} ELSE {}
    <2>1. CASE m \in DOMAIN member_index
      <3>1. PICK h \in Waiting : m \in group[h].members
        BY <1>5, <2>1
      <3>2. groups[member_index[m]] = h
        BY <1>1, <1>4, <3>1
      <3>3. \A g \in Waiting : m \in group[g].members <=> g = h
        BY <1>1, <3>1
      <3> QED
        BY <1>2, <2>1, <3>1, <3>2, <3>3 DEF Promised!Holding
    <2>2. CASE m \notin DOMAIN member_index
      BY <1>2, <1>4, <2>2 DEF Promised!Holding
    <2> QED
      BY <2>1, <2>2
  <1> QED
    BY <1>6, <1>7

\* The head of the line and the top of the heap are what the discipline lets out.
LEMMA OutAgrees ==
  ASSUME IInv
  PROVE  AllOut = Promised!Departable /\ NextOut = Promised!NextOut
  <1>1. /\ Waiting \subseteq Handles /\ Handles \subseteq Nat
        /\ \A h \in Waiting : IsReady(group[h]) <=> Promised!Full(h)
        /\ \A h \in Waiting : Promised!Full(h) <=> group[h].ready = group[h].members
    BY WaitingFacts, GroupType, ReadyIsFull DEF IInv
  <1>0. \A h \in Waiting : h \in Int
    BY <1>1
  <1>2. CASE StrictOrder
    <2>0. ASSUME NEW h \in Waiting
          PROVE  (\A g \in Waiting : g <= h => IsReady(group[g]))
                   <=> Promised!Full(h) /\ \A g \in Waiting : g < h => Promised!Full(g)
      <3>1. \A g \in Waiting : g <= h <=> g < h \/ g = h
        BY <1>0
      <3> QED
        BY <1>1, <3>1
    <2>1. AllOut = Promised!Departable
      BY <1>2, <2>0 DEF AllOut, Promised!Departable
    <2>2. ASSUME NEW h \in NextOut PROVE h \in Promised!NextOut
      BY <1>1, <1>2, <2>2 DEF NextOut, Promised!NextOut, Promised!Departable
    <2>3. ASSUME NEW h \in Promised!NextOut PROVE h \in NextOut
      <3>1. /\ h \in Waiting /\ Promised!Full(h)
            /\ \A g \in Waiting : g < h => Promised!Full(g)
            /\ \A g \in Promised!Departable : h <= g
        BY <1>2, <2>3 DEF Promised!NextOut, Promised!Departable
      <3>2. ASSUME NEW g \in Waiting, g < h PROVE FALSE
        <4>1. Promised!Full(g) /\ \A f \in Waiting : f < g => Promised!Full(f)
          BY <1>1, <3>1, <3>2
        <4>2. g \in Promised!Departable
          BY <4>1 DEF Promised!Departable
        <4> QED
          BY <1>1, <3>1, <3>2, <4>2
      <3> QED
        BY <1>1, <1>2, <3>1, <3>2 DEF NextOut
    <2> QED
      BY <2>1, <2>2, <2>3
  <1>3. CASE ~ StrictOrder
    <2>1. Live = DOMAIN ready_groups
      BY PurgedKeepsLive DEF IInv
    <2>2. \A s \in Live : /\ ready_groups[s] \in Waiting /\ s = ready_groups[s] - 1
                          /\ Promised!Full(ready_groups[s])
      BY <1>1, <2>1 DEF IInv, ReadyIndexExact, Numbered
    <2>3. \A h \in Waiting : Promised!Full(h) => h - 1 \in Live /\ ready_groups[h - 1] = h
      <3>1. ASSUME NEW h \in Waiting, Promised!Full(h)
            PROVE  h - 1 \in Live /\ ready_groups[h - 1] = h
        <4>1. h - 1 \in Live
          BY <1>1, <1>3, <2>1, <3>1 DEF IInv, ReadyIndexExact, Numbered
        <4>2. ready_groups[h - 1] \in Int /\ h - 1 = ready_groups[h - 1] - 1
          BY <1>0, <2>2, <4>1
        <4> QED
          BY <1>0, <4>1, <4>2
      <3> QED
        BY <3>1
    <2>4. AllOut = Promised!Departable
      BY <1>3, <2>2, <2>3 DEF AllOut, Promised!Departable
    <2>5. Promised!Departable = {h \in Waiting : Promised!Full(h)}
      BY <1>3 DEF Promised!Departable
    <2>6. ASSUME NEW h \in NextOut PROVE h \in Promised!NextOut
      <3>1. PICK s \in Live : h = ready_groups[s] /\ \A u \in Live : s <= u
        BY <1>3, <2>6 DEF NextOut
      <3>2. ASSUME NEW g \in Promised!Departable PROVE h <= g
        <4>1. g \in Int /\ g - 1 \in Live
          BY <1>0, <2>3, <2>5
        <4>2. h \in Int /\ s = h - 1 /\ s <= g - 1
          BY <1>0, <2>2, <3>1, <4>1
        <4> QED
          BY <4>1, <4>2
      <3> QED
        BY <2>2, <2>5, <3>1, <3>2 DEF Promised!NextOut
    <2>7. ASSUME NEW h \in Promised!NextOut PROVE h \in NextOut
      <3>1. h \in Waiting /\ h - 1 \in Live /\ ready_groups[h - 1] = h
        BY <2>3, <2>5, <2>7 DEF Promised!NextOut
      <3>2. ASSUME NEW u \in Live PROVE h - 1 <= u
        <4>1. /\ ready_groups[u] \in Promised!Departable /\ u = ready_groups[u] - 1
              /\ ready_groups[u] \in Int
          BY <1>0, <2>2, <2>5
        <4>2. h \in Int /\ h <= ready_groups[u]
          BY <1>0, <2>7, <3>1, <4>1 DEF Promised!NextOut
        <4> QED
          BY <4>1, <4>2
      <3> QED
        BY <1>3, <3>1, <3>2 DEF NextOut
    <2> QED
      BY <2>4, <2>6, <2>7
  <1> QED
    BY <1>2, <1>3
-----------------------------------------------------------------------------
\* Each step of the queue is the discipline's step of the same name.

LEMMA AdmissibleAgrees ==
  ASSUME IInv, NEW id, NEW list
  PROVE  Admissible(id, list) <=> Promised!Admissible(id, list)
  <1>1. id \notin DOMAIN groups <=> Promised!Named(id) = {}
    BY LookupsAgree
  <1>2. \A m : m \notin DOMAIN member_index <=> Promised!Holding(m) = {}
    BY LookupsAgree
  <1>3. Range(list) \cap DOMAIN member_index = {}
          <=> \A i \in DOMAIN list : list[i] \notin DOMAIN member_index
    BY DEF Range
  <1>4. WellFormed(list) <=> Promised!WellFormed(list)
    BY DEF WellFormed, Promised!WellFormed, IsInjective, Promised!IsInjective
  <1> QED
    BY <1>1, <1>2, <1>3, <1>4 DEF Admissible, Promised!Admissible

LEMMA AdmitMaps ==
  ASSUME IInv, NEW id \in GroupIds, NEW list \in MemberLists, Admit(id, list)
  PROVE  Promised!Admit(id, list)
  <1> DEFINE new == Len(group) + 1
             entry == [group_id |-> id, members |-> Range(list), ready |-> {}]
  <1>1. /\ alive /\ Len(group) < MaxAdmissions /\ Admissible(id, list) /\ alive' = alive
        /\ group' = Append(group, NewGroup(id, list)) /\ groups' = Put(groups, id, new)
        /\ result' = Returns("admit", "Group", <<new>>)
    BY DEF Admit
  <1>2. /\ Len(group) \in Nat /\ Handles = 1..Len(group) /\ group \in Seq(GroupRecord)
        /\ Len(Roster) = Len(group)
        /\ \A h \in Waiting : h \in Handles
    BY GroupType, RosterFacts, WaitingFacts DEF IInv, TypeOK
  <1>3. Waiting' = Waiting \cup {new}
    <2>1. id \notin DOMAIN groups
      BY <1>1 DEF Admissible
    <2>2. /\ DOMAIN groups' = DOMAIN groups \cup {id} /\ groups'[id] = new
          /\ \A i \in DOMAIN groups : groups'[i] = groups[i]
      BY <1>1, <2>1 DEF Put
    <2> QED
      BY <2>2 DEF Waiting
  <1>4. /\ Handles' = 1..new
        /\ group'[new] = NewGroup(id, list) /\ \A h \in Handles : group'[h] = group[h]
    <2>1. NewGroup(id, list) \in GroupRecord
      <3>1. Range(list) \in SUBSET Members
        BY DEF MemberLists, Range
      <3> QED
        BY <3>1, PolicyAssumption DEF NewGroup, GroupRecord, IInv, TypeOK
    <2> QED
      BY <1>1, <1>2, <2>1 DEF Handles
  <1>5. Roster' = Append(Roster, entry)
    <2>1. \A h \in 1..new : Roster'[h] = IF h = new THEN entry ELSE Roster[h]
      <3>1. ASSUME NEW h \in 1..new, h # new PROVE Roster'[h] = Roster[h]
        <4>1. h \in Handles
          BY <1>2, <3>1
        <4> QED
          BY <1>4, <4>1 DEF Roster
      <3>2. Roster'[new] = entry
        <4>1. /\ group'[new].group_id = id /\ group'[new].members = Range(list)
              /\ group'[new].ready = {}
          BY <1>4 DEF NewGroup
        <4>2. new \in Handles'
          BY <1>2, <1>4
        <4>3. Roster'[new] = [group_id |-> group'[new].group_id,
                              members |-> group'[new].members, ready |-> group'[new].ready]
          BY <4>2, Zenon DEF Roster
        <4> QED
          BY <4>1, <4>3
      <3> QED
        BY <3>1, <3>2
    <2>2. DOMAIN Roster = 1..Len(group) /\ DOMAIN Roster' = 1..new
      BY <1>2, <1>4 DEF Roster
    <2>3. Roster = [h \in 1..Len(group) |-> Roster[h]] /\ Roster' = [h \in 1..new |-> Roster'[h]]
      BY <1>2, <1>4 DEF Roster
    <2> HIDE DEF entry, Roster
    <2> DEFINE S == {Roster[h] : h \in 1..Len(group)} \cup {entry}
    <2>4. Roster \in Seq(S) /\ entry \in S /\ Roster' \in Seq(S) /\ Len(Roster') = new
      <3>1. Roster \in [1..Len(group) -> S] /\ entry \in S
        BY <2>2, <2>3
      <3>2. Roster' \in [1..new -> S]
        <4>1. \A h \in 1..new : h # new => h \in 1..Len(group)
          BY <1>2
        <4>2. \A h \in 1..new : Roster'[h] \in S
          BY <2>1, <4>1
        <4> HIDE DEF S, new
        <4> QED
          BY <2>3, <4>2
      <3> HIDE DEF S
      <3> QED
        BY <1>2, <2>2, <3>1, <3>2
    <2> HIDE DEF S
    <2> QED
      BY <1>2, <2>1, <2>4, AppendProperties, SeqEqual
  <1>6. entry = [group_id |-> id, members |-> Promised!Range(list), ready |-> {}]
    BY DEF Range, Promised!Range
  <1>7. Promised!Admissible(id, list)
    BY <1>1, AdmissibleAgrees
  <1>8. result' = Promised!Returns("admit", "Group", <<Len(Roster) + 1>>)
    BY <1>1, <1>2 DEF Returns, Promised!Returns
  <1> HIDE DEF entry, new
  <1>9. Waiting' = Waiting \cup {Len(Roster) + 1}
    BY <1>2, <1>3 DEF new
  <1> QED
    BY <1>1, <1>2, <1>5, <1>6, <1>7, <1>8, <1>9 DEF Promised!Admit

\* A step that leaves the groups' flags and the line alone shows the discipline
\* nothing but its answer.
LEMMA RosterFrame ==
  ASSUME TypeOK, Handles' = Handles,
         \A h \in Handles : /\ group'[h].group_id = group[h].group_id
                            /\ group'[h].members = group[h].members
                            /\ group'[h].ready = group[h].ready
  PROVE  Roster' = Roster
  BY DEF Roster

LEMMA RefuseMaps ==
  ASSUME IInv, NEW call, Refuse(call)
  PROVE  Promised!Refuse(call)
  <1>1. UNCHANGED <<group, groups, alive>> /\ result' = Raises(call)
    BY DEF Refuse, queue
  <1>2. Roster' = Roster /\ Waiting' = Waiting
    BY <1>1 DEF Roster, Waiting, Handles
  <1> QED
    BY <1>1, <1>2 DEF Promised!Refuse, Raises, Promised!Raises, Returns, Promised!Returns

LEMMA MarkMaps ==
  ASSUME IInv, NEW h \in Handles, NEW ms \in SUBSET group[h].members, MarkMembers(h, ms)
  PROVE  /\ Promised!Mark(h, ms)
         /\ IsReady(Marked(h, ms)) <=> Promised!Full(h)'
  <1>1. /\ Handles' = Handles
        /\ \A g \in Handles :
              /\ group'[g].group_id = group[g].group_id
              /\ group'[g].members = group[g].members
              /\ group'[g].ready =
                   IF g = h THEN group[g].ready \cup ms ELSE group[g].ready
              /\ group'[g].ready_count = Cardinality(group'[g].ready)
    BY MarkFrame DEF IInv
  <1>2. Waiting' = Waiting /\ alive' = alive
    BY DEF MarkMembers, Waiting
  <1>3. Roster' = [Roster EXCEPT ![h].ready = @ \cup ms]
    <2>1. \A g \in Handles :
            Roster'[g] = IF g = h THEN [Roster[h] EXCEPT !.ready = Roster[h].ready \cup ms]
                         ELSE Roster[g]
      BY <1>1 DEF Roster
    <2>2. DOMAIN Roster = Handles /\ DOMAIN Roster' = Handles
      BY <1>1 DEF Roster
    <2>3. Roster' = [g \in Handles |-> Roster'[g]] /\ Roster = [g \in Handles |-> Roster[g]]
      BY <1>1 DEF Roster
    <2> HIDE DEF Roster
    <2> QED
      BY <2>1, <2>2, <2>3
  <1>4. IsReady(Marked(h, ms)) <=> group[h].ready \cup ms = group[h].members
    <2>1. group[h].ready \cup ms \in SUBSET group[h].members
      BY GroupType DEF IInv
    <2>2. IsFiniteSet(group[h].members)
      BY GroupFinite DEF IInv
    <2>3. group[h].ready \cup ms = group[h].members
            <=> Cardinality(group[h].ready \cup ms) = Cardinality(group[h].members)
      BY <2>1, <2>2, FS_Subset
    <2>4. Cardinality(group[h].ready \cup ms)
            = group[h].ready_count + Cardinality(ms \ group[h].ready)
      BY CompletesLastFlag DEF IInv
    <2>5. /\ Marked(h, ms).members = group[h].members
          /\ Marked(h, ms).ready_count
               = group[h].ready_count + Cardinality(ms \ group[h].ready)
      <3>1. group[h] \in GroupRecord
        BY GroupType DEF IInv
      <3>2. Marked(h, ms) =
              [group[h] EXCEPT
                 !.ready = group[h].ready \cup ms,
                 !.ready_count = group[h].ready_count + Cardinality(ms \ group[h].ready)]
        BY DEF Marked
      <3> QED
        BY <3>1, <3>2 DEF GroupRecord
    <2> QED
      BY <2>3, <2>4, <2>5 DEF IsReady
  <1>5. Promised!Full(h)' <=> group[h].ready \cup ms = group[h].members
    BY <1>1 DEF Promised!Full, Roster
  <1> QED
    BY <1>2, <1>3, <1>4, <1>5 DEF Promised!Mark

\* Taking groups out shows the discipline that they left, and nothing else.
LEMMA LeaveMaps ==
  ASSUME IInv, NEW hs \in SUBSET Waiting, Remove(hs)
  PROVE  Promised!Leave(hs)
  <1>1. /\ Handles' = Handles /\ Waiting' = Waiting \ hs
        /\ \A g \in Handles : /\ group'[g].group_id = group[g].group_id
                              /\ group'[g].members = group[g].members
                              /\ group'[g].ready = group[g].ready
    BY RemoveFrame DEF IInv
  <1>2. Roster' = Roster
    BY <1>1, RosterFrame DEF IInv
  <1>3. alive' = alive
    BY DEF Remove
  <1> QED
    BY <1>1, <1>2, <1>3 DEF Promised!Leave

\* The two specifications mean the same lists.
LEMMA ListsAgree ==
  ASSUME NEW hs
  PROVE  /\ InHandleOrder(hs) = Promised!InHandleOrder(hs)
         /\ \A key : Sorted(hs, key) = Promised!Sorted(hs, key)
  <1>1. Cardinality(hs) = Promised!Cardinality(hs)
    BY DEF Cardinality, Promised!Cardinality
  <1>2. \A key : Sorted(hs, key) = Promised!Sorted(hs, key)
    BY <1>1 DEF Sorted, Promised!Sorted
  <1> QED
    BY <1>1, <1>2 DEF InHandleOrder, Promised!InHandleOrder

\* A list by age, whatever the policy takes for age, is a list in arrival order.
LEMMA AgeIsArrival ==
  ASSUME IInv, NEW hs \in SUBSET Handles,
         NEW list \in Sorted(hs, [h \in hs |-> Age(h)])
  PROVE  list \in Promised!InHandleOrder(hs)
  <1>1. \A h \in hs : h \in Int /\ (Age(h) = h \/ Age(h) = h - 1)
    BY GroupType DEF IInv, Numbered, Age
  <1>2. \A g, h \in hs : (Age(g) < Age(h)) => g < h
    <2>1. ASSUME NEW g \in hs, NEW h \in hs, Age(g) < Age(h) PROVE g < h
      <3>1. CASE StrictOrder
        BY <2>1, <3>1 DEF Age
      <3>2. CASE ~ StrictOrder
        <4>1. g - 1 < h - 1
          BY <2>1, <3>2 DEF Age, IInv, Numbered
        <4> QED
          BY <1>1, <4>1
      <3> QED
        BY <3>1, <3>2
    <2> QED
      BY <2>1
  <1>3. /\ list \in [1..Cardinality(hs) -> hs]
        /\ \A i, j \in DOMAIN list : i < j => Age(list[i]) < Age(list[j])
    BY DEF Sorted
  <1>4. \A i, j \in DOMAIN list : i < j => list[i] < list[j]
    BY <1>2, <1>3
  <1>5. \A i \in DOMAIN list : [h \in hs |-> h][list[i]] = list[i]
    BY <1>3
  <1> DEFINE id == [h \in hs |-> h]
  <1> HIDE DEF id
  <1>6. list \in Sorted(hs, id)
    BY <1>3, <1>4, <1>5 DEF Sorted, id
  <1> QED
    BY <1>6, ListsAgree DEF InHandleOrder, id

LEMMA MarkingMaps ==
  ASSUME IInv
  PROVE  /\ \A h \in Handles, m \in Members : GroupMarkReady(h, m) => Promised!MarkReady(h, m)
         /\ \A m \in Members : MarkReady(m) => \E h \in Handles : Promised!MarkReady(h, m)
         /\ \A id \in GroupIds :
              MarkGroupReady(id) => \E h \in Waiting : Promised!MarkGroupReady(h)
  <1> USE DEF Returns, Promised!Returns
  <1>1. ASSUME NEW h \in Handles, NEW m \in Members, GroupMarkReady(h, m)
        PROVE  Promised!MarkReady(h, m)
    <2>1. m \in group[h].members /\ MarkMembers(h, {m}) /\ {m} \in SUBSET group[h].members
      BY <1>1 DEF GroupMarkReady
    <2>2. Promised!Mark(h, {m}) /\ (IsReady(Marked(h, {m})) <=> Promised!Full(h)')
      BY <2>1, MarkMaps
    <2>3. m \in Roster[h].members
      BY <2>1, RosterFacts DEF IInv
    <2>4. Answer(IsReady(Marked(h, {m}))) = Promised!Answer(Promised!Full(h)')
      BY <2>2 DEF Answer, Promised!Answer
    <2>5. result' = Returns("mark_ready", Answer(IsReady(Marked(h, {m}))), <<>>)
      BY <1>1 DEF GroupMarkReady
    <2> QED
      BY <2>2, <2>3, <2>4, <2>5 DEF Promised!MarkReady
  <1>2. ASSUME NEW m \in Members, MarkReady(m)
        PROVE  \E h \in Handles : Promised!MarkReady(h, m)
    <2>1. m \in DOMAIN member_index /\ GroupMarkReady(groups[member_index[m]], m)
      BY <1>2 DEF MarkReady
    <2>2. groups[member_index[m]] \in Handles
      <3>1. groups[member_index[m]] \in Promised!Holding(m)
        BY <2>1, LookupsAgree
      <3> QED
        BY <3>1, WaitingFacts DEF Promised!Holding, IInv
    <2> QED
      BY <1>1, <2>1, <2>2
  <1>3. ASSUME NEW id \in GroupIds, MarkGroupReady(id)
        PROVE  \E h \in Waiting : Promised!MarkGroupReady(h)
    <2> DEFINE h == groups[id]
    <2>1. h \in Waiting /\ h \in Handles
      BY <1>3, WaitingFacts DEF MarkGroupReady, Waiting, IInv
    <2>2. /\ MarkMembers(h, group[h].members)
          /\ result' = Returns("mark_group_ready", "True", <<>>)
      BY <1>3 DEF MarkGroupReady
    <2>3. Promised!Mark(h, group[h].members)
      BY <2>1, <2>2, MarkMaps
    <2>4. Roster[h].members = group[h].members
      BY <2>1, RosterFacts DEF IInv
    <2> QED
      BY <2>1, <2>2, <2>3, <2>4 DEF Promised!MarkGroupReady
  <1> QED
    BY <1>1, <1>2, <1>3

LEMMA DepartureMaps ==
  ASSUME IInv
  PROVE  /\ Peek => Promised!Peek
         /\ Release => Promised!Release
         /\ ReleaseNone => Promised!ReleaseNone
         /\ ReleaseAll => Promised!ReleaseAll
         /\ Clear => Promised!Clear
         /\ DropQueue => Promised!DropQueue
         /\ \A id \in GroupIds : Cancel(id) => Promised!Cancel(id)
  <1> USE DEF Returns, Promised!Returns
  <1>1. AllOut = Promised!Departable /\ NextOut = Promised!NextOut
    BY OutAgrees
  <1>2. AllOut \subseteq Waiting /\ NextOut \subseteq Waiting /\ Waiting \subseteq Handles
    BY OutIsWaiting, WaitingFacts DEF IInv
  <1>3. ASSUME Peek PROVE Promised!Peek
    <2>1. Roster' = Roster /\ Waiting' = Waiting /\ alive' = alive /\ alive
      BY <1>3 DEF Peek, Roster, Waiting, Handles
    <2> QED
      BY <1>1, <1>3, <2>1 DEF Peek, Promised!Peek
  <1>4. ASSUME Release PROVE Promised!Release
    <2>1. PICK h \in NextOut : /\ RemoveOne(h, Purged)
                               /\ result' = Returns("release", "Group", <<h>>)
      BY <1>4 DEF Release
    <2>2. Promised!Leave({h})
      BY <1>2, <2>1, LeaveMaps DEF RemoveOne
    <2> QED
      BY <1>1, <1>4, <2>1, <2>2 DEF Release, Promised!Release
  <1>5. ASSUME ReleaseNone PROVE Promised!ReleaseNone
    <2>1. Roster' = Roster /\ Waiting' = Waiting /\ alive' = alive
      BY <1>5 DEF ReleaseNone, Roster, Waiting, Handles
    <2> QED
      BY <1>1, <1>5, <2>1 DEF ReleaseNone, Promised!ReleaseNone, Promised!Leave
  <1>6. ASSUME ReleaseAll PROVE Promised!ReleaseAll
    <2>1. PICK list \in Sorted(AllOut, [h \in AllOut |-> Age(h)]) :
            result' = Returns("release_all", "List", list)
      BY <1>6 DEF ReleaseAll
    <2>2. list \in Promised!InHandleOrder(AllOut)
      BY <1>2, <2>1, AgeIsArrival
    <2>3. Promised!Leave(AllOut) /\ alive
      BY <1>2, <1>6, LeaveMaps DEF ReleaseAll
    <2> QED
      BY <1>1, <2>1, <2>2, <2>3 DEF Promised!ReleaseAll
  <1>7. ASSUME Clear PROVE Promised!Clear
    <2>1. /\ Handles' = Handles
          /\ \A h \in Handles : /\ group'[h].group_id = group[h].group_id
                                /\ group'[h].members = group[h].members
                                /\ group'[h].ready = group[h].ready
      <3>1. \A h \in Handles : group[h] \in GroupRecord
        BY GroupType DEF IInv
      <3>2. /\ Handles' = Handles
            /\ \A h \in Handles : group'[h] = IF h \in Waiting
                                              THEN [group[h] EXCEPT !.on_ready = FALSE]
                                              ELSE group[h]
        BY <1>7 DEF Clear, Detached, Handles
      <3> QED
        BY <3>1, <3>2 DEF GroupRecord
    <2>2. Roster' = Roster
      BY <2>1, RosterFrame DEF IInv
    <2>3. Waiting' = {} /\ alive' = alive /\ alive
      BY <1>7 DEF Clear, Waiting, EmptyDict
    <2>4. InHandleOrder(Waiting) = Promised!InHandleOrder(Waiting)
      BY ListsAgree
    <2> QED
      BY <1>7, <2>2, <2>3, <2>4 DEF Clear, Promised!Clear, Promised!Leave
  <1>8. ASSUME DropQueue PROVE Promised!DropQueue
    <2>1. Roster' = Roster /\ Waiting' = {}
      BY <1>8 DEF DropQueue, Roster, Waiting, Handles, EmptyDict
    <2> QED
      BY <1>8, <2>1 DEF DropQueue, Promised!DropQueue
  <1>9. ASSUME NEW id \in GroupIds, Cancel(id) PROVE Promised!Cancel(id)
    <2>1. /\ alive /\ id \in DOMAIN groups /\ Remove({groups[id]})
          /\ result' = Returns("cancel", "Group", <<groups[id]>>)
      BY <1>9 DEF Cancel, RemoveOne
    <2>2. groups[id] \in Waiting /\ groups[id] \in Promised!Named(id)
      BY <2>1, LookupsAgree DEF Waiting
    <2>3. Promised!Leave({groups[id]})
      BY <2>1, <2>2, LeaveMaps
    <2> QED
      BY <2>1, <2>2, <2>3 DEF Promised!Cancel
  <1> QED
    BY <1>3, <1>4, <1>5, <1>6, <1>7, <1>8, <1>9
-----------------------------------------------------------------------------
\* The refinement.

LEMMA InitMaps == Init => Promised!Init
  BY DEF Init, Promised!Init, Roster, Waiting, Handles, EmptyDict, Returns, Promised!Returns

LEMMA NextMaps == IInv /\ [Next]_vars => [Promised!Next]_(Promised!vars)
  <1> SUFFICES ASSUME IInv, [Next]_vars PROVE [Promised!Next]_(Promised!vars)
    OBVIOUS
  <1>0. /\ Promised!Handles = Handles
        /\ \A h \in Handles : Roster[h].members = group[h].members
    BY RosterFacts DEF IInv
  <1>1. ASSUME NEW id \in GroupIds, NEW list \in MemberLists,
               Admit(id, list) \/ AdmitRefused(id, list)
        PROVE  Promised!Next
    <2>1. CASE Admit(id, list)
      <3>1. list \in Promised!MemberLists
        BY DEF MemberLists, Promised!MemberLists
      <3>2. Promised!Admit(id, list)
        BY <2>1, AdmitMaps
      <3> QED
        BY <3>1, <3>2 DEF Promised!Next
    <2>2. CASE AdmitRefused(id, list)
      <3>1. list \in Promised!MemberLists
        BY DEF MemberLists, Promised!MemberLists
      <3>2. alive /\ ~ Promised!Admissible(id, list) /\ Promised!Refuse("admit")
        BY <2>2, AdmissibleAgrees, RefuseMaps DEF AdmitRefused
      <3> QED
        BY <3>1, <3>2 DEF Promised!Next
    <2> QED
      BY <1>1, <2>1, <2>2
  <1>2. ASSUME NEW h \in Handles, NEW m \in Members,
               GroupMarkReady(h, m) \/ GroupMarkReadyRefused(h, m)
        PROVE  Promised!Next
    <2>1. \/ Promised!MarkReady(h, m)
          \/ m \notin Roster[h].members /\ Promised!Refuse("mark_ready")
      BY <1>0, <1>2, MarkingMaps, RefuseMaps DEF GroupMarkReadyRefused
    <2> QED
      BY <1>0, <2>1 DEF Promised!Next
  <1>3. ASSUME NEW m \in Members, MarkReady(m) \/ MarkReadyRefused(m)
        PROVE  Promised!Next
    <2>1. \/ \E h \in Handles : Promised!MarkReady(h, m)
          \/ alive /\ Promised!Holding(m) = {} /\ Promised!Refuse("mark_ready")
      BY <1>3, MarkingMaps, RefuseMaps, LookupsAgree DEF MarkReadyRefused
    <2> QED
      BY <1>0, <2>1 DEF Promised!Next
  <1>4. ASSUME NEW id \in GroupIds, MarkGroupReady(id) \/ MarkGroupReadyRefused(id)
        PROVE  Promised!Next
    <2>1. \/ \E h \in Waiting : Promised!MarkGroupReady(h)
          \/ alive /\ Promised!Named(id) = {} /\ Promised!Refuse("mark_group_ready")
      BY <1>4, MarkingMaps, RefuseMaps, LookupsAgree DEF MarkGroupReadyRefused
    <2> QED
      BY <2>1 DEF Promised!Next
  <1>5. ASSUME NEW id \in GroupIds, Cancel(id) \/ CancelRefused(id)
        PROVE  Promised!Next
    <2>1. \/ Promised!Cancel(id)
          \/ alive /\ Promised!Named(id) = {} /\ Promised!Refuse("cancel")
      BY <1>5, DepartureMaps, RefuseMaps, LookupsAgree DEF CancelRefused
    <2> QED
      BY <2>1 DEF Promised!Next
  <1>6. CASE Peek \/ Release \/ ReleaseNone \/ ReleaseAll \/ Clear \/ DropQueue
    BY <1>6, DepartureMaps DEF Promised!Next
  <1>7. CASE UNCHANGED vars
    BY <1>7 DEF vars, queue, Promised!vars, Roster, Waiting, Handles
  <1> QED
    BY <1>1, <1>2, <1>3, <1>4, <1>5, <1>6, <1>7 DEF Next

\* The queue, with all that makes it fast, is an implementation of the discipline:
\* every call is answered as a look at the flags of the waiting groups would answer
\* it, for every number of groups, members and calls.
THEOREM Refinement == Spec => ImplementsDiscipline
  BY Consistency, InitMaps, NextMaps, PTL DEF Spec, ImplementsDiscipline, Promised!Spec

\* The discipline of Tito.tla and that of DisciplineProofs.tla are one.
LEMMA SameDiscipline ==
  /\ Promised!Init <=> Proved!Init
  /\ [Promised!Next]_(Promised!vars) <=> [Proved!Next]_(Proved!vars)
  /\ Promised!vars = Proved!vars
  <1>1. Promised!Init <=> Proved!Init
    BY DEF Promised!Init, Proved!Init, Promised!Returns, Proved!Returns
  <1>2. Promised!vars = Proved!vars
    BY DEF Promised!vars, Proved!vars
  <1>3. [Promised!Next]_(Promised!vars) <=> [Proved!Next]_(Proved!vars)
    BY DEF
           Promised!vars, Proved!vars, Promised!Handles, Proved!Handles,
           Promised!Full, Proved!Full, Promised!Departable, Proved!Departable,
           Promised!NextOut, Proved!NextOut, Promised!Named, Proved!Named,
           Promised!Holding, Proved!Holding, Promised!Admissible, Proved!Admissible,
           Promised!Admit, Proved!Admit, Promised!Refuse, Proved!Refuse,
           Promised!Mark, Proved!Mark, Promised!MarkReady, Proved!MarkReady,
           Promised!MarkGroupReady, Proved!MarkGroupReady, Promised!Peek,
           Proved!Peek, Promised!Leave, Proved!Leave, Promised!Release,
           Proved!Release, Promised!ReleaseNone, Proved!ReleaseNone,
           Promised!ReleaseAll, Proved!ReleaseAll, Promised!Cancel, Proved!Cancel,
           Promised!Clear, Proved!Clear, Promised!DropQueue, Proved!DropQueue,
           Promised!Next, Proved!Next, Promised!MemberLists, Proved!MemberLists,
           Promised!WellFormed, Proved!WellFormed, Promised!IsInjective,
           Proved!IsInjective, Promised!Range, Proved!Range, Promised!Returns,
           Proved!Returns, Promised!Raises, Proved!Raises, Promised!Answer,
           Proved!Answer, Promised!Sorted, Proved!Sorted, Promised!InHandleOrder,
           Proved!InHandleOrder, Promised!Cardinality, Proved!Cardinality
  <1> QED
    BY <1>1, <1>2, <1>3

LEMMA Inherits == Spec => Proved!Spec
  BY Refinement, SameDiscipline, PTL DEF ImplementsDiscipline, Promised!Spec, Proved!Spec

\* What DisciplineProofs.tla takes from TitoCalls.tla holds here.
LEMMA SameAssumptions ==
  /\ StrictOrder \in BOOLEAN
  /\ Proved!IsFiniteSet(Members)
  /\ MaxAdmissions \in Nat /\ MaxGroupSize \in Nat
  BY PolicyAssumption, MembersAssumption, BoundsAssumption
     DEF Proved!IsFiniteSet, IsFiniteSet
-----------------------------------------------------------------------------
\* What the queue inherits from the discipline.

\* No member is credited to two groups and no id names two: after any calls, each
\* waits at most once.
THEOREM OneGroupEachHolds == Spec => []OneGroupEach
  <1>1. Proved!Spec => [](Proved!TypeOK /\ Proved!OneGroupEach)
    BY Proved!Alone, SameAssumptions, Zenon
  <1>2. Proved!OneGroupEach => OneGroupEach
    BY DEF Proved!OneGroupEach, OneGroupEach, Promised!OneGroupEach, Proved!Named,
           Promised!Named, Proved!Holding, Promised!Holding
  <1> QED
    BY <1>1, <1>2, Inherits, PTL

\* However calls follow one another, release, release_all, cancel and clear hand each
\* group over once, and no other call loses one.
THEOREM HandedToOneCallerHolds == Spec => HandedToOneCaller
  <1>1. Proved!Spec => Proved!HandedToOneCaller
    BY Proved!HandedOver, SameAssumptions, Zenon
  <1>2. [Proved!HandsOver]_(Proved!vars) => [Promised!HandsOver]_(Promised!vars)
    BY DEF Proved!vars, Promised!vars, Proved!HandsOver, Promised!HandsOver, Proved!Departing,
       Promised!Departing, Proved!Range, Promised!Range, Proved!IsInjective,
       Promised!IsInjective
  <1> QED
    BY <1>1, <1>2, Inherits, PTL
       DEF HandedToOneCaller, Promised!HandedToOneCaller, Proved!HandedToOneCaller

\* What release and release_all let out is complete, and nothing older that could
\* have left is passed over.
THEOREM ReleasedInOrderHolds == Spec => ReleasedInOrder
  <1>1. Proved!Spec => Proved!ReleasedInOrder
    BY Proved!InOrder, SameAssumptions, Zenon
  <1>2. [Proved!Releases]_(Proved!vars) => [Promised!Releases]_(Promised!vars)
    BY DEF Proved!vars, Promised!vars, Proved!Releases, Promised!Releases, Proved!Full, Promised!Full
  <1> QED
    BY <1>1, <1>2, Inherits, PTL
       DEF ReleasedInOrder, Promised!ReleasedInOrder, Proved!ReleasedInOrder

\* peek and release answer None only when nothing may leave, and release_all leaves
\* nothing that may.
THEOREM NothingLeftBehindHolds == Spec => NothingLeftBehind
  <1>1. Proved!Spec => Proved!NothingLeftBehind
    BY Proved!NothingLeft, SameAssumptions, Zenon
  <1>2. [Proved!Exhausts]_(Proved!vars) => [Promised!Exhausts]_(Promised!vars)
    BY DEF Proved!vars, Promised!vars, Proved!Exhausts, Promised!Exhausts, Proved!Departable,
       Promised!Departable, Proved!Full, Promised!Full
  <1> QED
    BY <1>1, <1>2, Inherits, PTL
       DEF NothingLeftBehind, Promised!NothingLeftBehind, Proved!NothingLeftBehind

\* A group that has left never waits again, and no flag is taken back.
THEOREM NeverBackHolds == Spec => NeverBack
  <1>1. Proved!Spec => Proved!NeverBack
    BY Proved!Forward, SameAssumptions, Zenon
  <1>2. [Proved!OnlyForward]_(Proved!vars) => [Promised!OnlyForward]_(Promised!vars)
    BY DEF Proved!vars, Promised!vars, Proved!OnlyForward, Promised!OnlyForward, Proved!Handles,
       Promised!Handles
  <1> QED
    BY <1>1, <1>2, Inherits, PTL DEF NeverBack, Promised!NeverBack, Proved!NeverBack

\* A group that has left stays out of the queue and of its ready index, whatever is
\* done to the Group object that its former owner still holds.
THEOREM DepartedStaysOutHolds == Spec => DepartedStaysOut
  <1>1. IInv' => \A h \in Range(ready_groups') : h \in Waiting'
    BY DEF IInv, ReadyIndexExact, Range
  <1>2. IInv /\ [Promised!OnlyForward]_(Promised!vars)
          => \A h \in Handles \ Waiting : h \notin Waiting'
    <2>1. IInv => Promised!Handles = Handles
      BY RosterFacts DEF IInv
    <2> QED
      BY <2>1 DEF Promised!OnlyForward, Promised!vars
  <1>3. IInv /\ IInv' /\ [Promised!OnlyForward]_(Promised!vars) => [StaysOut]_vars
    BY <1>1, <1>2 DEF StaysOut
  <1> QED
    BY <1>3, Consistency, NeverBackHolds, PTL
       DEF NeverBack, Promised!NeverBack, DepartedStaysOut
-----------------------------------------------------------------------------
\* What a caller may rely on between calls.

\* The indexes lead to the groups that wait, whose members are finitely many, and are
\* empty when none waits.
LEMMA IndexFacts ==
  ASSUME IInv
  PROVE  /\ Len(group) \in Nat /\ DOMAIN group = 1..Len(group)
         /\ \A h \in DOMAIN group :
              /\ group[h].members \subseteq Members /\ group[h].ready \subseteq group[h].members
              /\ IsReady(group[h]) <=> group[h].ready = group[h].members
         /\ DOMAIN groups \subseteq GroupIds
         /\ \A id \in DOMAIN groups :
              groups[id] \in DOMAIN group /\ group[groups[id]].group_id = id
         /\ \A id \in DOMAIN groups : \A m \in group[groups[id]].members :
              m \in DOMAIN member_index /\ member_index[m] = id
         /\ \A m \in DOMAIN member_index :
              /\ member_index[m] \in DOMAIN groups
              /\ m \in group[groups[member_index[m]]].members
         /\ DOMAIN groups = {} => ready_groups = EmptyDict
         /\ StrictOrder => ready_groups = EmptyDict
  <1> USE DEF IInv
  <1>1. /\ Len(group) \in Nat /\ DOMAIN group = 1..Len(group)
        /\ \A h \in DOMAIN group : /\ group[h].members \subseteq Members
                                   /\ group[h].ready \subseteq group[h].members
    BY GroupType DEF Handles
  <1>2. \A h \in DOMAIN group : IsReady(group[h]) <=> group[h].ready = group[h].members
    BY ReadyIsFull DEF Handles
  <1>3. \A id \in DOMAIN groups :
          groups[id] \in DOMAIN group /\ group[groups[id]].group_id = id
    BY DEF TypeOK, IndexesAgree, Handles
  <1>4. \A id \in DOMAIN groups : \A m \in group[groups[id]].members :
          m \in DOMAIN member_index /\ member_index[m] = id
    BY <1>3 DEF IndexesAgree, Waiting
  <1>5. \A m \in DOMAIN member_index :
          member_index[m] \in DOMAIN groups /\ m \in group[groups[member_index[m]]].members
    <2> TAKE m \in DOMAIN member_index
    <2>1. PICK h \in Waiting : m \in group[h].members
      BY DEF IndexesAgree
    <2>2. member_index[m] = group[h].group_id
      BY <2>1 DEF IndexesAgree
    <2>3. group[h].group_id \in DOMAIN groups /\ groups[group[h].group_id] = h
      BY WaitingFacts
    <2> QED
      BY <2>1, <2>2, <2>3
  <1>6. (DOMAIN groups = {} \/ StrictOrder) => DOMAIN ready_groups = {}
    BY DEF ReadyIndexExact, Waiting
  <1>7. DOMAIN ready_groups = {} => ready_groups = EmptyDict
    BY DEF TypeOK, EmptyDict
  <1> QED
    BY <1>1, <1>2, <1>3, <1>4, <1>5, <1>6, <1>7 DEF TypeOK

\* Which of the waiting groups may leave, and which of those leaves first.
LEMMA OutFacts ==
  ASSUME IInv
  PROVE  /\ NextOut \subseteq Waiting /\ AllOut \subseteq Waiting
         /\ NextOut = {h \in AllOut : \A g \in AllOut : h <= g}
         /\ NextOut = {} => AllOut = {}
         /\ \A h \in Waiting : h \in AllOut <=>
              /\ group[h].ready = group[h].members
              /\ StrictOrder =>
                   \A g \in Waiting : g < h => group[g].ready = group[g].members
  <1>1. NextOut \subseteq Waiting /\ AllOut \subseteq Waiting
    BY OutIsWaiting
  <1>2. AllOut = Promised!Departable /\ NextOut = Promised!NextOut
    BY OutAgrees
  <1>3. NextOut = {h \in AllOut : \A g \in AllOut : h <= g}
    BY <1>2 DEF Promised!NextOut
  <1>4. NextOut = {} => AllOut = {}
    <2>1. AllOut \in SUBSET Nat
      BY <1>1, WaitingFacts, GroupType DEF IInv
    <2>2. AllOut # {} => \E h \in AllOut : \A g \in AllOut : h <= g
      BY <2>1, SameAssumptions, Proved!LeastNatural, Zenon
    <2> QED
      BY <1>3, <2>2
  <1>5. \A h \in Waiting : Promised!Full(h) <=> group[h].ready = group[h].members
    <2>1. \A h \in Waiting : h \in Handles
      BY WaitingFacts DEF IInv
    <2> QED
      BY <2>1, ReadyIsFull
  <1> QED
    BY <1>1, <1>2, <1>3, <1>4, <1>5 DEF Promised!Departable

\* release_all names each of the groups that it lets out, and names it once, in order
\* of arrival.
LEMMA AllNamedOnce ==
  ASSUME IInv, ReleaseAll
  PROVE  /\ Range(result'.groups) = AllOut /\ IsInjective(result'.groups)
         /\ result'.groups \in Seq(AllOut)
         /\ \A i, j \in DOMAIN result'.groups : i < j => result'.groups[i] < result'.groups[j]
  <1>1. PICK list \in Sorted(AllOut, [h \in AllOut |-> Age(h)]) :
          result' = Returns("release_all", "List", list)
    BY DEF ReleaseAll
  <1>2. AllOut \in SUBSET Handles
    BY OutIsWaiting, WaitingFacts DEF IInv
  <1>3. IsFiniteSet(AllOut) /\ AllOut \in SUBSET Nat
    BY <1>2, HandlesFinite, GroupType DEF IInv
  <1>4. [h \in AllOut |-> Age(h)] \in [AllOut -> Int]
    <2>1. \A h \in AllOut : Age(h) \in Nat
      BY <1>2, <1>3, GroupType DEF IInv, Age
    <2>2. \A h \in AllOut : Age(h) \in Int
      BY <2>1
    <2> QED
      BY <2>2
  <1>5. list \in Seq(AllOut)
    BY <1>1, <1>3, SortedType
  <1>6. Range(list) = AllOut /\ IsInjective(list)
    <2>1. list \in Proved!Sorted(AllOut, [h \in AllOut |-> Age(h)]) /\ Proved!IsFiniteSet(AllOut)
      BY <1>1, <1>3 DEF Sorted, Proved!Sorted, Proved!Cardinality, Cardinality,
                        Proved!IsFiniteSet, IsFiniteSet
    <2>2. Proved!Range(list) = AllOut /\ Proved!IsInjective(list)
      BY <1>3, <1>4, <2>1, SameAssumptions, Proved!SortedNamesAll, Zenon
    <2> QED
      BY <2>2 DEF Proved!Range, Range, Proved!IsInjective, IsInjective
  <1>7. result'.groups = list
    BY <1>1 DEF Returns
  <1>8. \A i, j \in DOMAIN list : i < j => list[i] < list[j]
    <2> DEFINE id == [h \in AllOut |-> h]
    <2>1. list \in Promised!InHandleOrder(AllOut)
      BY <1>1, <1>2, AgeIsArrival
    <2>2. \A i, j \in DOMAIN list : i < j => id[list[i]] < id[list[j]]
      BY <2>1 DEF Promised!InHandleOrder, Promised!Sorted
    <2>3. \A i \in DOMAIN list : id[list[i]] = list[i]
      BY <1>5
    <2> HIDE DEF id
    <2> QED
      BY <2>2, <2>3
  <1> QED
    BY <1>5, <1>6, <1>7, <1>8
=============================================================================
