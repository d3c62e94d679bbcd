-------------------------------- MODULE Tito --------------------------------
(***************************************************************************)
(* The TITO queue of tito/tito.py: TitoQueue, the Group objects it admits, *)
(* and the indexes it keeps about them.                                    *)
(*                                                                         *)
(* A queue and the groups it has admitted share one reentrant lock, so at  *)
(* this level every method is one step. Callers are not modelled as        *)
(* processes: any caller may call any method at any time, on the queue or  *)
(* on a Group object it still holds after the group has departed.          *)
(*                                                                         *)
(* A Group object is named by its handle, its index in `group`. Handles    *)
(* are given out by admit, so handle order is the order in which admit     *)
(* inserted the groups into the OrderedDict `groups`, which is the order   *)
(* in which that dictionary is iterated.                                   *)
(***************************************************************************)
EXTENDS TitoCalls

CONSTANT
  CompactSlack    \* entries the ready heap may carry beyond twice the live ones

ASSUME SlackAssumption == CompactSlack \in Nat

VARIABLES
  group,          \* every Group object admitted so far
  groups,         \* TitoQueue._groups: group id -> handle, for waiting groups
  member_index,   \* TitoQueue._member_index: member -> group id
  next_sequence,  \* TitoQueue._sequence
  ready_groups,   \* TitoQueue._ready_groups: sequence -> handle
  ready_heap,     \* TitoQueue._ready_heap: the set of sequences in the heap
  alive,          \* FALSE once the application has dropped the queue
  result          \* what the last call gave its caller

queue == <<groups, member_index, next_sequence, ready_groups, ready_heap, alive>>
vars == <<group, queue, result>>

GroupRecord == [group_id: GroupIds, members: SUBSET Members,
                ready: SUBSET Members, ready_count: Nat,
                sequence: Nat, on_ready: BOOLEAN]

Handles == DOMAIN group
Waiting == {groups[id] : id \in DOMAIN groups}

EmptyDict == [x \in {} |-> x]
Put(dict, key, value) ==
  [x \in DOMAIN dict \cup {key} |-> IF x = key THEN value ELSE dict[x]]
Without(dict, keys) == Restrict(dict, DOMAIN dict \ keys)
-----------------------------------------------------------------------------
\* Groups.

\* Group.is_ready: the counter, not the flags, decides.
IsReady(g) == g.ready_count = Cardinality(g.members)

\* A call that raises TitoError changes nothing.
Refuse(call) ==
  /\ result' = Raises(call)
  /\ UNCHANGED <<group, queue>>

\* Marking the members ms of h takes its counter up to its size, so the
\* group's callback runs. Members already marked are not counted again.
Completes(h, ms) ==
  LET size  == Cardinality(group[h].members)
      fresh == ms \ group[h].ready
  IN  group[h].ready_count < size /\ size <= group[h].ready_count + Cardinality(fresh)

\* _note_ready, reached through the callback, which finds the queue only
\* through a weak reference: a dropped queue is not notified.
NoteReady(h) ==
  IF alive /\ group[h].sequence \notin DOMAIN ready_groups
  THEN /\ ready_groups' = Put(ready_groups, group[h].sequence, h)
       /\ ready_heap' = ready_heap \cup {group[h].sequence}
  ELSE UNCHANGED <<ready_groups, ready_heap>>

\* Mutants of Marked: the new flags replace the old ones; a member that was marked
\* before is counted again.
MarkedAfresh(h, ms) ==
  [group[h] EXCEPT !.ready = ms,
                   !.ready_count = @ + Cardinality(ms \ group[h].ready)]
MarkedAgain(h, ms) ==
  [group[h] EXCEPT !.ready = @ \cup ms, !.ready_count = @ + Cardinality(ms)]

\* The group with the flags of ms set; only fresh flags are counted.
Marked(h, ms) ==
  [group[h] EXCEPT !.ready = @ \cup ms,
                   !.ready_count = @ + Cardinality(ms \ group[h].ready)]

\* Group.mark_ready for every member of ms in turn.
MarkMembers(h, ms) ==
  /\ group' = [group EXCEPT ![h] = Marked(h, ms)]
  /\ IF Completes(h, ms) /\ group[h].on_ready
     THEN NoteReady(h)
     ELSE UNCHANGED <<ready_groups, ready_heap>>
  /\ UNCHANGED <<groups, member_index, next_sequence, alive>>
-----------------------------------------------------------------------------
\* Admission.

\* Mutant of Admissible: members that already wait are admitted again.
AdmissibleTwice(id, list) == WellFormed(list) /\ id \notin DOMAIN groups

Admissible(id, list) ==
  /\ WellFormed(list)
  /\ id \notin DOMAIN groups
  /\ Range(list) \cap DOMAIN member_index = {}

\* Mutants of NewGroup: the sequence is the number of waiting groups; the
\* callback is installed whatever the policy.
NewGroupNumberedByLength(id, list) ==
  [group_id |-> id, members |-> Range(list), ready |-> {}, ready_count |-> 0,
   sequence |-> Cardinality(DOMAIN groups), on_ready |-> ~StrictOrder]
NewGroupAlwaysNotifying(id, list) ==
  [group_id |-> id, members |-> Range(list), ready |-> {}, ready_count |-> 0,
   sequence |-> next_sequence, on_ready |-> TRUE]

\* The Group that admit publishes: its sequence is drawn from the queue, and
\* only a relaxed queue installs the readiness callback.
NewGroup(id, list) ==
  [group_id |-> id, members |-> Range(list), ready |-> {}, ready_count |-> 0,
   sequence |-> next_sequence, on_ready |-> ~StrictOrder]

\* Mutant of IndexMembers: the index holds the group rather than its id.
IndexMembersByGroup(id, ms) ==
  [m \in DOMAIN member_index \cup ms |->
     IF m \in ms THEN Len(group) + 1 ELSE member_index[m]]

IndexMembers(id, ms) ==
  [m \in DOMAIN member_index \cup ms |-> IF m \in ms THEN id ELSE member_index[m]]

Admit(id, list) ==
  /\ alive
  /\ Len(group) < MaxAdmissions
  /\ Admissible(id, list)
  /\ group' = Append(group, NewGroup(id, list))
  /\ groups' = Put(groups, id, Len(group) + 1)
  /\ member_index' = IndexMembers(id, Range(list))
  /\ next_sequence' = next_sequence + 1
  /\ result' = Returns("admit", "Group", <<Len(group) + 1>>)
  /\ UNCHANGED <<ready_groups, ready_heap, alive>>

AdmitRefused(id, list) == alive /\ ~ Admissible(id, list) /\ Refuse("admit")
-----------------------------------------------------------------------------
\* Readiness.

\* Group.mark_ready, called on a Group object, waiting or departed.
GroupMarkReady(h, m) ==
  /\ m \in group[h].members
  /\ MarkMembers(h, {m})
  /\ result' = Returns("mark_ready", Answer(IsReady(Marked(h, {m}))), <<>>)

GroupMarkReadyRefused(h, m) == m \notin group[h].members /\ Refuse("mark_ready")

\* TitoQueue.mark_ready: group_of finds the group through both indexes.
MarkReady(m) ==
  /\ alive
  /\ m \in DOMAIN member_index
  /\ GroupMarkReady(groups[member_index[m]], m)

MarkReadyRefused(m) == alive /\ m \notin DOMAIN member_index /\ Refuse("mark_ready")

MarkGroupReady(id) ==
  /\ alive
  /\ id \in DOMAIN groups
  /\ MarkMembers(groups[id], group[groups[id]].members)
  /\ result' = Returns("mark_group_ready", "True", <<>>)

MarkGroupReadyRefused(id) ==
  alive /\ id \notin DOMAIN groups /\ Refuse("mark_group_ready")
-----------------------------------------------------------------------------
\* Departure.

\* Heap entries of groups that have not departed.
Live == ready_heap \cap DOMAIN ready_groups

\* Mutant of NextOut: the ready index is searched without the heap, so the last
\* group to arrive is found first.
NextOutYoungest ==
  IF StrictOrder
  THEN {h \in Waiting : IsReady(group[h]) /\ \A g \in Waiting : h <= g}
  ELSE {ready_groups[s] : s \in {t \in Live : \A u \in Live : u <= t}}

\* What peek finds: at most one group. Strict order looks only at the head
\* of the line, relaxed order at the least live sequence.
NextOut ==
  IF StrictOrder
  THEN {h \in Waiting : IsReady(group[h]) /\ \A g \in Waiting : h <= g}
  ELSE {ready_groups[s] : s \in {t \in Live : \A u \in Live : t <= u}}

\* Mutant of Purged: peek pops the live entry it stops at, too.
PurgedThroughLive ==
  IF StrictOrder THEN ready_heap
  ELSE {s \in ready_heap : \E t \in Live : t < s}

\* peek pops stale entries from the top of the heap until a live one is there.
Purged ==
  IF StrictOrder THEN ready_heap ELSE {s \in ready_heap : \E t \in Live : t <= s}

\* Mutant of Compacted: it never happens.
CompactedNever(heap, live) == heap

\* _compact_ready_heap
Compacted(heap, live) ==
  IF Cardinality(heap) <= 2 * Cardinality(live) + CompactSlack THEN heap ELSE live

\* Mutant of Detached: the callback stays in place.
DetachedNever(hs) == group

\* A group that leaves the queue loses its readiness callback.
Detached(hs) ==
  [h \in Handles |->
     IF h \in hs THEN [group[h] EXCEPT !.on_ready = FALSE] ELSE group[h]]

\* Mutants of Remove: the group stays in the dictionary; its members stay in the
\* index.
RemoveKeepingGroup(hs) ==
  /\ member_index' = Without(member_index, UNION {group[h].members : h \in hs})
  /\ ready_groups' = Without(ready_groups, {group[h].sequence : h \in hs})
  /\ group' = Detached(hs)
  /\ UNCHANGED <<groups, next_sequence, alive>>
RemoveKeepingMembers(hs) ==
  /\ groups' = Without(groups, {group[h].group_id : h \in hs})
  /\ ready_groups' = Without(ready_groups, {group[h].sequence : h \in hs})
  /\ group' = Detached(hs)
  /\ UNCHANGED <<member_index, next_sequence, alive>>

\* What _remove does to everything but the heap, for each group of hs.
Remove(hs) ==
  /\ groups' = Without(groups, {group[h].group_id : h \in hs})
  /\ member_index' = Without(member_index, UNION {group[h].members : h \in hs})
  /\ ready_groups' = Without(ready_groups, {group[h].sequence : h \in hs})
  /\ group' = Detached(hs)
  /\ UNCHANGED <<next_sequence, alive>>

\* _remove of one group, from a queue whose heap is `heap`.
RemoveOne(h, heap) ==
  /\ Remove({h})
  /\ ready_heap' = IF group[h].sequence \in DOMAIN ready_groups
                   THEN Compacted(heap, DOMAIN ready_groups \ {group[h].sequence})
                   ELSE heap

Peek ==
  /\ alive
  /\ ready_heap' = Purged
  /\ result' \in IF NextOut = {} THEN {Returns("peek", "None", <<>>)}
                 ELSE {Returns("peek", "Group", <<h>>) : h \in NextOut}
  /\ UNCHANGED <<group, groups, member_index, next_sequence, ready_groups, alive>>

Release ==
  /\ alive
  /\ \E h \in NextOut :
       /\ RemoveOne(h, Purged)
       /\ result' = Returns("release", "Group", <<h>>)

ReleaseNone ==
  /\ alive
  /\ NextOut = {}
  /\ ready_heap' = Purged
  /\ result' = Returns("release", "None", <<>>)
  /\ UNCHANGED <<group, groups, member_index, next_sequence, ready_groups, alive>>

\* Mutants of AllOut: the loop stops after one group; strict order does not hold
\* back the ready groups behind one that is not.
AllOutOnce == NextOut
AllOutOfTurn ==
  IF StrictOrder THEN {h \in Waiting : IsReady(group[h])} ELSE {ready_groups[s] : s \in Live}

\* The groups that the loop of release_all releases: under strict order the
\* ready groups up to the first that is not, under relaxed order every group
\* with a live heap entry.
AllOut ==
  IF StrictOrder
  THEN {h \in Waiting : \A g \in Waiting : g <= h => IsReady(group[g])}
  ELSE {ready_groups[s] : s \in Live}

\* Age decides the order in which groups leave: the place in the OrderedDict
\* under strict order, the sequence number on the heap under relaxed order.
Age(h) == IF StrictOrder THEN h ELSE group[h].sequence

\* The loop ends in a peek that finds nothing, and has emptied the heap.
ReleaseAll ==
  /\ alive
  /\ Remove(AllOut)
  /\ ready_heap' = IF StrictOrder THEN ready_heap ELSE {}
  /\ \E list \in Sorted(AllOut, [h \in AllOut |-> Age(h)]) :
       result' = Returns("release_all", "List", list)

Cancel(id) ==
  /\ alive
  /\ id \in DOMAIN groups
  /\ RemoveOne(groups[id], ready_heap)
  /\ result' = Returns("cancel", "Group", <<groups[id]>>)

CancelRefused(id) == alive /\ id \notin DOMAIN groups /\ Refuse("cancel")

Clear ==
  /\ alive
  /\ group' = Detached(Waiting)
  /\ groups' = EmptyDict
  /\ member_index' = EmptyDict
  /\ ready_groups' = EmptyDict
  /\ ready_heap' = {}
  /\ \E list \in InHandleOrder(Waiting) : result' = Returns("clear", "List", list)
  /\ UNCHANGED <<next_sequence, alive>>
-----------------------------------------------------------------------------
\* The application drops its last reference to the queue. The groups hold it
\* only weakly, so it is freed with its indexes; the Group objects that callers
\* kept stay usable, their callbacks still in place.
DropQueue ==
  /\ alive
  /\ alive' = FALSE
  /\ groups' = EmptyDict
  /\ member_index' = EmptyDict
  /\ ready_groups' = EmptyDict
  /\ ready_heap' = {}
  /\ result' = Returns("drop", "None", <<>>)
  /\ UNCHANGED <<group, next_sequence>>

Init ==
  /\ group = <<>>
  /\ groups = EmptyDict
  /\ member_index = EmptyDict
  /\ next_sequence = 0
  /\ ready_groups = EmptyDict
  /\ ready_heap = {}
  /\ alive = TRUE
  /\ result = Returns("init", "None", <<>>)

Next ==
  \/ \E id \in GroupIds, list \in MemberLists : Admit(id, list) \/ AdmitRefused(id, list)
  \/ \E h \in Handles, m \in Members :
       GroupMarkReady(h, m) \/ GroupMarkReadyRefused(h, m)
  \/ \E m \in Members : MarkReady(m) \/ MarkReadyRefused(m)
  \/ \E id \in GroupIds : MarkGroupReady(id) \/ MarkGroupReadyRefused(id)
  \/ \E id \in GroupIds : Cancel(id) \/ CancelRefused(id)
  \/ Peek \/ Release \/ ReleaseNone \/ ReleaseAll \/ Clear
  \/ DropQueue

Spec == Init /\ [][Next]_vars
-----------------------------------------------------------------------------
\* Properties.

\* Every variable keeps its shape, and only members of a group are flagged in it. What
\* its counter has to do with the flags is CounterMatchesFlags.
TypeOK ==
  /\ group \in Seq(GroupRecord)
  /\ \A h \in Handles : group[h].ready \subseteq group[h].members
  /\ DOMAIN groups \subseteq GroupIds
  /\ groups \in [DOMAIN groups -> Handles]
  /\ DOMAIN member_index \subseteq Members
  /\ member_index \in [DOMAIN member_index -> GroupIds]
  /\ next_sequence \in Nat
  /\ DOMAIN ready_groups \subseteq Nat
  /\ ready_groups \in [DOMAIN ready_groups -> Handles]
  /\ ready_heap \subseteq Nat
  /\ alive \in BOOLEAN
  /\ result.groups \in Seq(Handles)

\* `groups` and `member_index` tell the same story: a member is indexed exactly
\* while a group that holds it waits, under the id of that group. group_of and
\* _remove look one up with what the other gave them and would raise KeyError.
IndexesAgree ==
  /\ \A id \in DOMAIN groups : group[groups[id]].group_id = id
  /\ \A h \in Waiting : \A m \in group[h].members :
       m \in DOMAIN member_index /\ member_index[m] = group[h].group_id
  /\ \A m \in DOMAIN member_index : \E h \in Waiting : m \in group[h].members

\* Nobody can see a counter that disagrees with the flags: ready_count is
\* incremented beside the flag in Group.mark_ready and is_ready trusts it.
CounterMatchesFlags ==
  \A h \in Handles : group[h].ready_count = Cardinality(group[h].ready)

\* The ready index of a relaxed queue holds the waiting groups whose flags are
\* all set, each under its own sequence, and nothing else; a strict queue
\* keeps none. Readiness reported before admission is complete or after a
\* departure would break it.
ReadyIndexExact ==
  /\ \A s \in DOMAIN ready_groups :
       LET h == ready_groups[s]
       IN  h \in Waiting /\ group[h].sequence = s /\ group[h].ready = group[h].members
  /\ \A h \in Waiting : ~ StrictOrder /\ group[h].ready = group[h].members
                         => group[h].sequence \in DOMAIN ready_groups
  /\ StrictOrder => DOMAIN ready_groups = {}

\* No ready group is lost from the heap, and the sequence of a group that is
\* still to become ready is not there yet, so no entry is pushed twice.
HeapCoversReady ==
  /\ DOMAIN ready_groups \subseteq ready_heap
  /\ \A h \in Waiting : group[h].sequence \in ready_heap
                         => group[h].sequence \in DOMAIN ready_groups

\* _compact_ready_heap keeps its word: however many groups have come and gone,
\* the heap stays within twice the live entries plus the slack.
HeapBounded ==
  Cardinality(ready_heap) <= 2 * Cardinality(DOMAIN ready_groups) + CompactSlack

\* Sequence numbers are distinct and follow the order of arrival, so the heap
\* and the OrderedDict agree on which group is older.
SequencesFollowArrival ==
  \A g, h \in Handles : g < h => group[g].sequence < group[h].sequence

\* The callback that admit installs on a relaxed queue's group is in place
\* exactly while the group waits, and a dropped queue has nothing waiting.
CallbackWhileWaiting ==
  /\ \A h \in Waiting : group[h].on_ready = ~ StrictOrder
  /\ alive => \A h \in Handles \ Waiting : ~ group[h].on_ready
  /\ ~ alive => DOMAIN groups = {}

\* Sequences are drawn one by one and the heap holds only drawn ones.
Numbered ==
  /\ next_sequence = Len(group)
  /\ \A h \in Handles : group[h].sequence = h - 1
  /\ ready_heap \subseteq 0..(next_sequence - 1)

\* The inductive invariant: the parts above hold one another up.
IInv ==
  /\ TypeOK
  /\ Numbered
  /\ CounterMatchesFlags
  /\ IndexesAgree
  /\ CallbackWhileWaiting
  /\ ReadyIndexExact
  /\ HeapCoversReady
  /\ HeapBounded

\* A group that has left stays out of both the queue and the ready index,
\* whatever is done to the Group object its former owner still holds.
StaysOut ==
  \A h \in Handles \ Waiting : h \notin Waiting' /\ h \notin Range(ready_groups')
DepartedStaysOut == [][StaysOut]_vars

\* The queue answers every call as the discipline says.
Roster == [h \in Handles |-> [group_id |-> group[h].group_id,
                              members |-> group[h].members,
                              ready |-> group[h].ready]]
Promised == INSTANCE Discipline WITH roster <- Roster, waiting <- Waiting
ImplementsDiscipline == Promised!Spec

\* A member waits in at most one group and an id names at most one group, so a
\* member's readiness is never credited to two groups.
OneGroupEach == Promised!OneGroupEach

\* A group leaves a live queue exactly when a call hands it to its caller: none is
\* lost and none goes to two callers.
HandedToOneCaller == Promised!HandedToOneCaller

\* What release and release_all let out is complete, and nothing older that could
\* have left stays behind.
ReleasedInOrder == Promised!ReleasedInOrder

\* A caller told that nothing may leave, or that asked for everything, leaves a
\* queue in which nothing may leave.
NothingLeftBehind == Promised!NothingLeftBehind

\* A group that has left never waits again, and nobody's readiness is undone.
NeverBack == Promised!NeverBack
=============================================================================
