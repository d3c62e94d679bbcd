-------------------------- MODULE TitoThreadsProofs --------------------------
(***************************************************************************)
(* Proofs about TitoThreads.tla, for any number of threads: while a thread *)
(* is inside a locked section the queue differs from what it was when the  *)
(* lock was taken only by what the statements done so far have changed, so *)
(* the section as a whole is one step of Tito.tla.                         *)
(*                                                                         *)
(* `was` and `now` are snapshots of the queue, when the lock was taken and *)
(* at present; f is the frame of the thread that holds the lock, and depth *)
(* the number of times it does.                                            *)
(***************************************************************************)
EXTENDS TitoThreads, FiniteSetTheorems, SequenceTheorems, TLAPS

\* The queue as the last section that ended has left it, with what is proved of it.
Was == INSTANCE TitoProofs WITH
  group         <- Settled.group,
  groups        <- Settled.groups,
  member_index  <- Settled.member_index,
  next_sequence <- Settled.next_sequence,
  ready_groups  <- Settled.ready_groups,
  ready_heap    <- Settled.ready_heap
-----------------------------------------------------------------------------
\* Lists and least elements are those of DisciplineProofs.tla.

Order == INSTANCE DisciplineProofs WITH roster <- Roster, waiting <- Waiting

LEMMA SameLists ==
  /\ StrictOrder \in BOOLEAN /\ Order!IsFiniteSet(Members)
  /\ MaxAdmissions \in Nat /\ MaxGroupSize \in Nat
  /\ \A s : Order!IsFiniteSet(s) <=> IsFiniteSet(s)
  /\ \A s : Order!Cardinality(s) = Cardinality(s)
  /\ \A list : Order!Range(list) = Range(list)
  /\ \A list : Order!IsInjective(list) <=> IsInjective(list)
  /\ \A list : Order!WellFormed(list) <=> WellFormed(list)
  /\ \A hs, key : Order!Sorted(hs, key) = Sorted(hs, key)
  /\ Order!MemberLists = MemberLists
  BY PolicyAssumption, MembersAssumption, BoundsAssumption
     DEF Order!IsFiniteSet, IsFiniteSet, Order!Cardinality, Cardinality, Order!Range, Range,
         Order!IsInjective, IsInjective, Order!WellFormed, WellFormed, Order!Sorted, Sorted,
         Order!MemberLists, MemberLists
-----------------------------------------------------------------------------
\* What Tito.tla says of the queue, of a snapshot.

WaitingOf(q) == {q.groups[id] : id \in DOMAIN q.groups}
LiveOf(q) == q.ready_heap \cap DOMAIN q.ready_groups
NextOutOf(q) ==
  IF StrictOrder
  THEN {h \in WaitingOf(q) : IsReady(q.group[h]) /\ \A g \in WaitingOf(q) : h <= g}
  ELSE {q.ready_groups[s] : s \in {t \in LiveOf(q) : \A u \in LiveOf(q) : t <= u}}
AllOutOf(q) ==
  IF StrictOrder
  THEN {h \in WaitingOf(q) : \A g \in WaitingOf(q) : g <= h => IsReady(q.group[g])}
  ELSE {q.ready_groups[s] : s \in LiveOf(q)}
PurgedOf(q) ==
  IF StrictOrder THEN q.ready_heap ELSE {s \in q.ready_heap : \E t \in LiveOf(q) : t <= s}
AgeIn(q, h) == IF StrictOrder THEN h ELSE q.group[h].sequence
AdmissibleTo(q, id, list) ==
  WellFormed(list) /\ id \notin DOMAIN q.groups /\ Range(list) \cap DOMAIN q.member_index = {}
BornTo(q, id, list) ==
  [group_id |-> id, members |-> Range(list), ready |-> {}, ready_count |-> 0,
   sequence |-> q.next_sequence, on_ready |-> FALSE]

\* What the statements of a section do to the queue that it found.
MarkedFrom(g, ms) ==
  [g EXCEPT !.ready = @ \cup ms, !.ready_count = @ + Cardinality(ms \ g.ready)]
Finishes(g, ms) == g.ready # g.members /\ g.ready \cup ms = g.members
DetachedFrom(list, hs) ==
  [h \in DOMAIN list |-> IF h \in hs THEN [list[h] EXCEPT !.on_ready = FALSE] ELSE list[h]]
MembersOf(list, hs) == UNION {list[h].members : h \in hs}
IdsOf(list, hs) == {list[h].group_id : h \in hs}
SequencesOf(list, hs) == {list[h].sequence : h \in hs}
Indexed(index, id, ms) ==
  [m \in DOMAIN index \cup ms |-> IF m \in ms THEN id ELSE index[m]]

SameIndexes(now, was) == now.groups = was.groups /\ now.member_index = was.member_index
SameReady(now, was) ==
  now.ready_groups = was.ready_groups /\ now.ready_heap = was.ready_heap
SameNumber(now, was) == now.next_sequence = was.next_sequence
-----------------------------------------------------------------------------
\* Calls and their arguments.

AdmitCall(f, id, list) ==
  /\ f.call = "admit" /\ f.arg = <<id, list>> /\ f.keeps
  /\ id \in GroupIds /\ list \in MemberLists /\ WellFormed(list)
FindCall(f) ==
  /\ f.keeps
  /\ \/ f.call = "mark_ready" /\ \E m \in Members : f.arg = <<m>>
     \/ f.call \in {"mark_group_ready", "cancel"} /\ \E id \in GroupIds : f.arg = <<id>>
PeekCall(f) == f.call \in {"peek", "release", "release_all"} /\ f.keeps
ClearCall(f) == f.call = "clear" /\ f.keeps

Acquiring(f) ==
  /\ f.out = <<>>
  /\ \/ \E id \in GroupIds, list \in MemberLists : AdmitCall(f, id, list)
     \/ FindCall(f) \/ PeekCall(f) \/ ClearCall(f)
Entering(f) == f.call = "mark_ready" /\ \E m \in Members : f.left = {m}

\* Where a thread is that does not hold the queue's lock; n groups are settled.
Outside(n, f) ==
  \/ f.at = "idle" /\ f = Idle
  \/ f.at = "acquire" /\ Acquiring(f)
  \/ f.at = "enter" /\ Entering(f) /\ f.h \in 1..n
-----------------------------------------------------------------------------
\* Where a thread is that holds it.

\* admit, with the group made and its callback not installed yet.
Born(now, was, f, id, list) ==
  /\ AdmitCall(f, id, list) /\ AdmissibleTo(was, id, list)
  /\ f.h = Len(was.group) + 1
  /\ now.group = Append(was.group, BornTo(was, id, list))
  /\ now.next_sequence = was.next_sequence + 1
  /\ SameReady(now, was)
InsertAt(now, was, f) ==
  \E id \in GroupIds, list \in MemberLists :
    Born(now, was, f, id, list) /\ SameIndexes(now, was) /\ f.left = Range(list)
IndexAt(now, was, f) ==
  \E id \in GroupIds, list \in MemberLists :
    /\ Born(now, was, f, id, list) /\ f.left \subseteq Range(list)
    /\ now.groups = Put(was.groups, id, f.h)
    /\ now.member_index = Indexed(was.member_index, id, Range(list) \ f.left)
InstallAt(now, was, f) ==
  \E id \in GroupIds, list \in MemberLists :
    /\ Born(now, was, f, id, list)
    /\ now.groups = Put(was.groups, id, f.h)
    /\ now.member_index = Indexed(was.member_index, id, Range(list))

\* Group.mark_ready: the members done so far, in the loop of mark_group_ready.
MarkCall(was, f) ==
  /\ f.h \in DOMAIN was.group
  /\ \/ Entering(f)
     \/ /\ f.call = "mark_group_ready" /\ f.keeps
        /\ \E id \in DOMAIN was.groups \cap GroupIds : f.h = was.groups[id]
        /\ f.left \subseteq was.group[f.h].members
Done(was, f) == IF f.call = "mark_ready" THEN {} ELSE was.group[f.h].members \ f.left
\* A thread in the method of the queue holds the lock a second time.
Nested(f, depth) == f.call = "mark_group_ready" => depth = 2
Noted(now, was, h) ==
  /\ now.ready_groups = Put(was.ready_groups, was.group[h].sequence, h)
  /\ now.ready_heap = was.ready_heap \cup {was.group[h].sequence}
NotedIf(now, was, h, ms) ==
  IF Finishes(was.group[h], ms) /\ was.group[h].on_ready
  THEN Noted(now, was, h)
  ELSE SameReady(now, was)
Marks(now, was, f, ms) ==
  /\ MarkCall(was, f) /\ SameIndexes(now, was) /\ SameNumber(now, was)
  /\ now.group = [was.group EXCEPT ![f.h] = MarkedFrom(was.group[f.h], ms)]
MarksDone(now, was, f) ==
  Marks(now, was, f, Done(was, f)) /\ NotedIf(now, was, f.h, Done(was, f))
EnterAt(now, was, f, depth) == MarksDone(now, was, f) /\ depth = 1
FlagAt(now, was, f, depth) == MarksDone(now, was, f) /\ Nested(f, depth)
CountAt(now, was, f, depth) ==
  /\ MarkCall(was, f) /\ SameIndexes(now, was) /\ SameNumber(now, was)
  /\ SameReady(now, was) /\ Nested(f, depth)
  /\ \E m \in f.left :
       /\ f.now = {m} /\ m \in was.group[f.h].members \ was.group[f.h].ready
       /\ now.group = [was.group EXCEPT ![f.h] =
                         [MarkedFrom(was.group[f.h], Done(was, f))
                            EXCEPT !.ready = @ \cup {m}]]
LastFlag(now, was, f, m) ==
  /\ f.now = {m} /\ Marks(now, was, f, Done(was, f) \cup {m})
  /\ Finishes(was.group[f.h], Done(was, f) \cup {m}) /\ was.group[f.h].on_ready
OnReadyAt(now, was, f, depth) ==
  Nested(f, depth) /\ SameReady(now, was) /\ \E m \in f.left : LastFlag(now, was, f, m)
NoteAt(now, was, f, depth) == OnReadyAt(now, was, f, depth) /\ f.keeps
PushAt(now, was, f, depth) ==
  /\ Nested(f, depth) /\ f.keeps
  /\ \E m \in f.left : LastFlag(now, was, f, m)
  /\ now.ready_groups = Put(was.ready_groups, was.group[f.h].sequence, f.h)
  /\ now.ready_heap = was.ready_heap

\* Groups taken out in the order of their age, the oldest first.
Oldest(was, list) ==
  /\ list \in Seq(AllOutOf(was))
  /\ \A i, j \in DOMAIN list : i < j => AgeIn(was, list[i]) < AgeIn(was, list[j])
  /\ \A i \in DOMAIN list : \A h \in AllOutOf(was) \ Range(list) :
       AgeIn(was, list[i]) < AgeIn(was, h)
HeapSoFar(now, was) ==
  /\ now.ready_heap \subseteq was.ready_heap
  /\ DOMAIN now.ready_groups \subseteq now.ready_heap
  /\ StrictOrder => now.ready_heap = was.ready_heap
\* What is gone from each index, and which groups have lost their callback.
Taken(now, was, gone, ids, ms, detached) ==
  /\ SameNumber(now, was)
  /\ now.group = DetachedFrom(was.group, detached)
  /\ now.groups = Without(was.groups, IdsOf(was.group, ids))
  /\ now.member_index = Without(was.member_index, ms)
  /\ now.ready_groups = Without(was.ready_groups, SequencesOf(was.group, gone))
Gone(f) == Range(f.out)
PeekAt(now, was, f) ==
  \/ f.call \in {"peek", "release"} /\ now = was /\ f.keeps /\ f.out = <<>>
  \/ /\ f.call = "release_all" /\ f.keeps /\ Oldest(was, f.out) /\ HeapSoFar(now, was)
     /\ Taken(now, was, Gone(f), Gone(f), MembersOf(was.group, Gone(f)), Gone(f))
\* The group f.h is on its way out.
Leaving(now, was, f) ==
  /\ f.keeps /\ f.h \in WaitingOf(was) \ Gone(f) /\ Gone(f) \subseteq WaitingOf(was)
  /\ \/ /\ f.call = "cancel" /\ f.out = <<>> /\ now.ready_heap = was.ready_heap
        /\ \E id \in DOMAIN was.groups \cap GroupIds : f.h = was.groups[id]
     \/ /\ f.call = "release" /\ f.out = <<>> /\ now.ready_heap = PurgedOf(was)
        /\ f.h \in NextOutOf(was)
     \/ /\ f.call = "release_all" /\ Oldest(was, f.out) /\ f.h \in AllOutOf(was)
        /\ Oldest(was, Append(f.out, f.h)) /\ HeapSoFar(now, was)
DelGroupAt(now, was, f) ==
  /\ Leaving(now, was, f)
  /\ Taken(now, was, Gone(f), Gone(f), MembersOf(was.group, Gone(f)), Gone(f))
DelMembersAt(now, was, f) ==
  /\ Leaving(now, was, f) /\ f.left \subseteq was.group[f.h].members
  /\ Taken(now, was, Gone(f), Gone(f) \cup {f.h},
           MembersOf(was.group, Gone(f)) \cup (was.group[f.h].members \ f.left), Gone(f))
DetachAt(now, was, f) ==
  /\ Leaving(now, was, f)
  /\ Taken(now, was, Gone(f), Gone(f) \cup {f.h},
           MembersOf(was.group, Gone(f) \cup {f.h}), Gone(f))
PopAt(now, was, f) ==
  /\ Leaving(now, was, f)
  /\ Taken(now, was, Gone(f), Gone(f) \cup {f.h},
           MembersOf(was.group, Gone(f) \cup {f.h}), Gone(f) \cup {f.h})

Clearing(now, was, f) ==
  /\ ClearCall(f) /\ SameNumber(now, was) /\ SameReady(now, was)
  /\ f.out \in InHandleOrder(WaitingOf(was))
  /\ now.group = DetachedFrom(was.group, WaitingOf(was))
ClearGroupsAt(now, was, f) == Clearing(now, was, f) /\ SameIndexes(now, was)
ClearMembersAt(now, was, f) ==
  /\ Clearing(now, was, f)
  /\ now.groups = EmptyDict /\ now.member_index = was.member_index
ClearReadyAt(now, was, f) ==
  Clearing(now, was, f) /\ now.groups = EmptyDict /\ now.member_index = EmptyDict

ReprAt(now, was, f) == f.call = "repr" /\ now = was /\ f.h \in DOMAIN was.group

Inside(now, was, f, depth) ==
  \/ /\ f.at = "check" /\ now = was
     /\ \E id \in GroupIds, list \in MemberLists : AdmitCall(f, id, list)
  \/ f.at = "insert" /\ InsertAt(now, was, f)
  \/ f.at = "index" /\ IndexAt(now, was, f)
  \/ f.at = "install" /\ InstallAt(now, was, f)
  \/ f.at = "find" /\ now = was /\ FindCall(f) /\ depth = 1 /\ f.out = <<>>
  \/ f.at = "enter" /\ EnterAt(now, was, f, depth)
  \/ f.at = "flag" /\ FlagAt(now, was, f, depth)
  \/ f.at = "count" /\ CountAt(now, was, f, depth)
  \/ f.at = "on_ready" /\ OnReadyAt(now, was, f, depth)
  \/ f.at = "note" /\ NoteAt(now, was, f, depth)
  \/ f.at = "push" /\ PushAt(now, was, f, depth)
  \/ f.at = "peek" /\ PeekAt(now, was, f)
  \/ f.at = "del_group" /\ DelGroupAt(now, was, f)
  \/ f.at = "del_members" /\ DelMembersAt(now, was, f)
  \/ f.at = "detach" /\ DetachAt(now, was, f)
  \/ f.at = "pop" /\ PopAt(now, was, f)
  \/ f.at = "clear_callbacks" /\ ClearCall(f) /\ now = was
  \/ f.at = "clear_groups" /\ ClearGroupsAt(now, was, f)
  \/ f.at = "clear_members" /\ ClearMembersAt(now, was, f)
  \/ f.at = "clear_ready" /\ ClearReadyAt(now, was, f)
  \/ f.at = "repr_count" /\ ReprAt(now, was, f)
  \/ f.at = "repr_waiting" /\ ReprAt(now, was, f) /\ f.out = <<now.group[f.h].ready_count>>
-----------------------------------------------------------------------------
\* The inductive invariant.

FrameForm(f) ==
  f = [at |-> f.at, call |-> f.call, arg |-> f.arg, h |-> f.h, left |-> f.left,
       now |-> f.now, out |-> f.out, keeps |-> f.keeps]
Framed ==
  /\ DOMAIN thread = Threads
  /\ \A t \in Threads : FrameForm(thread[t])
  /\ \A t \in Threads : thread[t].keeps \in BOOLEAN /\ (thread[t].keeps => alive)

\* The group in hand is not published.
Unborn(f) == f.at \in {"insert", "index", "install"}

\* Only the queue's lock is ever taken, every group has it, and it is held by the
\* thread that took it.
Locked ==
  /\ holder \in [Locks -> [by: Threads \cup {Nobody}, depth: Nat]]
  /\ \A l \in Locks \ {QueueLock} : holder[l] = Free
  /\ holder[QueueLock].by = Nobody <=> holder[QueueLock].depth = 0
  /\ lock_of \in Seq({QueueLock})
  /\ Len(Settled.group) <= Len(lock_of)
  /\ \A t \in Threads : Unborn(thread[t]) => thread[t].h <= Len(lock_of)

Remembered ==
  before = IF Busy THEN [group |-> before.group, groups |-> before.groups,
                         member_index |-> before.member_index,
                         next_sequence |-> before.next_sequence,
                         ready_groups |-> before.ready_groups,
                         ready_heap |-> before.ready_heap]
           ELSE NoSnapshot

Bounded == Len(Settled.group) + Cardinality(Admitting) <= MaxAdmissions

Placed ==
  \A t \in Threads :
    IF holder[QueueLock].by = t
    THEN Inside(Snapshot, before, thread[t], holder[QueueLock].depth)
    ELSE Outside(Len(Settled.group), thread[t])

TInv == Was!IInv /\ Framed /\ Locked /\ Remembered /\ Bounded /\ Placed
-----------------------------------------------------------------------------
\* Snapshots.

LEMMA SnapshotIs ==
  /\ Snapshot.group = group /\ Snapshot.groups = groups
  /\ Snapshot.member_index = member_index /\ Snapshot.next_sequence = next_sequence
  /\ Snapshot.ready_groups = ready_groups /\ Snapshot.ready_heap = ready_heap
  BY DEF Snapshot

LEMMA SnapshotNext ==
  /\ Snapshot'.group = group' /\ Snapshot'.groups = groups'
  /\ Snapshot'.member_index = member_index' /\ Snapshot'.next_sequence = next_sequence'
  /\ Snapshot'.ready_groups = ready_groups' /\ Snapshot'.ready_heap = ready_heap'
  BY DEF Snapshot

\* A thread that holds the lock finds it taken, and the queue remembered.
LEMMA Holding ==
  ASSUME TInv, NEW t \in Threads, holder[QueueLock].by = t
  PROVE  /\ Busy /\ Settled = before /\ QueueLock \in Locks
         /\ holder[QueueLock].depth \in Nat \ {0}
         /\ holder = [holder EXCEPT ![QueueLock] =
              [by |-> t, depth |-> holder[QueueLock].depth]]
         /\ Inside(Snapshot, before, thread[t], holder[QueueLock].depth)
         /\ thread[t].keeps => alive
  <1>1. QueueLock \in Locks
    BY BoundsAssumption DEF QueueLock, Locks
  <1>2. /\ holder \in [Locks -> [by: Threads \cup {Nobody}, depth: Nat]]
        /\ holder[QueueLock].by = Nobody <=> holder[QueueLock].depth = 0
    BY DEF TInv, Locked
  <1>3. t # Nobody
    BY ThreadsAssumption
  <1>4. holder[QueueLock] \in [by: Threads \cup {Nobody}, depth: Nat]
    BY <1>1, <1>2
  <1>5. holder[QueueLock] = [by |-> t, depth |-> holder[QueueLock].depth]
    BY <1>4
  <1>6. Busy /\ holder[QueueLock].depth \in Nat \ {0}
    BY <1>2, <1>3, <1>4 DEF Busy
  <1>7. Settled = before
    BY <1>6 DEF Settled
  <1>8. holder = [holder EXCEPT ![QueueLock] = [by |-> t, depth |-> holder[QueueLock].depth]]
    BY <1>1, <1>2, <1>5
  <1> QED
    BY <1>1, <1>6, <1>7, <1>8 DEF TInv, Placed, Framed

\* A thread that does not hold it.
LEMMA NotHolding ==
  ASSUME TInv, NEW t \in Threads, holder[QueueLock].by # t
  PROVE  Outside(Len(Settled.group), thread[t])
  BY DEF TInv, Placed

\* Only the frame of t changes.
Moves(t) ==
  /\ DOMAIN thread' = Threads /\ FrameForm(thread'[t])
  /\ \A u \in Threads \ {t} : thread'[u] = thread[u]

LEMMA GotoMoves ==
  ASSUME Framed, NEW t \in Threads, NEW label, Goto(t, label)
  PROVE  /\ Moves(t)
         /\ thread'[t] = [thread[t] EXCEPT !.at = label]
         /\ thread'[t].at = label /\ thread'[t].call = thread[t].call
         /\ thread'[t].arg = thread[t].arg /\ thread'[t].h = thread[t].h
         /\ thread'[t].left = thread[t].left /\ thread'[t].now = thread[t].now
         /\ thread'[t].out = thread[t].out /\ thread'[t].keeps = thread[t].keeps
  <1>1. /\ thread' = [thread EXCEPT ![t] = [thread[t] EXCEPT !.at = label]]
        /\ DOMAIN thread = Threads /\ FrameForm(thread[t])
    BY DEF Framed, Goto
  <1>2. thread'[t] = [thread[t] EXCEPT !.at = label]
    BY <1>1
  <1> QED
    BY <1>1, <1>2 DEF Moves, FrameForm

LEMMA GotoWithMoves ==
  ASSUME Framed, NEW t \in Threads, NEW label, NEW h, NEW left, GotoWith(t, label, h, left)
  PROVE  /\ Moves(t)
         /\ thread'[t].at = label /\ thread'[t].call = thread[t].call
         /\ thread'[t].arg = thread[t].arg /\ thread'[t].h = h
         /\ thread'[t].left = left /\ thread'[t].now = thread[t].now
         /\ thread'[t].out = thread[t].out /\ thread'[t].keeps = thread[t].keeps
  <1>1. /\ thread' = [thread EXCEPT ![t] =
                        [[[thread[t] EXCEPT !.at = label] EXCEPT !.h = h] EXCEPT !.left = left]]
        /\ DOMAIN thread = Threads /\ FrameForm(thread[t])
    BY DEF Framed, GotoWith
  <1>2. thread'[t] = [[[thread[t] EXCEPT !.at = label] EXCEPT !.h = h] EXCEPT !.left = left]
    BY <1>1
  <1> QED
    BY <1>1, <1>2 DEF Moves, FrameForm

LEMMA EndMoves ==
  ASSUME Framed, NEW t \in Threads, End(t)
  PROVE  Moves(t) /\ thread'[t] = Idle
  <1>1. thread'[t] = Idle /\ DOMAIN thread' = Threads
        /\ \A u \in Threads \ {t} : thread'[u] = thread[u]
    BY DEF Framed, End
  <1> QED
    BY <1>1 DEF Moves, FrameForm, Idle, Frame
-----------------------------------------------------------------------------
\* What TitoProofs.tla takes from its assumptions holds here, and what it shows of a
\* step of Tito.tla holds of the settled queue.

LEMMA SameAssumptions ==
  /\ CompactSlack \in Nat /\ StrictOrder \in BOOLEAN
  /\ Was!IsFiniteSet(Members)
  /\ MaxAdmissions \in Nat /\ MaxGroupSize \in Nat
  BY SlackAssumption, PolicyAssumption, MembersAssumption, BoundsAssumption
     DEF Was!IsFiniteSet, IsFiniteSet

LEMMA SettledKeeps ==
  ASSUME Was!IInv, [Was!Next]_(Was!vars)
  PROVE  Was!IInv'
  BY SameAssumptions, Was!NextPreserves, Zenon

LEMMA GroupsSettled ==
  ASSUME TInv
  PROVE  /\ Len(Settled.group) \in Nat
         /\ DOMAIN Settled.group = 1..Len(Settled.group)
  BY Was!GroupType, SameAssumptions DEF TInv, Was!IInv, Was!Handles
-----------------------------------------------------------------------------
\* A statement inside a section changes nothing that is settled.

\* What every step of a holder t that keeps the lock does.
StaysInside(t) ==
  /\ Moves(t)
  /\ thread'[t].call = thread[t].call
  /\ thread'[t].keeps \in BOOLEAN /\ (thread'[t].keeps => alive)
  /\ UNCHANGED private
  /\ lock_of' \in Seq({QueueLock}) /\ Len(lock_of') >= Len(lock_of)
  /\ Unborn(thread'[t]) => thread'[t].h <= Len(lock_of')
  /\ \E depth \in Nat \ {0} :
       holder' = [holder EXCEPT ![QueueLock] = [by |-> t, depth |-> depth]]

LEMMA InnerStep ==
  ASSUME TInv, NEW t \in Threads, holder[QueueLock].by = t, StaysInside(t),
         Inside(Snapshot', before, thread'[t], holder'[QueueLock].depth)
  PROVE  TInv' /\ UNCHANGED Was!vars
  <1>1. /\ Busy /\ Settled = before /\ QueueLock \in Locks /\ t # Nobody
        /\ holder \in [Locks -> [by: Threads \cup {Nobody}, depth: Nat]]
    BY Holding, ThreadsAssumption DEF TInv, Locked
  <1>2. PICK depth \in Nat \ {0} :
          holder' = [holder EXCEPT ![QueueLock] = [by |-> t, depth |-> depth]]
    BY DEF StaysInside
  <1>3. /\ holder'[QueueLock] = [by |-> t, depth |-> depth]
        /\ \A l \in Locks \ {QueueLock} : holder'[l] = holder[l]
        /\ holder' \in [Locks -> [by: Threads \cup {Nobody}, depth: Nat]]
    BY <1>1, <1>2
  <1>4. Busy'
    BY <1>3 DEF Busy
  <1>5. before' = before /\ alive' = alive /\ result' = result
    BY DEF StaysInside, private
  <1>6. Settled' = Settled
    BY <1>1, <1>4, <1>5 DEF Settled
  <1>7. UNCHANGED Was!vars
    BY <1>5, <1>6 DEF Was!vars, Was!queue
  <1>8. Was!IInv'
    BY <1>7, SettledKeeps DEF TInv
  <1>9. Framed'
    BY <1>5 DEF TInv, Framed, StaysInside, Moves
  <1>10. Locked'
    <2>1. /\ Len(lock_of) \in Nat /\ Len(lock_of') \in Nat
          /\ Len(Settled.group) <= Len(lock_of)
          /\ \A u \in Threads : Unborn(thread[u]) => thread[u].h <= Len(lock_of)
      BY DEF TInv, Locked, StaysInside
    <2>2. ASSUME NEW u \in Threads, Unborn(thread'[u])
          PROVE  thread'[u].h <= Len(lock_of')
      <3>1. CASE u = t
        BY <2>2, <3>1 DEF StaysInside
      <3>2. CASE u # t
        <4>1. thread'[u] = thread[u]
          BY <3>2 DEF StaysInside, Moves
        <4>2. thread[u].h <= Len(lock_of) /\ Len(lock_of) <= Len(lock_of')
          BY <2>1, <2>2, <4>1 DEF StaysInside
        <4>3. Outside(Len(Settled.group), thread[u])
          BY <1>1, <3>2, NotHolding
        <4> QED
          BY <2>2, <4>3, <4>1 DEF Outside, Unborn, Idle, Frame
      <3> QED
        BY <3>1, <3>2
    <2>3. Len(Settled'.group) <= Len(lock_of')
      BY <1>6, <2>1, GroupsSettled DEF StaysInside
    <2> QED
      BY <1>1, <1>3, <2>2, <2>3 DEF TInv, Locked, StaysInside, Unborn
  <1>11. Remembered'
    BY <1>1, <1>4, <1>5 DEF TInv, Remembered
  <1>12. Admitting' = Admitting
    BY DEF Admitting, StaysInside, Moves
  <1>13. Bounded'
    BY <1>6, <1>12 DEF TInv, Bounded
  <1>14. Placed'
    BY <1>1, <1>3, <1>5, <1>6 DEF TInv, Placed, StaysInside, Moves
  <1> QED
    BY <1>7, <1>8, <1>9, <1>10, <1>11, <1>13, <1>14 DEF TInv
-----------------------------------------------------------------------------
\* The end of a section, which is where Tito.tla takes its step.

LEMMA EndSettles ==
  ASSUME TInv, NEW t \in Threads, holder[QueueLock].by = t, End(t)
  PROVE  /\ Moves(t) /\ thread'[t] = Idle
         /\ Settled = before /\ ~ Busy' /\ Settled' = Snapshot' /\ before' = NoSnapshot
         /\ holder' = [l \in Locks |-> Free]
  <1>1. /\ Busy /\ Settled = before /\ QueueLock \in Locks /\ t # Nobody
        /\ \A l \in Locks \ {QueueLock} : holder[l] = Free
    BY Holding, ThreadsAssumption DEF TInv, Locked
  <1>2. holder' = [l \in Locks |-> IF holder[l].by = t THEN Free ELSE holder[l]]
        /\ before' = NoSnapshot
    BY DEF End
  <1>3. \A l \in Locks : holder'[l] = Free
    BY <1>1, <1>2
  <1>4. holder' = [l \in Locks |-> Free]
    BY <1>2, <1>3
  <1>5. ~ Busy'
    BY <1>1, <1>4 DEF Busy, Free
  <1>6. Settled' = Snapshot'
    BY <1>5 DEF Settled
  <1>7. Framed
    BY DEF TInv
  <1> QED
    BY <1>1, <1>2, <1>4, <1>5, <1>6, <1>7, EndMoves

LEMMA AdmittingFinite ==
  ASSUME TInv
  PROVE  IsFiniteSet(Admitting) /\ Cardinality(Admitting) \in Nat
  <1>1. Admitting \subseteq Threads
    BY DEF Admitting
  <1>2. IsFiniteSet(Admitting)
    BY <1>1, ThreadsAssumption, FS_Subset
  <1> QED
    BY <1>2, FS_CardinalityType

LEMMA EndStep ==
  ASSUME TInv, NEW t \in Threads, holder[QueueLock].by = t, End(t),
         lock_of' = lock_of, alive' = alive, [Was!Next]_(Was!vars),
         Len(group') <= Len(lock_of), Len(before.group) <= Len(group'),
         Len(group') <= Len(before.group) + 1,
         thread[t].call # "admit" => Len(group') <= Len(before.group)
  PROVE  TInv'
  <1>1. /\ Moves(t) /\ thread'[t] = Idle /\ Settled = before /\ ~ Busy'
        /\ Settled' = Snapshot' /\ before' = NoSnapshot
        /\ holder' = [l \in Locks |-> Free] /\ t # Nobody
    BY EndSettles, ThreadsAssumption
  <1>2. Was!IInv'
    BY SettledKeeps DEF TInv
  <1>3. Settled'.group = group'
    BY <1>1, SnapshotNext
  <1>4. Len(before.group) \in Nat /\ Len(group') \in Nat
    <2>1. Was!TypeOK'
      BY <1>2 DEF Was!IInv
    <2>2. Settled'.group \in Seq(Was!GroupRecord)
      BY <2>1 DEF Was!TypeOK, Was!GroupRecord
    <2> QED
      BY <1>1, <1>3, <2>2, GroupsSettled, LenProperties
  <1>5. Framed'
    <2>1. thread'[t].keeps = FALSE
      BY <1>1 DEF Idle, Frame
    <2>2. \A u \in Threads \ {t} : thread'[u] = thread[u]
      BY <1>1 DEF Moves
    <2> QED
      BY <1>1, <2>1, <2>2 DEF TInv, Framed, Moves
  <1>6. QueueLock \in Locks
    BY BoundsAssumption DEF QueueLock, Locks
  <1>7. Locked'
    <2>1. \A u \in Threads : Unborn(thread'[u]) => thread'[u].h <= Len(lock_of)
      BY <1>1 DEF Moves, TInv, Locked, Unborn, Idle, Frame
    <2>2. holder' \in [Locks -> [by: Threads \cup {Nobody}, depth: Nat]]
      BY <1>1 DEF Free
    <2> QED
      BY <1>1, <1>3, <1>6, <2>1, <2>2 DEF TInv, Locked, Free, Unborn
  <1>8. Remembered'
    BY <1>1 DEF Remembered
  <1>9. Bounded'
    <2>1. Admitting' = Admitting \ {t}
      BY <1>1 DEF Admitting, Moves, Idle, Frame
    <2>2. IsFiniteSet(Admitting) /\ Cardinality(Admitting) \in Nat
      BY AdmittingFinite
    <2>3. Cardinality(Admitting') = IF thread[t].call = "admit" THEN Cardinality(Admitting) - 1
                                    ELSE Cardinality(Admitting)
      <3>1. t \in Admitting <=> thread[t].call = "admit"
        BY DEF Admitting
      <3> QED
        BY <2>1, <2>2, <3>1, FS_RemoveElement
    <2>4. Len(before.group) + Cardinality(Admitting) <= MaxAdmissions
      BY <1>1 DEF TInv, Bounded
    <2>5. Len(group') + Cardinality(Admitting') <= MaxAdmissions
      <3>1. CASE thread[t].call = "admit"
        <4>1. /\ Cardinality(Admitting') = Cardinality(Admitting) - 1
              /\ Len(group') <= Len(before.group) + 1
          BY <2>3, <3>1
        <4> QED
          BY <1>4, <2>2, <2>4, <4>1, BoundsAssumption
      <3>2. CASE thread[t].call # "admit"
        <4>1. /\ Cardinality(Admitting') = Cardinality(Admitting)
              /\ Len(group') <= Len(before.group)
          BY <2>3, <3>2
        <4> QED
          BY <1>4, <2>2, <2>4, <4>1, BoundsAssumption
      <3> QED
        BY <3>1, <3>2
    <2> QED
      BY <1>3, <2>5 DEF Bounded
  <1>10. Placed'
    <2>1. ASSUME NEW u \in Threads
          PROVE  holder'[QueueLock].by # u /\ Outside(Len(group'), thread'[u])
      <3>1. holder'[QueueLock].by # u
        BY <1>1, <1>6, ThreadsAssumption DEF Free
      <3>2. CASE u = t
        BY <1>1, <3>1, <3>2 DEF Outside, Idle, Frame
      <3>3. CASE u # t
        <4>1. thread'[u] = thread[u] /\ Outside(Len(before.group), thread[u])
          BY <1>1, <3>3, NotHolding DEF Moves
        <4>2. 1..Len(before.group) \subseteq 1..Len(group')
          BY <1>4
        <4> QED
          BY <3>1, <4>1, <4>2 DEF Outside
      <3> QED
        BY <3>1, <3>2, <3>3
    <2> QED
      BY <1>3, <2>1 DEF Placed
  <1> QED
    BY <1>2, <1>5, <1>7, <1>8, <1>9, <1>10 DEF TInv
-----------------------------------------------------------------------------
\* Steps of a thread that does not hold the lock.

LEMMA OutsideStep ==
  ASSUME TInv, NEW t \in Threads, holder[QueueLock].by # t, Moves(t),
         UNCHANGED <<group, queue, holder, lock_of, before>>,
         Outside(Len(Settled.group), thread'[t]),
         thread'[t].keeps \in BOOLEAN, thread'[t].keeps => alive,
         Len(Settled.group) + Cardinality(Admitting') <= MaxAdmissions,
         [Was!Next]_(Was!vars)
  PROVE  TInv'
  <1>1. UNCHANGED <<groups, member_index, next_sequence, ready_groups, ready_heap, alive>>
    BY DEF queue
  <1>2. Snapshot' = Snapshot
    BY <1>1 DEF Snapshot
  <1>3. (Busy' <=> Busy) /\ Settled' = Settled
    BY <1>2 DEF Busy, Settled
  <1>4. Was!IInv'
    BY SettledKeeps DEF TInv
  <1>5. Framed'
    BY <1>1 DEF TInv, Framed, Moves
  <1>6. Locked'
    <2>1. ~ Unborn(thread'[t])
      BY DEF Outside, Unborn, Idle, Frame
    <2>2. \A u \in Threads : Unborn(thread'[u]) => thread'[u].h <= Len(lock_of)
      BY <2>1 DEF TInv, Locked, Moves
    <2> QED
      BY <1>3, <2>2 DEF TInv, Locked
  <1>7. Remembered'
    BY <1>3 DEF TInv, Remembered
  <1>8. Bounded'
    BY <1>3 DEF Bounded
  <1>9. Placed'
    BY <1>2, <1>3 DEF TInv, Placed, Moves
  <1> QED
    BY <1>4, <1>5, <1>6, <1>7, <1>8, <1>9 DEF TInv

\* The lock that a group's methods take is the queue's.
LEMMA GroupLock ==
  ASSUME TInv, NEW h \in 1..Len(Settled.group)
  PROVE  lock_of[h] = QueueLock
  <1>1. lock_of \in Seq({QueueLock}) /\ Len(Settled.group) <= Len(lock_of)
    BY DEF TInv, Locked
  <1>2. h \in 1..Len(lock_of)
    BY <1>1, GroupsSettled
  <1> QED
    BY <1>1, <1>2, ElementOfSeq

\* Taking the lock begins a section in which nothing has been done yet.
LEMMA AcquireStep ==
  ASSUME TInv, NEW t \in Threads, holder[QueueLock].by # t, Take(t, QueueLock), Moves(t),
         UNCHANGED <<vars, lock_of>>,
         thread'[t].call = "admit" <=> thread[t].call = "admit",
         thread'[t].keeps \in BOOLEAN, thread'[t].keeps => alive,
         ~ Unborn(thread'[t]),
         Inside(Settled, Settled, thread'[t], 1)
  PROVE  TInv' /\ UNCHANGED Was!vars
  <1>1. UNCHANGED <<group, groups, member_index, next_sequence, ready_groups, ready_heap,
                    alive, result>>
    BY DEF vars, queue
  <1>2. Snapshot' = Snapshot
    BY <1>1 DEF Snapshot
  <1>3. /\ QueueLock \in Locks /\ t # Nobody
        /\ holder \in [Locks -> [by: Threads \cup {Nobody}, depth: Nat]]
        /\ holder[QueueLock].by = Nobody <=> holder[QueueLock].depth = 0
    BY BoundsAssumption, ThreadsAssumption DEF QueueLock, Locks, TInv, Locked
  <1>4. holder[QueueLock].by = Nobody /\ holder[QueueLock].depth = 0
    BY <1>3 DEF Take, CanTake
  <1>5. ~ Busy /\ Settled = Snapshot /\ before' = Snapshot
    BY <1>4 DEF Busy, Settled, Take
  <1>6. holder' = [holder EXCEPT ![QueueLock] = [by |-> t, depth |-> 1]]
    BY <1>4 DEF Take
  <1>7. /\ holder'[QueueLock] = [by |-> t, depth |-> 1]
        /\ \A l \in Locks \ {QueueLock} : holder'[l] = holder[l]
        /\ holder' \in [Locks -> [by: Threads \cup {Nobody}, depth: Nat]]
    BY <1>3, <1>6
  <1>8. Busy' /\ Settled' = Settled
    <2>1. Busy'
      BY <1>7 DEF Busy
    <2> QED
      BY <1>5, <2>1 DEF Settled
  <1>9. UNCHANGED Was!vars
    BY <1>1, <1>8 DEF Was!vars, Was!queue
  <1>10. Was!IInv'
    BY <1>9, SettledKeeps DEF TInv
  <1>11. Framed'
    BY <1>1 DEF TInv, Framed, Moves
  <1>12. Locked'
    <2>1. \A u \in Threads : Unborn(thread'[u]) => thread'[u].h <= Len(lock_of)
      BY DEF TInv, Locked, Moves
    <2> QED
      BY <1>3, <1>7, <1>8, <2>1 DEF TInv, Locked
  <1>13. Remembered'
    <2>1. before' = [group |-> before'.group, groups |-> before'.groups,
                     member_index |-> before'.member_index,
                     next_sequence |-> before'.next_sequence,
                     ready_groups |-> before'.ready_groups,
                     ready_heap |-> before'.ready_heap]
      BY <1>5 DEF Snapshot
    <2> QED
      BY <1>8, <2>1 DEF Remembered
  <1>14. Admitting' = Admitting
    BY DEF Admitting, Moves
  <1>15. Bounded'
    BY <1>8, <1>14 DEF TInv, Bounded
  <1>16. Placed'
    <2>1. Inside(Snapshot', before', thread'[t], holder'[QueueLock].depth)
      BY <1>2, <1>5, <1>7
    <2>2. ASSUME NEW u \in Threads \ {t}
          PROVE  holder'[QueueLock].by # u /\ Outside(Len(Settled'.group), thread'[u])
      <3>1. holder'[QueueLock].by # u /\ holder[QueueLock].by # u
        BY <1>3, <1>4, <1>7, ThreadsAssumption
      <3>2. thread'[u] = thread[u]
        BY DEF Moves
      <3> QED
        BY <1>8, <3>1, <3>2, NotHolding
    <2> QED
      BY <1>7, <2>1, <2>2 DEF Placed
  <1> QED
    BY <1>9, <1>10, <1>11, <1>12, <1>13, <1>15, <1>16 DEF TInv
-----------------------------------------------------------------------------
\* Calls begin.

LEMMA IdleIsOutside ==
  ASSUME TInv, NEW t \in Threads, At(t, "idle")
  PROVE  holder[QueueLock].by # t /\ thread[t] = Idle
  <1>1. holder[QueueLock].by # t
    <2>1. ASSUME holder[QueueLock].by = t
          PROVE  FALSE
      <3>1. Inside(Snapshot, before, thread[t], holder[QueueLock].depth)
        BY <2>1, Holding
      <3> QED
        BY <3>1 DEF Inside, At
    <2> QED
      BY <2>1
  <1> QED
    BY <1>1, NotHolding DEF Outside, At

LEMMA BeginStep ==
  ASSUME TInv, NEW t \in Threads, NEW frame, Begin(t, frame), FrameForm(frame),
         Outside(Len(Settled.group), frame),
         frame.keeps \in BOOLEAN, frame.keeps => alive,
         frame.call = "admit" => Room
  PROVE  TInv' /\ UNCHANGED Was!vars
  <1>1. holder[QueueLock].by # t /\ thread[t] = Idle
    BY IdleIsOutside DEF Begin
  <1>2. /\ thread' = [thread EXCEPT ![t] = frame] /\ DOMAIN thread = Threads
        /\ UNCHANGED <<vars, holder, lock_of, before>>
    BY DEF Begin, TInv, Framed
  <1>3. thread'[t] = frame /\ Moves(t)
    BY <1>2 DEF Moves
  <1>4. UNCHANGED <<group, queue, result>>
    BY <1>2 DEF vars
  <1>5. Settled' = Settled
    BY <1>2, <1>4 DEF queue, Settled, Snapshot, Busy
  <1>6. UNCHANGED Was!vars
    BY <1>4, <1>5 DEF Was!vars, Was!queue, queue
  <1>7. Len(Settled.group) + Cardinality(Admitting') <= MaxAdmissions
    <2>1. t \notin Admitting
      BY <1>1 DEF Admitting, Idle, Frame
    <2>2. CASE frame.call = "admit"
      <3>1. Admitting' = Admitting \cup {t}
        BY <1>3, <2>2 DEF Admitting, Moves
      <3>2. Cardinality(Admitting') = Cardinality(Admitting) + 1
        BY <2>1, <3>1, AdmittingFinite, FS_AddElement
      <3> QED
        BY <2>2, <3>2, AdmittingFinite, GroupsSettled, BoundsAssumption DEF Room
    <2>3. CASE frame.call # "admit"
      <3>1. Admitting' = Admitting
        BY <1>1, <1>3, <2>3 DEF Admitting, Moves, Idle, Frame
      <3> QED
        BY <3>1 DEF TInv, Bounded
    <2> QED
      BY <2>2, <2>3
  <1>8. TInv'
    BY <1>1, <1>2, <1>3, <1>4, <1>6, <1>7, OutsideStep
  <1> QED
    BY <1>6, <1>8

LEMMA BeginOnQueueStep ==
  ASSUME TInv, NEW t \in Threads, NEW call, NEW arg, BeginOnQueue(t, call, arg),
         \A f : f.call = call /\ f.arg = arg /\ f.keeps /\ f.out = <<>> => Acquiring(f),
         call = "admit" => Room
  PROVE  TInv' /\ UNCHANGED Was!vars
  <1> DEFINE frame == [Frame("acquire", call, arg) EXCEPT !.keeps = TRUE]
  <1>1. /\ frame.at = "acquire" /\ frame.call = call /\ frame.arg = arg
        /\ frame.out = <<>> /\ frame.keeps = TRUE /\ FrameForm(frame)
    <2>1. frame = [at |-> "acquire", call |-> call, arg |-> arg, h |-> 0, left |-> {},
                   now |-> {}, out |-> <<>>, keeps |-> TRUE]
      <3> DEFINE base == Frame("acquire", call, arg)
      <3>1. base = [at |-> "acquire", call |-> call, arg |-> arg, h |-> 0, left |-> {},
                    now |-> {}, out |-> <<>>, keeps |-> FALSE]
        BY DEF Frame
      <3> HIDE DEF base
      <3>2. frame = [base EXCEPT !.keeps = TRUE]
        BY DEF base
      <3> HIDE DEF frame
      <3> QED
        BY <3>1, <3>2
    <2> QED
      BY <2>1 DEF FrameForm
  <1>2. Begin(t, frame) /\ alive
    BY DEF BeginOnQueue
  <1> HIDE DEF frame
  <1>3. Outside(Len(Settled.group), frame)
    BY <1>1 DEF Outside
  <1> QED
    BY <1>1, <1>2, <1>3, BeginStep

LEMMA BuildRefusedStep ==
  ASSUME TInv, NEW t \in Threads, NEW id \in GroupIds, NEW list \in MemberLists,
         BuildRefused(t, id, list)
  PROVE  TInv' /\ [Was!Next]_(Was!vars)
  <1>1. holder[QueueLock].by # t /\ thread[t] = Idle
    BY IdleIsOutside DEF BuildRefused
  <1>2. /\ UNCHANGED <<group, queue, thread, holder, lock_of, before>>
        /\ alive /\ ~ WellFormed(list) /\ result' = Raises("admit")
    BY DEF BuildRefused
  <1>3. Settled' = Settled
    BY <1>2 DEF queue, Settled, Snapshot, Busy
  <1>4. Was!AdmitRefused(id, list)
    <2>1. ~ Was!Admissible(id, list)
      BY <1>2 DEF Was!Admissible, Was!WellFormed, WellFormed, Was!IsInjective, IsInjective
    <2>2. Was!Refuse("admit")
      BY <1>2, <1>3 DEF Was!Refuse, Was!queue, queue, Was!Raises, Raises, Was!Returns, Returns
    <2> QED
      BY <1>2, <2>1, <2>2 DEF Was!AdmitRefused
  <1>5. id \in GroupIds /\ list \in Was!MemberLists
    BY DEF MemberLists, Was!MemberLists
  <1>6. Was!Next
    BY <1>4, <1>5 DEF Was!Next
  <1>7. Moves(t)
    BY <1>2 DEF Moves, TInv, Framed
  <1>8. Admitting' = Admitting
    BY <1>2 DEF Admitting
  <1>9. Len(Settled.group) + Cardinality(Admitting') <= MaxAdmissions
    BY <1>8 DEF TInv, Bounded
  <1>10. TInv'
    BY <1>1, <1>2, <1>6, <1>7, <1>9, OutsideStep DEF Outside, Idle, Frame, TInv, Framed
  <1> QED
    BY <1>6, <1>10

LEMMA HandleStep ==
  ASSUME TInv, NEW t \in Threads, NEW h \in Published, NEW m \in Members,
         BeginHandle(t, h, m)
  PROVE  TInv' /\ UNCHANGED Was!vars
  <1> DEFINE frame == [Frame("enter", "mark_ready", <<m>>) EXCEPT !.h = h, !.left = {m}]
  <1>1. /\ frame.at = "enter" /\ frame.call = "mark_ready" /\ frame.h = h
        /\ frame.left = {m} /\ frame.keeps = FALSE /\ FrameForm(frame)
    <2>1. frame = [at |-> "enter", call |-> "mark_ready", arg |-> <<m>>, h |-> h,
                   left |-> {m}, now |-> {}, out |-> <<>>, keeps |-> FALSE]
      <3> DEFINE base == Frame("enter", "mark_ready", <<m>>)
      <3>1. base = [at |-> "enter", call |-> "mark_ready", arg |-> <<m>>, h |-> 0,
                    left |-> {}, now |-> {}, out |-> <<>>, keeps |-> FALSE]
        BY DEF Frame
      <3> HIDE DEF base
      <3>2. frame = [[base EXCEPT !.h = h] EXCEPT !.left = {m}]
        BY DEF base
      <3> HIDE DEF frame
      <3> QED
        BY <3>1, <3>2
    <2> QED
      BY <2>1 DEF FrameForm
  <1>2. Begin(t, frame)
    BY DEF BeginHandle
  <1> HIDE DEF frame
  <1>3. Outside(Len(Settled.group), frame)
    BY <1>1, GroupsSettled DEF Outside, Entering, Published
  <1> QED
    BY <1>1, <1>2, <1>3, BeginStep
-----------------------------------------------------------------------------
\* What is known of the settled queue.

LEMMA SettledType ==
  ASSUME TInv
  PROVE  /\ Settled.group \in Seq(GroupRecord)
         /\ Settled.group \in [1..Len(Settled.group) -> GroupRecord]
         /\ \A h \in DOMAIN Settled.group :
              /\ Settled.group[h] \in GroupRecord
              /\ Settled.group[h].ready \in SUBSET Settled.group[h].members
              /\ Settled.group[h].sequence = h - 1 /\ h \in Nat
              /\ IsFiniteSet(Settled.group[h].members)
         /\ DOMAIN Settled.groups \subseteq GroupIds
         /\ Settled.groups \in [DOMAIN Settled.groups -> DOMAIN Settled.group]
         /\ DOMAIN Settled.member_index \subseteq Members
         /\ Settled.member_index \in [DOMAIN Settled.member_index -> GroupIds]
         /\ Settled.next_sequence = Len(Settled.group)
         /\ DOMAIN Settled.ready_groups \subseteq Nat
         /\ Settled.ready_groups \in [DOMAIN Settled.ready_groups -> DOMAIN Settled.group]
         /\ Settled.ready_heap \subseteq Nat
  <1>1. Was!TypeOK /\ Was!Numbered
    BY DEF TInv, Was!IInv
  <1>2. Was!GroupRecord = GroupRecord
    BY DEF Was!GroupRecord, GroupRecord
  <1>3. Settled.group \in Seq(GroupRecord)
    BY <1>1, <1>2 DEF Was!TypeOK
  <1>4. DOMAIN Settled.group = 1..Len(Settled.group) /\ Len(Settled.group) \in Nat
    BY GroupsSettled
  <1>5. ASSUME NEW h \in DOMAIN Settled.group
        PROVE  /\ Settled.group[h] \in GroupRecord /\ h \in Nat
               /\ Settled.group[h].ready \in SUBSET Settled.group[h].members
               /\ Settled.group[h].sequence = h - 1
               /\ IsFiniteSet(Settled.group[h].members)
    <2>1. Settled.group[h] \in GroupRecord /\ h \in Nat
      BY <1>3, <1>4, ElementOfSeq
    <2>2. Settled.group[h].members \subseteq Members
      BY <2>1 DEF GroupRecord
    <2>3. IsFiniteSet(Settled.group[h].members)
      BY <2>2, MembersAssumption, FS_Subset
    <2> QED
      BY <1>1, <2>1, <2>3 DEF Was!TypeOK, Was!Numbered, Was!Handles
  <1>6. Settled.group \in [1..Len(Settled.group) -> GroupRecord]
    BY <1>3, LenProperties
  <1>7. /\ DOMAIN Settled.groups \subseteq GroupIds
        /\ Settled.groups \in [DOMAIN Settled.groups -> DOMAIN Settled.group]
        /\ DOMAIN Settled.member_index \subseteq Members
        /\ Settled.member_index \in [DOMAIN Settled.member_index -> GroupIds]
        /\ Settled.next_sequence = Len(Settled.group)
        /\ DOMAIN Settled.ready_groups \subseteq Nat
        /\ Settled.ready_groups \in [DOMAIN Settled.ready_groups -> DOMAIN Settled.group]
        /\ Settled.ready_heap \subseteq Nat
    BY <1>1 DEF Was!TypeOK, Was!Numbered, Was!Handles
  <1> QED
    BY <1>3, <1>5, <1>6, <1>7

LEMMA SettledTells ==
  ASSUME TInv
  PROVE  /\ WaitingOf(Settled) \subseteq DOMAIN Settled.group
         /\ \A id \in DOMAIN Settled.groups :
              Settled.group[Settled.groups[id]].group_id = id
         /\ \A h \in WaitingOf(Settled) :
              /\ Settled.group[h].group_id \in DOMAIN Settled.groups
              /\ Settled.groups[Settled.group[h].group_id] = h
              /\ \A m \in Settled.group[h].members :
                   /\ m \in DOMAIN Settled.member_index
                   /\ Settled.member_index[m] = Settled.group[h].group_id
         /\ \A g, h \in WaitingOf(Settled) :
              Settled.group[g].members \cap Settled.group[h].members # {} => g = h
         /\ \A m \in DOMAIN Settled.member_index :
              Settled.member_index[m] \in DOMAIN Settled.groups
         /\ \A s \in DOMAIN Settled.ready_groups :
              /\ Settled.ready_groups[s] \in WaitingOf(Settled)
              /\ Settled.group[Settled.ready_groups[s]].sequence = s
         /\ DOMAIN Settled.ready_groups \subseteq Settled.ready_heap
         /\ StrictOrder => DOMAIN Settled.ready_groups = {}
  <1>1. /\ Was!TypeOK /\ Was!IndexesAgree /\ Was!ReadyIndexExact /\ Was!HeapCoversReady
    BY DEF TInv, Was!IInv
  <1>2. Was!Waiting = WaitingOf(Settled)
    BY DEF Was!Waiting, WaitingOf
  <1>3. WaitingOf(Settled) \subseteq DOMAIN Settled.group
    BY SettledType DEF WaitingOf
  <1>4. \A id \in DOMAIN Settled.groups : Settled.group[Settled.groups[id]].group_id = id
    BY <1>1 DEF Was!IndexesAgree
  <1>5. \A h \in WaitingOf(Settled) :
          /\ Settled.group[h].group_id \in DOMAIN Settled.groups
          /\ Settled.groups[Settled.group[h].group_id] = h
    BY <1>4 DEF WaitingOf
  <1>6. \A h \in WaitingOf(Settled) : \A m \in Settled.group[h].members :
          /\ m \in DOMAIN Settled.member_index
          /\ Settled.member_index[m] = Settled.group[h].group_id
    BY <1>1, <1>2 DEF Was!IndexesAgree
  <1>7. \A g, h \in WaitingOf(Settled) :
          Settled.group[g].members \cap Settled.group[h].members # {} => g = h
    BY <1>5, <1>6
  <1>8. ASSUME NEW m \in DOMAIN Settled.member_index
        PROVE  Settled.member_index[m] \in DOMAIN Settled.groups
    <2>1. PICK h \in WaitingOf(Settled) : m \in Settled.group[h].members
      BY <1>1, <1>2 DEF Was!IndexesAgree
    <2> QED
      BY <1>5, <1>6, <2>1
  <1>9. /\ \A s \in DOMAIN Settled.ready_groups :
             /\ Settled.ready_groups[s] \in WaitingOf(Settled)
             /\ Settled.group[Settled.ready_groups[s]].sequence = s
        /\ StrictOrder => DOMAIN Settled.ready_groups = {}
    BY <1>1, <1>2 DEF Was!ReadyIndexExact
  <1>10. DOMAIN Settled.ready_groups \subseteq Settled.ready_heap
    BY <1>1 DEF Was!HeapCoversReady
  <1> QED
    BY <1>3, <1>4, <1>5, <1>6, <1>7, <1>8, <1>9, <1>10

\* What Tito.tla says of the settled queue and of the queue at present, said of
\* snapshots.
LEMMA SaidOfSettled ==
  /\ Was!Waiting = WaitingOf(Settled) /\ Was!NextOut = NextOutOf(Settled)
  /\ Was!AllOut = AllOutOf(Settled) /\ Was!Purged = PurgedOf(Settled)
  /\ \A h : Was!Age(h) = AgeIn(Settled, h)
  /\ \A id, list : Was!Admissible(id, list) <=> AdmissibleTo(Settled, id, list)
  <1>1. Was!Waiting = WaitingOf(Settled)
    BY DEF Was!Waiting, WaitingOf
  <1>2. Was!Live = LiveOf(Settled)
    BY DEF Was!Live, LiveOf
  <1>3. \A g : Was!IsReady(g) <=> IsReady(g)
    BY DEF Was!IsReady, IsReady, Was!Cardinality, Cardinality
  <1>4. Was!NextOut = NextOutOf(Settled)
    BY <1>1, <1>2, <1>3 DEF Was!NextOut, NextOutOf
  <1>5. Was!AllOut = AllOutOf(Settled)
    BY <1>1, <1>2, <1>3 DEF Was!AllOut, AllOutOf
  <1>6. Was!Purged = PurgedOf(Settled)
    BY <1>2 DEF Was!Purged, PurgedOf
  <1>7. \A h : Was!Age(h) = AgeIn(Settled, h)
    BY DEF Was!Age, AgeIn
  <1>8. \A id, list : Was!Admissible(id, list) <=> AdmissibleTo(Settled, id, list)
    BY DEF Was!Admissible, AdmissibleTo, Was!WellFormed, WellFormed, Was!IsInjective,
           IsInjective, Was!Range, Range
  <1> QED
    BY <1>1, <1>4, <1>5, <1>6, <1>7, <1>8

LEMMA SaidAtPresent ==
  /\ Waiting = WaitingOf(Snapshot) /\ NextOut = NextOutOf(Snapshot)
  /\ Purged = PurgedOf(Snapshot)
  /\ \A id, list : Admissible(id, list) <=> AdmissibleTo(Snapshot, id, list)
  <1>1. Waiting = WaitingOf(Snapshot)
    BY SnapshotIs DEF Waiting, WaitingOf
  <1>2. Live = LiveOf(Snapshot)
    BY SnapshotIs DEF Live, LiveOf
  <1>3. NextOut = NextOutOf(Snapshot)
    BY <1>1, <1>2, SnapshotIs DEF NextOut, NextOutOf
  <1>4. Purged = PurgedOf(Snapshot)
    BY <1>2, SnapshotIs DEF Purged, PurgedOf
  <1>5. \A id, list : Admissible(id, list) <=> AdmissibleTo(Snapshot, id, list)
    BY SnapshotIs DEF Admissible, AdmissibleTo
  <1> QED
    BY <1>1, <1>3, <1>4, <1>5
-----------------------------------------------------------------------------
\* The lock is taken.

LEMMA NothingTaken ==
  ASSUME TInv
  PROVE  /\ Oldest(Settled, <<>>) /\ HeapSoFar(Settled, Settled)
         /\ Taken(Settled, Settled, {}, {}, MembersOf(Settled.group, {}), {})
  <1>1. /\ IdsOf(Settled.group, {}) = {} /\ SequencesOf(Settled.group, {}) = {}
        /\ MembersOf(Settled.group, {}) = {}
    BY DEF IdsOf, SequencesOf, MembersOf
  <1>2. DetachedFrom(Settled.group, {}) = Settled.group
    BY SettledType DEF DetachedFrom
  <1>3. ASSUME NEW S, NEW T, NEW dict \in [S -> T]
        PROVE  Without(dict, {}) = dict
    BY DEF Without, Restrict
  <1>4. /\ Without(Settled.groups, {}) = Settled.groups
        /\ Without(Settled.member_index, {}) = Settled.member_index
        /\ Without(Settled.ready_groups, {}) = Settled.ready_groups
    BY <1>3, SettledType
  <1>5. Taken(Settled, Settled, {}, {}, MembersOf(Settled.group, {}), {})
    BY <1>1, <1>2, <1>4 DEF Taken, SameNumber
  <1>6. HeapSoFar(Settled, Settled)
    BY SettledTells DEF HeapSoFar
  <1>7. Oldest(Settled, <<>>)
    BY DEF Oldest
  <1> QED
    BY <1>5, <1>6, <1>7

LEMMA AcquireBegins ==
  ASSUME TInv, NEW t \in Threads, Acquire(t)
  PROVE  TInv' /\ UNCHANGED Was!vars
  <1> DEFINE f == thread[t]
             next == thread'[t]
  <1>1. holder[QueueLock].by # t
    <2>1. ASSUME holder[QueueLock].by = t
          PROVE  FALSE
      <3>1. Inside(Snapshot, before, thread[t], holder[QueueLock].depth)
        BY <2>1, Holding
      <3> QED
        BY <3>1 DEF Inside, Acquire, At
    <2> QED
      BY <2>1
  <1>2. f.at = "acquire" /\ Acquiring(f)
    BY <1>1, NotHolding DEF Outside, Acquire, At, Idle, Frame
  <1>3. /\ Moves(t) /\ next.at = FirstLabel[f.call] /\ next.call = f.call
        /\ next.arg = f.arg /\ next.out = f.out /\ next.keeps = f.keeps
    BY GotoMoves DEF Acquire, TInv
  <1>4. f.keeps \in BOOLEAN /\ (f.keeps => alive)
    BY DEF TInv, Framed
  <1>5. ~ Unborn(next) /\ Inside(Settled, Settled, next, 1)
    <2>1. CASE \E id \in GroupIds, list \in MemberLists : AdmitCall(f, id, list)
      <3>1. next.at = "check"
        BY <1>3, <2>1 DEF FirstLabel, AdmitCall
      <3>2. \E id \in GroupIds, list \in MemberLists : AdmitCall(next, id, list)
        BY <1>3, <2>1 DEF AdmitCall
      <3> QED
        BY <3>1, <3>2 DEF Inside, Unborn
    <2>2. CASE FindCall(f)
      <3>1. next.at = "find"
        BY <1>3, <2>2 DEF FirstLabel, FindCall
      <3>2. FindCall(next) /\ next.out = <<>>
        BY <1>2, <1>3, <2>2 DEF FindCall, Acquiring
      <3> QED
        BY <3>1, <3>2 DEF Inside, Unborn
    <2>3. CASE PeekCall(f)
      <3>1. next.at = "peek"
        BY <1>3, <2>3 DEF FirstLabel, PeekCall
      <3>2. next.keeps /\ next.call \in {"peek", "release", "release_all"}
        BY <1>3, <2>3 DEF PeekCall
      <3>3. next.out = <<>> /\ Gone(next) = {}
        BY <1>2, <1>3 DEF Acquiring, Gone, Range
      <3>4. PeekAt(Settled, Settled, next)
        BY <3>2, <3>3, NothingTaken DEF PeekAt
      <3> QED
        BY <3>1, <3>4 DEF Inside, Unborn
    <2>4. CASE ClearCall(f)
      <3>1. next.at = "clear_callbacks"
        BY <1>3, <2>4 DEF FirstLabel, ClearCall
      <3>2. ClearCall(next)
        BY <1>3, <2>4 DEF ClearCall
      <3> QED
        BY <3>1, <3>2 DEF Inside, Unborn
    <2> QED
      BY <1>2, <2>1, <2>2, <2>3, <2>4 DEF Acquiring
  <1> HIDE DEF f, next
  <1>6. Take(t, QueueLock) /\ UNCHANGED <<vars, lock_of>>
    BY DEF Acquire
  <1> QED
    BY <1>1, <1>3, <1>4, <1>5, <1>6, AcquireStep DEF f, next

LEMMA ReprBegins ==
  ASSUME TInv, NEW t \in Threads, NEW h \in Published, BeginRepr(t, h)
  PROVE  TInv' /\ UNCHANGED Was!vars
  <1> DEFINE base == Frame("repr_count", "repr", <<>>)
             next == thread'[t]
  <1>1. holder[QueueLock].by # t /\ thread[t] = Idle
    BY IdleIsOutside DEF BeginRepr
  <1>2. lock_of[h] = QueueLock
    BY GroupLock, GroupsSettled DEF Published
  <1>3. Take(t, QueueLock) /\ UNCHANGED <<vars, lock_of>>
    BY <1>2 DEF BeginRepr
  <1>4. base = [at |-> "repr_count", call |-> "repr", arg |-> <<>>, h |-> 0, left |-> {},
                now |-> {}, out |-> <<>>, keeps |-> FALSE]
    BY DEF Frame
  <1> HIDE DEF base
  <1>5. thread' = [thread EXCEPT ![t] = [base EXCEPT !.h = h]]
    BY DEF BeginRepr, base
  <1>6. next = [base EXCEPT !.h = h] /\ DOMAIN thread' = Threads
        /\ \A u \in Threads \ {t} : thread'[u] = thread[u]
    BY <1>5 DEF TInv, Framed
  <1> HIDE DEF next
  <1>7. /\ next.at = "repr_count" /\ next.call = "repr" /\ next.h = h
        /\ next.keeps = FALSE /\ FrameForm(next)
    BY <1>4, <1>6 DEF FrameForm
  <1>8. Moves(t)
    BY <1>6, <1>7 DEF Moves, next
  <1>9. ~ Unborn(next) /\ Inside(Settled, Settled, next, 1)
    BY <1>7 DEF Inside, ReprAt, Published, Unborn
  <1>10. next.call = "admit" <=> thread[t].call = "admit"
    BY <1>1, <1>7 DEF Idle, Frame
  <1> QED
    BY <1>1, <1>3, <1>7, <1>8, <1>9, <1>10, AcquireStep DEF next

LEMMA CallStep ==
  ASSUME TInv, NEW t \in Threads, Call(t)
  PROVE  TInv' /\ [Was!Next]_(Was!vars)
  <1>1. ASSUME NEW id \in GroupIds, NEW list \in MemberLists,
               BeginAdmit(t, id, list) \/ BuildRefused(t, id, list)
        PROVE  TInv' /\ [Was!Next]_(Was!vars)
    <2>1. CASE BeginAdmit(t, id, list)
      <3>1. BeginOnQueue(t, "admit", <<id, list>>) /\ Room /\ WellFormed(list)
        BY <2>1 DEF BeginAdmit
      <3>2. \A f : f.call = "admit" /\ f.arg = <<id, list>> /\ f.keeps /\ f.out = <<>>
                     => Acquiring(f)
        BY <3>1 DEF Acquiring, AdmitCall
      <3> QED
        BY <3>1, <3>2, BeginOnQueueStep
    <2>2. CASE BuildRefused(t, id, list)
      BY <2>2, BuildRefusedStep
    <2> QED
      BY <1>1, <2>1, <2>2
  <1>2. ASSUME NEW m \in Members, BeginMember(t, m)
        PROVE  TInv' /\ [Was!Next]_(Was!vars)
    <2>1. BeginOnQueue(t, "mark_ready", <<m>>)
      BY <1>2 DEF BeginMember
    <2>2. \A f : f.call = "mark_ready" /\ f.arg = <<m>> /\ f.keeps /\ f.out = <<>>
                   => Acquiring(f)
      BY DEF Acquiring, FindCall
    <2> QED
      BY <2>1, <2>2, BeginOnQueueStep
  <1>3. ASSUME NEW id \in GroupIds, NEW call \in {"mark_group_ready", "cancel"},
               BeginGroup(t, call, id)
        PROVE  TInv' /\ [Was!Next]_(Was!vars)
    <2>1. BeginOnQueue(t, call, <<id>>)
      BY <1>3 DEF BeginGroup
    <2>2. \A f : f.call = call /\ f.arg = <<id>> /\ f.keeps /\ f.out = <<>> => Acquiring(f)
      BY DEF Acquiring, FindCall
    <2> QED
      BY <2>1, <2>2, BeginOnQueueStep
  <1>4. ASSUME NEW call \in {"peek", "release", "release_all", "clear"}, BeginQueue(t, call)
        PROVE  TInv' /\ [Was!Next]_(Was!vars)
    <2>1. BeginOnQueue(t, call, <<>>)
      BY <1>4 DEF BeginQueue
    <2>2. \A f : f.call = call /\ f.arg = <<>> /\ f.keeps /\ f.out = <<>> => Acquiring(f)
      BY DEF Acquiring, PeekCall, ClearCall
    <2> QED
      BY <2>1, <2>2, BeginOnQueueStep
  <1>5. ASSUME NEW h \in Published, BeginRepr(t, h) \/ \E m \in Members : BeginHandle(t, h, m)
        PROVE  TInv' /\ [Was!Next]_(Was!vars)
    BY <1>5, ReprBegins, HandleStep
  <1> QED
    BY <1>1, <1>2, <1>3, <1>4, <1>5 DEF Call
-----------------------------------------------------------------------------
\* Steps inside a section.

LEMMA InsideAtLabel ==
  ASSUME TInv, NEW t \in Threads, thread[t].at \notin {"idle", "acquire", "enter"}
  PROVE  /\ holder[QueueLock].by = t
         /\ Inside(Snapshot, before, thread[t], holder[QueueLock].depth)
         /\ Settled = before
         /\ thread[t].keeps \in BOOLEAN /\ (thread[t].keeps => alive)
  <1>1. holder[QueueLock].by = t
    BY NotHolding DEF Outside, Idle, Frame
  <1> QED
    BY <1>1, Holding DEF TInv, Framed

\* The lock is neither taken again nor given back.
LEMMA KeepsLock ==
  ASSUME TInv, NEW t \in Threads, holder[QueueLock].by = t, Moves(t),
         thread'[t].call = thread[t].call, thread'[t].keeps = thread[t].keeps,
         UNCHANGED <<private, holder, lock_of>>,
         Unborn(thread'[t]) => Unborn(thread[t]) /\ thread'[t].h = thread[t].h,
         Inside(Snapshot', before, thread'[t], holder[QueueLock].depth)
  PROVE  TInv' /\ UNCHANGED Was!vars
  <1>1. /\ holder[QueueLock].depth \in Nat \ {0}
        /\ holder' = [holder EXCEPT ![QueueLock] =
             [by |-> t, depth |-> holder[QueueLock].depth]]
    BY Holding
  <1>2. \E depth \in Nat \ {0} :
          holder' = [holder EXCEPT ![QueueLock] = [by |-> t, depth |-> depth]]
    BY <1>1
  <1>3. /\ lock_of' \in Seq({QueueLock}) /\ lock_of' = lock_of /\ Len(lock_of) \in Nat
        /\ thread[t].keeps \in BOOLEAN /\ (thread[t].keeps => alive)
        /\ Unborn(thread[t]) => thread[t].h <= Len(lock_of)
    BY DEF TInv, Locked, Framed
  <1>4. StaysInside(t)
    <2>1. Len(lock_of') >= Len(lock_of)
      BY <1>3
    <2>2. Unborn(thread'[t]) => thread'[t].h <= Len(lock_of')
      BY <1>3
    <2> QED
      BY <1>2, <1>3, <2>1, <2>2 DEF StaysInside
  <1>5. holder'[QueueLock].depth = holder[QueueLock].depth
    OBVIOUS
  <1> QED
    BY <1>4, <1>5, InnerStep

\* A section that leaves the queue as it found it.
LEMMA EndsUnchanged ==
  ASSUME TInv, NEW t \in Threads, holder[QueueLock].by = t, End(t),
         UNCHANGED <<group, queue, lock_of>>, Snapshot = before
  PROVE  /\ Settled' = Settled /\ alive' = alive
         /\ [Was!Next]_(Was!vars) => TInv'
  <1>1. /\ UNCHANGED <<groups, member_index, next_sequence, ready_groups, ready_heap, alive>>
        /\ group' = group
    BY DEF queue
  <1>2. Snapshot' = before
    BY <1>1 DEF Snapshot
  <1>3. Settled' = Settled
    BY <1>2, EndSettles
  <1>4. group' = before.group
    BY <1>1, SnapshotIs
  <1>5. /\ Len(before.group) \in Nat /\ Len(before.group) <= Len(lock_of)
    BY EndSettles, GroupsSettled DEF TInv, Locked
  <1>6. /\ Len(group') <= Len(lock_of) /\ Len(before.group) <= Len(group')
        /\ Len(group') <= Len(before.group) + 1 /\ Len(group') <= Len(before.group)
    BY <1>4, <1>5
  <1> QED
    BY <1>1, <1>3, <1>6, EndStep

LEMMA Refuses ==
  ASSUME TInv, NEW t \in Threads, holder[QueueLock].by = t, Return(t, "TitoError", <<>>),
         UNCHANGED <<group, queue, lock_of>>, Snapshot = before
  PROVE  /\ Was!Refuse(thread[t].call)
         /\ Was!Next => TInv' /\ [Was!Next]_(Was!vars)
  <1>1. End(t) /\ result' = Returns(thread[t].call, "TitoError", <<>>)
    BY DEF Return
  <1>2. /\ Settled' = Settled /\ alive' = alive
        /\ [Was!Next]_(Was!vars) => TInv'
    BY <1>1, EndsUnchanged
  <1>3. Was!Refuse(thread[t].call)
    BY <1>1, <1>2 DEF Was!Refuse, Was!queue, Was!Raises, Was!Returns, Returns
  <1> QED
    BY <1>2, <1>3
-----------------------------------------------------------------------------
\* admit

LEMMA CheckFailsStep ==
  ASSUME TInv, NEW t \in Threads, CheckFails(t)
  PROVE  TInv' /\ [Was!Next]_(Was!vars)
  <1>1. thread[t].at = "check"
    BY DEF CheckFails, At
  <1>2. /\ holder[QueueLock].by = t /\ Settled = before
        /\ Inside(Snapshot, before, thread[t], holder[QueueLock].depth)
        /\ thread[t].keeps => alive
    BY <1>1, InsideAtLabel
  <1>3. /\ Snapshot = before
        /\ \E id \in GroupIds, list \in MemberLists : AdmitCall(thread[t], id, list)
    BY <1>1, <1>2 DEF Inside
  <1>4. PICK id \in GroupIds, list \in MemberLists : AdmitCall(thread[t], id, list)
    BY <1>3
  <1>5. /\ ~ Admissible(id, list) /\ alive /\ thread[t].call = "admit"
    BY <1>2, <1>4 DEF AdmitCall, CheckFails
  <1>6. ~ Was!Admissible(id, list)
    BY <1>2, <1>3, <1>5, SaidOfSettled, SaidAtPresent
  <1>7. /\ Was!Refuse("admit")
        /\ Was!Next => TInv' /\ [Was!Next]_(Was!vars)
    BY <1>2, <1>3, <1>5, Refuses DEF CheckFails
  <1>8. Was!AdmitRefused(id, list)
    BY <1>5, <1>6, <1>7 DEF Was!AdmitRefused
  <1>9. list \in Was!MemberLists
    BY DEF MemberLists, Was!MemberLists
  <1>10. Was!Next
    BY <1>8, <1>9 DEF Was!Next
  <1> QED
    BY <1>7, <1>10

LEMMA CheckStep ==
  ASSUME TInv, NEW t \in Threads, Check(t)
  PROVE  TInv' /\ UNCHANGED Was!vars
  <1> DEFINE f == thread[t]
             next == thread'[t]
  <1>1. f.at = "check"
    BY DEF Check, At
  <1>2. /\ holder[QueueLock].by = t /\ Settled = before
        /\ Inside(Snapshot, before, f, holder[QueueLock].depth)
        /\ f.keeps \in BOOLEAN /\ (f.keeps => alive)
    BY <1>1, InsideAtLabel
  <1>3. /\ Snapshot = before
        /\ \E id \in GroupIds, list \in MemberLists : AdmitCall(f, id, list)
    BY <1>1, <1>2 DEF Inside
  <1>4. PICK id \in GroupIds, list \in MemberLists : AdmitCall(f, id, list)
    BY <1>3
  <1>5. f.arg[1] = id /\ f.arg[2] = list
    BY <1>4 DEF AdmitCall
  <1>6. /\ Admissible(id, list)
        /\ group' = Append(group, [NewGroup(id, list) EXCEPT !.on_ready = FALSE])
        /\ next_sequence' = next_sequence + 1
        /\ lock_of' = Append(lock_of, QueueLock)
        /\ GotoWith(t, "insert", Len(group) + 1, Range(list))
        /\ UNCHANGED <<groups, member_index, ready_groups, ready_heap, private, holder>>
    BY <1>5 DEF Check, Donated
  <1>7. /\ Moves(t) /\ next.at = "insert" /\ next.call = f.call /\ next.arg = f.arg
        /\ next.h = Len(group) + 1 /\ next.left = Range(list) /\ next.keeps = f.keeps
    BY <1>6, GotoWithMoves DEF TInv
  <1>8. /\ group = before.group /\ groups = before.groups
        /\ member_index = before.member_index /\ next_sequence = before.next_sequence
        /\ ready_groups = before.ready_groups /\ ready_heap = before.ready_heap
    BY <1>3, SnapshotIs
  <1>9. BornTo(before, id, list) = [NewGroup(id, list) EXCEPT !.on_ready = FALSE]
    <2> DEFINE new == NewGroup(id, list)
               notes == ~ StrictOrder
    <2>1. new = [group_id |-> id, members |-> Range(list), ready |-> {}, ready_count |-> 0,
                 sequence |-> before.next_sequence, on_ready |-> notes]
      BY <1>8 DEF NewGroup
    <2> HIDE DEF new, notes
    <2>2. \A b : [group_id |-> id, members |-> Range(list), ready |-> {}, ready_count |-> 0,
                  sequence |-> before.next_sequence, on_ready |-> b]
                 = [new EXCEPT !.on_ready = b]
      BY <2>1
    <2>3. BornTo(before, id, list) = [new EXCEPT !.on_ready = FALSE]
      BY <2>2, Zenon DEF BornTo
    <2> QED
      BY <2>3 DEF new
  <1>10. /\ lock_of \in Seq({QueueLock}) /\ Len(lock_of) \in Nat
         /\ Len(before.group) <= Len(lock_of) /\ Len(before.group) \in Nat
    BY <1>2, GroupsSettled DEF TInv, Locked
  <1>11. lock_of' \in Seq({QueueLock}) /\ Len(lock_of') = Len(lock_of) + 1
    BY <1>6, <1>10, AppendProperties
  <1>12. Inside(Snapshot', before, next, holder[QueueLock].depth)
    <2>1. AdmitCall(next, id, list)
      BY <1>4, <1>7 DEF AdmitCall
    <2>2. AdmissibleTo(before, id, list)
      BY <1>3, <1>6, SaidAtPresent
    <2>3. Born(Snapshot', before, next, id, list)
      BY <2>1, <2>2, <1>6, <1>7, <1>8, <1>9, SnapshotNext DEF Born, SameReady
    <2>4. InsertAt(Snapshot', before, next)
      BY <2>3, <1>6, <1>7, <1>8, SnapshotNext DEF InsertAt, SameIndexes
    <2> QED
      BY <1>7, <2>4 DEF Inside
  <1>13. /\ holder[QueueLock].depth \in Nat \ {0}
         /\ holder' = [holder EXCEPT ![QueueLock] =
              [by |-> t, depth |-> holder[QueueLock].depth]]
    BY <1>2, <1>6, Holding
  <1>14. \E depth \in Nat \ {0} :
           holder' = [holder EXCEPT ![QueueLock] = [by |-> t, depth |-> depth]]
    BY <1>13
  <1>15. StaysInside(t)
    <2>1. Len(lock_of') >= Len(lock_of) /\ next.h <= Len(lock_of')
      BY <1>7, <1>8, <1>10, <1>11
    <2> QED
      BY <1>2, <1>6, <1>7, <1>11, <1>14, <2>1 DEF StaysInside
  <1> QED
    BY <1>2, <1>6, <1>12, <1>15, InnerStep

LEMMA InsertStep ==
  ASSUME TInv, NEW t \in Threads, Insert(t)
  PROVE  TInv' /\ UNCHANGED Was!vars
  <1> DEFINE f == thread[t]
             next == thread'[t]
  <1>1. f.at = "insert"
    BY DEF Insert, At
  <1>2. /\ holder[QueueLock].by = t /\ Settled = before
        /\ Inside(Snapshot, before, f, holder[QueueLock].depth)
    BY <1>1, InsideAtLabel
  <1>3. InsertAt(Snapshot, before, f)
    BY <1>1, <1>2 DEF Inside
  <1>4. PICK id \in GroupIds, list \in MemberLists :
          /\ Born(Snapshot, before, f, id, list) /\ SameIndexes(Snapshot, before)
          /\ f.left = Range(list)
    BY <1>3 DEF InsertAt
  <1>5. /\ f.arg[1] = id /\ groups' = Put(groups, id, f.h) /\ Goto(t, "index")
        /\ UNCHANGED <<group, member_index, next_sequence, ready_groups, ready_heap,
                       private, holder, lock_of>>
    BY <1>4 DEF Born, AdmitCall, Insert
  <1>6. /\ Moves(t) /\ next.at = "index" /\ next.call = f.call /\ next.arg = f.arg
        /\ next.h = f.h /\ next.left = f.left /\ next.keeps = f.keeps
    BY <1>5, GotoMoves DEF TInv
  <1>7. Born(Snapshot', before, next, id, list)
    BY <1>4, <1>5, <1>6, SnapshotIs, SnapshotNext DEF Born, AdmitCall, SameReady
  <1>8. Snapshot'.groups = Put(before.groups, id, next.h)
    BY <1>4, <1>5, <1>6, SnapshotIs, SnapshotNext DEF SameIndexes
  <1>9. Snapshot'.member_index = Indexed(before.member_index, id, Range(list) \ next.left)
    <2>1. Snapshot'.member_index = before.member_index /\ Range(list) \ next.left = {}
      BY <1>4, <1>5, <1>6, SnapshotIs, SnapshotNext DEF SameIndexes
    <2>2. before.member_index = Indexed(before.member_index, id, {})
      BY <1>2, SettledType DEF Indexed
    <2> QED
      BY <2>1, <2>2
  <1>10. IndexAt(Snapshot', before, next)
    BY <1>4, <1>6, <1>7, <1>8, <1>9 DEF IndexAt
  <1>11. Inside(Snapshot', before, next, holder[QueueLock].depth)
    BY <1>6, <1>10 DEF Inside
  <1>12. Unborn(f)
    BY <1>1 DEF Unborn
  <1> QED
    BY <1>2, <1>5, <1>6, <1>11, <1>12, KeepsLock

LEMMA IndexStep ==
  ASSUME TInv, NEW t \in Threads, NEW m \in Members, Index(t, m)
  PROVE  TInv' /\ UNCHANGED Was!vars
  <1> DEFINE f == thread[t]
             next == thread'[t]
  <1>1. f.at = "index"
    BY DEF Index, At
  <1>2. /\ holder[QueueLock].by = t /\ Settled = before
        /\ Inside(Snapshot, before, f, holder[QueueLock].depth)
    BY <1>1, InsideAtLabel
  <1>3. IndexAt(Snapshot, before, f)
    BY <1>1, <1>2 DEF Inside
  <1>4. PICK id \in GroupIds, list \in MemberLists :
          /\ Born(Snapshot, before, f, id, list) /\ f.left \subseteq Range(list)
          /\ Snapshot.groups = Put(before.groups, id, f.h)
          /\ Snapshot.member_index = Indexed(before.member_index, id, Range(list) \ f.left)
    BY <1>3 DEF IndexAt
  <1>5. /\ f.arg[1] = id /\ m \in f.left /\ member_index' = IndexMembers(id, {m})
        /\ GotoWith(t, IF f.left = {m} THEN "install" ELSE "index", f.h, f.left \ {m})
        /\ UNCHANGED <<group, groups, next_sequence, ready_groups, ready_heap,
                       private, holder, lock_of>>
    BY <1>4 DEF Born, AdmitCall, Index
  <1>6. /\ Moves(t) /\ next.at = (IF f.left = {m} THEN "install" ELSE "index")
        /\ next.call = f.call /\ next.arg = f.arg
        /\ next.h = f.h /\ next.left = f.left \ {m} /\ next.keeps = f.keeps
    BY <1>5, GotoWithMoves DEF TInv
  <1>7. Born(Snapshot', before, next, id, list)
    BY <1>4, <1>5, <1>6, SnapshotIs, SnapshotNext DEF Born, AdmitCall, SameReady
  <1>8. Snapshot'.groups = Put(before.groups, id, next.h)
    BY <1>4, <1>5, <1>6, SnapshotIs, SnapshotNext
  <1>9. Snapshot'.member_index = Indexed(before.member_index, id, Range(list) \ next.left)
    <2>1. Range(list) \ next.left = (Range(list) \ f.left) \cup {m}
      BY <1>4, <1>5, <1>6
    <2>2. member_index = Indexed(before.member_index, id, Range(list) \ f.left)
      BY <1>4, SnapshotIs
    <2>3. member_index' = [x \in DOMAIN member_index \cup {m} |->
                             IF x \in {m} THEN id ELSE member_index[x]]
      BY <1>5 DEF IndexMembers
    <2>4. member_index' = Indexed(before.member_index, id, (Range(list) \ f.left) \cup {m})
      BY <2>2, <2>3 DEF Indexed
    <2> QED
      BY <2>1, <2>4, SnapshotNext
  <1>10. Inside(Snapshot', before, next, holder[QueueLock].depth)
    <2>1. CASE f.left = {m}
      <3>1. next.left = {} /\ next.at = "install"
        BY <1>6, <2>1
      <3>2. InstallAt(Snapshot', before, next)
        BY <1>7, <1>8, <1>9, <3>1 DEF InstallAt
      <3> QED
        BY <3>1, <3>2 DEF Inside
    <2>2. CASE f.left # {m}
      <3>1. next.at = "index" /\ next.left \subseteq Range(list)
        BY <1>4, <1>6, <2>2
      <3>2. IndexAt(Snapshot', before, next)
        BY <1>7, <1>8, <1>9, <3>1 DEF IndexAt
      <3> QED
        BY <3>1, <3>2 DEF Inside
    <2> QED
      BY <2>1, <2>2
  <1>11. Unborn(f)
    BY <1>1 DEF Unborn
  <1> QED
    BY <1>2, <1>5, <1>6, <1>10, <1>11, KeepsLock

LEMMA InstallStep ==
  ASSUME TInv, NEW t \in Threads, Install(t)
  PROVE  TInv' /\ [Was!Next]_(Was!vars)
  <1> DEFINE f == thread[t]
             n == Len(before.group)
  <1>1. f.at = "install"
    BY DEF Install, At
  <1>2. /\ holder[QueueLock].by = t /\ Settled = before
        /\ Inside(Snapshot, before, f, holder[QueueLock].depth)
        /\ f.keeps => alive
    BY <1>1, InsideAtLabel
  <1>3. InstallAt(Snapshot, before, f)
    BY <1>1, <1>2 DEF Inside
  <1>4. PICK id \in GroupIds, list \in MemberLists :
          /\ Born(Snapshot, before, f, id, list)
          /\ Snapshot.groups = Put(before.groups, id, f.h)
          /\ Snapshot.member_index = Indexed(before.member_index, id, Range(list))
    BY <1>3 DEF InstallAt
  <1>5. /\ f.call = "admit" /\ alive /\ f.h = n + 1
        /\ AdmissibleTo(before, id, list)
        /\ group = Append(before.group, BornTo(before, id, list))
    BY <1>2, <1>4, SnapshotIs DEF Born, AdmitCall
  <1>6. /\ group' = [group EXCEPT ![f.h] = [group[f.h] EXCEPT !.on_ready = ~ StrictOrder]]
        /\ End(t) /\ result' = Returns("admit", "Group", <<f.h>>)
        /\ UNCHANGED <<groups, member_index, next_sequence, ready_groups, ready_heap, alive,
                       lock_of>>
    BY <1>5 DEF Install, Return, queue
  <1>7. before.group \in Seq(GroupRecord) /\ n \in Nat /\ n <= Len(lock_of)
    BY <1>2, SettledType, GroupsSettled DEF TInv, Locked
  <1>8. group' = Append(before.group, Was!NewGroup(id, list))
    <2> DEFINE born == BornTo(before, id, list)
               notes == ~ StrictOrder
    <2>1. born = [group_id |-> id, members |-> Range(list), ready |-> {}, ready_count |-> 0,
                  sequence |-> before.next_sequence, on_ready |-> born.on_ready]
      BY DEF BornTo
    <2>2. Was!NewGroup(id, list)
            = [group_id |-> id, members |-> Range(list), ready |-> {}, ready_count |-> 0,
               sequence |-> before.next_sequence, on_ready |-> notes]
      BY <1>2 DEF Was!NewGroup, Was!Range, Range
    <2> HIDE DEF born, notes
    <2>3. [born EXCEPT !.on_ready = notes] = Was!NewGroup(id, list)
      BY <2>1, <2>2
    <2>4. /\ DOMAIN group = 1..(n + 1) /\ group[n + 1] = born
          /\ group = [i \in 1..(n + 1) |-> IF i = n + 1 THEN born ELSE before.group[i]]
      BY <1>5, <1>7 DEF born
    <2>5. group' = [group EXCEPT ![n + 1] = Was!NewGroup(id, list)]
      BY <1>5, <1>6, <2>3, <2>4 DEF notes
    <2>6. Append(before.group, Was!NewGroup(id, list))
            = [i \in 1..(n + 1) |-> IF i = n + 1 THEN Was!NewGroup(id, list)
                                                 ELSE before.group[i]]
      BY <1>7
    <2> QED
      BY <2>4, <2>5, <2>6
  <1>9. Len(group') = n + 1
    BY <1>7, <1>8
  <1>10. Settled' = Snapshot'
    BY <1>2, <1>6, EndSettles
  <1>11. Was!Admit(id, list)
    <2>1. n < MaxAdmissions
      <3>1. t \in Admitting
        BY <1>5 DEF Admitting
      <3>2. Cardinality(Admitting) # 0
        BY <3>1, AdmittingFinite, FS_EmptySet
      <3> QED
        BY <1>2, <1>7, <3>2, AdmittingFinite, BoundsAssumption DEF TInv, Bounded
    <2>2. Was!Admissible(id, list)
      BY <1>2, <1>5, SaidOfSettled
    <2>3. Settled'.group = Append(Settled.group, Was!NewGroup(id, list))
      BY <1>2, <1>8, <1>10, SnapshotNext
    <2>4. Settled'.groups = Was!Put(Settled.groups, id, Len(Settled.group) + 1)
      BY <1>2, <1>4, <1>5, <1>6, <1>10, SnapshotIs, SnapshotNext DEF Was!Put, Put
    <2>5. Settled'.member_index = Was!IndexMembers(id, Was!Range(list))
      BY <1>2, <1>4, <1>6, <1>10, SnapshotIs, SnapshotNext
         DEF Was!IndexMembers, Indexed, Was!Range, Range
    <2>6. /\ Settled'.next_sequence = Settled.next_sequence + 1
          /\ Settled'.ready_groups = Settled.ready_groups
          /\ Settled'.ready_heap = Settled.ready_heap
      BY <1>2, <1>4, <1>6, <1>10, SnapshotIs, SnapshotNext DEF Born, SameReady
    <2>7. result' = Was!Returns("admit", "Group", <<Len(Settled.group) + 1>>)
      BY <1>2, <1>5, <1>6 DEF Was!Returns, Returns
    <2> QED
      BY <1>2, <1>5, <1>6, <2>1, <2>2, <2>3, <2>4, <2>5, <2>6, <2>7 DEF Was!Admit
  <1>12. Was!Next
    <2>1. list \in Was!MemberLists
      BY DEF MemberLists, Was!MemberLists
    <2> QED
      BY <1>11, <2>1 DEF Was!Next
  <1>13. Len(group') <= Len(lock_of)
    <2>1. Unborn(f)
      BY <1>1 DEF Unborn
    <2> QED
      BY <1>5, <1>9, <2>1 DEF TInv, Locked
  <1>14. TInv'
    BY <1>2, <1>5, <1>6, <1>7, <1>9, <1>12, <1>13, EndStep
  <1> QED
    BY <1>12, <1>14
-----------------------------------------------------------------------------
\* group_of and _find

LEMMA FindFailsStep ==
  ASSUME TInv, NEW t \in Threads, FindFails(t)
  PROVE  TInv' /\ [Was!Next]_(Was!vars)
  <1> DEFINE f == thread[t]
  <1>1. f.at = "find"
    BY DEF FindFails, At
  <1>2. /\ holder[QueueLock].by = t /\ Settled = before
        /\ Inside(Snapshot, before, f, holder[QueueLock].depth)
        /\ f.keeps => alive
    BY <1>1, InsideAtLabel
  <1>3. Snapshot = before /\ FindCall(f)
    BY <1>1, <1>2 DEF Inside
  <1>4. /\ alive /\ groups = Settled.groups /\ member_index = Settled.member_index
    BY <1>2, <1>3, SnapshotIs DEF FindCall
  <1>5. Key(t) \cap DOMAIN groups = {}
    BY DEF FindFails, Found
  <1>6. CASE f.call = "mark_ready"
    <2>1. PICK m \in Members : f.arg = <<m>>
      BY <1>3, <1>6 DEF FindCall
    <2>2. Key(t) = {member_index[x] : x \in {m} \cap DOMAIN member_index}
      BY <1>6, <2>1 DEF Key
    <2>3. m \notin DOMAIN member_index
      BY <1>4, <1>5, <2>2, SettledTells
    <2>4. Key(t) = {}
      BY <2>2, <2>3
    <2>5. Return(t, "TitoError", <<>>) /\ UNCHANGED <<group, queue, lock_of>>
      BY <2>4 DEF FindFails
    <2>6. /\ Was!Refuse("mark_ready")
          /\ Was!Next => TInv' /\ [Was!Next]_(Was!vars)
      BY <1>2, <1>3, <1>6, <2>5, Refuses
    <2>7. Was!MarkReadyRefused(m)
      BY <1>4, <2>3, <2>6 DEF Was!MarkReadyRefused
    <2>8. Was!Next
      BY <2>7 DEF Was!Next
    <2> QED
      BY <2>6, <2>8
  <1>7. CASE f.call \in {"mark_group_ready", "cancel"}
    <2>1. PICK id \in GroupIds : f.arg = <<id>>
      BY <1>3, <1>7 DEF FindCall
    <2>2. id \notin DOMAIN groups
      BY <1>5, <1>7, <2>1 DEF Key
    <2>3. Return(t, "TitoError", <<>>) /\ UNCHANGED <<group, queue, lock_of>>
      BY <1>7 DEF FindFails
    <2>4. /\ Was!Refuse(f.call)
          /\ Was!Next => TInv' /\ [Was!Next]_(Was!vars)
      BY <1>2, <1>3, <2>3, Refuses
    <2>5. Was!MarkGroupReadyRefused(id) \/ Was!CancelRefused(id)
      BY <1>4, <1>7, <2>2, <2>4 DEF Was!MarkGroupReadyRefused, Was!CancelRefused
    <2>6. Was!Next
      BY <2>5 DEF Was!Next
    <2> QED
      BY <2>4, <2>6
  <1> QED
    BY <1>3, <1>6, <1>7 DEF FindCall

\* Marking nobody changes nothing.
LEMMA MarkedNone ==
  ASSUME NEW g \in GroupRecord
  PROVE  MarkedFrom(g, {}) = g /\ ~ Finishes(g, {})
  <1>1. g.ready_count \in Nat
    BY DEF GroupRecord
  <1>2. g.ready_count + Cardinality({} \ g.ready) = g.ready_count
    <2>1. {} \ g.ready = {}
      OBVIOUS
    <2> QED
      BY <1>1, <2>1, FS_EmptySet
  <1>3. g.ready \cup {} = g.ready
    OBVIOUS
  <1>4. MarkedFrom(g, {}) = [[g EXCEPT !.ready = g.ready] EXCEPT !.ready_count = g.ready_count]
    BY <1>2, <1>3 DEF MarkedFrom
  <1>5. MarkedFrom(g, {}) = g
    BY <1>4 DEF GroupRecord
  <1> QED
    BY <1>3, <1>5 DEF Finishes

LEMMA FindStep ==
  ASSUME TInv, NEW t \in Threads, Find(t)
  PROVE  TInv' /\ UNCHANGED Was!vars
  <1> DEFINE f == thread[t]
             next == thread'[t]
  <1>1. f.at = "find"
    BY DEF Find, At
  <1>2. /\ holder[QueueLock].by = t /\ Settled = before
        /\ Inside(Snapshot, before, f, holder[QueueLock].depth)
    BY <1>1, InsideAtLabel
  <1>3. Snapshot = before /\ FindCall(f) /\ holder[QueueLock].depth = 1 /\ f.out = <<>>
    BY <1>1, <1>2 DEF Inside
  <1>4. group = before.group /\ groups = before.groups /\ member_index = before.member_index
    BY <1>3, SnapshotIs
  <1>5. UNCHANGED <<group, groups, member_index, next_sequence, ready_groups, ready_heap,
                    alive, result, holder, lock_of, before>>
    BY DEF Find, vars, queue
  <1>6. Snapshot' = before /\ UNCHANGED <<private, holder, lock_of>>
    BY <1>3, <1>5 DEF Snapshot, private
  <1>7. PICK h \in Found(t) :
          CASE f.call = "mark_ready"       -> GotoWith(t, "enter", h, {f.arg[1]})
            [] f.call = "mark_group_ready" -> GotoWith(t, "enter", h, group[h].members)
            [] f.call = "cancel"           -> GotoWith(t, "del_group", h, {})
    BY DEF Find
  <1>8. PICK id \in DOMAIN before.groups : h = before.groups[id] /\ id \in Key(t)
    BY <1>4 DEF Found
  <1>9. h \in DOMAIN before.group /\ id \in GroupIds /\ h \in WaitingOf(before)
    BY <1>2, <1>8, SettledType DEF WaitingOf
  <1>10. /\ before.group[h] \in GroupRecord
         /\ before.group = [before.group EXCEPT ![h] = MarkedFrom(before.group[h], {})]
         /\ ~ Finishes(before.group[h], {})
    BY <1>2, <1>9, SettledType, MarkedNone
  <1>11. SameIndexes(before, before) /\ SameReady(before, before) /\ SameNumber(before, before)
    BY DEF SameIndexes, SameReady, SameNumber
  <1>12. NotedIf(before, before, h, {})
    BY <1>10, <1>11 DEF NotedIf
  <1>13. CASE f.call = "mark_ready"
    <2>1. PICK m \in Members : f.arg[1] = m
      BY <1>3, <1>13 DEF FindCall
    <2>2. GotoWith(t, "enter", h, {m})
      BY <1>7, <1>13, <2>1
    <2>3. /\ Moves(t) /\ next.at = "enter" /\ next.call = "mark_ready"
          /\ next.h = h /\ next.left = {m} /\ next.keeps = f.keeps
      BY <1>13, <2>2, GotoWithMoves DEF TInv
    <2>4. MarkCall(before, next) /\ Done(before, next) = {}
      BY <1>9, <2>3 DEF MarkCall, Entering, Done
    <2>5. MarksDone(before, before, next)
      BY <1>10, <1>11, <1>12, <2>3, <2>4 DEF MarksDone, Marks
    <2>6. Inside(Snapshot', before, next, holder[QueueLock].depth)
      BY <1>3, <1>6, <2>3, <2>5 DEF Inside, EnterAt
    <2>7. ~ Unborn(next)
      BY <2>3 DEF Unborn
    <2> QED
      BY <1>2, <1>6, <1>13, <2>3, <2>6, <2>7, KeepsLock
  <1>14. CASE f.call = "mark_group_ready"
    <2>1. GotoWith(t, "enter", h, before.group[h].members)
      BY <1>4, <1>7, <1>14
    <2>2. /\ Moves(t) /\ next.at = "enter" /\ next.call = "mark_group_ready"
          /\ next.h = h /\ next.left = before.group[h].members /\ next.keeps = f.keeps
      BY <1>14, <2>1, GotoWithMoves DEF TInv
    <2>3. f.keeps
      BY <1>3 DEF FindCall
    <2>4. MarkCall(before, next) /\ Done(before, next) = {}
      BY <1>8, <1>9, <2>2, <2>3 DEF MarkCall, Done
    <2>5. MarksDone(before, before, next)
      BY <1>10, <1>11, <1>12, <2>2, <2>4 DEF MarksDone, Marks
    <2>6. Inside(Snapshot', before, next, holder[QueueLock].depth)
      BY <1>3, <1>6, <2>2, <2>5 DEF Inside, EnterAt
    <2>7. ~ Unborn(next)
      BY <2>2 DEF Unborn
    <2> QED
      BY <1>2, <1>6, <1>14, <2>2, <2>6, <2>7, KeepsLock
  <1>15. CASE f.call = "cancel"
    <2>1. GotoWith(t, "del_group", h, {})
      BY <1>7, <1>15
    <2>2. /\ Moves(t) /\ next.at = "del_group" /\ next.call = "cancel"
          /\ next.h = h /\ next.out = <<>> /\ next.keeps = f.keeps
      BY <1>3, <1>15, <2>1, GotoWithMoves DEF TInv
    <2>3. f.keeps /\ Gone(next) = {}
      BY <1>3, <2>2 DEF FindCall, Gone, Range
    <2>4. Leaving(before, before, next)
      BY <1>8, <1>9, <2>2, <2>3 DEF Leaving
    <2>5. DelGroupAt(before, before, next)
      BY <1>2, <2>3, <2>4, NothingTaken DEF DelGroupAt
    <2>6. Inside(Snapshot', before, next, holder[QueueLock].depth)
      BY <1>3, <1>6, <2>2, <2>5 DEF Inside
    <2>7. ~ Unborn(next)
      BY <2>2 DEF Unborn
    <2> QED
      BY <1>2, <1>6, <1>15, <2>2, <2>6, <2>7, KeepsLock
  <1> QED
    BY <1>3, <1>13, <1>14, <1>15 DEF FindCall
-----------------------------------------------------------------------------
\* Group.mark_ready: what marking does to a group.

LEMMA SameCardinality == \A S : Was!Cardinality(S) = Cardinality(S)
  BY DEF Was!Cardinality, Cardinality

LEMMA MarkedFromIs ==
  ASSUME NEW g \in GroupRecord, NEW ms
  PROVE  /\ MarkedFrom(g, ms).group_id = g.group_id
         /\ MarkedFrom(g, ms).members = g.members
         /\ MarkedFrom(g, ms).ready = g.ready \cup ms
         /\ MarkedFrom(g, ms).ready_count = g.ready_count + Cardinality(ms \ g.ready)
         /\ MarkedFrom(g, ms).sequence = g.sequence
         /\ MarkedFrom(g, ms).on_ready = g.on_ready
  <1>1. MarkedFrom(g, ms) = [[g EXCEPT !.ready = g.ready \cup ms] EXCEPT
                               !.ready_count = g.ready_count + Cardinality(ms \ g.ready)]
    BY DEF MarkedFrom, GroupRecord
  <1> QED
    BY <1>1 DEF GroupRecord

LEMMA MarkedCounts ==
  ASSUME TInv, NEW h \in DOMAIN Settled.group, NEW ms \in SUBSET Settled.group[h].members
  PROVE  /\ IsReady(MarkedFrom(Settled.group[h], ms))
              <=> Settled.group[h].ready \cup ms = Settled.group[h].members
         /\ Was!Completes(h, ms) <=> Finishes(Settled.group[h], ms)
         /\ Was!Marked(h, ms) = MarkedFrom(Settled.group[h], ms)
  <1> DEFINE g == Settled.group[h]
  <1>1. /\ g \in GroupRecord /\ g.ready \in SUBSET g.members /\ IsFiniteSet(g.members)
    BY SettledType
  <1>2. /\ Was!Cardinality(g.ready \cup ms) = g.ready_count + Was!Cardinality(ms \ g.ready)
        /\ Was!Completes(h, ms) <=> g.ready # g.members /\ g.ready \cup ms = g.members
    BY SameAssumptions, Was!CompletesLastFlag DEF TInv, Was!IInv, Was!Handles
  <1>3. MarkedFrom(g, ms).ready_count = Cardinality(g.ready \cup ms)
    BY <1>1, <1>2, MarkedFromIs, SameCardinality
  <1>4. g.ready \cup ms = g.members
          <=> Cardinality(g.ready \cup ms) = Cardinality(g.members)
    <2>1. g.ready \cup ms \in SUBSET g.members
      BY <1>1
    <2> QED
      BY <1>1, <2>1, FS_Subset
  <1>5. IsReady(MarkedFrom(g, ms)) <=> g.ready \cup ms = g.members
    BY <1>1, <1>3, <1>4, MarkedFromIs DEF IsReady
  <1>6. Was!Marked(h, ms) = MarkedFrom(g, ms)
    BY SameCardinality DEF Was!Marked, MarkedFrom
  <1> QED
    BY <1>2, <1>5, <1>6 DEF Finishes

\* The group in hand while its members are being marked.
LEMMA InHand ==
  ASSUME TInv, Settled = before, NEW h \in DOMAIN before.group, NEW g, NEW list,
         list = [before.group EXCEPT ![h] = g]
  PROVE  list[h] = g /\ DOMAIN list = DOMAIN before.group /\ Len(list) = Len(before.group)
  <1>1. before.group \in [1..Len(before.group) -> GroupRecord] /\ Len(before.group) \in Nat
    BY SettledType, GroupsSettled
  <1>2. DOMAIN list = 1..Len(before.group)
    BY <1>1
  <1>3. Len(list) = Len(before.group)
    BY <1>1, <1>2
  <1> QED
    BY <1>1, <1>3

\* Only a thread that marks the last member notes the group, and the queue is there.
NotedIfAlive(now, was, h, ms) ==
  IF Finishes(was.group[h], ms) /\ was.group[h].on_ready /\ alive
  THEN Noted(now, was, h)
  ELSE SameReady(now, was)

\* The last turn of the loop, or the only one: the section has been one step.
LEMMA MarkEnds ==
  ASSUME TInv, NEW t \in Threads, holder[QueueLock].by = t, NEW m, thread[t].left = {m},
         MarkCall(before, thread[t]), m \in before.group[thread[t].h].members,
         Marks(Snapshot', before, thread[t], Done(before, thread[t]) \cup {m}),
         NotedIfAlive(Snapshot', before, thread[t].h, Done(before, thread[t]) \cup {m}),
         UNCHANGED <<alive, lock_of>>, NEW ready \in BOOLEAN,
         ready <=> IsReady(group'[thread[t].h]),
         Return(t, IF thread[t].call = "mark_group_ready" THEN "True" ELSE Answer(ready), <<>>)
  PROVE  TInv' /\ [Was!Next]_(Was!vars)
  <1> DEFINE f == thread[t]
             h == thread[t].h
             g == before.group[thread[t].h]
             ms == Done(before, thread[t]) \cup {m}
  <1>1. /\ Settled = before /\ Settled' = Snapshot' /\ End(t)
        /\ f.keeps => alive
    BY EndSettles, Holding DEF Return
  <1>2. h \in DOMAIN before.group
    BY DEF MarkCall
  <1>3. ms \in SUBSET g.members
    <2>1. Done(before, f) \subseteq g.members
      BY DEF Done
    <2> QED
      BY <2>1
  <1>4. /\ group' = [before.group EXCEPT ![h] = MarkedFrom(g, ms)]
        /\ groups' = before.groups /\ member_index' = before.member_index
        /\ next_sequence' = before.next_sequence
    BY SnapshotNext DEF Marks, SameIndexes, SameNumber
  <1>5. /\ group'[h] = MarkedFrom(g, ms) /\ DOMAIN group' = DOMAIN before.group
        /\ Len(group') = Len(before.group)
    BY <1>1, <1>2, <1>4, InHand
  <1>6. /\ Was!Completes(h, ms) <=> Finishes(g, ms)
        /\ Was!Marked(h, ms) = MarkedFrom(g, ms)
    BY <1>1, <1>2, <1>3, MarkedCounts
  <1>7. ASSUME Finishes(g, ms), g.on_ready, alive
        PROVE  g.sequence \notin DOMAIN before.ready_groups
    <2>1. h \in Was!Handles /\ Settled.group[h].on_ready
             /\ Settled.group[h].ready # Settled.group[h].members
      BY <1>1, <1>2, <1>7 DEF Was!Handles, Finishes
    <2>2. Settled.group[h].sequence \notin DOMAIN Settled.ready_groups
      BY <1>7, <2>1, SameAssumptions, Was!NotesAreFresh DEF TInv
    <2> QED
      BY <1>1, <2>2
  <1>8. IF Was!Completes(h, ms) /\ Settled.group[h].on_ready
        THEN Was!NoteReady(h)
        ELSE Settled'.ready_groups = Settled.ready_groups
             /\ Settled'.ready_heap = Settled.ready_heap
    <2>1. CASE Finishes(g, ms) /\ g.on_ready /\ alive
      <3>1. /\ Settled'.ready_groups = Put(Settled.ready_groups, g.sequence, h)
            /\ Settled'.ready_heap = Settled.ready_heap \cup {g.sequence}
        BY <1>1, <2>1 DEF NotedIfAlive, Noted
      <3>2. Was!NoteReady(h)
        BY <1>1, <1>7, <2>1, <3>1 DEF Was!NoteReady, Was!Put, Put
      <3> QED
        BY <1>1, <1>6, <2>1, <3>2
    <2>2. CASE ~ (Finishes(g, ms) /\ g.on_ready /\ alive)
      <3>1. /\ Settled'.ready_groups = Settled.ready_groups
            /\ Settled'.ready_heap = Settled.ready_heap
        BY <1>1, <2>2 DEF NotedIfAlive, SameReady
      <3>2. CASE Finishes(g, ms) /\ g.on_ready
        <4>1. Was!NoteReady(h)
          BY <2>2, <3>1, <3>2 DEF Was!NoteReady
        <4> QED
          BY <1>1, <1>6, <3>2, <4>1
      <3>3. CASE ~ (Finishes(g, ms) /\ g.on_ready)
        BY <1>1, <1>6, <3>1, <3>3
      <3> QED
        BY <3>2, <3>3
    <2> QED
      BY <2>1, <2>2
  <1>9. Was!MarkMembers(h, ms)
    <2>1. Settled'.group = [Settled.group EXCEPT ![h] = Was!Marked(h, ms)]
      BY <1>1, <1>4, <1>6, SnapshotNext
    <2>2. /\ Settled'.groups = Settled.groups /\ Settled'.member_index = Settled.member_index
          /\ Settled'.next_sequence = Settled.next_sequence /\ alive' = alive
      BY <1>1, <1>4, SnapshotNext
    <2> QED
      BY <1>8, <2>1, <2>2 DEF Was!MarkMembers
  <1>10. Was!Next
    <2>1. CASE f.call = "mark_ready"
      <3>1. ms = {m} /\ m \in Members /\ h \in Was!Handles
        <4>1. m \in Members
          BY <2>1 DEF MarkCall, Entering
        <4> QED
          BY <1>1, <1>2, <2>1, <4>1 DEF Done, Was!Handles
      <3>2. result' = Returns("mark_ready", Answer(IsReady(MarkedFrom(g, ms))), <<>>)
        <4>1. ready <=> IsReady(MarkedFrom(g, ms))
          BY <1>5
        <4>2. Answer(ready) = Answer(IsReady(MarkedFrom(g, ms)))
          BY <4>1 DEF Answer
        <4> QED
          BY <2>1, <4>2 DEF Return
      <3>3. Was!GroupMarkReady(h, m)
        <4>1. m \in Settled.group[h].members
          BY <1>1
        <4>2. Was!IsReady(Was!Marked(h, {m})) <=> IsReady(MarkedFrom(g, ms))
          BY <1>6, <3>1, SameCardinality DEF Was!IsReady, IsReady
        <4>3. result' = Was!Returns("mark_ready",
                                    Was!Answer(Was!IsReady(Was!Marked(h, {m}))), <<>>)
          BY <3>2, <4>2 DEF Was!Returns, Returns, Was!Answer, Answer
        <4> QED
          BY <1>9, <3>1, <4>1, <4>3 DEF Was!GroupMarkReady
      <3> QED
        BY <3>1, <3>3 DEF Was!Next
    <2>2. CASE f.call # "mark_ready"
      <3>1. /\ f.call = "mark_group_ready" /\ f.keeps
            /\ \E id \in DOMAIN before.groups \cap GroupIds : h = before.groups[id]
        BY <2>2 DEF MarkCall, Entering
      <3>2. PICK id \in DOMAIN before.groups \cap GroupIds : h = before.groups[id]
        BY <3>1
      <3>3. ms = g.members
        BY <2>2 DEF Done
      <3>4. result' = Was!Returns("mark_group_ready", "True", <<>>)
        BY <3>1 DEF Return, Was!Returns, Returns
      <3>5. Was!MarkGroupReady(id)
        BY <1>1, <1>9, <3>1, <3>2, <3>3, <3>4 DEF Was!MarkGroupReady
      <3> QED
        BY <3>2, <3>5 DEF Was!Next
    <2> QED
      BY <2>1, <2>2
  <1>11. /\ Len(group') <= Len(lock_of) /\ Len(before.group) <= Len(group')
         /\ Len(group') <= Len(before.group) + 1 /\ Len(group') <= Len(before.group)
    BY <1>1, <1>5, GroupsSettled DEF TInv, Locked
  <1>12. TInv'
    BY <1>1, <1>10, <1>11, EndStep
  <1> QED
    BY <1>10, <1>12

\* A turn of the loop that is not the last gives the lock back once: the queue's
\* method still holds it.
LEMMA MarkGoesOn ==
  ASSUME TInv, NEW t \in Threads, holder[QueueLock].by = t, NEW m \in thread[t].left,
         thread[t].left \ {m} # {},
         MarkCall(before, thread[t]), m \in before.group[thread[t].h].members,
         Nested(thread[t], holder[QueueLock].depth),
         Marks(Snapshot', before, thread[t], Done(before, thread[t]) \cup {m}),
         NotedIfAlive(Snapshot', before, thread[t].h, Done(before, thread[t]) \cup {m}),
         UNCHANGED <<private, lock_of>>,
         holder' = [holder EXCEPT ![QueueLock] = Given(QueueLock)],
         GotoWith(t, "enter", thread[t].h, thread[t].left \ {m})
  PROVE  TInv' /\ UNCHANGED Was!vars
  <1> DEFINE f == thread[t]
             next == thread'[t]
  <1>1. f.call = "mark_group_ready" /\ f.keeps /\ f.call # "mark_ready"
    <2>1. ~ Entering(f)
      BY DEF Entering
    <2> QED
      BY <2>1 DEF MarkCall
  <1>2. holder[QueueLock].depth = 2 /\ alive /\ QueueLock \in Locks
    BY <1>1, Holding DEF Nested
  <1>3. /\ Moves(t) /\ next.at = "enter" /\ next.call = f.call /\ next.h = f.h
        /\ next.left = f.left \ {m} /\ next.keeps = f.keeps
    BY GotoWithMoves DEF TInv
  <1>4. MarkCall(before, next)
    <2>1. ~ Entering(f)
      BY <1>1 DEF Entering
    <2> QED
      BY <1>1, <1>3, <2>1 DEF MarkCall
  <1>5. Done(before, next) = Done(before, f) \cup {m}
    BY <1>1, <1>3 DEF Done
  <1>6. MarksDone(Snapshot', before, next)
    BY <1>2, <1>3, <1>4, <1>5 DEF MarksDone, Marks, NotedIf, NotedIfAlive
  <1>7. holder[QueueLock] = [by |-> t, depth |-> 2]
    <2>1. holder[QueueLock] \in [by: Threads \cup {Nobody}, depth: Nat]
      BY <1>2 DEF TInv, Locked
    <2> QED
      BY <1>2, <2>1
  <1>8. Given(QueueLock) = [by |-> t, depth |-> 1]
    BY <1>7 DEF Given
  <1>9. holder' = [holder EXCEPT ![QueueLock] = [by |-> t, depth |-> 1]]
        /\ holder'[QueueLock].depth = 1
    <2>1. holder' = [holder EXCEPT ![QueueLock] = [by |-> t, depth |-> 1]]
      BY <1>8
    <2>2. QueueLock \in DOMAIN holder
      BY <1>2 DEF TInv, Locked
    <2>3. holder'[QueueLock] = [by |-> t, depth |-> 1]
      BY <2>1, <2>2
    <2>4. holder'[QueueLock].depth = 1
      BY <2>3
    <2> QED
      BY <2>1, <2>4
  <1>10. Inside(Snapshot', before, next, holder'[QueueLock].depth)
    BY <1>3, <1>6, <1>9 DEF Inside, EnterAt
  <1>11. /\ lock_of' \in Seq({QueueLock}) /\ lock_of' = lock_of /\ Len(lock_of) \in Nat
         /\ f.keeps \in BOOLEAN
    BY DEF TInv, Locked, Framed
  <1>12. StaysInside(t)
    <2>1. Len(lock_of') >= Len(lock_of)
      BY <1>11
    <2>2. \E depth \in Nat \ {0} :
            holder' = [holder EXCEPT ![QueueLock] = [by |-> t, depth |-> depth]]
      <3>1. 1 \in Nat \ {0}
        OBVIOUS
      <3> QED
        BY <1>9, <3>1, Zenon
    <2> QED
      BY <1>2, <1>3, <1>11, <2>1, <2>2 DEF StaysInside, Unborn
  <1> QED
    BY <1>10, <1>12, InnerStep

LEMMA LeaveMarkStep ==
  ASSUME TInv, NEW t \in Threads, holder[QueueLock].by = t, NEW m \in thread[t].left,
         MarkCall(before, thread[t]), m \in before.group[thread[t].h].members,
         Nested(thread[t], holder[QueueLock].depth),
         Marks(Snapshot', before, thread[t], Done(before, thread[t]) \cup {m}),
         NotedIfAlive(Snapshot', before, thread[t].h, Done(before, thread[t]) \cup {m}),
         UNCHANGED <<alive, lock_of>>, NEW ready \in BOOLEAN,
         ready <=> IsReady(group'[thread[t].h]),
         LeaveMark(t, m, ready)
  PROVE  TInv' /\ [Was!Next]_(Was!vars)
  <1>1. lock_of[thread[t].h] = QueueLock
    <2>1. thread[t].h \in 1..Len(Settled.group)
      BY Holding, GroupsSettled DEF MarkCall
    <2> QED
      BY <2>1, GroupLock
  <1>2. CASE thread[t].left \ {m} # {}
    <2>1. /\ holder' = [holder EXCEPT ![QueueLock] = Given(QueueLock)]
          /\ GotoWith(t, "enter", thread[t].h, thread[t].left \ {m})
          /\ UNCHANGED <<before, result>>
      BY <1>1, <1>2 DEF LeaveMark
    <2>2. UNCHANGED <<private, lock_of>>
      BY <2>1 DEF private
    <2> QED
      BY <1>2, <2>1, <2>2, MarkGoesOn
  <1>3. CASE thread[t].left \ {m} = {}
    <2>1. thread[t].left = {m}
      BY <1>3
    <2>2. Return(t, IF thread[t].call = "mark_group_ready" THEN "True" ELSE Answer(ready),
                 <<>>)
      BY <1>3 DEF LeaveMark
    <2> QED
      BY <2>1, <2>2, MarkEnds
  <1> QED
    BY <1>2, <1>3
-----------------------------------------------------------------------------
\* Group.mark_ready, statement by statement.

LEMMA MarksDoneMoves ==
  ASSUME NEW now, NEW was, NEW f, NEW next, MarksDone(now, was, f),
         next.call = f.call, next.h = f.h, next.left = f.left, next.keeps = f.keeps
  PROVE  MarksDone(now, was, next)
  <1>1. Done(was, next) = Done(was, f)
    BY DEF Done
  <1>2. Entering(f) <=> Entering(next)
    BY DEF Entering
  <1>3. MarkCall(was, next)
    BY <1>2 DEF MarkCall, MarksDone, Marks
  <1> QED
    BY <1>1, <1>3 DEF MarksDone, Marks

LEMMA EnterStep ==
  ASSUME TInv, NEW t \in Threads, Enter(t)
  PROVE  TInv' /\ UNCHANGED Was!vars
  <1> DEFINE f == thread[t]
             next == thread'[t]
  <1>1. f.at = "enter"
    BY DEF Enter, At
  <1>2. /\ Moves(t) /\ next.at = "flag" /\ next.call = f.call /\ next.h = f.h
        /\ next.left = f.left /\ next.keeps = f.keeps
    BY GotoMoves DEF Enter, TInv
  <1>3. f.keeps \in BOOLEAN /\ (f.keeps => alive)
    BY DEF TInv, Framed
  <1>4. ~ Unborn(next)
    BY <1>2 DEF Unborn
  <1>5. UNCHANGED <<group, groups, member_index, next_sequence, ready_groups, ready_heap,
                    alive, result, lock_of>>
    BY DEF Enter, vars, queue
  <1>6. Snapshot' = Snapshot
    BY <1>5 DEF Snapshot
  <1>7. CASE holder[QueueLock].by # t
    <2>1. Entering(f) /\ f.h \in 1..Len(Settled.group)
      BY <1>1, <1>7, NotHolding DEF Outside, Idle, Frame
    <2>2. Take(t, QueueLock) /\ UNCHANGED <<vars, lock_of>>
      BY <2>1, GroupLock DEF Enter
    <2>3. /\ next.call = "mark_ready" /\ Entering(next) /\ next.h \in DOMAIN Settled.group
      BY <1>2, <2>1, GroupsSettled DEF Entering
    <2>4. MarkCall(Settled, next) /\ Done(Settled, next) = {}
      BY <2>3 DEF MarkCall, Done
    <2>5. /\ Settled.group = [Settled.group EXCEPT ![next.h] =
                                MarkedFrom(Settled.group[next.h], {})]
          /\ ~ Finishes(Settled.group[next.h], {})
      BY <2>3, SettledType, MarkedNone
    <2>6. MarksDone(Settled, Settled, next)
      BY <2>4, <2>5 DEF MarksDone, Marks, NotedIf, SameIndexes, SameReady, SameNumber
    <2>7. Inside(Settled, Settled, next, 1)
      BY <1>2, <2>3, <2>6 DEF Inside, FlagAt, Nested
    <2> QED
      BY <1>2, <1>3, <1>4, <1>7, <2>2, <2>7, AcquireStep
  <1>8. CASE holder[QueueLock].by = t
    <2>1. /\ Settled = before /\ Busy /\ QueueLock \in Locks
          /\ Inside(Snapshot, before, f, holder[QueueLock].depth)
      BY <1>8, Holding
    <2>2. MarksDone(Snapshot, before, f) /\ holder[QueueLock].depth = 1
      BY <1>1, <2>1 DEF Inside, EnterAt
    <2>3. f.h \in 1..Len(Settled.group)
      BY <2>1, <2>2, GroupsSettled DEF MarksDone, Marks, MarkCall
    <2>4. Take(t, QueueLock)
      BY <2>3, GroupLock DEF Enter
    <2>5. holder' = [holder EXCEPT ![QueueLock] = [by |-> t, depth |-> 2]]
          /\ before' = before
      BY <2>1, <2>2, <2>4 DEF Take
    <2>6. holder'[QueueLock].depth = 2
      BY <2>1, <2>5 DEF TInv, Locked
    <2>7. MarksDone(Snapshot', before, next)
      BY <1>2, <1>6, <2>2, MarksDoneMoves
    <2>8. Inside(Snapshot', before, next, holder'[QueueLock].depth)
      BY <1>2, <2>6, <2>7 DEF Inside, FlagAt, Nested
    <2>9. StaysInside(t)
      <3>1. lock_of' \in Seq({QueueLock}) /\ Len(lock_of') >= Len(lock_of)
        <4>1. lock_of' = lock_of /\ lock_of \in Seq({QueueLock}) /\ Len(lock_of) \in Nat
          BY <1>5 DEF TInv, Locked
        <4> QED
          BY <4>1
      <3>2. \E depth \in Nat \ {0} :
              holder' = [holder EXCEPT ![QueueLock] = [by |-> t, depth |-> depth]]
        <4>1. 2 \in Nat \ {0}
          OBVIOUS
        <4> QED
          BY <2>5, <4>1, Zenon
      <3> QED
        BY <1>2, <1>3, <1>4, <1>5, <2>5, <3>1, <3>2 DEF StaysInside, private
    <2> QED
      BY <1>8, <2>8, <2>9, InnerStep
  <1> QED
    BY <1>7, <1>8

\* The queue is as the section found it.
LEMMA SnapshotSame ==
  ASSUME TInv, Busy,
         group = before.group, groups = before.groups, member_index = before.member_index,
         next_sequence = before.next_sequence, ready_groups = before.ready_groups,
         ready_heap = before.ready_heap
  PROVE  Snapshot = before
  BY DEF Snapshot, TInv, Remembered

LEMMA NotAMemberStep ==
  ASSUME TInv, NEW t \in Threads, NEW m \in Members, NotAMember(t, m)
  PROVE  TInv' /\ [Was!Next]_(Was!vars)
  <1> DEFINE f == thread[t]
             h == thread[t].h
             g == before.group[thread[t].h]
  <1>1. f.at = "flag"
    BY DEF NotAMember, At
  <1>2. /\ holder[QueueLock].by = t /\ Settled = before /\ Busy
        /\ Inside(Snapshot, before, f, holder[QueueLock].depth)
    BY <1>1, InsideAtLabel, Holding
  <1>3. MarksDone(Snapshot, before, f)
    BY <1>1, <1>2 DEF Inside, FlagAt
  <1>4. /\ f.left = {m} /\ m \notin group[h].members
        /\ Return(t, "TitoError", <<>>) /\ UNCHANGED <<group, queue, lock_of>>
    BY DEF NotAMember
  <1>5. h \in DOMAIN before.group /\ g \in GroupRecord
    BY <1>2, <1>3, SettledType DEF MarksDone, Marks, MarkCall
  <1>6. group = [before.group EXCEPT ![h] = MarkedFrom(g, Done(before, f))]
    BY <1>3, SnapshotIs DEF MarksDone, Marks
  <1>7. group[h] = MarkedFrom(g, Done(before, f))
    BY <1>2, <1>5, <1>6, InHand
  <1>8. m \notin g.members
    <2>1. MarkedFrom(g, Done(before, f)).members = g.members
      BY <1>5, MarkedFromIs
    <2>2. group[h].members = g.members
      BY <1>7, <2>1
    <2> QED
      BY <1>4, <2>2
  <1>9. Entering(f)
    BY <1>3, <1>4, <1>8 DEF MarksDone, Marks, MarkCall
  <1>10. f.call = "mark_ready" /\ Done(before, f) = {}
    BY <1>9 DEF Entering, Done
  <1>11. group = before.group /\ ~ Finishes(g, {})
    <2>1. MarkedFrom(g, {}) = g /\ ~ Finishes(g, {})
      BY <1>5, MarkedNone
    <2> QED
      BY <1>2, <1>5, <1>6, <1>10, <2>1, SettledType
  <1>12. Snapshot = before
    BY <1>2, <1>3, <1>10, <1>11, SnapshotIs, SnapshotSame
       DEF MarksDone, Marks, NotedIf, SameReady, SameIndexes, SameNumber
  <1>13. /\ Was!Refuse("mark_ready")
         /\ Was!Next => TInv' /\ [Was!Next]_(Was!vars)
    BY <1>2, <1>4, <1>10, <1>12, Refuses
  <1>14. Was!GroupMarkReadyRefused(h, m) /\ h \in Was!Handles
    BY <1>2, <1>5, <1>8, <1>13 DEF Was!GroupMarkReadyRefused, Was!Handles
  <1>15. Was!Next
    BY <1>14 DEF Was!Next
  <1> QED
    BY <1>13, <1>15

\* What the group in hand shows while its members are being marked.
LEMMA Showing ==
  ASSUME TInv, Settled = before, NEW h \in DOMAIN before.group, NEW ms, NEW list,
         list = [before.group EXCEPT ![h] = MarkedFrom(before.group[h], ms)]
  PROVE  /\ before.group[h] \in GroupRecord
         /\ list[h] = MarkedFrom(before.group[h], ms)
         /\ list[h].members = before.group[h].members
         /\ list[h].ready = before.group[h].ready \cup ms
         /\ list[h].on_ready = before.group[h].on_ready
         /\ list[h].sequence = before.group[h].sequence
  <1> DEFINE g == before.group[h]
             new == MarkedFrom(g, ms)
  <1>1. g \in GroupRecord
    BY SettledType
  <1>2. list[h] = new
    BY InHand
  <1>3. /\ new.group_id = g.group_id /\ new.members = g.members /\ new.ready = g.ready \cup ms
        /\ new.sequence = g.sequence /\ new.on_ready = g.on_ready
    BY <1>1, MarkedFromIs
  <1> HIDE DEF new
  <1> QED
    BY <1>1, <1>2, <1>3 DEF new

LEMMA AlreadyStep ==
  ASSUME TInv, NEW t \in Threads, NEW m \in Members, Already(t, m)
  PROVE  TInv' /\ [Was!Next]_(Was!vars)
  <1> DEFINE f == thread[t]
             h == thread[t].h
             g == before.group[thread[t].h]
             ms == Done(before, thread[t])
  <1>1. f.at = "flag"
    BY DEF Already, At
  <1>2. /\ holder[QueueLock].by = t /\ Settled = before
        /\ Inside(Snapshot, before, f, holder[QueueLock].depth)
        /\ f.keeps => alive
    BY <1>1, InsideAtLabel
  <1>3. MarksDone(Snapshot, before, f) /\ Nested(f, holder[QueueLock].depth)
    BY <1>1, <1>2 DEF Inside, FlagAt
  <1>4. /\ m \in f.left /\ m \in group[h].ready /\ LeaveMark(t, m, IsReady(group[h]))
        /\ UNCHANGED <<group, groups, member_index, next_sequence, ready_groups, ready_heap,
                       alive, lock_of>>
    BY DEF Already, queue
  <1>5. MarkCall(before, f) /\ h \in DOMAIN before.group
    BY <1>3 DEF MarksDone, Marks, MarkCall
  <1>6. group = [before.group EXCEPT ![h] = MarkedFrom(g, ms)]
    BY <1>3, SnapshotIs DEF MarksDone, Marks
  <1>7. /\ g \in GroupRecord /\ group[h].ready = g.ready \cup ms
    <2>1. g \in GroupRecord
      BY <1>2, <1>5, SettledType
    <2>2. group[h] = MarkedFrom(g, ms)
      BY <1>2, <1>5, <1>6, InHand
    <2>3. MarkedFrom(g, ms).ready = g.ready \cup ms
      BY <2>1, MarkedFromIs
    <2> QED
      BY <2>1, <2>2, <2>3
  <1>8. m \in g.ready \cup ms /\ g.ready \in SUBSET g.members /\ ms \in SUBSET g.members
    BY <1>2, <1>4, <1>5, <1>7, SettledType DEF Done
  <1>9. /\ g.ready \cup (ms \cup {m}) = g.ready \cup ms
        /\ (ms \cup {m}) \ g.ready = ms \ g.ready
        \/ m \in ms
    BY <1>8
  <1>10. MarkedFrom(g, ms \cup {m}) = MarkedFrom(g, ms)
    <2>1. CASE m \in ms
      <3>1. ms \cup {m} = ms
        BY <2>1
      <3> QED
        BY <3>1
    <2>2. CASE m \notin ms
      BY <1>9, <2>2 DEF MarkedFrom
    <2> QED
      BY <2>1, <2>2
  <1>11. Finishes(g, ms \cup {m}) <=> Finishes(g, ms)
    <2>1. g.ready \cup (ms \cup {m}) = g.ready \cup ms
      BY <1>8
    <2> QED
      BY <2>1 DEF Finishes
  <1>12. Snapshot' = Snapshot
    BY <1>4 DEF Snapshot
  <1>13. Marks(Snapshot', before, f, ms \cup {m})
    BY <1>3, <1>10, <1>12 DEF MarksDone, Marks
  <1>14. NotedIfAlive(Snapshot', before, h, ms \cup {m})
    <2>1. NotedIf(Snapshot', before, h, ms)
      BY <1>3, <1>12 DEF MarksDone
    <2>2. ASSUME Finishes(g, ms)
          PROVE  alive
      <3>1. ms # {}
        BY <1>7, <2>2, MarkedNone
      <3>2. ~ Entering(f)
        BY <3>1 DEF Entering, Done
      <3> QED
        BY <1>2, <1>5, <3>2 DEF MarkCall
    <2> QED
      BY <1>11, <2>1, <2>2 DEF NotedIf, NotedIfAlive
  <1>15. group'[h] = group[h] /\ IsReady(group[h]) \in BOOLEAN
    BY <1>4 DEF IsReady
  <1> HIDE DEF ms
  <1> QED
    BY <1>2, <1>3, <1>4, <1>5, <1>8, <1>13, <1>14, <1>15, LeaveMarkStep DEF ms

\* The flag is set: t goes on to the counter.
LEMMA FlagStep ==
  ASSUME TInv, NEW t \in Threads, NEW m \in Members, Flag(t, m)
  PROVE  TInv' /\ UNCHANGED Was!vars
  <1> DEFINE f == thread[t]
             next == thread'[t]
             h == thread[t].h
             g == before.group[thread[t].h]
             ms == Done(before, thread[t])
  <1>1. f.at = "flag"
    BY DEF Flag, At
  <1>2. /\ holder[QueueLock].by = t /\ Settled = before
        /\ Inside(Snapshot, before, f, holder[QueueLock].depth)
    BY <1>1, InsideAtLabel
  <1>3. MarksDone(Snapshot, before, f) /\ Nested(f, holder[QueueLock].depth)
    BY <1>1, <1>2 DEF Inside, FlagAt
  <1>4. /\ m \in f.left /\ m \in group[h].members \ group[h].ready
        /\ group' = [group EXCEPT ![h] = Write(1, group[h], m)]
        /\ thread' = [thread EXCEPT ![t] = [[f EXCEPT !.at = "count"] EXCEPT !.now = {m}]]
        /\ UNCHANGED <<groups, member_index, next_sequence, ready_groups, ready_heap,
                       private, holder, lock_of>>
    BY DEF Flag, queue, TInv, Framed
  <1>5. /\ Moves(t) /\ next.at = "count" /\ next.now = {m} /\ next.call = f.call
        /\ next.h = f.h /\ next.left = f.left /\ next.keeps = f.keeps
    <2>1. DOMAIN thread = Threads /\ FrameForm(f)
      BY DEF TInv, Framed
    <2>2. next = [[f EXCEPT !.at = "count"] EXCEPT !.now = {m}]
      BY <1>4, <2>1
    <2> QED
      BY <1>4, <2>1, <2>2 DEF Moves, FrameForm
  <1>6. MarkCall(before, f) /\ h \in DOMAIN before.group
    BY <1>3 DEF MarksDone, Marks, MarkCall
  <1>7. group = [before.group EXCEPT ![h] = MarkedFrom(g, ms)]
    BY <1>3, SnapshotIs DEF MarksDone, Marks
  <1>8. /\ group[h] = MarkedFrom(g, ms) /\ group[h].members = g.members
        /\ group[h].ready = g.ready \cup ms
    BY <1>2, <1>6, <1>7, Showing
  <1>9. m \in g.members \ g.ready /\ ~ Finishes(g, ms)
    BY <1>4, <1>8 DEF Finishes
  <1>10. group' = [before.group EXCEPT ![h] =
                     [MarkedFrom(g, ms) EXCEPT !.ready = @ \cup {m}]]
    <2>1. Write(1, group[h], m) = [MarkedFrom(g, ms) EXCEPT !.ready = @ \cup {m}]
      BY <1>8 DEF Write
    <2>2. group' = [group EXCEPT ![h] = [MarkedFrom(g, ms) EXCEPT !.ready = @ \cup {m}]]
      BY <1>4, <2>1
    <2> QED
      BY <1>7, <2>2
  <1>11. MarkCall(before, next) /\ Done(before, next) = ms
    <2>1. Entering(next) <=> Entering(f)
      BY <1>5 DEF Entering
    <2> QED
      BY <1>5, <1>6, <2>1 DEF MarkCall, Done
  <1>12. /\ SameReady(Snapshot', before) /\ SameIndexes(Snapshot', before)
         /\ SameNumber(Snapshot', before)
    BY <1>3, <1>4, <1>9, SnapshotIs, SnapshotNext
       DEF MarksDone, Marks, NotedIf, SameReady, SameIndexes, SameNumber
  <1>13. Nested(next, holder[QueueLock].depth)
    BY <1>3, <1>5 DEF Nested
  <1>14. CountAt(Snapshot', before, next, holder[QueueLock].depth)
    <2>1. Snapshot'.group = [before.group EXCEPT ![next.h] =
                               [MarkedFrom(before.group[next.h], Done(before, next))
                                  EXCEPT !.ready = @ \cup {m}]]
      BY <1>5, <1>10, <1>11, SnapshotNext
    <2>2. m \in next.left /\ m \in before.group[next.h].members \ before.group[next.h].ready
      BY <1>4, <1>5, <1>9
    <2> HIDE DEF next, ms
    <2> QED
      BY <1>5, <1>11, <1>12, <1>13, <2>1, <2>2 DEF CountAt
  <1>15. Inside(Snapshot', before, next, holder[QueueLock].depth)
    BY <1>5, <1>14 DEF Inside
  <1>16. ~ Unborn(next)
    BY <1>5 DEF Unborn
  <1> QED
    BY <1>2, <1>4, <1>5, <1>15, <1>16, KeepsLock

\* The flag and then the counter: together they mark m.
LEMMA CountedIs ==
  ASSUME NEW g \in GroupRecord, NEW ms, IsFiniteSet(ms), NEW m, m \notin g.ready, m \notin ms
  PROVE  Write(2, [MarkedFrom(g, ms) EXCEPT !.ready = @ \cup {m}], m)
           = MarkedFrom(g, ms \cup {m})
  <1> DEFINE c == Cardinality(ms \ g.ready)
             d == Cardinality((ms \cup {m}) \ g.ready)
             r == g.ready \cup ms
  <1>1. d = c + 1 /\ c \in Nat
    <2>1. IsFiniteSet(ms \ g.ready) /\ m \notin ms \ g.ready
      BY FS_Subset
    <2>2. (ms \cup {m}) \ g.ready = (ms \ g.ready) \cup {m}
      OBVIOUS
    <2> QED
      BY <2>1, <2>2, FS_AddElement, FS_CardinalityType
  <1>2. g.ready \cup (ms \cup {m}) = r \cup {m}
    OBVIOUS
  <1>3. MarkedFrom(g, ms \cup {m})
          = [[g EXCEPT !.ready = r \cup {m}] EXCEPT !.ready_count = g.ready_count + d]
    BY <1>2 DEF MarkedFrom, GroupRecord
  <1>4. MarkedFrom(g, ms) = [[g EXCEPT !.ready = r] EXCEPT !.ready_count = g.ready_count + c]
    BY DEF MarkedFrom, GroupRecord
  <1>5. g.ready_count \in Nat
    BY DEF GroupRecord
  <1>6. g.ready_count + c + 1 = g.ready_count + d
    BY <1>1, <1>5
  <1> HIDE DEF c, d, r
  <1>7. [MarkedFrom(g, ms) EXCEPT !.ready = @ \cup {m}]
          = [[g EXCEPT !.ready = r \cup {m}] EXCEPT !.ready_count = g.ready_count + c]
    BY <1>4 DEF GroupRecord
  <1>8. Write(2, [MarkedFrom(g, ms) EXCEPT !.ready = @ \cup {m}], m)
          = [[g EXCEPT !.ready = r \cup {m}] EXCEPT !.ready_count = g.ready_count + c + 1]
    <2> DEFINE flagged == [MarkedFrom(g, ms) EXCEPT !.ready = @ \cup {m}]
    <2>1. Write(2, flagged, m) = [flagged EXCEPT !.ready_count = flagged.ready_count + 1]
      <3> HIDE DEF flagged
      <3> QED
        BY DEF Write
    <2> HIDE DEF flagged
    <2>2. flagged = [[g EXCEPT !.ready = r \cup {m}] EXCEPT !.ready_count = g.ready_count + c]
      BY <1>7 DEF flagged
    <2>3. flagged.ready_count = g.ready_count + c
      BY <2>2 DEF GroupRecord
    <2>4. Write(2, flagged, m)
            = [[g EXCEPT !.ready = r \cup {m}] EXCEPT !.ready_count = g.ready_count + c + 1]
      BY <2>1, <2>2, <2>3 DEF GroupRecord
    <2> QED
      BY <2>4 DEF flagged
  <1> QED
    BY <1>3, <1>6, <1>8

LEMMA CountStep ==
  ASSUME TInv, NEW t \in Threads, NEW m \in Members, Count(t, m)
  PROVE  TInv' /\ [Was!Next]_(Was!vars)
  <1> DEFINE f == thread[t]
             next == thread'[t]
             h == thread[t].h
             g == before.group[thread[t].h]
             ms == Done(before, thread[t])
             counted == Write(2, group[thread[t].h], m)
  <1>1. f.at = "count"
    BY DEF Count, At
  <1>2. /\ holder[QueueLock].by = t /\ Settled = before
        /\ Inside(Snapshot, before, f, holder[QueueLock].depth)
    BY <1>1, InsideAtLabel
  <1>3. CountAt(Snapshot, before, f, holder[QueueLock].depth)
    BY <1>1, <1>2 DEF Inside
  <1>4. /\ m \in f.now /\ group' = [group EXCEPT ![h] = counted]
        /\ UNCHANGED <<groups, member_index, next_sequence, ready_groups, ready_heap,
                       alive, lock_of>>
        /\ IF IsReady(counted) /\ counted.on_ready
           THEN Goto(t, "on_ready") /\ UNCHANGED <<holder, before, result>>
           ELSE LeaveMark(t, m, IsReady(counted))
    BY DEF Count, queue
  <1>5. /\ MarkCall(before, f) /\ h \in DOMAIN before.group
        /\ Nested(f, holder[QueueLock].depth)
        /\ SameIndexes(Snapshot, before) /\ SameNumber(Snapshot, before)
        /\ SameReady(Snapshot, before)
    BY <1>3 DEF CountAt, MarkCall
  <1>6. /\ f.now = {m} /\ m \in f.left /\ m \in g.members \ g.ready
        /\ group = [before.group EXCEPT ![h] =
                      [MarkedFrom(g, ms) EXCEPT !.ready = @ \cup {m}]]
    <2>1. PICK x \in f.left :
            /\ f.now = {x} /\ x \in g.members \ g.ready
            /\ Snapshot.group = [before.group EXCEPT ![h] =
                                   [MarkedFrom(g, ms) EXCEPT !.ready = @ \cup {x}]]
      BY <1>3 DEF CountAt
    <2>2. x = m
      BY <1>4, <2>1
    <2> QED
      BY <2>1, <2>2, SnapshotIs
  <1>7. /\ g \in GroupRecord /\ IsFiniteSet(ms) /\ m \notin ms
        /\ g.ready \in SUBSET g.members /\ ms \cup {m} \in SUBSET g.members
    <2>1. ms \subseteq g.members /\ m \notin ms
      BY <1>6 DEF Done
    <2>2. g \in GroupRecord /\ g.ready \in SUBSET g.members /\ IsFiniteSet(g.members)
      BY <1>2, <1>5, SettledType
    <2>3. IsFiniteSet(ms)
      BY <2>1, <2>2, FS_Subset
    <2> QED
      BY <1>6, <2>1, <2>2, <2>3
  <1>8. counted = MarkedFrom(g, ms \cup {m})
    <2>1. group[h] = [MarkedFrom(g, ms) EXCEPT !.ready = @ \cup {m}]
      BY <1>2, <1>5, <1>6, InHand
    <2> QED
      BY <1>6, <1>7, <2>1, CountedIs
  <1>9. group' = [before.group EXCEPT ![h] = MarkedFrom(g, ms \cup {m})]
    BY <1>4, <1>6, <1>8
  <1>10. counted.on_ready = g.on_ready
    <2>1. MarkedFrom(g, ms \cup {m}).on_ready = g.on_ready
      BY <1>7, MarkedFromIs
    <2> QED
      BY <1>8, <2>1
  <1>11. IsReady(counted) <=> Finishes(g, ms \cup {m})
    <2>1. IsReady(MarkedFrom(g, ms \cup {m})) <=> g.ready \cup (ms \cup {m}) = g.members
      BY <1>2, <1>5, <1>7, MarkedCounts
    <2>2. g.ready # g.members
      BY <1>6
    <2> QED
      BY <1>8, <2>1, <2>2 DEF Finishes
  <1>12. Marks(Snapshot', before, f, ms \cup {m}) /\ SameReady(Snapshot', before)
    BY <1>4, <1>5, <1>9, SnapshotIs, SnapshotNext DEF Marks, SameIndexes, SameNumber, SameReady
  <1>13. CASE IsReady(counted) /\ counted.on_ready
    <2>1. Goto(t, "on_ready") /\ UNCHANGED <<private, holder, lock_of>>
      BY <1>4, <1>13 DEF private
    <2>2. /\ Moves(t) /\ next.at = "on_ready" /\ next.call = f.call
          /\ next.h = f.h /\ next.left = f.left /\ next.keeps = f.keeps /\ next.now = f.now
      BY <2>1, GotoMoves DEF TInv
    <2>3. MarkCall(before, next) /\ Done(before, next) = ms
      <3>1. Entering(next) <=> Entering(f)
        BY <2>2 DEF Entering
      <3> QED
        BY <1>5, <2>2, <3>1 DEF MarkCall, Done
    <2> HIDE DEF next, ms, counted
    <2>4. LastFlag(Snapshot', before, next, m)
      BY <1>6, <1>10, <1>11, <1>12, <1>13, <2>2, <2>3 DEF LastFlag, Marks
    <2>5. OnReadyAt(Snapshot', before, next, holder[QueueLock].depth)
      BY <1>5, <1>6, <1>12, <2>2, <2>4 DEF OnReadyAt, Nested
    <2>6. Inside(Snapshot', before, next, holder[QueueLock].depth) /\ ~ Unborn(next)
      BY <2>2, <2>5 DEF Inside, Unborn
    <2> QED
      BY <1>2, <2>1, <2>2, <2>6, KeepsLock DEF next
  <1>14. CASE ~ (IsReady(counted) /\ counted.on_ready)
    <2>1. LeaveMark(t, m, IsReady(counted))
      BY <1>4, <1>14
    <2>2. NotedIfAlive(Snapshot', before, h, ms \cup {m})
      BY <1>10, <1>11, <1>12, <1>14 DEF NotedIfAlive
    <2>3. group'[h] = counted
      BY <1>2, <1>5, <1>8, <1>9, InHand
    <2>4. IsReady(counted) \in BOOLEAN
      BY DEF IsReady
    <2> HIDE DEF ms, counted
    <2> QED
      BY <1>2, <1>4, <1>5, <1>6, <1>12, <2>1, <2>2, <2>3, <2>4, LeaveMarkStep DEF ms
  <1> QED
    BY <1>13, <1>14

\* What LastFlag says, when the last flag and the counter are set.
LEMMA LastFlagIs ==
  ASSUME TInv, Settled = before, NEW f, NEW m \in f.left,
         LastFlag(Snapshot, before, f, m)
  PROVE  /\ MarkCall(before, f) /\ f.h \in DOMAIN before.group
         /\ m \in before.group[f.h].members /\ f.now = {m}
         /\ IsReady(group[f.h])
         /\ group[f.h].sequence = before.group[f.h].sequence
         /\ before.group[f.h].on_ready
         /\ Finishes(before.group[f.h], Done(before, f) \cup {m})
         /\ alive => before.group[f.h].sequence \notin DOMAIN before.ready_groups
  <1> DEFINE h == f.h
             g == before.group[f.h]
             ms == Done(before, f) \cup {m}
  <1>1. /\ MarkCall(before, f) /\ h \in DOMAIN before.group /\ f.now = {m}
        /\ Finishes(g, ms) /\ g.on_ready
        /\ group = [before.group EXCEPT ![h] = MarkedFrom(g, ms)]
    BY SnapshotIs DEF LastFlag, Marks, MarkCall
  <1>2. ms \in SUBSET g.members /\ g.ready # g.members
    BY <1>1 DEF Finishes
  <1>3. group[h] = MarkedFrom(g, ms) /\ g \in GroupRecord
    BY <1>1, InHand, SettledType
  <1>4. group[h].sequence = g.sequence
    <2>1. MarkedFrom(g, ms).sequence = g.sequence
      BY <1>3, MarkedFromIs
    <2> QED
      BY <1>3, <2>1
  <1>5. IsReady(group[h])
    <2>1. h \in DOMAIN Settled.group /\ ms \in SUBSET Settled.group[h].members
      BY <1>1, <1>2
    <2>2. IsReady(MarkedFrom(Settled.group[h], ms))
            <=> Settled.group[h].ready \cup ms = Settled.group[h].members
      <3> HIDE DEF ms, h
      <3> QED
        BY <2>1, MarkedCounts
    <2>3. g.ready \cup ms = g.members
      BY <1>1 DEF Finishes
    <2>4. IsReady(MarkedFrom(g, ms)) <=> g.ready \cup ms = g.members
      BY <2>2
    <2> QED
      BY <1>3, <2>3, <2>4
  <1>6. ASSUME alive
        PROVE  g.sequence \notin DOMAIN before.ready_groups
    <2>1. h \in Was!Handles /\ Settled.group[h].on_ready
             /\ Settled.group[h].ready # Settled.group[h].members
      BY <1>1, <1>2 DEF Was!Handles
    <2> QED
      BY <1>6, <2>1, SameAssumptions, Was!NotesAreFresh DEF TInv
  <1> QED
    BY <1>1, <1>2, <1>4, <1>5, <1>6
-----------------------------------------------------------------------------
\* The readiness callback.

\* The frame of a thread that keeps the marking of m in hand.
LEMMA LastFlagStays ==
  ASSUME NEW now, NEW was, NEW f, NEW next, NEW m, LastFlag(now, was, f, m), m \in f.left,
         next.call = f.call, next.h = f.h, next.left = f.left, next.now = f.now,
         f.keeps => next.keeps
  PROVE  LastFlag(now, was, next, m)
  <1>1. Done(was, next) = Done(was, f)
    BY DEF Done
  <1>2. Entering(f) <=> Entering(next)
    BY DEF Entering
  <1>3. MarkCall(was, next)
    BY <1>2 DEF MarkCall, LastFlag, Marks
  <1> QED
    BY <1>1, <1>3 DEF LastFlag, Marks

\* A callback that has done its work, or that has found none to do, returns.
LEMMA CallbackEnds ==
  ASSUME TInv, NEW t \in Threads, holder[QueueLock].by = t, NEW m \in thread[t].left,
         LastFlag(Snapshot, before, thread[t], m),
         Nested(thread[t], holder[QueueLock].depth),
         UNCHANGED <<group, groups, member_index, next_sequence, alive, lock_of>>,
         IF alive THEN Noted(Snapshot', before, thread[t].h) ELSE SameReady(Snapshot', before),
         LeaveMark(t, m, TRUE)
  PROVE  TInv' /\ [Was!Next]_(Was!vars)
  <1> DEFINE f == thread[t]
             h == thread[t].h
             ms == Done(before, thread[t]) \cup {m}
  <1>1. Settled = before
    BY Holding
  <1>2. /\ MarkCall(before, f) /\ m \in before.group[h].members /\ IsReady(group[h])
        /\ before.group[h].on_ready /\ Finishes(before.group[h], ms)
    BY <1>1, LastFlagIs
  <1>3. Marks(Snapshot', before, f, ms)
    BY SnapshotIs, SnapshotNext DEF LastFlag, Marks, SameIndexes, SameNumber
  <1>4. NotedIfAlive(Snapshot', before, h, ms)
    BY <1>2 DEF NotedIfAlive
  <1>5. TRUE <=> IsReady(group'[h])
    BY <1>2
  <1> HIDE DEF ms
  <1> QED
    BY <1>2, <1>3, <1>4, <1>5, LeaveMarkStep DEF ms

LEMMA OnReadyStep ==
  ASSUME TInv, NEW t \in Threads, NEW m \in Members, OnReady(t, m)
  PROVE  TInv' /\ [Was!Next]_(Was!vars)
  <1> DEFINE f == thread[t]
             next == thread'[t]
  <1>1. f.at = "on_ready"
    BY DEF OnReady, At
  <1>2. /\ holder[QueueLock].by = t /\ Settled = before
        /\ Inside(Snapshot, before, f, holder[QueueLock].depth)
    BY <1>1, InsideAtLabel
  <1>3. /\ Nested(f, holder[QueueLock].depth) /\ SameReady(Snapshot, before)
        /\ m \in f.left /\ LastFlag(Snapshot, before, f, m)
    <2>1. OnReadyAt(Snapshot, before, f, holder[QueueLock].depth)
      BY <1>1, <1>2 DEF Inside
    <2>2. PICK x \in f.left : LastFlag(Snapshot, before, f, x)
      BY <2>1 DEF OnReadyAt
    <2>3. x = m
      BY <2>2 DEF LastFlag, OnReady
    <2> QED
      BY <2>1, <2>2, <2>3 DEF OnReadyAt
  <1>4. UNCHANGED <<group, groups, member_index, next_sequence, ready_groups, ready_heap,
                    alive, lock_of>>
    BY DEF OnReady, queue
  <1>5. Snapshot' = Snapshot
    BY <1>4 DEF Snapshot
  <1>6. CASE alive
    <2>1. /\ thread' = [thread EXCEPT ![t] = [[f EXCEPT !.at = "note"] EXCEPT !.keeps = TRUE]]
          /\ UNCHANGED <<holder, before, result>>
      BY <1>6 DEF OnReady, TInv, Framed
    <2>2. /\ Moves(t) /\ next.at = "note" /\ next.keeps = TRUE /\ next.call = f.call
          /\ next.h = f.h /\ next.left = f.left /\ next.now = f.now
      <3>1. DOMAIN thread = Threads /\ FrameForm(f)
        BY DEF TInv, Framed
      <3>2. next = [[f EXCEPT !.at = "note"] EXCEPT !.keeps = TRUE]
        BY <2>1, <3>1
      <3> QED
        BY <2>1, <3>1, <3>2 DEF Moves, FrameForm
    <2>3. LastFlag(Snapshot, before, next, m)
      BY <1>3, <2>2, LastFlagStays
    <2>4. NoteAt(Snapshot', before, next, holder[QueueLock].depth)
      BY <1>3, <1>5, <2>2, <2>3 DEF NoteAt, OnReadyAt, Nested
    <2>5. Inside(Snapshot', before, next, holder'[QueueLock].depth)
      BY <2>1, <2>2, <2>4 DEF Inside
    <2>6. StaysInside(t)
      <3>1. lock_of' \in Seq({QueueLock}) /\ Len(lock_of') >= Len(lock_of)
        <4>1. lock_of' = lock_of /\ lock_of \in Seq({QueueLock}) /\ Len(lock_of) \in Nat
          BY <1>4 DEF TInv, Locked
        <4> QED
          BY <4>1
      <3>2. \E depth \in Nat \ {0} :
              holder' = [holder EXCEPT ![QueueLock] = [by |-> t, depth |-> depth]]
        BY <1>2, <2>1, Holding
      <3> QED
        BY <1>4, <1>6, <2>1, <2>2, <3>1, <3>2 DEF StaysInside, private, Unborn
    <2> QED
      BY <1>2, <2>5, <2>6, InnerStep
  <1>7. CASE ~ alive
    <2>1. LeaveMark(t, m, TRUE)
      BY <1>7 DEF OnReady
    <2> QED
      BY <1>2, <1>3, <1>4, <1>5, <1>7, <2>1, CallbackEnds
  <1> QED
    BY <1>6, <1>7

LEMMA NoteStep ==
  ASSUME TInv, NEW t \in Threads, NEW m \in Members, Note(t, m)
  PROVE  TInv' /\ [Was!Next]_(Was!vars)
  <1> DEFINE f == thread[t]
             next == thread'[t]
             s == group[thread[t].h].sequence
  <1>1. f.at = "note"
    BY DEF Note, At
  <1>2. /\ holder[QueueLock].by = t /\ Settled = before /\ (f.keeps => alive)
        /\ Inside(Snapshot, before, f, holder[QueueLock].depth)
    BY <1>1, InsideAtLabel
  <1>3. /\ Nested(f, holder[QueueLock].depth) /\ SameReady(Snapshot, before) /\ f.keeps
        /\ m \in f.left /\ LastFlag(Snapshot, before, f, m)
    <2>1. NoteAt(Snapshot, before, f, holder[QueueLock].depth)
      BY <1>1, <1>2 DEF Inside
    <2>2. PICK x \in f.left : LastFlag(Snapshot, before, f, x)
      BY <2>1 DEF NoteAt, OnReadyAt
    <2>3. x = m
      BY <2>2 DEF LastFlag, Note
    <2> QED
      BY <2>1, <2>2, <2>3 DEF NoteAt, OnReadyAt
  <1>4. s = before.group[f.h].sequence /\ s \notin DOMAIN ready_groups
    BY <1>2, <1>3, LastFlagIs, SnapshotIs DEF SameReady
  <1>5. /\ ready_groups' = Put(ready_groups, s, f.h) /\ Goto(t, "push")
        /\ UNCHANGED <<group, groups, member_index, next_sequence, ready_heap,
                       private, holder, lock_of>>
    BY <1>4 DEF Note, private
  <1>6. /\ Moves(t) /\ next.at = "push" /\ next.keeps = f.keeps /\ next.call = f.call
        /\ next.h = f.h /\ next.left = f.left /\ next.now = f.now
    BY <1>5, GotoMoves DEF TInv
  <1>7. LastFlag(Snapshot', before, next, m)
    <2>1. LastFlag(Snapshot', before, f, m)
      BY <1>3, <1>5, SnapshotIs, SnapshotNext DEF LastFlag, Marks, SameIndexes, SameNumber
    <2> QED
      BY <1>3, <1>6, <2>1, LastFlagStays
  <1>8. /\ ready_groups' = Put(before.ready_groups, before.group[next.h].sequence, next.h)
        /\ ready_heap' = before.ready_heap
    BY <1>3, <1>4, <1>5, <1>6, SnapshotIs DEF SameReady
  <1>9. PushAt(Snapshot', before, next, holder[QueueLock].depth)
    BY <1>3, <1>6, <1>7, <1>8, SnapshotNext DEF PushAt, Nested
  <1>10. Inside(Snapshot', before, next, holder[QueueLock].depth) /\ ~ Unborn(next)
    BY <1>6, <1>9 DEF Inside, Unborn
  <1>11. TInv' /\ UNCHANGED Was!vars
    BY <1>2, <1>5, <1>6, <1>10, KeepsLock
  <1> QED
    BY <1>11

LEMMA PushStep ==
  ASSUME TInv, NEW t \in Threads, NEW m \in Members, Push(t, m)
  PROVE  TInv' /\ [Was!Next]_(Was!vars)
  <1> DEFINE f == thread[t]
  <1>1. f.at = "push"
    BY DEF Push, At
  <1>2. /\ holder[QueueLock].by = t /\ Settled = before /\ (f.keeps => alive)
        /\ Inside(Snapshot, before, f, holder[QueueLock].depth)
    BY <1>1, InsideAtLabel
  <1>3. /\ Nested(f, holder[QueueLock].depth) /\ f.keeps
        /\ m \in f.left /\ LastFlag(Snapshot, before, f, m)
        /\ ready_groups = Put(before.ready_groups, before.group[f.h].sequence, f.h)
        /\ ready_heap = before.ready_heap
    <2>1. PushAt(Snapshot, before, f, holder[QueueLock].depth)
      BY <1>1, <1>2 DEF Inside
    <2>2. PICK x \in f.left : LastFlag(Snapshot, before, f, x)
      BY <2>1 DEF PushAt
    <2>3. x = m
      BY <2>2 DEF LastFlag, Push
    <2> QED
      BY <2>1, <2>2, <2>3, SnapshotIs DEF PushAt
  <1>4. /\ ready_heap' = ready_heap \cup {group[f.h].sequence} /\ LeaveMark(t, m, TRUE)
        /\ UNCHANGED <<group, groups, member_index, next_sequence, ready_groups, alive,
                       lock_of>>
    BY DEF Push
  <1>5. group[f.h].sequence = before.group[f.h].sequence
    BY <1>2, <1>3, LastFlagIs
  <1>6. Noted(Snapshot', before, f.h)
    BY <1>3, <1>4, <1>5, SnapshotNext DEF Noted
  <1> QED
    BY <1>2, <1>3, <1>4, <1>6, CallbackEnds
-----------------------------------------------------------------------------
\* Departures: what is left of the queue when some groups have been taken out of it.

LEMMA DetachedIs ==
  ASSUME TInv, NEW hs, NEW h \in DOMAIN Settled.group
  PROVE  LET g   == Settled.group[h]
             new == DetachedFrom(Settled.group, hs)[h]
         IN  /\ new.group_id = g.group_id /\ new.members = g.members
             /\ new.ready_count = g.ready_count /\ new.sequence = g.sequence
             /\ IsReady(new) <=> IsReady(g)
  <1> DEFINE g == Settled.group[h]
             new == DetachedFrom(Settled.group, hs)[h]
  <1>1. g \in GroupRecord
    BY SettledType
  <1>2. \A b : /\ [g EXCEPT !.on_ready = b].group_id = g.group_id
               /\ [g EXCEPT !.on_ready = b].members = g.members
               /\ [g EXCEPT !.on_ready = b].ready_count = g.ready_count
               /\ [g EXCEPT !.on_ready = b].sequence = g.sequence
    BY <1>1 DEF GroupRecord
  <1>3. new = IF h \in hs THEN [g EXCEPT !.on_ready = FALSE] ELSE g
    BY DEF DetachedFrom
  <1> HIDE DEF new
  <1>4. CASE h \in hs
    <2>1. new = [g EXCEPT !.on_ready = FALSE]
      BY <1>3, <1>4
    <2>2. /\ [g EXCEPT !.on_ready = FALSE].group_id = g.group_id
          /\ [g EXCEPT !.on_ready = FALSE].members = g.members
          /\ [g EXCEPT !.on_ready = FALSE].ready_count = g.ready_count
          /\ [g EXCEPT !.on_ready = FALSE].sequence = g.sequence
      BY <1>2, Zenon
    <2>3. /\ new.group_id = g.group_id /\ new.members = g.members
          /\ new.ready_count = g.ready_count /\ new.sequence = g.sequence
      BY <2>1, <2>2, Zenon
    <2> QED
      BY <2>3 DEF IsReady, new
  <1>5. CASE h \notin hs
    <2>1. new = g
      BY <1>3, <1>5
    <2> QED
      BY <2>1 DEF new
  <1> QED
    BY <1>4, <1>5

\* No two groups have the same age.
LEMMA AgesDiffer ==
  ASSUME TInv
  PROVE  /\ \A h \in DOMAIN Settled.group : AgeIn(Settled, h) \in Int
         /\ \A g, h \in DOMAIN Settled.group :
              AgeIn(Settled, g) = AgeIn(Settled, h) => g = h
         /\ \A g, h \in DOMAIN Settled.group :
              Settled.group[g].sequence = Settled.group[h].sequence => g = h
  <1>1. \A h \in DOMAIN Settled.group : Settled.group[h].sequence = h - 1 /\ h \in Nat
    BY SettledType
  <1> DEFINE seq(h) == Settled.group[h].sequence
  <1>2. \A h \in DOMAIN Settled.group : seq(h) \in Int /\ h \in Int
    BY <1>1
  <1>3. \A g, h \in DOMAIN Settled.group : seq(g) = seq(h) => g = h
    BY <1>1
  <1> HIDE DEF seq
  <1>4. \A h : AgeIn(Settled, h) = IF StrictOrder THEN h ELSE seq(h)
    BY DEF AgeIn, seq
  <1>5. \A g, h \in DOMAIN Settled.group :
          AgeIn(Settled, g) = AgeIn(Settled, h) => g = h
    BY <1>3, <1>4
  <1>6. \A h \in DOMAIN Settled.group : AgeIn(Settled, h) \in Int
    BY <1>2, <1>4
  <1> QED
    BY <1>3, <1>5, <1>6 DEF seq

\* The groups that may leave a relaxed queue are those of its ready index.
LEMMA RelaxedAllOut ==
  ASSUME TInv, ~ StrictOrder
  PROVE  /\ LiveOf(Settled) = DOMAIN Settled.ready_groups
         /\ AllOutOf(Settled) = {Settled.ready_groups[s] : s \in DOMAIN Settled.ready_groups}
         /\ \A h \in AllOutOf(Settled) :
              /\ Settled.group[h].sequence \in DOMAIN Settled.ready_groups
              /\ Settled.ready_groups[Settled.group[h].sequence] = h
  <1>1. LiveOf(Settled) = DOMAIN Settled.ready_groups
    BY SettledTells DEF LiveOf
  <1>2. AllOutOf(Settled) = {Settled.ready_groups[s] : s \in DOMAIN Settled.ready_groups}
    BY <1>1 DEF AllOutOf
  <1> QED
    BY <1>1, <1>2, SettledTells

LEMMA OutOfWaiting ==
  ASSUME TInv
  PROVE  /\ AllOutOf(Settled) \subseteq WaitingOf(Settled)
         /\ NextOutOf(Settled) \subseteq WaitingOf(Settled)
  <1>1. AllOutOf(Settled) \subseteq WaitingOf(Settled)
    <2>1. CASE StrictOrder
      BY <2>1 DEF AllOutOf
    <2>2. CASE ~ StrictOrder
      BY <2>2, RelaxedAllOut, SettledTells
    <2> QED
      BY <2>1, <2>2
  <1>2. NextOutOf(Settled) \subseteq WaitingOf(Settled)
    <2>1. CASE StrictOrder
      BY <2>1 DEF NextOutOf
    <2>2. CASE ~ StrictOrder
      BY <2>2, RelaxedAllOut, SettledTells DEF NextOutOf
    <2> QED
      BY <2>1, <2>2
  <1> QED
    BY <1>1, <1>2

LEMMA AfterTaking ==
  ASSUME TInv, NEW gone \in SUBSET WaitingOf(Settled), NEW now,
         Taken(now, Settled, gone, gone, MembersOf(Settled.group, gone), gone)
  PROVE  /\ WaitingOf(now) = WaitingOf(Settled) \ gone
         /\ DOMAIN now.group = DOMAIN Settled.group
         /\ DOMAIN now.ready_groups
              = DOMAIN Settled.ready_groups \ SequencesOf(Settled.group, gone)
         /\ \A s \in DOMAIN now.ready_groups : now.ready_groups[s] = Settled.ready_groups[s]
  <1>1. now.groups = Without(Settled.groups, IdsOf(Settled.group, gone))
        /\ now.ready_groups = Without(Settled.ready_groups, SequencesOf(Settled.group, gone))
        /\ now.group = DetachedFrom(Settled.group, gone)
    BY DEF Taken
  <1>2. DOMAIN now.group = DOMAIN Settled.group
    BY <1>1 DEF DetachedFrom
  <1>3. /\ DOMAIN now.ready_groups
              = DOMAIN Settled.ready_groups \ SequencesOf(Settled.group, gone)
        /\ \A s \in DOMAIN now.ready_groups : now.ready_groups[s] = Settled.ready_groups[s]
    BY <1>1 DEF Without, Restrict
  <1>4. /\ DOMAIN now.groups = DOMAIN Settled.groups \ IdsOf(Settled.group, gone)
        /\ \A id \in DOMAIN now.groups : now.groups[id] = Settled.groups[id]
    BY <1>1 DEF Without, Restrict
  <1>5. \A id \in DOMAIN Settled.groups :
          id \in IdsOf(Settled.group, gone) <=> Settled.groups[id] \in gone
    BY SettledTells DEF IdsOf, WaitingOf
  <1>6. WaitingOf(now) = WaitingOf(Settled) \ gone
    BY <1>4, <1>5 DEF WaitingOf
  <1> QED
    BY <1>2, <1>3, <1>6

\* A peek in the loop of release_all finds the oldest of the groups that may leave
\* and have not left yet, and finds nothing only when all have left.
LEMMA NextOutStrict ==
  ASSUME TInv, StrictOrder, NEW gone \in SUBSET AllOutOf(Settled), NEW now,
         Taken(now, Settled, gone, gone, MembersOf(Settled.group, gone), gone)
  PROVE  /\ \A h \in NextOutOf(now) :
              /\ h \in AllOutOf(Settled) \ gone
              /\ \A g \in AllOutOf(Settled) \ gone : AgeIn(Settled, h) <= AgeIn(Settled, g)
         /\ NextOutOf(now) = {} => AllOutOf(Settled) = gone
  <1> DEFINE left == WaitingOf(Settled) \ gone
             ready(h) == IsReady(Settled.group[h])
  <1>1. /\ AllOutOf(Settled) = {h \in WaitingOf(Settled) :
                                  \A g \in WaitingOf(Settled) : g <= h => ready(g)}
        /\ NextOutOf(now) = {h \in WaitingOf(now) :
                               IsReady(now.group[h]) /\ \A g \in WaitingOf(now) : h <= g}
    BY DEF AllOutOf, NextOutOf
  <1>2. WaitingOf(now) = left /\ gone \in SUBSET WaitingOf(Settled)
    BY OutOfWaiting, AfterTaking
  <1>3. WaitingOf(Settled) \subseteq DOMAIN Settled.group /\ DOMAIN Settled.group \subseteq Nat
    BY SettledTells, SettledType
  <1>4. \A h \in left : IsReady(now.group[h]) <=> ready(h)
    BY <1>3, DetachedIs DEF Taken
  <1>5. \A h \in WaitingOf(Settled) : \A g \in WaitingOf(Settled) :
          h <= h /\ (h <= g \/ g <= h)
    BY <1>3
  <1>6. \A h : AgeIn(Settled, h) = h
    BY DEF AgeIn
  <1>7. NextOutOf(now) = {h \in left : ready(h) /\ \A g \in left : h <= g}
    BY <1>1, <1>2, <1>4
  <1>8. \A g \in gone : ready(g)
    BY <1>1, <1>2, <1>5
  <1> HIDE DEF ready
  <1>9. ASSUME NEW h \in NextOutOf(now)
        PROVE  /\ h \in AllOutOf(Settled) \ gone
               /\ \A g \in AllOutOf(Settled) \ gone : AgeIn(Settled, h) <= AgeIn(Settled, g)
    <2>1. h \in left /\ ready(h) /\ \A g \in left : h <= g
      BY <1>7, <1>9
    <2>2. ASSUME NEW g \in WaitingOf(Settled), g <= h
          PROVE  ready(g)
      <3>1. CASE g \in gone
        BY <1>8, <3>1
      <3>2. CASE g \notin gone
        <4>1. h <= g /\ g \in Nat /\ h \in Nat
          BY <1>3, <2>1, <3>2
        <4>2. g = h
          BY <2>2, <4>1
        <4> QED
          BY <2>1, <4>2
      <3> QED
        BY <3>1, <3>2
    <2>3. h \in AllOutOf(Settled) \ gone
      BY <1>1, <2>1, <2>2
    <2> QED
      BY <1>1, <1>6, <2>1, <2>3
  <1>10. ASSUME NextOutOf(now) = {}, NEW x \in AllOutOf(Settled), x \notin gone
         PROVE  FALSE
    <2>1. x \in left /\ left \in SUBSET Nat
      BY <1>1, <1>3, <1>10
    <2>2. PICK h \in left : \A g \in left : h <= g
      BY <2>1, SameLists, Order!LeastNatural
    <2>3. ready(h)
      BY <1>1, <1>10, <2>1, <2>2
    <2> QED
      BY <1>7, <1>10, <2>2, <2>3
  <1> QED
    BY <1>9, <1>10

LEMMA NextOutRelaxed ==
  ASSUME TInv, ~ StrictOrder, NEW gone \in SUBSET AllOutOf(Settled), NEW now,
         Taken(now, Settled, gone, gone, MembersOf(Settled.group, gone), gone),
         DOMAIN now.ready_groups \subseteq now.ready_heap
  PROVE  /\ \A h \in NextOutOf(now) :
              /\ h \in AllOutOf(Settled) \ gone
              /\ \A g \in AllOutOf(Settled) \ gone : AgeIn(Settled, h) <= AgeIn(Settled, g)
         /\ NextOutOf(now) = {} => AllOutOf(Settled) = gone /\ LiveOf(now) = {}
  <1> DEFINE rg == Settled.ready_groups
             live == DOMAIN now.ready_groups
             seq(h) == Settled.group[h].sequence
  <1>1. gone \in SUBSET WaitingOf(Settled)
    BY OutOfWaiting
  <1>2. /\ live = DOMAIN rg \ {seq(g) : g \in gone}
        /\ \A s \in live : now.ready_groups[s] = rg[s]
    BY <1>1, AfterTaking DEF SequencesOf
  <1>3. LiveOf(now) = live
    BY DEF LiveOf
  <1>4. NextOutOf(now) = {now.ready_groups[s] : s \in {t \in live : \A u \in live : t <= u}}
    BY <1>3 DEF NextOutOf
  <1>5. /\ AllOutOf(Settled) = {rg[s] : s \in DOMAIN rg}
        /\ \A h \in AllOutOf(Settled) : seq(h) \in DOMAIN rg /\ rg[seq(h)] = h
        /\ \A s \in DOMAIN rg : seq(rg[s]) = s
    BY RelaxedAllOut, SettledTells
  <1>6. \A h : AgeIn(Settled, h) = seq(h)
    BY DEF AgeIn
  <1>7. live \in SUBSET Nat
    BY <1>2, SettledType
  <1> HIDE DEF seq, rg, live
  <1>8. \A h \in AllOutOf(Settled) \ gone : seq(h) \in live
    BY <1>2, <1>5
  <1>9. ASSUME NEW h \in NextOutOf(now)
        PROVE  /\ h \in AllOutOf(Settled) \ gone
               /\ \A g \in AllOutOf(Settled) \ gone : AgeIn(Settled, h) <= AgeIn(Settled, g)
    <2>1. PICK s \in live : h = now.ready_groups[s] /\ \A u \in live : s <= u
      BY <1>4, <1>9
    <2>2. h = rg[s] /\ s \in DOMAIN rg /\ s \notin {seq(g) : g \in gone}
      BY <1>2, <2>1
    <2>3. seq(h) = s /\ h \in AllOutOf(Settled) \ gone
      BY <1>5, <2>2
    <2> QED
      BY <1>6, <1>8, <2>1, <2>3
  <1>10. ASSUME NextOutOf(now) = {}
         PROVE  live = {}
    <2>1. ASSUME live # {}
          PROVE  FALSE
      <3>1. PICK s \in live : \A u \in live : s <= u
        BY <1>7, <2>1, SameLists, Order!LeastNatural
      <3>2. now.ready_groups[s] \in NextOutOf(now)
        BY <1>4, <3>1
      <3> QED
        BY <1>10, <3>2
    <2> QED
      BY <2>1
  <1>11. ASSUME NextOutOf(now) = {}
         PROVE  AllOutOf(Settled) = gone /\ LiveOf(now) = {}
    BY <1>3, <1>8, <1>10, <1>11
  <1> QED
    BY <1>9, <1>11

LEMMA NextOutIsOldest ==
  ASSUME TInv, NEW gone \in SUBSET AllOutOf(Settled), NEW now,
         Taken(now, Settled, gone, gone, MembersOf(Settled.group, gone), gone),
         HeapSoFar(now, Settled)
  PROVE  /\ \A h \in NextOutOf(now) :
              /\ h \in AllOutOf(Settled) \ gone
              /\ \A g \in AllOutOf(Settled) \ gone : AgeIn(Settled, h) <= AgeIn(Settled, g)
         /\ NextOutOf(now) = {} => /\ AllOutOf(Settled) = gone
                                   /\ ~ StrictOrder => LiveOf(now) = {}
  <1>1. CASE StrictOrder
    BY <1>1, NextOutStrict
  <1>2. CASE ~ StrictOrder
    BY <1>2, NextOutRelaxed DEF HeapSoFar
  <1> QED
    BY <1>1, <1>2

\* One group more is out.
LEMMA OldestGrows ==
  ASSUME TInv, NEW list, Oldest(Settled, list), NEW h \in AllOutOf(Settled) \ Range(list),
         \A g \in AllOutOf(Settled) \ Range(list) : AgeIn(Settled, h) <= AgeIn(Settled, g)
  PROVE  Oldest(Settled, Append(list, h))
  <1> DEFINE n == Len(list)
             longer == Append(list, h)
             age(g) == AgeIn(Settled, g)
  <1>1. /\ list \in Seq(AllOutOf(Settled)) /\ n \in Nat /\ DOMAIN list = 1..n
        /\ \A i, j \in DOMAIN list : i < j => age(list[i]) < age(list[j])
        /\ \A i \in DOMAIN list : \A g \in AllOutOf(Settled) \ Range(list) :
             age(list[i]) < age(g)
    BY DEF Oldest
  <1>2. /\ longer \in Seq(AllOutOf(Settled)) /\ DOMAIN longer = 1..(n + 1)
        /\ longer[n + 1] = h /\ \A i \in 1..n : longer[i] = list[i]
    BY <1>1, AppendProperties
  <1>3. Range(longer) = Range(list) \cup {h}
    BY <1>1, <1>2 DEF Range
  <1>4. AllOutOf(Settled) \subseteq DOMAIN Settled.group
    BY OutOfWaiting, SettledTells
  <1>5. \A g \in AllOutOf(Settled) : age(g) \in Int
    BY <1>4, AgesDiffer
  <1>6. \A g \in AllOutOf(Settled) : age(g) = age(h) => g = h
    BY <1>4, AgesDiffer
  <1> HIDE DEF longer, age
  <1>7. ASSUME NEW i \in DOMAIN longer, NEW j \in DOMAIN longer, i < j
        PROVE  age(longer[i]) < age(longer[j])
    <2>1. i \in 1..n
      BY <1>1, <1>2, <1>7
    <2>2. CASE j \in 1..n
      BY <1>1, <1>2, <1>7, <2>1, <2>2
    <2>3. CASE j = n + 1
      BY <1>1, <1>2, <2>1, <2>3
    <2> QED
      BY <1>1, <1>2, <2>2, <2>3
  <1>8. ASSUME NEW i \in DOMAIN longer, NEW g \in AllOutOf(Settled) \ Range(longer)
        PROVE  age(longer[i]) < age(g)
    <2>1. g \in AllOutOf(Settled) \ Range(list) /\ g # h
      BY <1>3
    <2>2. CASE i \in 1..n
      BY <1>1, <1>2, <2>1, <2>2
    <2>3. CASE i = n + 1
      <3>1. age(h) <= age(g) /\ age(h) # age(g) /\ age(h) \in Int /\ age(g) \in Int
        BY <1>5, <1>6, <2>1 DEF age
      <3> QED
        BY <1>2, <2>3, <3>1
    <2> QED
      BY <1>1, <1>2, <2>2, <2>3
  <1> QED
    BY <1>2, <1>7, <1>8 DEF Oldest, longer, age

LEMMA RangeOfAppend ==
  ASSUME NEW S, NEW list \in Seq(S), NEW h \in S
  PROVE  Range(Append(list, h)) = Range(list) \cup {h}
  BY AppendProperties DEF Range

LEMMA WithoutMore ==
  ASSUME NEW dict, NEW A, NEW B
  PROVE  Without(Without(dict, A), B) = Without(dict, A \cup B)
  BY DEF Without, Restrict

LEMMA DetachedMore ==
  ASSUME NEW list, NEW hs, NEW h, h \notin hs
  PROVE  DetachedFrom(DetachedFrom(list, hs), {h}) = DetachedFrom(list, hs \cup {h})
  <1> DEFINE lost(g) == [g EXCEPT !.on_ready = FALSE]
  <1>1. \A l, s : DetachedFrom(l, s)
                    = [x \in DOMAIN l |-> IF x \in s THEN lost(l[x]) ELSE l[x]]
    BY DEF DetachedFrom
  <1> HIDE DEF lost
  <1>2. DOMAIN DetachedFrom(list, hs) = DOMAIN list
    BY <1>1
  <1>3. \A x \in DOMAIN list :
          DetachedFrom(list, hs)[x] = IF x \in hs THEN lost(list[x]) ELSE list[x]
    BY <1>1
  <1>4. DetachedFrom(DetachedFrom(list, hs), {h})
          = [x \in DOMAIN list |-> IF x = h THEN lost(DetachedFrom(list, hs)[x])
                                            ELSE DetachedFrom(list, hs)[x]]
    BY <1>1, <1>2
  <1>5. \A x \in DOMAIN list :
          DetachedFrom(DetachedFrom(list, hs), {h})[x]
            = IF x \in hs \cup {h} THEN lost(list[x]) ELSE list[x]
    BY <1>3, <1>4
  <1>6. DetachedFrom(list, hs \cup {h})
          = [x \in DOMAIN list |-> IF x \in hs \cup {h} THEN lost(list[x]) ELSE list[x]]
    BY <1>1
  <1> QED
    BY <1>4, <1>5, <1>6
-----------------------------------------------------------------------------
\* peek, release and release_all, cancel: a group is found and taken out.

LEMMA PeekFindsStep ==
  ASSUME TInv, NEW t \in Threads, PeekFinds(t)
  PROVE  TInv' /\ UNCHANGED Was!vars
  <1> DEFINE f == thread[t]
             next == thread'[t]
  <1>1. f.at = "peek" /\ f.call # "peek"
    BY DEF PeekFinds, At
  <1>2. /\ holder[QueueLock].by = t /\ Settled = before
        /\ Inside(Snapshot, before, f, holder[QueueLock].depth)
    BY <1>1, InsideAtLabel
  <1>3. PeekAt(Snapshot, before, f)
    BY <1>1, <1>2 DEF Inside
  <1>4. PICK h \in NextOutOf(Snapshot) : GotoWith(t, "del_group", h, {})
    BY SaidAtPresent DEF PeekFinds
  <1>5. /\ ready_heap' = PurgedOf(Snapshot)
        /\ UNCHANGED <<group, groups, member_index, next_sequence, ready_groups, private,
                       holder, lock_of>>
    BY SaidAtPresent DEF PeekFinds
  <1>6. /\ Moves(t) /\ next.at = "del_group" /\ next.h = h /\ next.call = f.call
        /\ next.out = f.out /\ next.keeps = f.keeps
    BY <1>4, GotoWithMoves DEF TInv
  <1>7. Gone(next) = Gone(f)
    BY <1>6 DEF Gone
  <1>8. /\ f.keeps /\ Taken(Snapshot, before, Gone(f), Gone(f), MembersOf(before.group, Gone(f)),
                            Gone(f))
        /\ HeapSoFar(Snapshot, before) /\ Gone(f) \in SUBSET AllOutOf(before)
    <2>1. CASE f.call \in {"peek", "release"} /\ Snapshot = before /\ f.keeps /\ f.out = <<>>
      <3>1. Gone(f) = {}
        BY <2>1 DEF Gone, Range
      <3> QED
        BY <1>2, <2>1, <3>1, NothingTaken
    <2>2. CASE f.call = "release_all"
      <3>1. Oldest(before, f.out)
        BY <1>3, <2>2 DEF PeekAt
      <3>2. Gone(f) \in SUBSET AllOutOf(before)
        BY <3>1 DEF Oldest, Gone, Range
      <3> QED
        BY <1>3, <2>2, <3>2 DEF PeekAt
    <2> QED
      BY <1>3, <2>1, <2>2 DEF PeekAt
  <1>9. /\ h \in AllOutOf(before) \ Gone(f)
        /\ \A g \in AllOutOf(before) \ Gone(f) : AgeIn(before, h) <= AgeIn(before, g)
    BY <1>2, <1>8, NextOutIsOldest
  <1>10. h \in WaitingOf(before) \ Gone(f) /\ Gone(f) \subseteq WaitingOf(before)
    BY <1>2, <1>8, <1>9, OutOfWaiting
  <1>11. HeapSoFar(Snapshot', before)
    <2>1. DOMAIN ready_groups \subseteq ready_heap /\ ready_heap \subseteq before.ready_heap
          /\ (StrictOrder => ready_heap = before.ready_heap)
      BY <1>8, SnapshotIs DEF HeapSoFar
    <2>2. LiveOf(Snapshot) = DOMAIN ready_groups
      BY <2>1, SnapshotIs DEF LiveOf
    <2>3. CASE StrictOrder
      BY <1>5, <2>1, <2>3, SnapshotIs, SnapshotNext DEF HeapSoFar, PurgedOf
    <2>4. CASE ~ StrictOrder
      <3>1. ready_heap' = {s \in ready_heap : \E u \in DOMAIN ready_groups : u <= s}
        BY <1>5, <2>2, <2>4, SnapshotIs DEF PurgedOf
      <3>2. \A s \in DOMAIN ready_groups : s <= s
        <4>1. before.ready_heap \subseteq Nat
          BY <1>2, SettledType
        <4> QED
          BY <2>1, <4>1
      <3>3. DOMAIN ready_groups \subseteq ready_heap' /\ ready_heap' \subseteq ready_heap
        BY <2>1, <3>1, <3>2
      <3> QED
        BY <1>5, <2>1, <2>4, <3>3, SnapshotNext DEF HeapSoFar
    <2> QED
      BY <2>3, <2>4
  <1>12. Leaving(Snapshot', before, next)
    <2>1. CASE f.call = "release"
      <3>1. Snapshot = before /\ f.out = <<>>
        BY <1>3, <2>1 DEF PeekAt
      <3> QED
        BY <1>4, <1>5, <1>6, <1>7, <1>8, <1>10, <2>1, <3>1, SnapshotNext DEF Leaving
    <2>2. CASE f.call = "release_all"
      <3>1. Oldest(before, f.out)
        BY <1>3, <2>2 DEF PeekAt
      <3>2. Oldest(before, Append(f.out, h))
        BY <1>2, <1>9, <3>1, OldestGrows DEF Gone
      <3> QED
        BY <1>6, <1>7, <1>8, <1>9, <1>10, <1>11, <2>2, <3>1, <3>2 DEF Leaving
    <2> QED
      BY <1>1, <1>3, <2>1, <2>2 DEF PeekAt
  <1>13. Taken(Snapshot', before, Gone(f), Gone(f), MembersOf(before.group, Gone(f)), Gone(f))
    BY <1>5, <1>8, SnapshotIs, SnapshotNext DEF Taken, SameNumber
  <1>14. DelGroupAt(Snapshot', before, next)
    BY <1>7, <1>12, <1>13 DEF DelGroupAt
  <1>15. Inside(Snapshot', before, next, holder[QueueLock].depth) /\ ~ Unborn(next)
    BY <1>6, <1>14 DEF Inside, Unborn
  <1> QED
    BY <1>2, <1>5, <1>6, <1>15, KeepsLock
-----------------------------------------------------------------------------
\* _remove, statement by statement.

LEMMA LeavingStays ==
  ASSUME NEW now, NEW was, NEW f, NEW then, NEW next, Leaving(now, was, f),
         next.call = f.call, next.h = f.h, next.out = f.out, next.keeps = f.keeps,
         then.ready_heap = now.ready_heap, then.ready_groups = now.ready_groups
  PROVE  Leaving(then, was, next) /\ Gone(next) = Gone(f)
  <1>1. Gone(next) = Gone(f)
    BY DEF Gone
  <1>2. HeapSoFar(now, was) => HeapSoFar(then, was)
    BY DEF HeapSoFar
  <1> QED
    BY <1>1, <1>2 DEF Leaving

\* The group that leaves, as the section found it and as it is.
LEMMA LeavingTells ==
  ASSUME TInv, Settled = before, NEW f, Leaving(Snapshot, before, f), NEW hs,
         group = DetachedFrom(before.group, hs)
  PROVE  /\ f.h \in DOMAIN before.group /\ f.h \notin Gone(f)
         /\ Handles = DOMAIN before.group
         /\ group[f.h].group_id = before.group[f.h].group_id
         /\ group[f.h].members = before.group[f.h].members
         /\ group[f.h].sequence = before.group[f.h].sequence
  <1>1. f.h \in DOMAIN before.group /\ f.h \notin Gone(f)
    BY SettledTells DEF Leaving
  <1>2. Handles = DOMAIN before.group
    BY DEF Handles, DetachedFrom
  <1> QED
    BY <1>1, <1>2, DetachedIs

LEMMA DelGroupStep ==
  ASSUME TInv, NEW t \in Threads, DelGroup(t)
  PROVE  TInv' /\ UNCHANGED Was!vars
  <1> DEFINE f == thread[t]
             h == thread[t].h
             next == thread'[t]
             out == MembersOf(before.group, Gone(thread[t]))
  <1>1. f.at = "del_group"
    BY DEF DelGroup, At
  <1>2. /\ holder[QueueLock].by = t /\ Settled = before
        /\ Inside(Snapshot, before, f, holder[QueueLock].depth)
    BY <1>1, InsideAtLabel
  <1>3. /\ Leaving(Snapshot, before, f)
        /\ Taken(Snapshot, before, Gone(f), Gone(f), out, Gone(f))
    BY <1>1, <1>2 DEF Inside, DelGroupAt
  <1>4. /\ groups' = Without(groups, {group[h].group_id})
        /\ GotoWith(t, "del_members", h, group[h].members)
        /\ UNCHANGED <<group, member_index, next_sequence, ready_groups, ready_heap,
                       private, holder, lock_of>>
    BY DEF DelGroup
  <1>5. /\ Moves(t) /\ next.at = "del_members" /\ next.h = h /\ next.call = f.call
        /\ next.left = group[h].members /\ next.out = f.out /\ next.keeps = f.keeps
    BY <1>4, GotoWithMoves DEF TInv
  <1>6. /\ group[h].group_id = before.group[h].group_id
        /\ group[h].members = before.group[h].members
    BY <1>2, <1>3, LeavingTells, SnapshotIs DEF Taken
  <1>7. Leaving(Snapshot', before, next) /\ Gone(next) = Gone(f)
    BY <1>3, <1>4, <1>5, LeavingStays, SnapshotIs, SnapshotNext
  <1>8. groups' = Without(before.groups, IdsOf(before.group, Gone(f) \cup {h}))
    <2>1. groups = Without(before.groups, IdsOf(before.group, Gone(f)))
      BY <1>3, SnapshotIs DEF Taken
    <2>2. IdsOf(before.group, Gone(f) \cup {h})
            = IdsOf(before.group, Gone(f)) \cup {before.group[h].group_id}
      BY DEF IdsOf
    <2>3. \A B : Without(groups, B)
                    = Without(before.groups, IdsOf(before.group, Gone(f)) \cup B)
      BY <2>1, WithoutMore
    <2> QED
      BY <1>4, <1>6, <2>2, <2>3
  <1>9. out \cup (before.group[h].members \ next.left) = out
    BY <1>5, <1>6
  <1>10. Taken(Snapshot', before, Gone(f), Gone(f) \cup {h},
               out \cup (before.group[h].members \ next.left), Gone(f))
    <2> HIDE DEF out
    <2> QED
      BY <1>3, <1>4, <1>8, <1>9, SnapshotIs, SnapshotNext DEF Taken, SameNumber
  <1>11. DelMembersAt(Snapshot', before, next)
    BY <1>5, <1>6, <1>7, <1>10 DEF DelMembersAt
  <1>12. Inside(Snapshot', before, next, holder[QueueLock].depth) /\ ~ Unborn(next)
    BY <1>5, <1>11 DEF Inside, Unborn
  <1> QED
    BY <1>2, <1>4, <1>5, <1>12, KeepsLock

LEMMA DelMemberStep ==
  ASSUME TInv, NEW t \in Threads, NEW m \in Members, DelMember(t, m)
  PROVE  TInv' /\ UNCHANGED Was!vars
  <1> DEFINE f == thread[t]
             h == thread[t].h
             next == thread'[t]
             ms == before.group[thread[t].h].members
             out == MembersOf(before.group, Gone(thread[t]))
  <1>1. f.at = "del_members"
    BY DEF DelMember, At
  <1>2. /\ holder[QueueLock].by = t /\ Settled = before
        /\ Inside(Snapshot, before, f, holder[QueueLock].depth)
    BY <1>1, InsideAtLabel
  <1>3. /\ Leaving(Snapshot, before, f) /\ f.left \subseteq ms
        /\ Taken(Snapshot, before, Gone(f), Gone(f) \cup {h}, out \cup (ms \ f.left), Gone(f))
    BY <1>1, <1>2 DEF Inside, DelMembersAt
  <1>4. /\ m \in f.left /\ member_index' = Without(member_index, {m})
        /\ GotoWith(t, IF f.left = {m} THEN "detach" ELSE "del_members", h, f.left \ {m})
        /\ UNCHANGED <<group, groups, next_sequence, ready_groups, ready_heap,
                       private, holder, lock_of>>
    BY DEF DelMember
  <1>5. /\ Moves(t) /\ next.at = (IF f.left = {m} THEN "detach" ELSE "del_members")
        /\ next.h = h /\ next.call = f.call
        /\ next.left = f.left \ {m} /\ next.out = f.out /\ next.keeps = f.keeps
    BY <1>4, GotoWithMoves DEF TInv
  <1>6. Leaving(Snapshot', before, next) /\ Gone(next) = Gone(f)
    BY <1>3, <1>4, <1>5, LeavingStays, SnapshotIs, SnapshotNext
  <1>7. member_index' = Without(before.member_index, out \cup (ms \ next.left))
    <2>1. member_index = Without(before.member_index, out \cup (ms \ f.left))
      BY <1>3, SnapshotIs DEF Taken
    <2>2. out \cup (ms \ f.left) \cup {m} = out \cup (ms \ next.left)
      BY <1>3, <1>4, <1>5
    <2> HIDE DEF out, ms
    <2> QED
      BY <1>4, <2>1, <2>2, WithoutMore
  <1>8. Taken(Snapshot', before, Gone(f), Gone(f) \cup {h}, out \cup (ms \ next.left), Gone(f))
    <2> HIDE DEF out, ms
    <2> QED
      BY <1>3, <1>4, <1>7, SnapshotIs, SnapshotNext DEF Taken, SameNumber
  <1>9. CASE f.left = {m}
    <2>1. out \cup (ms \ next.left) = MembersOf(before.group, Gone(f) \cup {h})
      <3>1. MembersOf(before.group, Gone(f) \cup {h}) = out \cup ms
        BY DEF MembersOf
      <3> QED
        BY <1>5, <1>9, <3>1
    <2>2. DetachAt(Snapshot', before, next)
      BY <1>5, <1>6, <1>8, <2>1 DEF DetachAt
    <2>3. Inside(Snapshot', before, next, holder[QueueLock].depth) /\ ~ Unborn(next)
      BY <1>5, <1>9, <2>2 DEF Inside, Unborn
    <2> QED
      BY <1>2, <1>4, <1>5, <2>3, KeepsLock
  <1>10. CASE f.left # {m}
    <2>1. DelMembersAt(Snapshot', before, next)
      BY <1>3, <1>5, <1>6, <1>8 DEF DelMembersAt
    <2>2. Inside(Snapshot', before, next, holder[QueueLock].depth) /\ ~ Unborn(next)
      BY <1>5, <1>10, <2>1 DEF Inside, Unborn
    <2> QED
      BY <1>2, <1>4, <1>5, <2>2, KeepsLock
  <1> QED
    BY <1>9, <1>10

LEMMA DetachStep ==
  ASSUME TInv, NEW t \in Threads, Detach(t)
  PROVE  TInv' /\ UNCHANGED Was!vars
  <1> DEFINE f == thread[t]
             h == thread[t].h
             next == thread'[t]
             out == MembersOf(before.group, Gone(thread[t]) \cup {thread[t].h})
  <1>1. f.at = "detach"
    BY DEF Detach, At
  <1>2. /\ holder[QueueLock].by = t /\ Settled = before
        /\ Inside(Snapshot, before, f, holder[QueueLock].depth)
    BY <1>1, InsideAtLabel
  <1>3. /\ Leaving(Snapshot, before, f)
        /\ Taken(Snapshot, before, Gone(f), Gone(f) \cup {h}, out, Gone(f))
    BY <1>1, <1>2 DEF Inside, DetachAt
  <1>4. /\ group' = Detached({h}) /\ Goto(t, "pop")
        /\ UNCHANGED <<groups, member_index, next_sequence, ready_groups, ready_heap,
                       private, holder, lock_of>>
    BY DEF Detach, queue
  <1>5. /\ Moves(t) /\ next.at = "pop" /\ next.h = h /\ next.call = f.call
        /\ next.out = f.out /\ next.keeps = f.keeps
    BY <1>4, GotoMoves DEF TInv
  <1>6. group = DetachedFrom(before.group, Gone(f))
    BY <1>3, SnapshotIs DEF Taken
  <1>7. Handles = DOMAIN before.group /\ h \notin Gone(f)
    BY <1>2, <1>3, <1>6, LeavingTells
  <1>8. group' = DetachedFrom(before.group, Gone(f) \cup {h})
    <2>1. Detached({h}) = DetachedFrom(group, {h})
      BY DEF Detached, DetachedFrom, Handles
    <2> QED
      BY <1>4, <1>6, <1>7, <2>1, DetachedMore
  <1>9. Leaving(Snapshot', before, next) /\ Gone(next) = Gone(f)
    BY <1>3, <1>4, <1>5, LeavingStays, SnapshotIs, SnapshotNext
  <1>10. Taken(Snapshot', before, Gone(f), Gone(f) \cup {h}, out, Gone(f) \cup {h})
    <2> HIDE DEF out
    <2> QED
      BY <1>3, <1>4, <1>8, SnapshotIs, SnapshotNext DEF Taken, SameNumber
  <1>11. PopAt(Snapshot', before, next)
    BY <1>5, <1>9, <1>10 DEF PopAt
  <1>12. Inside(Snapshot', before, next, holder[QueueLock].depth) /\ ~ Unborn(next)
    BY <1>5, <1>11 DEF Inside, Unborn
  <1> QED
    BY <1>2, <1>4, <1>5, <1>12, KeepsLock

\* A list of groups some of which have lost their callback is as long as it was.
LEMMA DetachedLength ==
  ASSUME TInv, NEW hs
  PROVE  Len(DetachedFrom(Settled.group, hs)) = Len(Settled.group)
  <1> DEFINE list == DetachedFrom(Settled.group, hs)
  <1>1. DOMAIN Settled.group = 1..Len(Settled.group) /\ Len(Settled.group) \in Nat
    BY GroupsSettled
  <1>2. list = [h \in 1..Len(Settled.group) |-> list[h]]
    BY <1>1 DEF DetachedFrom
  <1> HIDE DEF list
  <1>3. Len(list) = Len(Settled.group)
    BY <1>1, <1>2
  <1> QED
    BY <1>3 DEF list

\* Groups that are out of every index have been removed, as Tito.tla has it.
LEMMA TakenIsRemoved ==
  ASSUME TInv, Settled = before, Settled' = Snapshot', alive' = alive, NEW hs,
         Taken(Snapshot', before, hs, hs, MembersOf(before.group, hs), hs)
  PROVE  Was!Remove(hs) /\ Len(group') = Len(before.group)
  <1>1. \A dict, keys : Was!Without(dict, keys) = Without(dict, keys)
    BY DEF Was!Without, Without, Was!Restrict, Restrict
  <1>2. Was!Detached(hs) = DetachedFrom(Settled.group, hs)
    BY DEF Was!Detached, DetachedFrom, Was!Handles
  <1>3. Was!Remove(hs)
    BY <1>1, <1>2 DEF Taken, SameNumber, Was!Remove, IdsOf, MembersOf, SequencesOf
  <1>4. group' = DetachedFrom(before.group, hs)
    BY SnapshotNext DEF Taken
  <1>5. Len(group') = Len(before.group)
    BY <1>4, DetachedLength
  <1> QED
    BY <1>3, <1>5

\* A section that has taken groups out ends.
LEMMA RemovedEnds ==
  ASSUME TInv, NEW t \in Threads, holder[QueueLock].by = t, End(t),
         lock_of' = lock_of, alive' = alive, [Was!Next]_(Was!vars),
         Len(group') = Len(before.group)
  PROVE  TInv'
  <1>1. /\ Len(before.group) \in Nat /\ Len(before.group) <= Len(lock_of)
    BY EndSettles, GroupsSettled DEF TInv, Locked
  <1>2. /\ Len(group') <= Len(lock_of) /\ Len(before.group) <= Len(group')
        /\ Len(group') <= Len(before.group) + 1 /\ Len(group') <= Len(before.group)
    BY <1>1
  <1> QED
    BY <1>2, EndStep

LEMMA PopStep ==
  ASSUME TInv, NEW t \in Threads, Pop(t)
  PROVE  TInv' /\ [Was!Next]_(Was!vars)
  <1> DEFINE f == thread[t]
             h == thread[t].h
             next == thread'[t]
             gone == Gone(thread[t]) \cup {thread[t].h}
             s == before.group[thread[t].h].sequence
  <1>1. f.at = "pop"
    BY DEF Pop, At
  <1>2. /\ holder[QueueLock].by = t /\ Settled = before /\ (f.keeps => alive)
        /\ Inside(Snapshot, before, f, holder[QueueLock].depth)
    BY <1>1, InsideAtLabel
  <1>3. /\ Leaving(Snapshot, before, f)
        /\ Taken(Snapshot, before, Gone(f), gone, MembersOf(before.group, gone), gone)
    BY <1>1, <1>2 DEF Inside, PopAt
  <1>4. group[h].sequence = s
    BY <1>2, <1>3, LeavingTells, SnapshotIs DEF Taken
  <1>5. /\ ready_groups' = Without(ready_groups, {s})
        /\ ready_heap' = IF s \in DOMAIN ready_groups
                         THEN Compacted(ready_heap, DOMAIN ready_groups \ {s})
                         ELSE ready_heap
        /\ UNCHANGED <<group, groups, member_index, next_sequence, alive, lock_of>>
        /\ IF f.call = "release_all"
           THEN /\ thread' = [thread EXCEPT ![t] = [[f EXCEPT !.at = "peek"]
                                                       EXCEPT !.out = Append(f.out, h)]]
                /\ UNCHANGED <<holder, before, result>>
           ELSE Return(t, "Group", <<h>>)
    BY <1>4 DEF Pop, TInv, Framed
  <1>6. ready_groups' = Without(before.ready_groups, SequencesOf(before.group, gone))
    <2>1. SequencesOf(before.group, gone) = SequencesOf(before.group, Gone(f)) \cup {s}
      BY DEF SequencesOf
    <2>2. ready_groups = Without(before.ready_groups, SequencesOf(before.group, Gone(f)))
      BY <1>3, SnapshotIs DEF Taken
    <2>3. \A B : Without(ready_groups, B)
              = Without(before.ready_groups, SequencesOf(before.group, Gone(f)) \cup B)
      BY <2>2, WithoutMore
    <2> HIDE DEF gone, s
    <2> QED
      BY <1>5, <2>1, <2>3
  <1>7. Taken(Snapshot', before, gone, gone, MembersOf(before.group, gone), gone)
    <2> HIDE DEF gone
    <2> QED
      BY <1>3, <1>5, <1>6, SnapshotIs, SnapshotNext DEF Taken, SameNumber
  <1>8. CASE f.call = "release_all"
    <2>1. /\ Moves(t) /\ next.at = "peek" /\ next.call = f.call /\ next.out = Append(f.out, h)
          /\ next.keeps = f.keeps
      <3>1. DOMAIN thread = Threads /\ FrameForm(f)
        BY DEF TInv, Framed
      <3>2. next = [[f EXCEPT !.at = "peek"] EXCEPT !.out = Append(f.out, h)]
        BY <1>5, <1>8, <3>1
      <3> QED
        BY <1>5, <1>8, <3>1, <3>2 DEF Moves, FrameForm
    <2>2. /\ f.keeps /\ Oldest(before, f.out) /\ h \in AllOutOf(before)
          /\ Oldest(before, Append(f.out, h)) /\ HeapSoFar(Snapshot, before)
      BY <1>3, <1>8 DEF Leaving
    <2>3. Gone(next) = gone
      BY <2>1, <2>2, RangeOfAppend DEF Gone, Oldest
    <2>4. HeapSoFar(Snapshot', before)
      <3>1. /\ ready_heap \subseteq before.ready_heap
            /\ DOMAIN ready_groups \subseteq ready_heap
            /\ (StrictOrder => ready_heap = before.ready_heap)
        BY <2>2, SnapshotIs DEF HeapSoFar
      <3>2. DOMAIN ready_groups' = DOMAIN ready_groups \ {s}
        BY <1>5 DEF Without, Restrict
      <3>3. CASE s \in DOMAIN ready_groups
        <4>1. ready_heap' = ready_heap \/ ready_heap' = DOMAIN ready_groups \ {s}
          BY <1>5, <3>3 DEF Compacted
        <4>2. ~ StrictOrder
          <5>1. DOMAIN ready_groups \subseteq DOMAIN before.ready_groups
            BY <1>3, SnapshotIs DEF Taken, Without, Restrict
          <5> QED
            BY <1>2, <3>3, <5>1, SettledTells
        <4> QED
          BY <3>1, <3>2, <4>1, <4>2, SnapshotNext DEF HeapSoFar
      <3>4. CASE s \notin DOMAIN ready_groups
        <4>1. ready_heap' = ready_heap
          BY <1>5, <3>4
        <4> QED
          BY <3>1, <3>2, <4>1, SnapshotNext DEF HeapSoFar
      <3> QED
        BY <3>3, <3>4
    <2>5. PeekAt(Snapshot', before, next)
      <3> HIDE DEF gone, next
      <3> QED
        BY <1>7, <1>8, <2>1, <2>2, <2>3, <2>4 DEF PeekAt
    <2>6. Inside(Snapshot', before, next, holder[QueueLock].depth) /\ ~ Unborn(next)
      BY <2>1, <2>5 DEF Inside, Unborn
    <2>7. UNCHANGED <<private, holder, lock_of>>
      BY <1>5, <1>8 DEF private
    <2>8. TInv' /\ UNCHANGED Was!vars
      BY <1>2, <2>1, <2>6, <2>7, KeepsLock
    <2> QED
      BY <2>8
  <1>9. CASE f.call # "release_all"
    <2>1. f.out = <<>> /\ f.keeps /\ Gone(f) = {} /\ gone = {h}
      <3>1. f.out = <<>> /\ f.keeps
        BY <1>3, <1>9 DEF Leaving
      <3>2. Gone(f) = {}
        BY <3>1 DEF Gone, Range
      <3> QED
        BY <3>1, <3>2
    <2>2. ready_groups = before.ready_groups
      <3>1. ready_groups = Without(before.ready_groups, SequencesOf(before.group, {}))
        BY <1>3, <2>1, SnapshotIs DEF Taken
      <3>2. before.ready_groups = Without(before.ready_groups, SequencesOf(before.group, {}))
        BY <1>2, NothingTaken DEF Taken
      <3> QED
        BY <3>1, <3>2
    <2>3. End(t) /\ result' = Returns(f.call, "Group", <<h>>)
      BY <1>5, <1>9 DEF Return
    <2>4. Settled' = Snapshot'
      BY <1>2, <2>3, EndSettles
    <2>5. Taken(Snapshot', before, {h}, {h}, MembersOf(before.group, {h}), {h})
      BY <1>7, <2>1
    <2>6. Was!Remove({h}) /\ Len(group') = Len(before.group)
      BY <1>2, <1>5, <2>4, <2>5, TakenIsRemoved
    <2>7. \A heap, live : Was!Compacted(heap, live) = Compacted(heap, live)
      BY SameCardinality DEF Was!Compacted, Compacted
    <2>8. Was!RemoveOne(h, ready_heap)
      BY <1>2, <1>5, <2>2, <2>4, <2>6, <2>7, SnapshotNext DEF Was!RemoveOne
    <2>9. Was!Next
      <3>1. CASE f.call = "release"
        <4>1. ready_heap = Was!Purged /\ h \in Was!NextOut
          BY <1>2, <1>3, <3>1, SaidOfSettled, SnapshotIs DEF Leaving
        <4>2. Was!Release
          BY <1>2, <2>1, <2>3, <2>8, <3>1, <4>1 DEF Was!Release, Was!Returns, Returns
        <4> QED
          BY <4>2 DEF Was!Next
      <3>2. CASE f.call = "cancel"
        <4>1. PICK id \in DOMAIN before.groups \cap GroupIds : h = before.groups[id]
          BY <1>3, <3>2 DEF Leaving
        <4>2. ready_heap = before.ready_heap
          BY <1>3, <3>2, SnapshotIs DEF Leaving
        <4>3. Was!Cancel(id)
          BY <1>2, <2>1, <2>3, <2>8, <3>2, <4>1, <4>2 DEF Was!Cancel, Was!Returns, Returns
        <4> QED
          BY <4>1, <4>3 DEF Was!Next
      <3> QED
        BY <1>3, <1>9, <3>1, <3>2 DEF Leaving
    <2>10. TInv'
      BY <1>2, <1>5, <2>3, <2>6, <2>9, RemovedEnds
    <2> QED
      BY <2>9, <2>10
  <1> QED
    BY <1>8, <1>9
-----------------------------------------------------------------------------
\* peek, or a release that finds nothing more.

\* Nothing has changed but the heap.
LEMMA PurgeEnds ==
  ASSUME TInv, NEW t \in Threads, PeekEnds(t), thread[t].keeps, Snapshot = before,
         thread[t].call \in {"peek", "release"}
  PROVE  TInv' /\ [Was!Next]_(Was!vars)
  <1> DEFINE f == thread[t]
  <1>1. f.at = "peek"
    BY DEF PeekEnds, At
  <1>2. /\ holder[QueueLock].by = t /\ Settled = before /\ alive
    BY <1>1, InsideAtLabel
  <1>3. /\ ready_heap' = PurgedOf(before)
        /\ UNCHANGED <<group, groups, member_index, next_sequence, ready_groups, alive,
                       lock_of>>
        /\ NextOut = {} \/ f.call = "peek"
    BY SaidAtPresent DEF PeekEnds
  <1>4. NextOut = Was!NextOut /\ PurgedOf(before) = Was!Purged
    BY <1>2, SaidAtPresent, SaidOfSettled
  <1>5. /\ End(t)
        /\ \/ NextOut = {} /\ result' = Returns(f.call, "None", <<>>)
           \/ NextOut # {} /\ \E h \in NextOut : result' = Returns(f.call, "Group", <<h>>)
    BY DEF PeekEnds, Return
  <1>6. Settled' = Snapshot'
    BY <1>2, <1>5, EndSettles
  <1>7. /\ Settled'.group = Settled.group /\ Settled'.groups = Settled.groups
        /\ Settled'.member_index = Settled.member_index
        /\ Settled'.next_sequence = Settled.next_sequence
        /\ Settled'.ready_groups = Settled.ready_groups
        /\ Settled'.ready_heap = Was!Purged
    BY <1>2, <1>3, <1>4, <1>6, SnapshotIs, SnapshotNext
  <1>8. Was!Next
    <2>1. CASE f.call = "peek"
      <3>1. result' \in IF Was!NextOut = {} THEN {Was!Returns("peek", "None", <<>>)}
                        ELSE {Was!Returns("peek", "Group", <<h>>) : h \in Was!NextOut}
        BY <1>4, <1>5, <2>1 DEF Was!Returns, Returns
      <3>2. Was!Peek
        BY <1>2, <1>3, <1>7, <3>1 DEF Was!Peek
      <3> QED
        BY <3>2 DEF Was!Next
    <2>2. CASE f.call = "release"
      <3>1. Was!NextOut = {} /\ result' = Was!Returns("release", "None", <<>>)
        BY <1>3, <1>4, <1>5, <2>2 DEF Was!Returns, Returns
      <3>2. Was!ReleaseNone
        BY <1>2, <1>3, <1>7, <3>1 DEF Was!ReleaseNone
      <3> QED
        BY <3>2 DEF Was!Next
    <2> QED
      BY <2>1, <2>2
  <1>9. Len(group') = Len(before.group)
    BY <1>3, SnapshotIs
  <1> QED
    BY <1>2, <1>3, <1>5, <1>8, <1>9, RemovedEnds

LEMMA ReleaseAllEnds ==
  ASSUME TInv, NEW t \in Threads, PeekEnds(t), thread[t].call = "release_all",
         PeekAt(Snapshot, before, thread[t])
  PROVE  TInv' /\ [Was!Next]_(Was!vars)
  <1> DEFINE f == thread[t]
             gone == Gone(thread[t])
  <1>1. f.at = "peek"
    BY DEF PeekEnds, At
  <1>2. /\ f.keeps /\ Oldest(before, f.out) /\ HeapSoFar(Snapshot, before)
        /\ Taken(Snapshot, before, gone, gone, MembersOf(before.group, gone), gone)
    BY DEF PeekAt
  <1>3. /\ holder[QueueLock].by = t /\ Settled = before /\ alive
    BY <1>1, <1>2, InsideAtLabel
  <1>4. /\ ready_heap' = PurgedOf(Snapshot) /\ NextOutOf(Snapshot) = {}
        /\ UNCHANGED <<group, groups, member_index, next_sequence, ready_groups, alive,
                       lock_of>>
        /\ End(t) /\ result' = Returns("release_all", "List", f.out)
    BY SaidAtPresent DEF PeekEnds, Return
  <1>5. gone \in SUBSET AllOutOf(before)
    BY <1>2 DEF Oldest, Gone, Range
  <1>6. AllOutOf(before) = gone /\ (~ StrictOrder => LiveOf(Snapshot) = {})
    BY <1>2, <1>3, <1>4, <1>5, NextOutIsOldest
  <1>7. Settled' = Snapshot'
    BY <1>3, <1>4, EndSettles
  <1>8. Was!Remove(gone) /\ Len(group') = Len(before.group)
    <2>1. Taken(Snapshot', before, gone, gone, MembersOf(before.group, gone), gone)
      <3> HIDE DEF gone
      <3> QED
        BY <1>2, <1>4, SnapshotIs, SnapshotNext DEF Taken, SameNumber
    <2> QED
      BY <1>3, <1>4, <1>7, <2>1, TakenIsRemoved
  <1>9. ready_heap' = IF StrictOrder THEN before.ready_heap ELSE {}
    <2>1. CASE StrictOrder
      BY <1>2, <1>4, <2>1, SnapshotIs DEF PurgedOf, HeapSoFar
    <2>2. CASE ~ StrictOrder
      BY <1>4, <1>6, <2>2 DEF PurgedOf
    <2> QED
      BY <2>1, <2>2
  <1>10. f.out \in Was!Sorted(Was!AllOut, [h \in Was!AllOut |-> Was!Age(h)])
    <2> DEFINE age == [h \in AllOutOf(before) |-> AgeIn(before, h)]
    <2>1. age \in [AllOutOf(before) -> Int]
      <3>1. \A h \in AllOutOf(before) : AgeIn(before, h) \in Int
        BY <1>3, OutOfWaiting, SettledTells, AgesDiffer
      <3> QED
        BY <3>1
    <2>2. f.out \in Seq(AllOutOf(before)) /\ Range(f.out) = AllOutOf(before)
      BY <1>2, <1>6 DEF Oldest, Gone
    <2>3. \A i, j \in DOMAIN f.out : i < j => age[f.out[i]] < age[f.out[j]]
      <3>1. \A i \in DOMAIN f.out : f.out[i] \in AllOutOf(before)
        BY <2>2
      <3> QED
        BY <1>2, <3>1 DEF Oldest
    <2> HIDE DEF age
    <2>4. f.out \in Sorted(AllOutOf(before), age)
      BY <2>1, <2>2, <2>3, SameLists, Order!IncreasingIsSorted
    <2>5. Was!Sorted(AllOutOf(before), age) = Sorted(AllOutOf(before), age)
      BY SameCardinality DEF Was!Sorted, Sorted
    <2>6. Was!AllOut = AllOutOf(before) /\ [h \in Was!AllOut |-> Was!Age(h)] = age
      BY <1>3, SaidOfSettled DEF age
    <2> QED
      BY <2>4, <2>5, <2>6
  <1>11. Was!ReleaseAll
    <2>1. \E list \in Was!Sorted(Was!AllOut, [h \in Was!AllOut |-> Was!Age(h)]) :
            result' = Was!Returns("release_all", "List", list)
      BY <1>4, <1>10 DEF Was!Returns, Returns
    <2>2. Was!Remove(Was!AllOut)
      BY <1>3, <1>6, <1>8, SaidOfSettled
    <2>3. Settled'.ready_heap = IF StrictOrder THEN Settled.ready_heap ELSE {}
      BY <1>3, <1>7, <1>9, SnapshotNext
    <2> QED
      BY <1>3, <2>1, <2>2, <2>3 DEF Was!ReleaseAll
  <1>12. Was!Next
    BY <1>11 DEF Was!Next
  <1> QED
    BY <1>3, <1>4, <1>8, <1>12, RemovedEnds

LEMMA PeekEndsStep ==
  ASSUME TInv, NEW t \in Threads, PeekEnds(t)
  PROVE  TInv' /\ [Was!Next]_(Was!vars)
  <1>1. thread[t].at = "peek"
    BY DEF PeekEnds, At
  <1>2. PeekAt(Snapshot, before, thread[t])
    BY <1>1, InsideAtLabel DEF Inside
  <1> QED
    BY <1>2, PurgeEnds, ReleaseAllEnds DEF PeekAt
-----------------------------------------------------------------------------
\* clear, statement by statement.

LEMMA ClearCallbacksStep ==
  ASSUME TInv, NEW t \in Threads, ClearCallbacks(t)
  PROVE  TInv' /\ UNCHANGED Was!vars
  <1> DEFINE f == thread[t]
             next == thread'[t]
  <1>1. f.at = "clear_callbacks"
    BY DEF ClearCallbacks, At
  <1>2. /\ holder[QueueLock].by = t /\ Settled = before
        /\ Inside(Snapshot, before, f, holder[QueueLock].depth)
    BY <1>1, InsideAtLabel
  <1>3. ClearCall(f) /\ Snapshot = before
    BY <1>1, <1>2 DEF Inside
  <1>4. Waiting = WaitingOf(before) /\ group = before.group
    BY <1>3, SaidAtPresent, SnapshotIs
  <1>5. PICK list \in InHandleOrder(WaitingOf(before)) :
          thread' = [thread EXCEPT ![t].at = "clear_groups", ![t].out = list]
    BY <1>4 DEF ClearCallbacks
  <1>6. /\ group' = Detached(Waiting)
        /\ UNCHANGED <<groups, member_index, next_sequence, ready_groups, ready_heap,
                       private, holder, lock_of>>
    BY DEF ClearCallbacks, queue
  <1>7. group' = DetachedFrom(before.group, WaitingOf(before))
    BY <1>4, <1>6 DEF Detached, DetachedFrom, Handles
  <1>8. /\ Moves(t) /\ next.at = "clear_groups" /\ next.call = f.call /\ next.out = list
        /\ next.keeps = f.keeps
    <2>1. DOMAIN thread = Threads /\ FrameForm(f)
      BY DEF TInv, Framed
    <2>2. thread' = [thread EXCEPT ![t] = [[f EXCEPT !.at = "clear_groups"]
                                              EXCEPT !.out = list]]
      BY <1>5, <2>1
    <2>3. next = [[f EXCEPT !.at = "clear_groups"] EXCEPT !.out = list]
      BY <2>1, <2>2
    <2> QED
      BY <2>1, <2>2, <2>3 DEF Moves, FrameForm
  <1>9. ClearGroupsAt(Snapshot', before, next)
    BY <1>3, <1>6, <1>7, <1>8, SnapshotIs, SnapshotNext
       DEF ClearGroupsAt, Clearing, ClearCall, SameNumber, SameReady, SameIndexes
  <1>10. Inside(Snapshot', before, next, holder[QueueLock].depth) /\ ~ Unborn(next)
    BY <1>8, <1>9 DEF Inside, Unborn
  <1> QED
    BY <1>2, <1>6, <1>8, <1>10, KeepsLock

LEMMA ClearGroupsStep ==
  ASSUME TInv, NEW t \in Threads, ClearGroups(t)
  PROVE  TInv' /\ UNCHANGED Was!vars
  <1> DEFINE f == thread[t]
             next == thread'[t]
  <1>1. f.at = "clear_groups"
    BY DEF ClearGroups, At
  <1>2. /\ holder[QueueLock].by = t
        /\ Inside(Snapshot, before, f, holder[QueueLock].depth)
    BY <1>1, InsideAtLabel
  <1>3. ClearGroupsAt(Snapshot, before, f)
    BY <1>1, <1>2 DEF Inside
  <1>4. /\ groups' = EmptyDict /\ Goto(t, "clear_members")
        /\ UNCHANGED <<group, member_index, next_sequence, ready_groups, ready_heap,
                       private, holder, lock_of>>
    BY DEF ClearGroups
  <1>5. /\ Moves(t) /\ next.at = "clear_members" /\ next.call = f.call /\ next.out = f.out
        /\ next.keeps = f.keeps
    BY <1>4, GotoMoves DEF TInv
  <1>6. ClearMembersAt(Snapshot', before, next)
    BY <1>3, <1>4, <1>5, SnapshotIs, SnapshotNext
       DEF ClearGroupsAt, ClearMembersAt, Clearing, ClearCall, SameNumber, SameReady,
           SameIndexes
  <1>7. Inside(Snapshot', before, next, holder[QueueLock].depth) /\ ~ Unborn(next)
    BY <1>5, <1>6 DEF Inside, Unborn
  <1> QED
    BY <1>2, <1>4, <1>5, <1>7, KeepsLock

LEMMA ClearMembersStep ==
  ASSUME TInv, NEW t \in Threads, ClearMembers(t)
  PROVE  TInv' /\ UNCHANGED Was!vars
  <1> DEFINE f == thread[t]
             next == thread'[t]
  <1>1. f.at = "clear_members"
    BY DEF ClearMembers, At
  <1>2. /\ holder[QueueLock].by = t
        /\ Inside(Snapshot, before, f, holder[QueueLock].depth)
    BY <1>1, InsideAtLabel
  <1>3. ClearMembersAt(Snapshot, before, f)
    BY <1>1, <1>2 DEF Inside
  <1>4. /\ member_index' = EmptyDict /\ Goto(t, "clear_ready")
        /\ UNCHANGED <<group, groups, next_sequence, ready_groups, ready_heap,
                       private, holder, lock_of>>
    BY DEF ClearMembers
  <1>5. /\ Moves(t) /\ next.at = "clear_ready" /\ next.call = f.call /\ next.out = f.out
        /\ next.keeps = f.keeps
    BY <1>4, GotoMoves DEF TInv
  <1>6. ClearReadyAt(Snapshot', before, next)
    BY <1>3, <1>4, <1>5, SnapshotIs, SnapshotNext
       DEF ClearMembersAt, ClearReadyAt, Clearing, ClearCall, SameNumber, SameReady
  <1>7. Inside(Snapshot', before, next, holder[QueueLock].depth) /\ ~ Unborn(next)
    BY <1>5, <1>6 DEF Inside, Unborn
  <1> QED
    BY <1>2, <1>4, <1>5, <1>7, KeepsLock

LEMMA ClearReadyStep ==
  ASSUME TInv, NEW t \in Threads, ClearReady(t)
  PROVE  TInv' /\ [Was!Next]_(Was!vars)
  <1> DEFINE f == thread[t]
  <1>1. f.at = "clear_ready"
    BY DEF ClearReady, At
  <1>2. /\ holder[QueueLock].by = t /\ Settled = before /\ (f.keeps => alive)
        /\ Inside(Snapshot, before, f, holder[QueueLock].depth)
    BY <1>1, InsideAtLabel
  <1>3. ClearReadyAt(Snapshot, before, f)
    BY <1>1, <1>2 DEF Inside
  <1>4. /\ f.call = "clear" /\ alive
        /\ f.out \in InHandleOrder(WaitingOf(before))
        /\ group = DetachedFrom(before.group, WaitingOf(before))
        /\ groups = EmptyDict /\ member_index = EmptyDict
        /\ next_sequence = before.next_sequence
    BY <1>2, <1>3, SnapshotIs DEF ClearReadyAt, Clearing, ClearCall, SameNumber
  <1>5. /\ ready_groups' = EmptyDict /\ ready_heap' = {}
        /\ End(t) /\ result' = Returns("clear", "List", f.out)
        /\ UNCHANGED <<group, groups, member_index, next_sequence, alive, lock_of>>
    BY <1>4 DEF ClearReady, Return
  <1>6. Settled' = Snapshot'
    BY <1>2, <1>5, EndSettles
  <1>7. /\ Settled'.group = Was!Detached(Was!Waiting)
        /\ Settled'.groups = Was!EmptyDict /\ Settled'.member_index = Was!EmptyDict
        /\ Settled'.ready_groups = Was!EmptyDict /\ Settled'.ready_heap = {}
        /\ Settled'.next_sequence = Settled.next_sequence
    <2>1. Was!Detached(Was!Waiting) = DetachedFrom(before.group, WaitingOf(before))
      BY <1>2, SaidOfSettled DEF Was!Detached, DetachedFrom, Was!Handles
    <2> QED
      BY <1>2, <1>4, <1>5, <1>6, <2>1, SnapshotNext DEF Was!EmptyDict, EmptyDict
  <1>8. \E list \in Was!InHandleOrder(Was!Waiting) :
          result' = Was!Returns("clear", "List", list)
    <2>1. Was!InHandleOrder(Was!Waiting) = InHandleOrder(WaitingOf(before))
      BY <1>2, SaidOfSettled, SameCardinality
         DEF Was!InHandleOrder, InHandleOrder, Was!Sorted, Sorted
    <2> QED
      BY <1>4, <1>5, <2>1 DEF Was!Returns, Returns
  <1>9. Was!Clear
    BY <1>4, <1>5, <1>7, <1>8 DEF Was!Clear
  <1>10. Was!Next
    BY <1>9 DEF Was!Next
  <1>11. Len(group') = Len(before.group)
    BY <1>2, <1>4, <1>5, DetachedLength
  <1> QED
    BY <1>2, <1>5, <1>10, <1>11, RemovedEnds
-----------------------------------------------------------------------------
\* repr reads and changes nothing.

LEMMA ReprCountStep ==
  ASSUME TInv, NEW t \in Threads, ReprCount(t)
  PROVE  TInv' /\ UNCHANGED Was!vars
  <1> DEFINE f == thread[t]
             next == thread'[t]
             count == <<group[thread[t].h].ready_count>>
  <1>1. f.at = "repr_count"
    BY DEF ReprCount, At
  <1>2. /\ holder[QueueLock].by = t
        /\ Inside(Snapshot, before, f, holder[QueueLock].depth)
    BY <1>1, InsideAtLabel
  <1>3. ReprAt(Snapshot, before, f)
    BY <1>1, <1>2 DEF Inside
  <1>4. /\ thread' = [thread EXCEPT ![t] = [[f EXCEPT !.at = "repr_waiting"]
                                               EXCEPT !.out = count]]
        /\ UNCHANGED <<group, groups, member_index, next_sequence, ready_groups, ready_heap,
                       private, holder, lock_of>>
    BY DEF ReprCount, TInv, Framed, vars, queue, private
  <1>5. /\ Moves(t) /\ next.at = "repr_waiting" /\ next.call = f.call /\ next.out = count
        /\ next.keeps = f.keeps /\ next.h = f.h
    <2>1. DOMAIN thread = Threads /\ FrameForm(f)
      BY DEF TInv, Framed
    <2> HIDE DEF count
    <2>2. next = [[f EXCEPT !.at = "repr_waiting"] EXCEPT !.out = count]
      BY <1>4, <2>1
    <2> QED
      BY <1>4, <2>1, <2>2 DEF Moves, FrameForm
  <1>6. Snapshot' = Snapshot
    BY <1>4 DEF Snapshot
  <1>7. ReprAt(Snapshot', before, next) /\ next.out = <<Snapshot'.group[next.h].ready_count>>
    BY <1>3, <1>5, <1>6, SnapshotIs DEF ReprAt
  <1>8. Inside(Snapshot', before, next, holder[QueueLock].depth) /\ ~ Unborn(next)
    BY <1>5, <1>7 DEF Inside, Unborn
  <1> QED
    BY <1>2, <1>4, <1>5, <1>8, KeepsLock

LEMMA ReprWaitingStep ==
  ASSUME TInv, NEW t \in Threads, ReprWaiting(t)
  PROVE  TInv' /\ UNCHANGED Was!vars
  <1>1. thread[t].at = "repr_waiting"
    BY DEF ReprWaiting, At
  <1>2. /\ holder[QueueLock].by = t
        /\ Inside(Snapshot, before, thread[t], holder[QueueLock].depth)
    BY <1>1, InsideAtLabel
  <1>3. Snapshot = before
    BY <1>1, <1>2 DEF Inside, ReprAt
  <1>4. End(t) /\ UNCHANGED <<group, queue, result, lock_of>>
    BY DEF ReprWaiting, vars
  <1>5. Settled' = Settled /\ alive' = alive /\ ([Was!Next]_(Was!vars) => TInv')
    BY <1>2, <1>3, <1>4, EndsUnchanged
  <1>6. UNCHANGED Was!vars
    BY <1>4, <1>5 DEF Was!vars, Was!queue
  <1> QED
    BY <1>5, <1>6
-----------------------------------------------------------------------------
\* The queue is dropped, between two calls or under a thread that marks a member of a
\* group or shows one: no call that refers to the queue is under way.

\* A thread that does not keep the queue alive has found nothing to note.
LEMMA NotKeeping ==
  ASSUME TInv, NEW f, ~ f.keeps, NEW depth, Settled = before,
         Inside(Snapshot, before, f, depth)
  PROVE  /\ SameIndexes(Snapshot, before) /\ SameNumber(Snapshot, before)
         /\ SameReady(Snapshot, before)
         /\ \A now, was :
              now.group = group /\ was.group = before.group
                /\ SameIndexes(now, was) /\ SameNumber(now, was) /\ SameReady(now, was)
                /\ (Snapshot = before => now = was)
              => Inside(now, was, f, depth)
  <1> DEFINE Others(now, was) ==
               /\ now.group = group /\ was.group = before.group
               /\ SameIndexes(now, was) /\ SameNumber(now, was) /\ SameReady(now, was)
               /\ (Snapshot = before => now = was)
  <1>1. \/ f.at = "enter" /\ EnterAt(Snapshot, before, f, depth)
        \/ f.at = "flag" /\ FlagAt(Snapshot, before, f, depth)
        \/ f.at = "count" /\ CountAt(Snapshot, before, f, depth)
        \/ f.at = "on_ready" /\ OnReadyAt(Snapshot, before, f, depth)
        \/ f.at = "repr_count" /\ ReprAt(Snapshot, before, f)
        \/ /\ f.at = "repr_waiting" /\ ReprAt(Snapshot, before, f)
           /\ f.out = <<Snapshot.group[f.h].ready_count>>
    BY DEF Inside, AdmitCall, InsertAt, IndexAt, InstallAt, Born, FindCall, NoteAt, PushAt,
           PeekAt, DelGroupAt, DelMembersAt, DetachAt, PopAt, Leaving, ClearCall,
           ClearGroupsAt, ClearMembersAt, ClearReadyAt, Clearing
  <1>2. \A was : MarkCall(was, f) => Entering(f) /\ Done(was, f) = {}
    BY DEF MarkCall, Entering, Done
  <1>3. \A was : was.group = before.group => (MarkCall(was, f) <=> MarkCall(before, f))
    BY <1>2 DEF MarkCall
  <1>4. MarkCall(before, f) => ~ Finishes(before.group[f.h], {})
    BY SettledType, MarkedNone DEF MarkCall
  <1>5. CASE f.at \in {"enter", "flag"}
    <2>1. /\ MarksDone(Snapshot, before, f) /\ (f.at = "enter" => depth = 1)
          /\ (f.at = "flag" => Nested(f, depth))
      BY <1>1, <1>5 DEF EnterAt, FlagAt
    <2>2. /\ MarkCall(before, f) /\ Done(before, f) = {}
          /\ SameIndexes(Snapshot, before) /\ SameNumber(Snapshot, before)
          /\ SameReady(Snapshot, before)
          /\ group = [before.group EXCEPT ![f.h] = MarkedFrom(before.group[f.h], {})]
      BY <1>2, <1>4, <2>1, SnapshotIs DEF MarksDone, Marks, NotedIf
    <2>3. ASSUME NEW now, NEW was, Others(now, was)
          PROVE  Inside(now, was, f, depth)
      <3>1. MarkCall(was, f) /\ Done(was, f) = {}
        BY <1>2, <1>3, <2>2, <2>3
      <3>2. MarksDone(now, was, f)
        BY <1>4, <2>2, <2>3, <3>1 DEF MarksDone, Marks, NotedIf
      <3> QED
        BY <1>5, <2>1, <3>2 DEF Inside, EnterAt, FlagAt
    <2> QED
      BY <2>2, <2>3
  <1>6. CASE f.at = "count"
    <2>1. CountAt(Snapshot, before, f, depth)
      BY <1>1, <1>6
    <2>2. ASSUME NEW now, NEW was, Others(now, was)
          PROVE  Inside(now, was, f, depth)
      <3>1. MarkCall(was, f) /\ Done(was, f) = Done(before, f)
        BY <1>2, <1>3, <2>1, <2>2 DEF CountAt
      <3>2. CountAt(now, was, f, depth)
        BY <2>1, <2>2, <3>1, SnapshotIs DEF CountAt
      <3> QED
        BY <1>6, <3>2 DEF Inside
    <2> QED
      BY <2>1, <2>2 DEF CountAt
  <1>7. CASE f.at = "on_ready"
    <2>1. OnReadyAt(Snapshot, before, f, depth)
      BY <1>1, <1>7
    <2>2. PICK m \in f.left : LastFlag(Snapshot, before, f, m)
      BY <2>1 DEF OnReadyAt
    <2>3. ASSUME NEW now, NEW was, Others(now, was)
          PROVE  Inside(now, was, f, depth)
      <3>1. MarkCall(was, f) /\ Done(was, f) = Done(before, f)
        BY <1>2, <1>3, <2>2, <2>3 DEF LastFlag, Marks
      <3>2. LastFlag(now, was, f, m)
        BY <2>2, <2>3, <3>1, SnapshotIs DEF LastFlag, Marks
      <3>3. OnReadyAt(now, was, f, depth)
        BY <2>1, <2>3, <3>2 DEF OnReadyAt
      <3> QED
        BY <1>7, <3>3 DEF Inside
    <2> QED
      BY <2>1, <2>2, <2>3 DEF OnReadyAt, LastFlag, Marks
  <1>8. CASE f.at \in {"repr_count", "repr_waiting"}
    <2>1. /\ ReprAt(Snapshot, before, f)
          /\ (f.at = "repr_waiting" => f.out = <<Snapshot.group[f.h].ready_count>>)
      BY <1>1, <1>8
    <2>2. ASSUME NEW now, NEW was, Others(now, was)
          PROVE  Inside(now, was, f, depth)
      <3>1. ReprAt(now, was, f) /\ now.group = Snapshot.group
        BY <2>1, <2>2, SnapshotIs DEF ReprAt
      <3> QED
        BY <1>8, <2>1, <3>1 DEF Inside
    <2> QED
      BY <2>1, <2>2 DEF ReprAt, SameIndexes, SameNumber, SameReady
  <1> QED
    BY <1>1, <1>5, <1>6, <1>7, <1>8

LEMMA CollectStep ==
  ASSUME TInv, Collect
  PROVE  TInv' /\ [Was!Next]_(Was!vars)
  <1>1. /\ \A t \in Threads : ~ thread[t].keeps
        /\ alive /\ alive' = FALSE
        /\ groups' = EmptyDict /\ member_index' = EmptyDict
        /\ ready_groups' = EmptyDict /\ ready_heap' = {}
        /\ result' = Returns("drop", "None", <<>>)
        /\ UNCHANGED <<group, next_sequence, thread, holder, lock_of>>
        /\ before' = IF Busy
                     THEN [before EXCEPT !.groups = EmptyDict, !.member_index = EmptyDict,
                                         !.ready_groups = EmptyDict, !.ready_heap = {}]
                     ELSE before
    BY DEF Collect, DropQueue
  <1>2. Busy' <=> Busy
    BY <1>1 DEF Busy
  <1>3. /\ Busy => before'.group = before.group
        /\ Settled'.group = Settled.group /\ Settled'.next_sequence = Settled.next_sequence
        /\ Settled'.groups = EmptyDict /\ Settled'.member_index = EmptyDict
        /\ Settled'.ready_groups = EmptyDict /\ Settled'.ready_heap = {}
        /\ Busy => before' = [group |-> before.group, groups |-> EmptyDict,
                              member_index |-> EmptyDict,
                              next_sequence |-> before.next_sequence,
                              ready_groups |-> EmptyDict, ready_heap |-> {}]
    <2>1. CASE Busy
      <3>1. before = [group |-> before.group, groups |-> before.groups,
                      member_index |-> before.member_index,
                      next_sequence |-> before.next_sequence,
                      ready_groups |-> before.ready_groups,
                      ready_heap |-> before.ready_heap]
        BY <2>1 DEF TInv, Remembered
      <3>2. before' = [group |-> before.group, groups |-> EmptyDict,
                       member_index |-> EmptyDict, next_sequence |-> before.next_sequence,
                       ready_groups |-> EmptyDict, ready_heap |-> {}]
        BY <1>1, <2>1, <3>1
      <3>3. Settled = before /\ Settled' = before'
        BY <1>2, <2>1 DEF Settled
      <3> QED
        BY <3>2, <3>3
    <2>2. CASE ~ Busy
      <3>1. Settled = Snapshot /\ Settled' = Snapshot'
        BY <1>2, <2>2 DEF Settled
      <3> QED
        BY <1>1, <2>2, <3>1, SnapshotIs, SnapshotNext
    <2> QED
      BY <2>1, <2>2
  <1>4. Was!DropQueue
    BY <1>1, <1>3 DEF Was!DropQueue, Was!EmptyDict, EmptyDict, Was!Returns, Returns
  <1>5. Was!Next
    BY <1>4 DEF Was!Next
  <1>6. Was!IInv'
    BY <1>5, SettledKeeps DEF TInv
  <1>7. Framed'
    BY <1>1 DEF TInv, Framed
  <1>8. Locked'
    BY <1>1, <1>3 DEF TInv, Locked
  <1>9. Remembered'
    <2>1. CASE Busy
      <3>1. before' = [group |-> before'.group, groups |-> before'.groups,
                       member_index |-> before'.member_index,
                       next_sequence |-> before'.next_sequence,
                       ready_groups |-> before'.ready_groups,
                       ready_heap |-> before'.ready_heap]
        BY <1>3, <2>1
      <3> QED
        BY <1>2, <2>1, <3>1 DEF Remembered
    <2>2. CASE ~ Busy
      BY <1>1, <1>2, <2>2 DEF TInv, Remembered
    <2> QED
      BY <2>1, <2>2
  <1>10. Admitting' = Admitting
    BY <1>1 DEF Admitting
  <1>11. Bounded'
    BY <1>3, <1>10 DEF TInv, Bounded
  <1>12. ASSUME NEW t \in Threads, holder[QueueLock].by = t
         PROVE  Inside(Snapshot', before', thread[t], holder[QueueLock].depth)
    <2>1. /\ Busy /\ Settled = before
          /\ Inside(Snapshot, before, thread[t], holder[QueueLock].depth)
      BY <1>12, Holding
    <2>2. ~ thread[t].keeps
      BY <1>1
    <2>3. /\ SameIndexes(Snapshot, before) /\ SameNumber(Snapshot, before)
          /\ SameReady(Snapshot, before)
          /\ \A now, was :
               now.group = group /\ was.group = before.group
                 /\ SameIndexes(now, was) /\ SameNumber(now, was) /\ SameReady(now, was)
                 /\ (Snapshot = before => now = was)
               => Inside(now, was, thread[t], holder[QueueLock].depth)
      BY <2>1, <2>2, NotKeeping
    <2>4. next_sequence = before.next_sequence
      BY <2>3, SnapshotIs DEF SameNumber
    <2>5. Snapshot' = [group |-> group, groups |-> EmptyDict, member_index |-> EmptyDict,
                       next_sequence |-> before.next_sequence,
                       ready_groups |-> EmptyDict, ready_heap |-> {}]
      BY <1>1, <2>4 DEF Snapshot
    <2>6. before' = [group |-> before.group, groups |-> EmptyDict,
                     member_index |-> EmptyDict, next_sequence |-> before.next_sequence,
                     ready_groups |-> EmptyDict, ready_heap |-> {}]
      BY <1>3, <2>1
    <2>7. /\ Snapshot'.group = group /\ before'.group = before.group
          /\ SameIndexes(Snapshot', before') /\ SameNumber(Snapshot', before')
          /\ SameReady(Snapshot', before')
      BY <2>5, <2>6 DEF SameIndexes, SameNumber, SameReady
    <2>8. Snapshot = before => Snapshot' = before'
      BY <2>5, <2>6, SnapshotIs
    <2> QED
      BY <2>3, <2>7, <2>8
  <1>13. Placed'
    BY <1>1, <1>3, <1>12, NotHolding DEF Placed
  <1> QED
    BY <1>5, <1>6, <1>7, <1>8, <1>9, <1>11, <1>13 DEF TInv
-----------------------------------------------------------------------------
\* The invariant, and the step of Tito.tla that every step is.

LEMMA StepStep ==
  ASSUME TInv, NEW t \in Threads, Step(t)
  PROVE  TInv' /\ [Was!Next]_(Was!vars)
  <1>1. CASE Acquire(t) \/ Check(t) \/ Insert(t) \/ Find(t) \/ Enter(t)
    BY <1>1, AcquireBegins, CheckStep, InsertStep, FindStep, EnterStep
  <1>2. CASE CheckFails(t) \/ Install(t) \/ FindFails(t)
    BY <1>2, CheckFailsStep, InstallStep, FindFailsStep
  <1>3. CASE PeekEnds(t) \/ PeekFinds(t) \/ DelGroup(t) \/ Detach(t) \/ Pop(t)
    BY <1>3, PeekEndsStep, PeekFindsStep, DelGroupStep, DetachStep, PopStep
  <1>4. CASE ReprCount(t) \/ ReprWaiting(t)
    BY <1>4, ReprCountStep, ReprWaitingStep
  <1>5. CASE ClearCallbacks(t) \/ ClearGroups(t) \/ ClearMembers(t) \/ ClearReady(t)
    BY <1>5, ClearCallbacksStep, ClearGroupsStep, ClearMembersStep, ClearReadyStep
  <1>6. ASSUME NEW m \in Members,
               \/ Index(t, m) \/ DelMember(t, m)
               \/ NotAMember(t, m) \/ Already(t, m) \/ Flag(t, m)
               \/ Count(t, m) \/ OnReady(t, m) \/ Note(t, m) \/ Push(t, m)
        PROVE  TInv' /\ [Was!Next]_(Was!vars)
    BY <1>6, IndexStep, DelMemberStep, NotAMemberStep, AlreadyStep, FlagStep, CountStep,
       OnReadyStep, NoteStep, PushStep
  <1> QED
    BY <1>1, <1>2, <1>3, <1>4, <1>5, <1>6 DEF Step

LEMMA NextStep == TInv /\ [TNext]_tvars => TInv' /\ [Was!Next]_(Was!vars)
  <1> SUFFICES ASSUME TInv, [TNext]_tvars
               PROVE  TInv' /\ [Was!Next]_(Was!vars)
    OBVIOUS
  <1>1. CASE Collect
    BY <1>1, CollectStep
  <1>2. ASSUME NEW t \in Threads, Call(t) \/ Step(t)
        PROVE  TInv' /\ [Was!Next]_(Was!vars)
    BY <1>2, CallStep, StepStep
  <1>3. CASE UNCHANGED tvars
    <2>1. UNCHANGED <<group, groups, member_index, next_sequence, ready_groups, ready_heap,
                      alive, result, thread, holder, lock_of, before>>
      BY <1>3 DEF tvars, vars, queue
    <2>2. Snapshot' = Snapshot /\ (Busy' <=> Busy) /\ Settled' = Settled
      BY <2>1 DEF Snapshot, Busy, Settled
    <2>3. UNCHANGED Was!vars
      BY <2>1, <2>2 DEF Was!vars, Was!queue
    <2>4. Was!IInv'
      BY <2>3, SettledKeeps DEF TInv
    <2>5. Framed' /\ Locked' /\ Remembered' /\ Placed'
      BY <2>1, <2>2 DEF TInv, Framed, Locked, Remembered, Placed
    <2>6. Admitting' = Admitting
      BY <2>1 DEF Admitting
    <2>7. Bounded'
      BY <2>2, <2>6 DEF TInv, Bounded
    <2> QED
      BY <2>3, <2>4, <2>5, <2>7 DEF TInv
  <1> QED
    BY <1>1, <1>2, <1>3 DEF TNext

LEMMA Starts == TInit => TInv /\ Was!Init
  <1> SUFFICES ASSUME TInit
               PROVE  TInv /\ Was!Init
    OBVIOUS
  <1>1. /\ group = <<>> /\ groups = EmptyDict /\ member_index = EmptyDict
        /\ next_sequence = 0 /\ ready_groups = EmptyDict /\ ready_heap = {}
        /\ alive = TRUE /\ result = Returns("init", "None", <<>>)
        /\ thread = [t \in Threads |-> Idle] /\ holder = [l \in Locks |-> Free]
        /\ lock_of = <<>> /\ before = NoSnapshot
    BY DEF TInit, Init
  <1>2. QueueLock \in Locks
    BY BoundsAssumption DEF QueueLock, Locks
  <1>3. ~ Busy /\ Settled = Snapshot
    <2>1. ~ Busy
      BY <1>1, <1>2 DEF Busy, Free
    <2> QED
      BY <2>1 DEF Settled
  <1>4. Was!Init
    BY <1>1, <1>3, SnapshotIs DEF Was!Init, Was!EmptyDict, EmptyDict, Was!Returns, Returns
  <1>5. Was!IInv
    BY <1>4, SameAssumptions, Was!InitEstablishes, Zenon
  <1>6. Framed
    BY <1>1 DEF Framed, FrameForm, Idle, Frame
  <1>7. Locked
    BY <1>1, <1>2, <1>3, SnapshotIs DEF Locked, Free, Unborn, Idle, Frame
  <1>8. Remembered
    BY <1>1, <1>3 DEF Remembered
  <1>9. Bounded
    <2>1. Admitting = {}
      BY <1>1 DEF Admitting, Idle, Frame
    <2> QED
      BY <1>1, <1>3, <2>1, SnapshotIs, FS_EmptySet, BoundsAssumption DEF Bounded
  <1>10. Placed
    BY <1>1, <1>2, ThreadsAssumption DEF Placed, Free, Outside, Idle, Frame
  <1> QED
    BY <1>4, <1>5, <1>6, <1>7, <1>8, <1>9, <1>10 DEF TInv
-----------------------------------------------------------------------------
\* The threads and the queue that they share.

\* Whatever the threads do, the queue is as the last section that ended has left it but
\* for the statements that the thread inside one has done since.
THEOREM SectionsHold == TSpec => []TInv
  BY Starts, NextStep, PTL DEF TSpec

\* The settled queue of TitoThreads.tla and that of this module are one.
LEMMA SameTito ==
  /\ Was!Init => Atomic!Init
  /\ [Was!Next]_(Was!vars) => [Atomic!Next]_(Atomic!vars)
  <1>1. \A id, list : Was!Admissible(id, list) <=> Atomic!Admissible(id, list)
    BY DEF Was!Admissible, Atomic!Admissible, Was!WellFormed, Atomic!WellFormed,
           Was!IsInjective, Atomic!IsInjective, Was!Range, Atomic!Range
  <1>2. \A call : Was!Refuse(call) <=> Atomic!Refuse(call)
    BY DEF Was!Refuse, Atomic!Refuse, Was!Raises, Atomic!Raises, Was!Returns,
           Atomic!Returns, Was!queue, Atomic!queue
  <1>3. \A id, list : Was!Admit(id, list) <=> Atomic!Admit(id, list)
    BY <1>1 DEF Was!Admit, Atomic!Admit, Was!NewGroup, Atomic!NewGroup, Was!IndexMembers,
           Atomic!IndexMembers, Was!Put, Atomic!Put, Was!Range, Atomic!Range,
           Was!Returns, Atomic!Returns
  <1>4. \A id, list : Was!AdmitRefused(id, list) <=> Atomic!AdmitRefused(id, list)
    BY <1>1, <1>2 DEF Was!AdmitRefused, Atomic!AdmitRefused
  <1>5. \A h, ms : Was!MarkMembers(h, ms) <=> Atomic!MarkMembers(h, ms)
    BY DEF Was!MarkMembers, Atomic!MarkMembers, Was!Marked, Atomic!Marked,
           Was!Completes, Atomic!Completes, Was!NoteReady, Atomic!NoteReady, Was!Put,
           Atomic!Put, Was!Cardinality, Atomic!Cardinality
  <1>6. \A h, m : /\ Was!GroupMarkReady(h, m) <=> Atomic!GroupMarkReady(h, m)
                  /\ Was!GroupMarkReadyRefused(h, m) <=> Atomic!GroupMarkReadyRefused(h, m)
    BY <1>2, <1>5 DEF Was!GroupMarkReady, Atomic!GroupMarkReady, Was!GroupMarkReadyRefused,
           Atomic!GroupMarkReadyRefused, Was!Returns, Atomic!Returns, Was!Answer,
           Atomic!Answer, Was!IsReady, Atomic!IsReady, Was!Marked, Atomic!Marked,
           Was!Cardinality, Atomic!Cardinality
  <1>7. \A m : /\ Was!MarkReady(m) <=> Atomic!MarkReady(m)
               /\ Was!MarkReadyRefused(m) <=> Atomic!MarkReadyRefused(m)
    BY <1>2, <1>6 DEF Was!MarkReady, Atomic!MarkReady, Was!MarkReadyRefused,
           Atomic!MarkReadyRefused
  <1>8. \A id : /\ Was!MarkGroupReady(id) <=> Atomic!MarkGroupReady(id)
                /\ Was!MarkGroupReadyRefused(id) <=> Atomic!MarkGroupReadyRefused(id)
    BY <1>2, <1>5 DEF Was!MarkGroupReady, Atomic!MarkGroupReady, Was!MarkGroupReadyRefused,
           Atomic!MarkGroupReadyRefused, Was!Returns, Atomic!Returns
  <1>9. \A hs : Was!Remove(hs) <=> Atomic!Remove(hs)
    BY DEF Was!Remove, Atomic!Remove, Was!Without, Atomic!Without, Was!Restrict,
           Atomic!Restrict, Was!Detached, Atomic!Detached, Was!Handles, Atomic!Handles
  <1>10. \A h, heap : Was!RemoveOne(h, heap) <=> Atomic!RemoveOne(h, heap)
    BY <1>9 DEF Was!RemoveOne, Atomic!RemoveOne, Was!Compacted, Atomic!Compacted,
           Was!Cardinality, Atomic!Cardinality
  <1>11. /\ Was!NextOut = Atomic!NextOut /\ Was!AllOut = Atomic!AllOut
         /\ Was!Purged = Atomic!Purged
    BY DEF Was!NextOut, Atomic!NextOut, Was!AllOut, Atomic!AllOut, Was!Purged,
           Atomic!Purged, Was!Live, Atomic!Live, Was!Waiting, Atomic!Waiting,
           Was!IsReady, Atomic!IsReady, Was!Cardinality, Atomic!Cardinality
  <1>12. \A id : /\ Was!Cancel(id) <=> Atomic!Cancel(id)
                 /\ Was!CancelRefused(id) <=> Atomic!CancelRefused(id)
    BY <1>2, <1>10 DEF Was!Cancel, Atomic!Cancel, Was!CancelRefused, Atomic!CancelRefused,
           Was!Returns, Atomic!Returns
  <1>13. /\ Was!Peek <=> Atomic!Peek
         /\ Was!Release <=> Atomic!Release
         /\ Was!ReleaseNone <=> Atomic!ReleaseNone
    BY <1>10, <1>11 DEF Was!Peek, Atomic!Peek, Was!Release, Atomic!Release, Was!ReleaseNone,
           Atomic!ReleaseNone, Was!Returns, Atomic!Returns
  <1>14. Was!ReleaseAll <=> Atomic!ReleaseAll
    BY <1>9, <1>11 DEF Was!ReleaseAll, Atomic!ReleaseAll, Was!Sorted, Atomic!Sorted, Was!Age,
           Atomic!Age, Was!Cardinality, Atomic!Cardinality, Was!Returns, Atomic!Returns
  <1>15. Was!Clear <=> Atomic!Clear
    BY DEF Was!Clear, Atomic!Clear, Was!Detached, Atomic!Detached, Was!Handles,
           Atomic!Handles, Was!Waiting, Atomic!Waiting, Was!EmptyDict,
           Atomic!EmptyDict, Was!InHandleOrder, Atomic!InHandleOrder, Was!Sorted,
           Atomic!Sorted, Was!Cardinality, Atomic!Cardinality, Was!Returns,
           Atomic!Returns
  <1>16. Was!DropQueue <=> Atomic!DropQueue
    BY DEF Was!DropQueue, Atomic!DropQueue, Was!EmptyDict, Atomic!EmptyDict,
           Was!Returns, Atomic!Returns
  <1>17. Was!Next => Atomic!Next
    BY <1>3, <1>4, <1>6, <1>7, <1>8, <1>12, <1>13, <1>14, <1>15, <1>16
       DEF Was!Next, Atomic!Next, Was!MemberLists, Atomic!MemberLists, Was!Handles,
           Atomic!Handles
  <1>18. UNCHANGED Was!vars => UNCHANGED Atomic!vars
    BY DEF Was!vars, Atomic!vars, Was!queue, Atomic!queue
  <1>19. Was!Init => Atomic!Init
    BY DEF Was!Init, Atomic!Init, Was!EmptyDict, Atomic!EmptyDict, Was!Returns,
           Atomic!Returns
  <1> QED
    BY <1>17, <1>18, <1>19

\* Every locked section is one step of Tito.tla, however the statements of the threads
\* interleave: "every public operation is atomic", for any number of threads.
THEOREM SectionsAreAtomic == TSpec => ImplementsTito
  BY SectionsHold, Starts, NextStep, SameTito, PTL DEF TSpec, ImplementsTito, Atomic!Spec

\* The count that a repr has read is still the number of flags set when it goes on to
\* read who is waiting, whatever other threads have marked meanwhile.
THEOREM ReprsAgree == TSpec => []ReprAgrees
  <1>1. ASSUME TInv, NEW t \in Threads, At(t, "repr_waiting")
        PROVE  thread[t].out = <<Cardinality(group[thread[t].h].ready)>>
    <2> DEFINE f == thread[t]
    <2>1. f.at = "repr_waiting"
      BY <1>1 DEF At
    <2>2. /\ Settled = before /\ Inside(Snapshot, before, f, holder[QueueLock].depth)
      BY <1>1, <2>1, InsideAtLabel
    <2>3. /\ Snapshot = before /\ f.h \in DOMAIN before.group
          /\ f.out = <<Snapshot.group[f.h].ready_count>>
      BY <2>1, <2>2 DEF Inside, ReprAt
    <2>4. group = Settled.group
      BY <2>2, <2>3, SnapshotIs
    <2>5. group[f.h].ready_count = Was!Cardinality(group[f.h].ready)
      BY <1>1, <2>2, <2>3, <2>4 DEF TInv, Was!IInv, Was!CounterMatchesFlags, Was!Handles
    <2> QED
      BY <2>2, <2>3, <2>4, <2>5, SameCardinality
  <1>2. TInv => ReprAgrees
    BY <1>1 DEF ReprAgrees
  <1> QED
    BY <1>2, SectionsHold, PTL
-----------------------------------------------------------------------------
\* Lookups without the lock.

\* A lookup that disagrees with the last call is about one of the groups hs.
WrongOnlyAbout(hs) ==
  /\ \A m \in Members : \/ m \in DOMAIN member_index <=> m \in DOMAIN before.member_index
                        \/ \E h \in hs : m \in group[h].members
  /\ \A id \in GroupIds : \/ id \in DOMAIN groups <=> id \in DOMAIN before.groups
                          \/ \E h \in hs : group[h].group_id = id

\* In admit, the group is the one that is being made.
LEMMA WrongAboutBorn ==
  ASSUME TInv, Settled = before, NEW f,
         \/ InsertAt(Snapshot, before, f) \/ IndexAt(Snapshot, before, f)
         \/ InstallAt(Snapshot, before, f)
  PROVE  f.h \in Handles /\ WrongOnlyAbout({f.h})
  <1>1. PICK id \in GroupIds, list \in MemberLists :
          /\ Born(Snapshot, before, f, id, list)
          /\ groups = before.groups \/ groups = Put(before.groups, id, f.h)
          /\ \/ member_index = before.member_index
             \/ \E ms \in SUBSET Range(list) :
                  member_index = Indexed(before.member_index, id, ms)
    BY SnapshotIs DEF InsertAt, IndexAt, InstallAt, SameIndexes
  <1>2. /\ Len(before.group) \in Nat /\ DOMAIN before.group = 1..Len(before.group)
        /\ before.group \in Seq(GroupRecord)
    BY GroupsSettled, SettledType
  <1>3. f.h = Len(before.group) + 1 /\ group = Append(before.group, BornTo(before, id, list))
    BY <1>1, SnapshotIs DEF Born
  <1>4. f.h \in Handles /\ group[f.h] = BornTo(before, id, list)
    BY <1>2, <1>3 DEF Handles
  <1>5. group[f.h].members = Range(list) /\ group[f.h].group_id = id
    BY <1>4 DEF BornTo
  <1>6. \A m \in Members : \/ m \in DOMAIN member_index <=> m \in DOMAIN before.member_index
                           \/ m \in Range(list)
    BY <1>1 DEF Indexed
  <1>7. \A i \in GroupIds : \/ i \in DOMAIN groups <=> i \in DOMAIN before.groups
                            \/ i = id
    BY <1>1 DEF Put
  <1> QED
    BY <1>4, <1>5, <1>6, <1>7 DEF WrongOnlyAbout

\* In a departure, they are the groups that are gone and the one that is going.
LEMMA WrongAboutTaken ==
  ASSUME TInv, Settled = before, NEW hs \in SUBSET DOMAIN before.group,
         NEW gone, NEW ids \in SUBSET hs, NEW ms \in SUBSET MembersOf(before.group, hs),
         NEW detached, Taken(Snapshot, before, gone, ids, ms, detached)
  PROVE  hs \subseteq Handles /\ WrongOnlyAbout(hs)
  <1>1. /\ group = DetachedFrom(before.group, detached)
        /\ groups = Without(before.groups, IdsOf(before.group, ids))
        /\ member_index = Without(before.member_index, ms)
    BY SnapshotIs DEF Taken
  <1>2. hs \subseteq Handles
    BY <1>1 DEF DetachedFrom, Handles
  <1>3. \A h \in hs : /\ group[h].members = before.group[h].members
                      /\ group[h].group_id = before.group[h].group_id
    BY <1>1, DetachedIs
  <1>4. \A m \in Members : \/ m \in DOMAIN member_index <=> m \in DOMAIN before.member_index
                           \/ m \in MembersOf(before.group, hs)
    BY <1>1 DEF Without, Restrict
  <1>5. \A id \in GroupIds : \/ id \in DOMAIN groups <=> id \in DOMAIN before.groups
                             \/ id \in IdsOf(before.group, ids)
    BY <1>1 DEF Without, Restrict
  <1> QED
    BY <1>2, <1>3, <1>4, <1>5 DEF WrongOnlyAbout, MembersOf, IdsOf

\* In clear, they are the groups that wait.
LEMMA WrongAboutCleared ==
  ASSUME TInv, Settled = before, NEW f, Clearing(Snapshot, before, f),
         groups = before.groups \/ groups = EmptyDict,
         member_index = before.member_index \/ member_index = EmptyDict
  PROVE  Range(f.out) \subseteq Handles /\ WrongOnlyAbout(Range(f.out))
  <1> DEFINE hs == WaitingOf(before)
  <1>1. hs \subseteq DOMAIN before.group /\ hs \in SUBSET Nat /\ IsFiniteSet(hs)
    <2>1. /\ hs \subseteq 1..Len(before.group) /\ Len(before.group) \in Nat
          /\ DOMAIN before.group = 1..Len(before.group)
      BY SettledTells, GroupsSettled
    <2>2. IsFiniteSet(1..Len(before.group))
      BY <2>1, FS_Interval
    <2> QED
      BY <2>1, <2>2, FS_Subset
  <1>2. f.out \in Sorted(hs, [h \in hs |-> h])
    BY DEF Clearing, InHandleOrder
  <1>3. Range(f.out) = hs
    <2>1. [h \in hs |-> h] \in [hs -> Int]
      BY <1>1
    <2> QED
      BY <1>1, <1>2, <2>1, SameLists, Order!SortedNamesAll
  <1>4. group = DetachedFrom(before.group, hs)
    BY SnapshotIs DEF Clearing
  <1>5. hs \subseteq Handles
    BY <1>1, <1>4 DEF DetachedFrom, Handles
  <1>6. \A h \in hs : /\ group[h].members = before.group[h].members
                      /\ group[h].group_id = before.group[h].group_id
    BY <1>1, <1>4, DetachedIs
  <1>7. \A m \in DOMAIN before.member_index : \E h \in hs : m \in before.group[h].members
    <2>1. Was!IndexesAgree /\ Was!Waiting = hs
      BY SaidOfSettled DEF TInv, Was!IInv
    <2> QED
      BY <2>1 DEF Was!IndexesAgree
  <1>8. \A id \in DOMAIN before.groups : \E h \in hs : before.group[h].group_id = id
    BY SettledTells DEF WaitingOf
  <1> HIDE DEF hs
  <1>9. DOMAIN EmptyDict = {}
    BY DEF EmptyDict
  <1> QED
    BY <1>3, <1>5, <1>6, <1>7, <1>8, <1>9 DEF WrongOnlyAbout

LEMMA WrongAboutUnderWay ==
  ASSUME TInv, Settled = before, NEW f, NEW depth, Inside(Snapshot, before, f, depth)
  PROVE  \E hs \in SUBSET ({f.h} \cup Range(f.out)) :
           hs \subseteq Handles /\ WrongOnlyAbout(hs)
  <1>1. CASE SameIndexes(Snapshot, before)
    <2>1. WrongOnlyAbout({})
      BY <1>1, SnapshotIs DEF WrongOnlyAbout, SameIndexes
    <2> QED
      BY <2>1
  <1>2. CASE \/ InsertAt(Snapshot, before, f) \/ IndexAt(Snapshot, before, f)
             \/ InstallAt(Snapshot, before, f)
    BY <1>2, WrongAboutBorn
  <1>3. WaitingOf(before) \subseteq DOMAIN before.group
    BY SettledTells
  <1> DEFINE gone == Gone(f)
             going == gone \cup {f.h}
  <1>4. going = {f.h} \cup Range(f.out)
    BY DEF Gone
  <1>5. CASE PeekAt(Snapshot, before, f) /\ f.call = "release_all"
    <2>1. /\ Taken(Snapshot, before, gone, gone, MembersOf(before.group, gone), gone)
          /\ f.out \in Seq(AllOutOf(before))
      BY <1>5 DEF PeekAt, Oldest
    <2>2. gone \subseteq AllOutOf(before)
      BY <2>1 DEF Gone, Range
    <2>3. gone \in SUBSET DOMAIN before.group
      BY <1>3, <2>2, OutOfWaiting
    <2>4. gone \subseteq Handles /\ WrongOnlyAbout(gone)
      BY <2>1, <2>3, WrongAboutTaken
    <2> QED
      BY <1>4, <2>4
  <1>6. CASE DelGroupAt(Snapshot, before, f) \/ DelMembersAt(Snapshot, before, f)
             \/ DetachAt(Snapshot, before, f) \/ PopAt(Snapshot, before, f)
    <2>1. Leaving(Snapshot, before, f)
      BY <1>6 DEF DelGroupAt, DelMembersAt, DetachAt, PopAt
    <2>2. going \in SUBSET DOMAIN before.group
      BY <1>3, <2>1 DEF Leaving
    <2>3. PICK ids, ms, detached :
            /\ ids \subseteq going /\ ms \subseteq MembersOf(before.group, going)
            /\ Taken(Snapshot, before, gone, ids, ms, detached)
      <3>1. /\ MembersOf(before.group, gone) \subseteq MembersOf(before.group, going)
            /\ before.group[f.h].members \subseteq MembersOf(before.group, going)
            /\ gone \subseteq going
        BY DEF MembersOf
      <3>2. MembersOf(before.group, gone) \cup (before.group[f.h].members \ f.left)
              \subseteq MembersOf(before.group, going)
        BY <3>1
      <3> HIDE DEF gone
      <3> QED
        BY <1>6, <3>1, <3>2 DEF DelGroupAt, DelMembersAt, DetachAt, PopAt, gone
    <2>4. going \subseteq Handles /\ WrongOnlyAbout(going)
      BY <2>2, <2>3, WrongAboutTaken
    <2> QED
      BY <1>4, <2>4
  <1>7. CASE \/ ClearGroupsAt(Snapshot, before, f) \/ ClearMembersAt(Snapshot, before, f)
             \/ ClearReadyAt(Snapshot, before, f)
    <2>1. /\ Clearing(Snapshot, before, f)
          /\ groups = before.groups \/ groups = EmptyDict
          /\ member_index = before.member_index \/ member_index = EmptyDict
      BY <1>7, SnapshotIs DEF ClearGroupsAt, ClearMembersAt, ClearReadyAt, SameIndexes
    <2> QED
      BY <2>1, WrongAboutCleared
  <1>8. \/ SameIndexes(Snapshot, before)
        \/ InsertAt(Snapshot, before, f) \/ IndexAt(Snapshot, before, f)
        \/ InstallAt(Snapshot, before, f)
        \/ PeekAt(Snapshot, before, f) /\ f.call = "release_all"
        \/ DelGroupAt(Snapshot, before, f) \/ DelMembersAt(Snapshot, before, f)
        \/ DetachAt(Snapshot, before, f) \/ PopAt(Snapshot, before, f)
        \/ ClearGroupsAt(Snapshot, before, f) \/ ClearMembersAt(Snapshot, before, f)
        \/ ClearReadyAt(Snapshot, before, f)
    <2>1. Snapshot = before => SameIndexes(Snapshot, before)
      BY DEF SameIndexes
    <2>2. /\ EnterAt(Snapshot, before, f, depth) => SameIndexes(Snapshot, before)
          /\ FlagAt(Snapshot, before, f, depth) => SameIndexes(Snapshot, before)
          /\ CountAt(Snapshot, before, f, depth) => SameIndexes(Snapshot, before)
          /\ OnReadyAt(Snapshot, before, f, depth) => SameIndexes(Snapshot, before)
          /\ NoteAt(Snapshot, before, f, depth) => SameIndexes(Snapshot, before)
          /\ PushAt(Snapshot, before, f, depth) => SameIndexes(Snapshot, before)
      BY DEF EnterAt, FlagAt, CountAt, OnReadyAt, NoteAt, PushAt, MarksDone, Marks, LastFlag
    <2>3. ReprAt(Snapshot, before, f) => Snapshot = before
      BY DEF ReprAt
    <2>4. PeekAt(Snapshot, before, f) => Snapshot = before \/ f.call = "release_all"
      BY DEF PeekAt
    <2> QED
      BY <2>1, <2>2, <2>3, <2>4 DEF Inside
  <1> QED
    BY <1>1, <1>2, <1>5, <1>6, <1>7, <1>8

\* A lookup without the lock is wrong only about the groups that the call under way is
\* moving in or out; about every other group it says what the last call left.
THEOREM LooksAreRight == TSpec => []LooksWrongOnlyUnderWay
  <1>1. ASSUME TInv, Busy
        PROVE  WrongOnlyAbout(UnderWay \cap Handles)
    <2> DEFINE t == holder[QueueLock].by
    <2>1. t \in Threads
      <3>1. /\ QueueLock \in Locks
            /\ holder \in [Locks -> [by: Threads \cup {Nobody}, depth: Nat]]
            /\ holder[QueueLock].by = Nobody <=> holder[QueueLock].depth = 0
        BY <1>1, BoundsAssumption DEF TInv, Locked, QueueLock, Locks
      <3>2. holder[QueueLock].by \in Threads \cup {Nobody}
        BY <3>1
      <3> QED
        BY <1>1, <3>1, <3>2 DEF Busy
    <2> HIDE DEF t
    <2>2. holder[QueueLock].by = t
      BY DEF t
    <2>3. Settled = before /\ Inside(Snapshot, before, thread[t], holder[QueueLock].depth)
      BY <1>1, <2>1, <2>2, Holding
    <2>4. PICK hs \in SUBSET ({thread[t].h} \cup Range(thread[t].out)) :
            hs \subseteq Handles /\ WrongOnlyAbout(hs)
      BY <1>1, <2>3, WrongAboutUnderWay
    <2>5. {thread[t].h} \cup Range(thread[t].out) \subseteq UnderWay
      BY <2>1, <2>2 DEF UnderWay
    <2> QED
      BY <2>4, <2>5 DEF WrongOnlyAbout
  <1>2. TInv => LooksWrongOnlyUnderWay
    BY <1>1 DEF LooksWrongOnlyUnderWay, WrongOnlyAbout
  <1> QED
    BY <1>2, SectionsHold, PTL
=============================================================================
