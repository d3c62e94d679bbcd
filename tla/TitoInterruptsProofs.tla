------------------------ MODULE TitoInterruptsProofs ------------------------
(***************************************************************************)
(* Proofs about TitoInterrupts.tla, for any number of threads and of       *)
(* interruptions: no group is handed over twice, and none is released      *)
(* with a member unmarked. The queue that a section cut short leaves       *)
(* behind is not the one TitoProofs.tla describes: its indexes disagree    *)
(* and its counters lag. What is proved here is what is left to rely on.   *)
(***************************************************************************)
EXTENDS TitoInterrupts, TitoThreadsProofs

\* Every member of the group is marked.
Whole(h) == group[h].ready = group[h].members

\* A counter may lag behind its flags, and never runs ahead of them.
Sound(g) == g.ready \subseteq g.members /\ g.ready_count <= Cardinality(g.ready)
Counted ==
  group \in Seq(GroupRecord) /\ next_sequence \in Nat /\ \A h \in Handles : Sound(group[h])

\* What either index holds is what it says, though the other may not know of it.
Filed ==
  /\ \A id \in DOMAIN groups :
       groups[id] \in Handles /\ group[groups[id]].group_id = id
  /\ \A s \in DOMAIN ready_groups :
       /\ ready_groups[s] \in Handles /\ group[ready_groups[s]].sequence = s
       /\ Whole(ready_groups[s])

\* No call can find the group: it is in neither index, and has no callback to put it
\* back in one.
Lost(h) == h \notin Waiting /\ h \notin Range(ready_groups) /\ ~ group[h].on_ready

\* What was handed over is lost to the queue.
Delivered == {handed[i].h : i \in DOMAIN handed}
Parted ==
  /\ handed \in Seq([call: Departing, h: Handles])
  /\ \A h \in Delivered : Lost(h)
  /\ HandedOnce /\ ReleasedWhole
-----------------------------------------------------------------------------
\* Where a thread is that holds the queue's lock.

\* The groups that the call has taken out and still carries.
Carries(f) ==
  /\ f.out \in Seq(Handles \ Delivered) /\ IsInjective(f.out)
  /\ \A h \in Range(f.out) : Lost(h) /\ Whole(h)
\* The group in hand is on its way out.
Departs(f) ==
  /\ f.call \in {"cancel", "release", "release_all"} /\ Carries(f)
  /\ f.h \in Handles \ (Delivered \cup Range(f.out))
  /\ f.call # "cancel" => Whole(f.h)
\* The groups that the call is clearing.
Clears(f) ==
  /\ f.call = "clear" /\ f.out \in Seq(Handles \ Delivered) /\ IsInjective(f.out)
  /\ \A h \in Range(f.out) : ~ group[h].on_ready
\* The group in hand is new: no other call knows of it.
Admits(f) == f.call = "admit" /\ f.h = Len(group) /\ f.h \in Handles \ Delivered
\* The group in hand is being marked.
Sets(f) ==
  /\ f.h \in Handles
  /\ Entering(f) \/ f.call = "mark_group_ready"
SetsOne(f, depth) == Sets(f) /\ Nested(f, depth) /\ \E m \in f.left : f.now = {m}

Within(f, depth) ==
  \/ f.at = "check" /\ f.call = "admit" /\ \E id \in GroupIds, list \in MemberLists :
                                             f.arg = <<id, list>>
  \/ /\ f.at = "insert" /\ Admits(f) /\ f.h \notin Waiting \cup Range(ready_groups)
     /\ group[f.h].group_id = f.arg[1]
  \/ f.at \in {"index", "install"} /\ Admits(f)
  \/ f.at = "find" /\ FindCall(f) /\ depth = 1 /\ f.out = <<>>
  \/ f.at = "enter" /\ Sets(f) /\ depth = 1
  \/ f.at = "flag" /\ Sets(f) /\ Nested(f, depth)
  \/ /\ f.at = "count" /\ SetsOne(f, depth)
     /\ group[f.h].ready_count < Cardinality(group[f.h].ready)
  \/ f.at \in {"on_ready", "note"} /\ SetsOne(f, depth) /\ Whole(f.h) /\ group[f.h].on_ready
  \/ f.at = "push" /\ SetsOne(f, depth)
  \/ f.at = "peek" /\ f.call \in {"peek", "release", "release_all"} /\ Carries(f)
  \/ f.at = "del_group" /\ Departs(f)
  \/ f.at \in {"del_members", "detach"} /\ Departs(f) /\ f.h \notin Waiting
  \/ f.at = "pop" /\ Departs(f) /\ f.h \notin Waiting /\ ~ group[f.h].on_ready
  \/ f.at = "clear_callbacks" /\ f.call = "clear"
  \/ f.at = "clear_groups" /\ Clears(f)
  \/ f.at \in {"clear_members", "clear_ready"} /\ Clears(f) /\ groups = EmptyDict
  \/ f.at \in {"repr_count", "repr_waiting"} /\ f.call = "repr" /\ f.h \in Handles
-----------------------------------------------------------------------------
\* The inductive invariant.

\* Only the queue's lock is ever taken, and every group has it.
OneLock ==
  /\ holder \in [Locks -> [by: Threads \cup {Nobody}, depth: Nat]]
  /\ \A l \in Locks \ {QueueLock} : holder[l] = Free
  /\ holder[QueueLock].by = Nobody <=> holder[QueueLock].depth = 0
  /\ lock_of \in Seq({QueueLock}) /\ Len(lock_of) = Len(group)

\* Every group but the one that a call is admitting is known to the callers.
Known ==
  /\ Settled.group \in Seq(GroupRecord)
  /\ Len(group) =
       IF \E t \in Threads : holder[QueueLock].by = t /\ Unborn(thread[t])
       THEN Len(Settled.group) + 1 ELSE Len(Settled.group)

Somewhere ==
  \A t \in Threads :
    IF holder[QueueLock].by = t
    THEN Within(thread[t], holder[QueueLock].depth)
    ELSE Outside(Len(Settled.group), thread[t])

Data == Counted /\ Filed /\ Parted
Survives == Data /\ Framed /\ OneLock /\ Remembered /\ Known /\ Somewhere
-----------------------------------------------------------------------------
\* Where the lock is.

LEMMA LockFacts ==
  ASSUME Survives
  PROVE  /\ QueueLock \in Locks /\ holder \in [Locks -> [by: Threads \cup {Nobody}, depth: Nat]]
         /\ Busy <=> holder[QueueLock].by # Nobody
         /\ Settled.group \in Seq(GroupRecord) /\ Len(Settled.group) \in Nat
         /\ DOMAIN Settled.group = 1..Len(Settled.group)
         /\ group \in Seq(GroupRecord) /\ Len(group) \in Nat /\ Handles = 1..Len(group)
         /\ Published \subseteq Handles
  <1>1. QueueLock \in Locks
    BY BoundsAssumption DEF QueueLock, Locks
  <1>2. holder \in [Locks -> [by: Threads \cup {Nobody}, depth: Nat]]
    BY DEF Survives, OneLock
  <1>3. Busy <=> holder[QueueLock].by # Nobody
    <2>1. holder[QueueLock].depth \in Nat
      BY <1>1, <1>2
    <2> QED
      BY <2>1 DEF Survives, OneLock, Busy
  <1>4. Settled.group \in Seq(GroupRecord) /\ group \in Seq(GroupRecord)
    BY DEF Survives, Known, Data, Counted
  <1>5. /\ Len(Settled.group) \in Nat /\ DOMAIN Settled.group = 1..Len(Settled.group)
        /\ Len(group) \in Nat /\ Handles = 1..Len(group)
    BY <1>4 DEF Handles
  <1>6. Len(Settled.group) <= Len(group)
    BY <1>5 DEF Survives, Known
  <1> QED
    BY <1>1, <1>2, <1>3, <1>4, <1>5, <1>6 DEF Published

LEMMA Holds ==
  ASSUME Survives, NEW t \in Threads, holder[QueueLock].by = t
  PROVE  /\ t # Nobody /\ Busy /\ Settled = before
         /\ holder[QueueLock].depth \in Nat \ {0}
         /\ holder = [holder EXCEPT ![QueueLock] =
                        [by |-> t, depth |-> holder[QueueLock].depth]]
         /\ Within(thread[t], holder[QueueLock].depth)
         /\ Len(group) = IF Unborn(thread[t]) THEN Len(before.group) + 1
                         ELSE Len(before.group)
         /\ \A l \in Locks \ {QueueLock} : holder[l] = Free
  <1>1. t # Nobody
    BY ThreadsAssumption
  <1>2. Busy
    BY <1>1, LockFacts
  <1>3. Settled = before
    BY <1>2 DEF Settled
  <1>4. holder[QueueLock] \in [by: Threads \cup {Nobody}, depth: Nat]
    BY LockFacts
  <1>5. holder[QueueLock] = [by |-> t, depth |-> holder[QueueLock].depth]
    BY <1>4
  <1>6. holder[QueueLock].depth \in Nat \ {0}
    BY <1>2, <1>4 DEF Busy
  <1>7. holder = [holder EXCEPT ![QueueLock] = [by |-> t, depth |-> holder[QueueLock].depth]]
    BY <1>5, LockFacts
  <1>8. Within(thread[t], holder[QueueLock].depth)
    BY DEF Survives, Somewhere
  <1>9. Len(group) = IF Unborn(thread[t]) THEN Len(before.group) + 1 ELSE Len(before.group)
    BY <1>3 DEF Survives, Known
  <1>10. \A l \in Locks \ {QueueLock} : holder[l] = Free
    BY DEF Survives, OneLock
  <1> QED
    BY <1>1, <1>2, <1>3, <1>6, <1>7, <1>8, <1>9, <1>10

LEMMA HoldsNot ==
  ASSUME Survives, NEW t \in Threads, holder[QueueLock].by # t
  PROVE  Outside(Len(Settled.group), thread[t])
  BY DEF Survives, Somewhere

\* A label tells whether its thread holds the lock.
LEMMA HoldsAt ==
  ASSUME Survives, NEW t \in Threads
  PROVE  /\ thread[t].at \in {"idle", "acquire"} => holder[QueueLock].by # t
         /\ thread[t].at \notin {"idle", "acquire", "enter"} =>
              /\ holder[QueueLock].by = t
              /\ Within(thread[t], holder[QueueLock].depth)
  <1>1. thread[t].at \in {"idle", "acquire"} => ~ Within(thread[t], holder[QueueLock].depth)
    BY DEF Within
  <1>2. thread[t].at \notin {"idle", "acquire", "enter"} =>
          ~ Outside(Len(Settled.group), thread[t])
    BY DEF Outside
  <1> QED
    BY <1>1, <1>2 DEF Survives, Somewhere
-----------------------------------------------------------------------------
\* What a step has to show, by what it does with the lock.

\* The thread keeps the lock.
LEMMA InnerKeeps ==
  ASSUME Survives, NEW t \in Threads, holder[QueueLock].by = t, Moves(t),
         before' = before, alive' = alive,
         thread'[t].keeps \in BOOLEAN, thread'[t].keeps => alive,
         NEW depth \in Nat \ {0},
         holder' = [holder EXCEPT ![QueueLock] = [by |-> t, depth |-> depth]],
         lock_of' \in Seq({QueueLock}), Len(lock_of') = Len(group'),
         Len(group') = IF Unborn(thread'[t]) THEN Len(before.group) + 1
                       ELSE Len(before.group),
         Data', Within(thread[t], depth)'
  PROVE  Survives'
  <1>1. /\ holder'[QueueLock] = [by |-> t, depth |-> depth]
        /\ \A l \in Locks \ {QueueLock} : holder'[l] = Free
        /\ holder' \in [Locks -> [by: Threads \cup {Nobody}, depth: Nat]]
    BY Holds, LockFacts
  <1>2. Busy' /\ Settled' = before /\ Settled = before /\ t # Nobody /\ Busy
    BY <1>1, Holds DEF Busy, Settled
  <1>3. Framed'
    BY DEF Survives, Framed, Moves
  <1>4. OneLock'
    BY <1>1, <1>2 DEF OneLock
  <1>5. Remembered'
    BY <1>2 DEF Survives, Remembered
  <1>6. Known'
    BY <1>1, <1>2 DEF Survives, Known
  <1>7. Somewhere'
    <2>1. ASSUME NEW u \in Threads \ {t}
          PROVE  holder'[QueueLock].by # u /\ Outside(Len(Settled'.group), thread'[u])
      <3>1. thread'[u] = thread[u]
        BY DEF Moves
      <3>2. holder'[QueueLock].by # u /\ Outside(Len(Settled.group), thread[u])
        BY <1>1, HoldsNot
      <3> QED
        BY <1>2, <3>1, <3>2
    <2>2. holder'[QueueLock].depth = depth /\ holder'[QueueLock].by = t
      BY <1>1
    <2>3. Within(thread[t], holder[QueueLock].depth)'
      BY <2>2
    <2> QED
      BY <2>1, <2>2, <2>3 DEF Somewhere
  <1> QED
    BY <1>3, <1>4, <1>5, <1>6, <1>7 DEF Survives

\* The lock is neither taken again nor given back.
LEMMA StaysKeeps ==
  ASSUME Survives, NEW t \in Threads, holder[QueueLock].by = t, Moves(t),
         UNCHANGED <<before, alive, holder, lock_of>>,
         thread'[t].keeps = thread[t].keeps,
         Unborn(thread'[t]) <=> Unborn(thread[t]), Len(group') = Len(group),
         Data', Within(thread[t], holder[QueueLock].depth)'
  PROVE  Survives'
  <1>1. PICK depth \in Nat \ {0} : depth = holder[QueueLock].depth
    BY Holds
  <1>2. Within(thread[t], depth)'
    <2>1. depth = holder'[QueueLock].depth
      BY <1>1
    <2> QED
      BY <2>1
  <1>3. holder' = [holder EXCEPT ![QueueLock] = [by |-> t, depth |-> depth]]
    BY <1>1, Holds
  <1>4. lock_of' \in Seq({QueueLock}) /\ Len(lock_of') = Len(group')
    BY DEF Survives, OneLock
  <1>5. thread'[t].keeps \in BOOLEAN /\ (thread'[t].keeps => alive)
    BY DEF Survives, Framed
  <1>6. Len(group') = IF Unborn(thread'[t]) THEN Len(before.group) + 1
                      ELSE Len(before.group)
    BY Holds
  <1> QED
    BY <1>2, <1>3, <1>4, <1>5, <1>6, InnerKeeps

\* The call ends.
LEMMA EndKeeps ==
  ASSUME Survives, NEW t \in Threads, holder[QueueLock].by = t, End(t), alive' = alive,
         lock_of' \in Seq({QueueLock}), Len(lock_of') = Len(group'),
         Len(before.group) <= Len(group'), Data'
  PROVE  Survives'
  <1>1. /\ Moves(t) /\ thread'[t] = Idle /\ t # Nobody /\ Settled = before
        /\ QueueLock \in Locks /\ \A l \in Locks \ {QueueLock} : holder[l] = Free
    BY EndMoves, Holds, LockFacts DEF Survives
  <1>2. \A l \in Locks : holder'[l] = Free
    BY <1>1 DEF End
  <1>3. holder' = [l \in Locks |-> Free] /\ before' = NoSnapshot
    BY <1>2 DEF End
  <1>4. ~ Busy' /\ holder'[QueueLock].by = Nobody
    BY <1>1, <1>3 DEF Busy, Free
  <1>5. Settled'.group = group'
    BY <1>4, SnapshotNext DEF Settled
  <1>6. Framed'
    <2>1. thread'[t].keeps = FALSE
      BY <1>1 DEF Idle, Frame
    <2> QED
      BY <1>1, <2>1 DEF Survives, Framed, Moves
  <1>7. OneLock'
    <2>1. holder' \in [Locks -> [by: Threads \cup {Nobody}, depth: Nat]]
      BY <1>3 DEF Free
    <2> QED
      BY <1>1, <1>3, <2>1 DEF OneLock, Free
  <1>8. Remembered'
    BY <1>3, <1>4 DEF Remembered
  <1>9. group' \in Seq(GroupRecord)
    BY DEF Data, Counted
  <1>10. Known'
    BY <1>4, <1>5, <1>9, ThreadsAssumption DEF Known
  <1>11. Somewhere'
    <2>1. ASSUME NEW u \in Threads
          PROVE  holder'[QueueLock].by # u /\ Outside(Len(group'), thread'[u])
      <3>1. holder'[QueueLock].by # u
        BY <1>4, ThreadsAssumption
      <3>2. CASE u = t
        BY <1>1, <3>1, <3>2 DEF Outside, Idle, Frame
      <3>3. CASE u # t
        <4>1. thread'[u] = thread[u] /\ Outside(Len(before.group), thread[u])
          BY <1>1, <3>3, HoldsNot DEF Moves
        <4>2. Len(before.group) \in Nat /\ Len(group') \in Nat
          BY <1>1, <1>9, LockFacts
        <4>3. 1..Len(before.group) \subseteq 1..Len(group')
          BY <4>2
        <4> QED
          BY <3>1, <4>1, <4>3 DEF Outside
      <3> QED
        BY <3>1, <3>2, <3>3
    <2> QED
      BY <1>5, <2>1 DEF Somewhere
  <1> QED
    BY <1>6, <1>7, <1>8, <1>10, <1>11 DEF Survives

\* A thread stays where it is when the queue only forgets groups.
LEMMA WithinStays ==
  ASSUME NEW u, NEW depth, Within(thread[u], depth), thread'[u] = thread[u],
         group' = group, handed' = handed,
         Waiting' \subseteq Waiting, Range(ready_groups') \subseteq Range(ready_groups),
         groups = EmptyDict => groups' = EmptyDict
  PROVE  Within(thread[u], depth)'
  <1>1. PICK f : f = thread[u]
    OBVIOUS
  <1>2. Within(f, depth)
    BY <1>1
  <1>3. Handles' = Handles /\ Delivered' = Delivered
    BY DEF Handles, Delivered
  <1>4. \A h : (Lost(h) => Lost(h)') /\ (Whole(h) <=> Whole(h)')
    BY DEF Lost, Whole
  <1>5. Carries(f) => Carries(f)'
    BY <1>3, <1>4 DEF Carries
  <1>6. Departs(f) => Departs(f)'
    BY <1>3, <1>4, <1>5 DEF Departs
  <1>7. Clears(f) => Clears(f)'
    BY <1>3 DEF Clears
  <1>8. Admits(f) => Admits(f)'
    BY <1>3 DEF Admits
  <1>9. Sets(f) => Sets(f)'
    BY <1>3 DEF Sets
  <1>10. SetsOne(f, depth) => SetsOne(f, depth)'
    BY <1>9 DEF SetsOne
  <1>11. Within(f, depth)'
    BY <1>2, <1>3, <1>4, <1>5, <1>6, <1>7, <1>8, <1>9, <1>10 DEF Within
  <1> QED
    BY <1>1, <1>11

\* The thread neither has the lock nor takes it.
LEMMA OutsideKeeps ==
  ASSUME Survives, NEW t \in Threads, holder[QueueLock].by # t, Moves(t),
         UNCHANGED <<group, queue, holder, lock_of, before, handed>>,
         Outside(Len(Settled.group), thread'[t]),
         thread'[t].keeps \in BOOLEAN, thread'[t].keeps => alive, Data'
  PROVE  Survives'
  <1>1. UNCHANGED <<groups, member_index, next_sequence, ready_groups, ready_heap, alive>>
    BY DEF queue
  <1>2. Snapshot' = Snapshot
    BY <1>1 DEF Snapshot
  <1>3. (Busy' <=> Busy) /\ Settled' = Settled
    BY <1>2 DEF Busy, Settled
  <1>4. Framed'
    BY <1>1 DEF Survives, Framed, Moves
  <1>5. OneLock'
    BY DEF Survives, OneLock
  <1>6. Remembered'
    BY <1>3 DEF Survives, Remembered
  <1>7. Known'
    BY <1>3 DEF Survives, Known, Moves
  <1>8. Somewhere'
    <2>1. ASSUME NEW u \in Threads, holder[QueueLock].by = u
          PROVE  Within(thread[u], holder[QueueLock].depth)'
      <3>1. u # t /\ thread'[u] = thread[u]
        BY <2>1 DEF Moves
      <3>2. PICK depth : depth = holder[QueueLock].depth
        OBVIOUS
      <3>3. Within(thread[u], depth)
        BY <2>1, <3>2, Holds
      <3>4. Waiting' = Waiting
        BY <1>1 DEF Waiting
      <3>5. Within(thread[u], depth)'
        BY <1>1, <3>1, <3>3, <3>4, WithinStays
      <3>6. depth = holder'[QueueLock].depth
        BY <3>2
      <3> QED
        BY <3>5, <3>6
    <2>2. ASSUME NEW u \in Threads, holder[QueueLock].by # u
          PROVE  Outside(Len(Settled'.group), thread'[u])
      BY <1>3, <2>2, HoldsNot DEF Moves
    <2> QED
      BY <2>1, <2>2 DEF Somewhere
  <1> QED
    BY <1>4, <1>5, <1>6, <1>7, <1>8 DEF Survives

\* The thread takes the lock.
LEMMA TakeKeeps ==
  ASSUME Survives, NEW t \in Threads, holder[QueueLock].by # t, Take(t, QueueLock),
         Moves(t), UNCHANGED <<vars, lock_of>>,
         thread'[t].keeps \in BOOLEAN, thread'[t].keeps => alive,
         ~ Unborn(thread'[t]), Data', Within(thread[t], 1)'
  PROVE  Survives'
  <1>1. UNCHANGED <<group, groups, member_index, next_sequence, ready_groups, ready_heap,
                    alive>>
    BY DEF vars, queue
  <1>2. Snapshot' = Snapshot
    BY <1>1 DEF Snapshot
  <1>3. t # Nobody /\ holder[QueueLock].by = Nobody /\ holder[QueueLock].depth = 0
    BY ThreadsAssumption DEF Take, CanTake, Survives, OneLock
  <1>4. ~ Busy /\ Settled = Snapshot /\ before' = Snapshot
    BY <1>3 DEF Busy, Settled, Take
  <1>5. /\ holder'[QueueLock] = [by |-> t, depth |-> 1]
        /\ \A l \in Locks \ {QueueLock} : holder'[l] = Free
        /\ holder' \in [Locks -> [by: Threads \cup {Nobody}, depth: Nat]]
    <2>1. holder' = [holder EXCEPT ![QueueLock] = [by |-> t, depth |-> 1]]
      BY <1>3 DEF Take
    <2>2. \A l \in Locks \ {QueueLock} : holder[l] = Free
      BY DEF Survives, OneLock
    <2> QED
      BY <2>1, <2>2, LockFacts
  <1>6. Busy' /\ Settled' = Settled
    <2>1. Busy'
      BY <1>5 DEF Busy
    <2> QED
      BY <1>4, <2>1 DEF Settled
  <1>7. Framed'
    BY <1>1 DEF Survives, Framed, Moves
  <1>8. OneLock'
    BY <1>1, <1>3, <1>5 DEF Survives, OneLock
  <1>9. Remembered'
    <2>1. before' = [group |-> before'.group, groups |-> before'.groups,
                     member_index |-> before'.member_index,
                     next_sequence |-> before'.next_sequence,
                     ready_groups |-> before'.ready_groups,
                     ready_heap |-> before'.ready_heap]
      BY <1>4 DEF Snapshot
    <2> QED
      BY <1>6, <2>1 DEF Remembered
  <1>10. Known'
    <2>1. Len(group) = Len(Settled.group)
      BY <1>4, SnapshotIs
    <2>2. ~ \E u \in Threads : holder'[QueueLock].by = u /\ Unborn(thread'[u])
      BY <1>5
    <2> QED
      BY <1>1, <1>6, <2>1, <2>2 DEF Survives, Known
  <1>11. Somewhere'
    <2>1. Within(thread[t], holder[QueueLock].depth)'
      <3>1. holder'[QueueLock].depth = 1
        BY <1>5
      <3> QED
        BY <3>1
    <2>2. ASSUME NEW u \in Threads \ {t}
          PROVE  holder'[QueueLock].by # u /\ Outside(Len(Settled'.group), thread'[u])
      <3>1. thread'[u] = thread[u] /\ holder[QueueLock].by # u
        BY <1>3, ThreadsAssumption DEF Moves
      <3> QED
        BY <1>5, <1>6, <3>1, HoldsNot
    <2> QED
      BY <1>5, <2>1, <2>2 DEF Somewhere
  <1> QED
    BY <1>7, <1>8, <1>9, <1>10, <1>11 DEF Survives
-----------------------------------------------------------------------------
\* What a step does to the groups and to the two indexes.

LEMMA DataFacts ==
  ASSUME Data
  PROVE  /\ group \in Seq(GroupRecord) /\ Len(group) \in Nat /\ Handles = 1..Len(group)
         /\ \A h \in Handles : group[h] \in GroupRecord /\ Sound(group[h])
         /\ Waiting \subseteq Handles /\ Range(ready_groups) \subseteq Handles
         /\ Delivered \subseteq Handles
  <1>1. group \in Seq(GroupRecord)
    BY DEF Data, Counted
  <1>2. Len(group) \in Nat /\ Handles = 1..Len(group)
    BY <1>1 DEF Handles
  <1>3. \A h \in Handles : group[h] \in GroupRecord
    BY <1>1, <1>2, ElementOfSeq
  <1>4. Waiting \subseteq Handles /\ Range(ready_groups) \subseteq Handles
    BY DEF Data, Filed, Waiting, Range
  <1>5. Delivered \subseteq Handles
    <2>1. handed \in Seq([call: Departing, h: Handles])
      BY DEF Data, Parted
    <2>2. DOMAIN handed = 1..Len(handed)
      BY <2>1
    <2>3. \A i \in DOMAIN handed : handed[i] \in [call: Departing, h: Handles]
      BY <2>1, <2>2, ElementOfSeq
    <2> QED
      BY <2>3 DEF Delivered
  <1> QED
    BY <1>1, <1>2, <1>3, <1>4, <1>5 DEF Data, Counted

LEMMA DataSame ==
  ASSUME Data, UNCHANGED <<group, groups, ready_groups, next_sequence, handed>>
  PROVE  Data'
  BY DEF Data, Counted, Filed, Parted, Handles, Waiting, Delivered, Lost, Whole, Sound,
         HandedOnce, ReleasedWhole

LEMMA LongerSeq ==
  ASSUME NEW S, NEW T, S \subseteq T, NEW list \in Seq(S)
  PROVE  list \in Seq(T)
  OBVIOUS

\* What was handed over stays lost, and whole if it was released.
LEMMA PartedStays ==
  ASSUME Data, handed' = handed, Handles \subseteq Handles',
         \A h \in Handles : /\ Whole(h) => Whole(h)'
                            /\ Lost(h) /\ h \in Delivered => Lost(h)'
  PROVE  Parted'
  <1>1. handed' \in Seq([call: Departing, h: Handles'])
    <2>1. [call: Departing, h: Handles] \subseteq [call: Departing, h: Handles']
      OBVIOUS
    <2>2. handed' \in Seq([call: Departing, h: Handles])
      BY DEF Data, Parted
    <2> QED
      BY <2>1, <2>2, LongerSeq
  <1>2. Delivered' = Delivered
    BY DEF Delivered
  <1>3. \A h \in Delivered : h \in Handles /\ Lost(h)
    BY DataFacts DEF Data, Parted
  <1>4. \A h \in Delivered' : Lost(h)'
    BY <1>2, <1>3
  <1>5. HandedOnce'
    BY DEF Data, Parted, HandedOnce
  <1>6. ReleasedWhole'
    <2>1. ASSUME NEW i \in DOMAIN handed, handed[i].call \in {"release", "release_all"}
          PROVE  Whole(handed[i].h)'
      <3>1. PICK h : h = handed[i].h
        OBVIOUS
      <3>2. h \in Delivered
        BY <3>1 DEF Delivered
      <3>3. Whole(h)
        BY <2>1, <3>1 DEF Data, Parted, ReleasedWhole, Whole
      <3>4. Whole(h)'
        BY <1>3, <3>2, <3>3
      <3>5. h = handed'[i].h
        BY <3>1
      <3> QED
        BY <3>4, <3>5
    <2> QED
      BY <2>1 DEF ReleasedWhole, Whole
  <1> QED
    BY <1>1, <1>4, <1>5, <1>6 DEF Parted

\* Groups change, the indexes do not.
Alike(g, h) ==
  g.group_id = h.group_id /\ g.members = h.members /\ g.sequence = h.sequence
LEMMA GroupsChange ==
  ASSUME Data, UNCHANGED <<groups, ready_groups, next_sequence, handed>>,
         group' \in Seq(GroupRecord), Len(group') = Len(group),
         \A h \in Handles :
           /\ Sound(group'[h]) /\ Alike(group'[h], group[h])
           /\ Whole(h) => Whole(h)'
           /\ h \in Delivered /\ ~ group[h].on_ready => ~ group'[h].on_ready
  PROVE  Data'
  <1>1. Handles' = Handles
    BY DataFacts DEF Handles
  <1>2. Counted'
    BY <1>1 DEF Data, Counted
  <1>3. Filed'
    BY <1>1 DEF Data, Filed, Alike
  <1>4. Parted'
    <2>1. Waiting' = Waiting
      BY DEF Waiting
    <2>2. \A h \in Handles : Lost(h) /\ h \in Delivered => Lost(h)'
      BY <2>1 DEF Lost
    <2> QED
      BY <1>1, <2>2, PartedStays
  <1> QED
    BY <1>2, <1>3, <1>4 DEF Data

LEMMA OneChanges ==
  ASSUME Data, UNCHANGED <<groups, ready_groups, next_sequence, handed>>,
         NEW h \in Handles, NEW g \in GroupRecord, group' = [group EXCEPT ![h] = g],
         Sound(g), Alike(g, group[h]),
         Whole(h) => g.ready = g.members,
         h \in Delivered /\ ~ group[h].on_ready => ~ g.on_ready
  PROVE  /\ Data' /\ Len(group') = Len(group) /\ Handles' = Handles
         /\ group'[h] = g /\ \A x \in Handles \ {h} : group'[x] = group[x]
  <1>1. group \in Seq(GroupRecord) /\ Handles = 1..Len(group) /\ Len(group) \in Nat
        /\ \A x \in Handles : group[x] \in GroupRecord /\ Sound(group[x])
    BY DataFacts
  <1>2. group' \in Seq(GroupRecord) /\ Len(group') = Len(group)
        /\ group'[h] = g /\ \A x \in Handles \ {h} : group'[x] = group[x]
    BY <1>1, ExceptSeq
  <1>3. Handles' = Handles
    BY <1>1, <1>2 DEF Handles
  <1>4. ASSUME NEW x \in Handles
        PROVE  /\ Sound(group'[x]) /\ Alike(group'[x], group[x])
               /\ Whole(x) => Whole(x)'
               /\ x \in Delivered /\ ~ group[x].on_ready => ~ group'[x].on_ready
    <2>1. CASE x = h
      BY <1>2, <2>1 DEF Whole
    <2>2. CASE x # h
      BY <1>1, <1>2, <2>2 DEF Whole, Alike
    <2> QED
      BY <2>1, <2>2
  <1>5. Data'
    BY <1>2, <1>4, GroupsChange
  <1> QED
    BY <1>2, <1>3, <1>5

\* The indexes let groups go, or take one in that no caller has.
LEMMA IndexesChange ==
  ASSUME Data, UNCHANGED <<group, next_sequence, handed>>, Filed',
         \A h \in Waiting' : h \in Waiting \/ h \notin Delivered,
         \A h \in Range(ready_groups') : h \in Range(ready_groups) \/ h \notin Delivered
  PROVE  Data'
  <1>1. Handles' = Handles
    BY DEF Handles
  <1>2. Counted'
    BY <1>1 DEF Data, Counted
  <1>3. Parted'
    <2>1. \A h \in Handles : (Whole(h) => Whole(h)') /\ (Lost(h) /\ h \in Delivered => Lost(h)')
      BY DEF Whole, Lost
    <2> QED
      BY <1>1, <2>1, PartedStays
  <1> QED
    BY <1>2, <1>3 DEF Data

\* A call hands the groups of a list over.
Handing(t, list) ==
  handed' = handed \o [i \in DOMAIN list |-> [call |-> thread[t].call, h |-> list[i]]]
LEMMA HandsOver ==
  ASSUME Data, NEW t \in Threads, NEW list \in Seq(Handles \ Delivered), IsInjective(list),
         UNCHANGED group, Handing(t, list), thread[t].call \in Departing,
         \A h \in Delivered \cup Range(list) : Lost(h)',
         thread[t].call \in {"release", "release_all"} => \A h \in Range(list) : Whole(h)
  PROVE  Parted'
  <1> DEFINE call == thread[t].call
             more == [i \in DOMAIN list |-> [call |-> call, h |-> list[i]]]
             n == Len(handed)
             k == Len(list)
  <1>1. /\ handed \in Seq([call: Departing, h: Handles]) /\ n \in Nat /\ DOMAIN handed = 1..n
        /\ k \in Nat /\ DOMAIN list = 1..k
    BY DEF Data, Parted
  <1>2. more \in Seq([call: Departing, h: Handles]) /\ Len(more) = k
    <2>1. \A i \in 1..k : list[i] \in Handles
      BY <1>1
    <2>2. more \in [1..k -> [call: Departing, h: Handles]]
      BY <1>1, <2>1
    <2> QED
      BY <1>1, <2>2
  <1>3. handed' = handed \o more
    BY DEF Handing
  <1>4. \A i \in 1..k : more[i].call = call /\ more[i].h = list[i]
    BY <1>1
  <1> HIDE DEF more, n, k
  <1>5. /\ handed' \in Seq([call: Departing, h: Handles])
        /\ DOMAIN handed' = 1..(n + k)
        /\ \A i \in 1..n : handed'[i] = handed[i]
        /\ \A i \in (n + 1)..(n + k) : handed'[i] = more[i - n] /\ i - n \in 1..k
    BY <1>1, <1>2, <1>3, ConcatProperties DEF n
  <1> HIDE DEF call
  <1>6. \A i \in (n + 1)..(n + k) :
          handed'[i].h = list[i - n] /\ handed'[i].call = call /\ i - n \in DOMAIN list
    BY <1>1, <1>4, <1>5
  <1>7. Handles' = Handles
    BY DEF Handles
  <1>8. Delivered' = Delivered \cup Range(list)
    <2>1. \A i \in DOMAIN handed' : handed'[i].h \in Delivered \cup Range(list)
      <3>1. \A i \in 1..n : handed[i].h \in Delivered
        BY <1>1 DEF Delivered
      <3>2. \A i \in DOMAIN list : list[i] \in Range(list)
        BY DEF Range
      <3>3. \A i \in 1..(n + k) : i \in 1..n \/ i \in (n + 1)..(n + k)
        BY <1>1
      <3> QED
        BY <1>5, <1>6, <3>1, <3>2, <3>3
    <2>2. ASSUME NEW h \in Delivered
          PROVE  h \in Delivered'
      <3>1. PICK i \in 1..n : h = handed[i].h
        BY <1>1 DEF Delivered
      <3>2. i \in DOMAIN handed' /\ h = handed'[i].h
        BY <1>1, <1>5, <3>1
      <3> QED
        BY <3>2 DEF Delivered
    <2>3. ASSUME NEW h \in Range(list)
          PROVE  h \in Delivered'
      <3>1. PICK j \in 1..k : h = list[j]
        BY <1>1 DEF Range
      <3>2. n + j \in (n + 1)..(n + k) /\ n + j \in 1..(n + k) /\ (n + j) - n = j
        BY <1>1
      <3>3. n + j \in DOMAIN handed' /\ handed'[n + j].h = h
        BY <1>5, <1>6, <3>1, <3>2
      <3> QED
        BY <3>3 DEF Delivered
    <2>4. Delivered' \subseteq Delivered \cup Range(list)
      BY <2>1 DEF Delivered
    <2> QED
      BY <2>2, <2>3, <2>4
  <1>9. \A h \in Delivered' : Lost(h)'
    BY <1>8
  <1>10. \A i \in DOMAIN list : list[i] \notin Delivered
    BY <1>1
  <1>11. HandedOnce'
    <2>1. \A i \in 1..n : handed'[i].h \in Delivered
      BY <1>1, <1>5 DEF Delivered
    <2>2. \A i \in (n + 1)..(n + k) : handed'[i].h \notin Delivered
      BY <1>6, <1>10
    <2>3. \A i, j \in 1..n : handed'[i].h = handed'[j].h => i = j
      BY <1>1, <1>5 DEF Data, Parted, HandedOnce
    <2>4. ASSUME NEW i \in (n + 1)..(n + k), NEW j \in (n + 1)..(n + k),
                 handed'[i].h = handed'[j].h
          PROVE  i = j
      <3>1. i - n \in DOMAIN list /\ j - n \in DOMAIN list /\ list[i - n] = list[j - n]
        BY <1>6, <2>4
      <3>2. i - n = j - n
        BY <3>1 DEF IsInjective
      <3> QED
        BY <1>1, <3>2
    <2>5. \A i \in DOMAIN handed' : i \in 1..n \/ i \in (n + 1)..(n + k)
      BY <1>1, <1>5
    <2> QED
      BY <2>1, <2>2, <2>3, <2>4, <2>5 DEF HandedOnce
  <1>12. ReleasedWhole'
    <2>1. \A h : Whole(h) <=> group'[h].ready = group'[h].members
      BY DEF Whole
    <2>2. ASSUME NEW i \in 1..n, handed'[i].call \in {"release", "release_all"}
          PROVE  Whole(handed'[i].h)
      <3>1. handed'[i] = handed[i] /\ i \in DOMAIN handed
        BY <1>1, <1>5
      <3> QED
        BY <2>2, <3>1 DEF Data, Parted, ReleasedWhole, Whole
    <2>3. ASSUME NEW i \in (n + 1)..(n + k), handed'[i].call \in {"release", "release_all"}
          PROVE  Whole(handed'[i].h)
      <3>1. handed'[i].h \in Range(list) /\ call \in {"release", "release_all"}
        BY <1>6, <2>3 DEF Range
      <3> QED
        BY <3>1 DEF call
    <2>4. \A i \in DOMAIN handed' : i \in 1..n \/ i \in (n + 1)..(n + k)
      BY <1>1, <1>5
    <2> QED
      BY <2>1, <2>2, <2>3, <2>4 DEF ReleasedWhole
  <1> QED
    BY <1>5, <1>7, <1>9, <1>11, <1>12 DEF Parted

\* What IStep says of handed.
Hands(t) ==
  handed' = IF thread[t].call \in Departing /\ thread'[t] = Idle
            THEN handed \o [i \in DOMAIN result'.groups |->
                              [call |-> thread[t].call, h |-> result'.groups[i]]]
            ELSE handed

LEMMA KeepsHanded ==
  ASSUME NEW t, Hands(t), thread'[t].at # "idle" \/ thread[t].call \notin Departing
  PROVE  handed' = handed
  BY DEF Hands, Idle, Frame

\* A call returns with a list of groups.
LEMMA HandsBack ==
  ASSUME Survives, NEW t \in Threads, NEW value, NEW list, Return(t, value, list), Hands(t)
  PROVE  /\ End(t)
         /\ thread[t].call \in Departing => Handing(t, list)
         /\ thread[t].call \notin Departing => handed' = handed
  <1>1. End(t) /\ thread'[t] = Idle
    BY EndMoves DEF Return, Survives
  <1>2. result'.groups = list
    BY DEF Return, Returns
  <1> QED
    BY <1>1, <1>2 DEF Hands, Handing

\* A call returns with nothing.
LEMMA HandsNothing ==
  ASSUME Survives, NEW t \in Threads, NEW value, Return(t, value, <<>>), Hands(t),
         UNCHANGED <<group, groups, ready_groups, next_sequence, alive, lock_of>>,
         holder[QueueLock].by = t, ~ Unborn(thread[t])
  PROVE  Survives'
  <1>1. Data
    BY DEF Survives
  <1>2. handed' = handed
    <2>1. CASE thread[t].call \in Departing
      <3>1. Handing(t, <<>>)
        BY <2>1, HandsBack
      <3>2. handed \in Seq([call: Departing, h: Handles])
        BY <1>1 DEF Data, Parted
      <3>3. [i \in DOMAIN <<>> |-> [call |-> thread[t].call, h |-> <<>>[i]]] = <<>>
        OBVIOUS
      <3>4. handed \o <<>> = handed
        BY <3>2, ConcatEmptySeq
      <3> QED
        BY <3>1, <3>3, <3>4 DEF Handing
    <2>2. CASE thread[t].call \notin Departing
      BY <2>2, HandsBack
    <2> QED
      BY <2>1, <2>2
  <1>3. Data'
    BY <1>1, <1>2, DataSame
  <1>4. Len(before.group) <= Len(group')
    BY Holds, LockFacts
  <1>5. lock_of' \in Seq({QueueLock}) /\ Len(lock_of') = Len(group')
    BY DEF Survives, OneLock
  <1> QED
    BY <1>3, <1>4, <1>5, HandsBack, EndKeeps

\* A call returns with the groups that it has taken out.
LEMMA HandsTaken ==
  ASSUME Survives, NEW t \in Threads, NEW value, NEW list \in Seq(Handles \ Delivered),
         Return(t, value, list), Hands(t), thread[t].call \in Departing,
         UNCHANGED <<group, next_sequence, alive, lock_of>>,
         holder[QueueLock].by = t, ~ Unborn(thread[t]),
         IsInjective(list), Counted', Filed',
         \A h \in Delivered \cup Range(list) : Lost(h)',
         thread[t].call \in {"release", "release_all"} => \A h \in Range(list) : Whole(h)
  PROVE  Survives'
  <1>1. Parted'
    BY HandsBack, HandsOver DEF Survives
  <1>2. Data'
    BY <1>1 DEF Data
  <1>3. Len(before.group) <= Len(group')
    BY Holds, LockFacts
  <1>4. lock_of' \in Seq({QueueLock}) /\ Len(lock_of') = Len(group')
    BY DEF Survives, OneLock
  <1> QED
    BY <1>2, <1>3, <1>4, HandsBack, EndKeeps
-----------------------------------------------------------------------------
\* Calls begin.

LEMMA IdleHoldsNot ==
  ASSUME Survives, NEW t \in Threads, At(t, "idle")
  PROVE  holder[QueueLock].by # t /\ thread[t] = Idle
  BY HoldsAt, HoldsNot DEF At, Outside

LEMMA LockOfGroup ==
  ASSUME Survives, NEW h \in Handles
  PROVE  lock_of[h] = QueueLock
  <1>1. lock_of \in Seq({QueueLock}) /\ h \in 1..Len(lock_of)
    BY LockFacts DEF Survives, OneLock
  <1> QED
    BY <1>1, ElementOfSeq

LEMMA BeginKeeps ==
  ASSUME Survives, NEW t \in Threads, NEW frame, Begin(t, frame), FrameForm(frame),
         Outside(Len(Settled.group), frame), UNCHANGED handed,
         frame.keeps \in BOOLEAN, frame.keeps => alive
  PROVE  Survives'
  <1>1. holder[QueueLock].by # t
    BY IdleHoldsNot DEF Begin
  <1>2. /\ thread' = [thread EXCEPT ![t] = frame] /\ DOMAIN thread = Threads
        /\ UNCHANGED <<vars, holder, lock_of, before>>
    BY DEF Begin, Survives, Framed
  <1>3. thread'[t] = frame /\ Moves(t)
    BY <1>2 DEF Moves
  <1>4. UNCHANGED <<group, queue>>
    BY <1>2 DEF vars
  <1>5. Data'
    BY <1>4, DataSame DEF Survives, queue
  <1> QED
    BY <1>1, <1>2, <1>3, <1>4, <1>5, OutsideKeeps

LEMMA BeginOnQueueKeeps ==
  ASSUME Survives, NEW t \in Threads, NEW call, NEW arg, BeginOnQueue(t, call, arg),
         UNCHANGED handed,
         \A f : f.call = call /\ f.arg = arg /\ f.keeps /\ f.out = <<>> => Acquiring(f)
  PROVE  Survives'
  <1> DEFINE base == Frame("acquire", call, arg)
             frame == [base EXCEPT !.keeps = TRUE]
  <1>1. base = [at |-> "acquire", call |-> call, arg |-> arg, h |-> 0, left |-> {},
                now |-> {}, out |-> <<>>, keeps |-> FALSE]
    BY DEF Frame
  <1>2. Begin(t, frame) /\ alive
    BY DEF BeginOnQueue
  <1> HIDE DEF base
  <1>3. frame = [at |-> "acquire", call |-> call, arg |-> arg, h |-> 0, left |-> {},
                 now |-> {}, out |-> <<>>, keeps |-> TRUE]
    <2>1. frame = [base EXCEPT !.keeps = TRUE]
      OBVIOUS
    <2> HIDE DEF frame
    <2> QED
      BY <1>1, <2>1
  <1> HIDE DEF frame
  <1>4. /\ frame.at = "acquire" /\ frame.call = call /\ frame.arg = arg
        /\ frame.out = <<>> /\ frame.keeps = TRUE /\ FrameForm(frame)
    BY <1>3 DEF FrameForm
  <1>5. Outside(Len(Settled.group), frame)
    BY <1>4 DEF Outside
  <1> QED
    BY <1>2, <1>4, <1>5, BeginKeeps

LEMMA BuildRefusedKeeps ==
  ASSUME Survives, NEW t \in Threads, NEW id, NEW list, BuildRefused(t, id, list),
         UNCHANGED handed
  PROVE  Survives'
  <1>1. holder[QueueLock].by # t /\ thread[t] = Idle
    BY IdleHoldsNot DEF BuildRefused
  <1>2. UNCHANGED <<group, queue, thread, holder, lock_of, before>>
    BY DEF BuildRefused
  <1>3. Moves(t)
    BY <1>2 DEF Moves, Survives, Framed
  <1>4. Data'
    BY <1>2, DataSame DEF Survives, queue
  <1>5. Outside(Len(Settled.group), thread'[t])
    BY <1>1, <1>2, HoldsNot
  <1>6. thread'[t].keeps \in BOOLEAN /\ (thread'[t].keeps => alive)
    BY <1>2 DEF Survives, Framed
  <1> QED
    BY <1>1, <1>2, <1>3, <1>4, <1>5, <1>6, OutsideKeeps

LEMMA BeginHandleKeeps ==
  ASSUME Survives, NEW t \in Threads, NEW h \in Published, NEW m \in Members,
         BeginHandle(t, h, m), UNCHANGED handed
  PROVE  Survives'
  <1> DEFINE base == Frame("enter", "mark_ready", <<m>>)
             frame == [base EXCEPT !.h = h, !.left = {m}]
  <1>1. base = [at |-> "enter", call |-> "mark_ready", arg |-> <<m>>, h |-> 0,
                left |-> {}, now |-> {}, out |-> <<>>, keeps |-> FALSE]
    BY DEF Frame
  <1>2. Begin(t, frame)
    BY DEF BeginHandle
  <1> HIDE DEF base
  <1>3. frame = [at |-> "enter", call |-> "mark_ready", arg |-> <<m>>, h |-> h,
                 left |-> {m}, now |-> {}, out |-> <<>>, keeps |-> FALSE]
    <2>1. frame = [[base EXCEPT !.h = h] EXCEPT !.left = {m}]
      OBVIOUS
    <2> HIDE DEF frame
    <2> QED
      BY <1>1, <2>1
  <1> HIDE DEF frame
  <1>4. /\ frame.at = "enter" /\ frame.call = "mark_ready" /\ frame.h = h
        /\ frame.left = {m} /\ frame.keeps = FALSE /\ FrameForm(frame)
    BY <1>3 DEF FrameForm
  <1>5. Outside(Len(Settled.group), frame)
    BY <1>4, LockFacts DEF Outside, Entering, Published
  <1> QED
    BY <1>2, <1>4, <1>5, BeginKeeps

LEMMA BeginReprKeeps ==
  ASSUME Survives, NEW t \in Threads, NEW h \in Published, BeginRepr(t, h),
         UNCHANGED handed
  PROVE  Survives'
  <1> DEFINE base == Frame("repr_count", "repr", <<>>)
             next == thread'[t]
  <1>1. holder[QueueLock].by # t
    BY IdleHoldsNot DEF BeginRepr
  <1>2. h \in Handles /\ lock_of[h] = QueueLock
    BY LockFacts, LockOfGroup
  <1>3. Take(t, QueueLock) /\ UNCHANGED <<vars, lock_of>>
    BY <1>2 DEF BeginRepr
  <1>4. base = [at |-> "repr_count", call |-> "repr", arg |-> <<>>, h |-> 0, left |-> {},
                now |-> {}, out |-> <<>>, keeps |-> FALSE]
    BY DEF Frame
  <1> HIDE DEF base
  <1>5. thread' = [thread EXCEPT ![t] = [base EXCEPT !.h = h]]
    BY DEF BeginRepr, base
  <1>6. next = [base EXCEPT !.h = h] /\ DOMAIN thread' = Threads
        /\ \A u \in Threads \ {t} : thread'[u] = thread[u]
    BY <1>5 DEF Survives, Framed
  <1> HIDE DEF next
  <1>7. /\ next.at = "repr_count" /\ next.call = "repr" /\ next.h = h
        /\ next.keeps = FALSE /\ FrameForm(next)
    BY <1>4, <1>6 DEF FrameForm
  <1>8. Moves(t)
    BY <1>6, <1>7 DEF Moves, next
  <1>9. Data'
    BY <1>3, DataSame DEF Survives, vars, queue
  <1>10. group' = group
    BY <1>3 DEF vars
  <1>11. ~ Unborn(next) /\ Within(thread[t], 1)'
    BY <1>2, <1>7, <1>10 DEF Within, Unborn, next, Handles
  <1> QED
    BY <1>1, <1>3, <1>7, <1>8, <1>9, <1>11, TakeKeeps DEF next

LEMMA CallKeeps ==
  ASSUME Survives, NEW t \in Threads, ICall(t)
  PROVE  Survives'
  <1>1. Call(t) /\ handed' = handed
    BY DEF ICall
  <1>2. ASSUME NEW id \in GroupIds, NEW list \in MemberLists,
               BeginAdmit(t, id, list) \/ BuildRefused(t, id, list)
        PROVE  Survives'
    <2>1. CASE BeginAdmit(t, id, list)
      <3>1. BeginOnQueue(t, "admit", <<id, list>>) /\ WellFormed(list)
        BY <2>1 DEF BeginAdmit
      <3>2. \A f : f.call = "admit" /\ f.arg = <<id, list>> /\ f.keeps /\ f.out = <<>>
                     => Acquiring(f)
        BY <3>1 DEF Acquiring, AdmitCall
      <3> QED
        BY <1>1, <3>1, <3>2, BeginOnQueueKeeps
    <2> QED
      BY <1>1, <1>2, <2>1, BuildRefusedKeeps
  <1>3. ASSUME NEW m \in Members, BeginMember(t, m)
        PROVE  Survives'
    <2>1. BeginOnQueue(t, "mark_ready", <<m>>)
      BY <1>3 DEF BeginMember
    <2>2. \A f : f.call = "mark_ready" /\ f.arg = <<m>> /\ f.keeps /\ f.out = <<>>
                   => Acquiring(f)
      BY DEF Acquiring, FindCall
    <2> QED
      BY <1>1, <2>1, <2>2, BeginOnQueueKeeps
  <1>4. ASSUME NEW id \in GroupIds, NEW call \in {"mark_group_ready", "cancel"},
               BeginGroup(t, call, id)
        PROVE  Survives'
    <2>1. BeginOnQueue(t, call, <<id>>)
      BY <1>4 DEF BeginGroup
    <2>2. \A f : f.call = call /\ f.arg = <<id>> /\ f.keeps /\ f.out = <<>> => Acquiring(f)
      BY DEF Acquiring, FindCall
    <2> QED
      BY <1>1, <2>1, <2>2, BeginOnQueueKeeps
  <1>5. ASSUME NEW call \in {"peek", "release", "release_all", "clear"}, BeginQueue(t, call)
        PROVE  Survives'
    <2>1. BeginOnQueue(t, call, <<>>)
      BY <1>5 DEF BeginQueue
    <2>2. \A f : f.call = call /\ f.arg = <<>> /\ f.keeps /\ f.out = <<>> => Acquiring(f)
      BY DEF Acquiring, PeekCall, ClearCall
    <2> QED
      BY <1>1, <2>1, <2>2, BeginOnQueueKeeps
  <1>6. ASSUME NEW h \in Published, BeginRepr(t, h) \/ \E m \in Members : BeginHandle(t, h, m)
        PROVE  Survives'
    BY <1>1, <1>6, BeginReprKeeps, BeginHandleKeeps
  <1> QED
    BY <1>1, <1>2, <1>3, <1>4, <1>5, <1>6 DEF Call

LEMMA AcquireKeeps ==
  ASSUME Survives, NEW t \in Threads, Acquire(t), Hands(t)
  PROVE  Survives'
  <1> DEFINE f == thread[t]
             next == thread'[t]
  <1>1. holder[QueueLock].by # t /\ f.at = "acquire"
    BY HoldsAt DEF Acquire, At
  <1>2. Acquiring(f)
    BY <1>1, HoldsNot DEF Outside, Idle, Frame
  <1>3. /\ Moves(t) /\ next.at = FirstLabel[f.call] /\ next.call = f.call
        /\ next.arg = f.arg /\ next.out = f.out /\ next.keeps = f.keeps
    BY GotoMoves DEF Acquire, Survives
  <1>4. f.keeps \in BOOLEAN /\ (f.keeps => alive)
    BY DEF Survives, Framed
  <1>5. Take(t, QueueLock) /\ UNCHANGED <<vars, lock_of>>
    BY DEF Acquire
  <1>6. /\ next.at # "idle" /\ ~ Unborn(next) /\ Within(thread[t], 1)'
    <2>1. CASE \E id \in GroupIds, list \in MemberLists : AdmitCall(f, id, list)
      <3>1. next.at = "check" /\ next.call = "admit"
        BY <1>3, <2>1 DEF FirstLabel, AdmitCall
      <3>2. \E id \in GroupIds, list \in MemberLists : next.arg = <<id, list>>
        BY <1>3, <2>1 DEF AdmitCall
      <3> QED
        BY <3>1, <3>2 DEF Within, Unborn
    <2>2. CASE FindCall(f)
      <3>1. next.at = "find"
        BY <1>3, <2>2 DEF FirstLabel, FindCall
      <3>2. FindCall(next) /\ next.out = <<>>
        BY <1>2, <1>3, <2>2 DEF FindCall, Acquiring
      <3> QED
        BY <3>1, <3>2 DEF Within, Unborn
    <2>3. CASE PeekCall(f)
      <3>1. next.at = "peek"
        BY <1>3, <2>3 DEF FirstLabel, PeekCall
      <3>2. next.call \in {"peek", "release", "release_all"}
        BY <1>3, <2>3 DEF PeekCall
      <3>3. next.out = <<>>
        BY <1>2, <1>3 DEF Acquiring
      <3>4. Carries(thread[t])'
        BY <3>3 DEF Carries, Range, IsInjective
      <3> QED
        BY <3>1, <3>2, <3>4 DEF Within, Unborn
    <2>4. CASE ClearCall(f)
      <3>1. next.at = "clear_callbacks" /\ next.call = "clear"
        BY <1>3, <2>4 DEF FirstLabel, ClearCall
      <3> QED
        BY <3>1 DEF Within, Unborn
    <2> QED
      BY <1>2, <2>1, <2>2, <2>3, <2>4 DEF Acquiring
  <1>7. Data'
    BY <1>5, <1>6, KeepsHanded, DataSame DEF Survives, vars, queue
  <1> QED
    BY <1>1, <1>3, <1>4, <1>5, <1>6, <1>7, TakeKeeps
-----------------------------------------------------------------------------
\* admit.

LEMMA CheckFailsKeeps ==
  ASSUME Survives, NEW t \in Threads, CheckFails(t), Hands(t)
  PROVE  Survives'
  <1>1. holder[QueueLock].by = t /\ ~ Unborn(thread[t])
    BY HoldsAt DEF CheckFails, At, Unborn
  <1> QED
    BY <1>1, HandsNothing DEF CheckFails, queue

LEMMA CheckKeeps ==
  ASSUME Survives, NEW t \in Threads, Check(t), Hands(t)
  PROVE  Survives'
  <1> DEFINE f == thread[t]
             next == thread'[t]
             n == Len(group)
  <1>1. f.at = "check" /\ holder[QueueLock].by = t /\ ~ Unborn(f)
        /\ Within(f, holder[QueueLock].depth)
    BY HoldsAt DEF Check, At, Unborn
  <1>2. PICK id \in GroupIds, list \in MemberLists : f.call = "admit" /\ f.arg = <<id, list>>
    BY <1>1 DEF Within
  <1>3. f.arg[1] = id /\ f.arg[2] = list
    BY <1>2
  <1>4. /\ Admissible(id, list)
        /\ group' = Append(group, [NewGroup(id, list) EXCEPT !.on_ready = FALSE])
        /\ next_sequence' = next_sequence + 1
        /\ lock_of' = Append(lock_of, QueueLock)
        /\ GotoWith(t, "insert", n + 1, Range(list))
        /\ UNCHANGED <<groups, member_index, ready_groups, ready_heap, private, holder>>
    BY <1>3 DEF Check, Donated
  <1>5. /\ Moves(t) /\ next.at = "insert" /\ next.call = "admit" /\ next.arg = f.arg
        /\ next.h = n + 1 /\ next.keeps = f.keeps
    BY <1>2, <1>4, GotoWithMoves DEF Survives
  <1>6. handed' = handed
    BY <1>5, KeepsHanded
  <1> DEFINE new == [group_id |-> id, members |-> Range(list), ready |-> {},
                     ready_count |-> 0, sequence |-> next_sequence, on_ready |-> FALSE]
  <1>7. group' = Append(group, new)
    <2> DEFINE base == NewGroup(id, list)
               notes == ~ StrictOrder
    <2>1. base = [group_id |-> id, members |-> Range(list), ready |-> {}, ready_count |-> 0,
                  sequence |-> next_sequence, on_ready |-> notes]
      BY DEF NewGroup
    <2>2. group' = Append(group, [base EXCEPT !.on_ready = FALSE])
      BY <1>4
    <2> HIDE DEF base, notes
    <2>3. \A b : [group_id |-> id, members |-> Range(list), ready |-> {}, ready_count |-> 0,
                  sequence |-> next_sequence, on_ready |-> b] = [base EXCEPT !.on_ready = b]
      BY <2>1
    <2>4. new = [base EXCEPT !.on_ready = FALSE]
      BY <2>3, Zenon
    <2> QED
      BY <2>2, <2>4
  <1>8. Data /\ next_sequence \in Nat
    BY DEF Survives, Data, Counted
  <1>9. Range(list) \subseteq Members /\ IsFiniteSet(Range(list))
    BY <1>4, SameLists, Order!WellFormedLength DEF Admissible
  <1>10. new \in GroupRecord
    BY <1>8, <1>9 DEF GroupRecord
  <1>11. Sound(new)
    BY FS_EmptySet DEF Sound
  <1>12. new.group_id = id
    OBVIOUS
  <1> HIDE DEF new
  <1>13. n \in Nat /\ Handles = 1..n /\ group \in Seq(GroupRecord)
    BY <1>8, DataFacts
  <1>14. /\ group' \in Seq(GroupRecord) /\ Len(group') = n + 1 /\ Handles' = 1..(n + 1)
         /\ group'[n + 1] = new /\ \A h \in Handles : group'[h] = group[h]
    <2>1. group' \in Seq(GroupRecord) /\ Len(group') = n + 1
      BY <1>7, <1>10, <1>13, AppendProperties
    <2>2. Handles' = 1..(n + 1)
      BY <2>1 DEF Handles
    <2>3. group'[n + 1] = new /\ \A h \in 1..n : group'[h] = group[h]
      BY <1>7, <1>10, <1>13, AppendProperties
    <2> QED
      BY <1>13, <2>1, <2>2, <2>3
  <1>15. Counted'
    <2>1. \A h \in Handles' : Sound(group'[h])
      <3>1. \A h \in Handles' : h \in Handles \/ h = n + 1
        BY <1>13, <1>14
      <3> QED
        BY <1>8, <1>11, <1>14, <3>1, DataFacts
    <2>2. next_sequence' \in Nat
      BY <1>4, <1>8
    <2> QED
      BY <1>14, <2>1, <2>2 DEF Counted
  <1>16. Handles \subseteq Handles' /\ n + 1 \notin Handles /\ n + 1 \in Handles'
    BY <1>13, <1>14
  <1>17. UNCHANGED <<groups, ready_groups, handed>>
    BY <1>4, <1>6
  <1>18. Filed'
    <2>1. \A h \in Handles : Whole(h) => Whole(h)'
      BY <1>14 DEF Whole
    <2> QED
      BY <1>8, <1>14, <1>16, <1>17, <2>1 DEF Data, Filed
  <1>19. Parted'
    <2>1. Waiting' = Waiting
      BY <1>17 DEF Waiting
    <2>2. \A h \in Handles : (Whole(h) => Whole(h)') /\ (Lost(h) => Lost(h)')
      BY <1>14, <1>17, <2>1 DEF Whole, Lost
    <2> QED
      BY <1>8, <1>16, <1>17, <2>2, PartedStays
  <1>20. Data'
    BY <1>15, <1>18, <1>19 DEF Data
  <1>21. Within(thread[t], holder[QueueLock].depth)'
    <2>1. Waiting' = Waiting /\ Delivered' = Delivered
      BY <1>17 DEF Waiting, Delivered
    <2>2. n + 1 \notin Waiting' /\ n + 1 \notin Range(ready_groups') /\ n + 1 \notin Delivered'
      BY <1>8, <1>16, <1>17, <2>1, DataFacts
    <2>3. Admits(thread[t])'
      BY <1>5, <1>14, <1>16, <2>2 DEF Admits
    <2>4. group'[next.h].group_id = next.arg[1]
      BY <1>3, <1>5, <1>12, <1>14
    <2> QED
      BY <1>5, <2>2, <2>3, <2>4 DEF Within
  <1>22. PICK depth \in Nat \ {0} : depth = holder[QueueLock].depth
    BY <1>1, Holds
  <1>23. Within(thread[t], depth)'
    <2>1. depth = holder'[QueueLock].depth
      BY <1>4, <1>22
    <2> QED
      BY <1>21, <2>1
  <1>24. holder' = [holder EXCEPT ![QueueLock] = [by |-> t, depth |-> depth]]
    BY <1>1, <1>4, <1>22, Holds
  <1>25. lock_of' \in Seq({QueueLock}) /\ Len(lock_of') = n + 1
    <2>1. lock_of \in Seq({QueueLock}) /\ Len(lock_of) = n
      BY DEF Survives, OneLock
    <2> QED
      BY <1>4, <2>1, AppendProperties
  <1>26. Len(group') = IF Unborn(next) THEN Len(before.group) + 1 ELSE Len(before.group)
    BY <1>1, <1>5, <1>14, Holds DEF Unborn
  <1>27. next.keeps \in BOOLEAN /\ (next.keeps => alive)
    BY <1>5 DEF Survives, Framed
  <1> QED
    BY <1>1, <1>4, <1>5, <1>14, <1>20, <1>23, <1>24, <1>25, <1>26, <1>27, InnerKeeps
       DEF private

LEMMA InsertKeeps ==
  ASSUME Survives, NEW t \in Threads, Insert(t), Hands(t)
  PROVE  Survives'
  <1> DEFINE f == thread[t]
             next == thread'[t]
  <1>1. f.at = "insert" /\ holder[QueueLock].by = t /\ Within(f, holder[QueueLock].depth)
    BY HoldsAt DEF Insert, At
  <1>2. Admits(f) /\ group[f.h].group_id = f.arg[1]
    BY <1>1 DEF Within
  <1>3. PICK h \in Handles : h = f.h /\ h \notin Delivered
    BY <1>2 DEF Admits
  <1>4. PICK id : id = f.arg[1]
    OBVIOUS
  <1>5. /\ groups' = Put(groups, id, h) /\ Goto(t, "index")
        /\ UNCHANGED <<group, member_index, next_sequence, ready_groups, ready_heap,
                       private, holder, lock_of>>
    BY <1>3, <1>4 DEF Insert
  <1>6. /\ Moves(t) /\ next.at = "index" /\ next.call = f.call /\ next.h = f.h
        /\ next.keeps = f.keeps
    BY <1>5, GotoMoves DEF Survives
  <1>7. handed' = handed
    BY <1>6, KeepsHanded
  <1>8. /\ DOMAIN groups' = DOMAIN groups \cup {id}
        /\ \A x \in DOMAIN groups' : groups'[x] = IF x = id THEN h ELSE groups[x]
    BY <1>5 DEF Put
  <1>9. Filed'
    <2>1. \A x \in DOMAIN groups' : groups'[x] \in Handles' /\ group'[groups'[x]].group_id = x
      BY <1>2, <1>3, <1>4, <1>5, <1>8 DEF Handles, Survives, Data, Filed
    <2>2. \A s \in DOMAIN ready_groups :
            /\ ready_groups[s] \in Handles /\ group[ready_groups[s]].sequence = s
            /\ Whole(ready_groups[s])
      BY DEF Survives, Data, Filed
    <2> QED
      BY <1>5, <2>1, <2>2 DEF Filed, Handles, Whole
  <1>10. \A x \in Waiting' : x \in Waiting \/ x \notin Delivered
    BY <1>3, <1>8 DEF Waiting
  <1>11. Data'
    BY <1>5, <1>7, <1>9, <1>10, IndexesChange DEF Survives
  <1>12. Within(thread[t], holder[QueueLock].depth)'
    <2>1. Admits(thread[t])'
      BY <1>2, <1>5, <1>6, <1>7 DEF Admits, Handles, Delivered
    <2> QED
      BY <1>6, <2>1 DEF Within
  <1> QED
    BY <1>1, <1>5, <1>6, <1>11, <1>12, StaysKeeps DEF private, Unborn

LEMMA IndexKeeps ==
  ASSUME Survives, NEW t \in Threads, NEW m, Index(t, m), Hands(t)
  PROVE  Survives'
  <1> DEFINE f == thread[t]
             next == thread'[t]
             label == IF f.left = {m} THEN "install" ELSE "index"
  <1>1. f.at = "index" /\ holder[QueueLock].by = t /\ Within(f, holder[QueueLock].depth)
    BY HoldsAt DEF Index, At
  <1>2. Admits(f)
    BY <1>1 DEF Within
  <1>3. /\ GotoWith(t, label, f.h, f.left \ {m})
        /\ UNCHANGED <<group, groups, next_sequence, ready_groups, ready_heap,
                       private, holder, lock_of>>
    BY DEF Index
  <1>4. label \in {"index", "install"}
    OBVIOUS
  <1> HIDE DEF label
  <1>5. /\ Moves(t) /\ next.at = label /\ next.call = f.call /\ next.h = f.h
        /\ next.keeps = f.keeps
    BY <1>3, GotoWithMoves DEF Survives
  <1>6. handed' = handed
    BY <1>4, <1>5, KeepsHanded
  <1>7. Data'
    BY <1>3, <1>6, DataSame DEF Survives
  <1>8. Within(thread[t], holder[QueueLock].depth)'
    <2>1. Admits(thread[t])'
      BY <1>2, <1>3, <1>5, <1>6 DEF Admits, Handles, Delivered
    <2> QED
      BY <1>4, <1>5, <2>1 DEF Within
  <1> QED
    BY <1>1, <1>3, <1>4, <1>5, <1>7, <1>8, StaysKeeps DEF private, Unborn

LEMMA InstallKeeps ==
  ASSUME Survives, NEW t \in Threads, Install(t), Hands(t)
  PROVE  Survives'
  <1> DEFINE f == thread[t]
             notes == ~ StrictOrder
  <1>1. f.at = "install" /\ holder[QueueLock].by = t /\ Within(f, holder[QueueLock].depth)
    BY HoldsAt DEF Install, At
  <1>2. Admits(f)
    BY <1>1 DEF Within
  <1>3. PICK h \in Handles : h = f.h /\ h \notin Delivered
    BY <1>2 DEF Admits
  <1>4. /\ group' = [group EXCEPT ![h] = [group[h] EXCEPT !.on_ready = notes]]
        /\ Return(t, "Group", <<f.h>>) /\ UNCHANGED <<queue, lock_of>>
    BY <1>3 DEF Install
  <1>5. notes \in BOOLEAN
    BY PolicyAssumption
  <1> HIDE DEF notes
  <1>6. End(t) /\ handed' = handed
    BY <1>2, <1>4, HandsBack DEF Admits, Departing
  <1>7. PICK g \in GroupRecord : g = group[h] /\ Sound(g)
    BY DataFacts DEF Survives
  <1>8. PICK new : new = [g EXCEPT !.on_ready = notes]
    OBVIOUS
  <1>9. /\ new \in GroupRecord /\ Alike(new, g) /\ new.ready = g.ready
        /\ new.ready_count = g.ready_count
    BY <1>5, <1>8 DEF GroupRecord, Alike
  <1>10. Sound(new)
    BY <1>7, <1>9 DEF Sound, Alike
  <1>11. Whole(h) => new.ready = new.members
    BY <1>7, <1>9 DEF Whole, Alike
  <1>12. Data' /\ Len(group') = Len(group)
    BY <1>3, <1>4, <1>6, <1>7, <1>8, <1>9, <1>10, <1>11, OneChanges DEF Survives, queue
  <1>13. lock_of' \in Seq({QueueLock}) /\ Len(lock_of') = Len(group')
    BY <1>4, <1>12 DEF Survives, OneLock
  <1>14. Len(before.group) <= Len(group')
    <2>1. Len(before.group) \in Nat
      BY <1>1, Holds, LockFacts
    <2> QED
      BY <1>1, <1>12, <2>1, Holds
  <1>15. alive' = alive
    BY <1>4 DEF queue
  <1> QED
    BY <1>1, <1>6, <1>12, <1>13, <1>14, <1>15, EndKeeps
-----------------------------------------------------------------------------
\* group_of and _find.

LEMMA FindFailsKeeps ==
  ASSUME Survives, NEW t \in Threads, FindFails(t), Hands(t)
  PROVE  Survives'
  <1>1. holder[QueueLock].by = t /\ ~ Unborn(thread[t])
    BY HoldsAt DEF FindFails, At, Unborn
  <1> DEFINE value == IF thread[t].call = "mark_ready" /\ Key(t) # {} THEN "KeyError"
                      ELSE "TitoError"
  <1>2. Return(t, value, <<>>) /\ UNCHANGED <<group, queue, lock_of>>
    BY DEF FindFails
  <1> HIDE DEF value
  <1> QED
    BY <1>1, <1>2, HandsNothing DEF queue

LEMMA FindKeeps ==
  ASSUME Survives, NEW t \in Threads, Find(t), Hands(t)
  PROVE  Survives'
  <1> DEFINE f == thread[t]
             next == thread'[t]
  <1>1. f.at = "find" /\ holder[QueueLock].by = t /\ Within(f, holder[QueueLock].depth)
    BY HoldsAt DEF Find, At
  <1>2. FindCall(f) /\ holder[QueueLock].depth = 1 /\ f.out = <<>>
    BY <1>1 DEF Within
  <1>3. PICK h \in Found(t) :
          CASE f.call = "mark_ready"       -> GotoWith(t, "enter", h, {f.arg[1]})
            [] f.call = "mark_group_ready" -> GotoWith(t, "enter", h, group[h].members)
            [] f.call = "cancel"           -> GotoWith(t, "del_group", h, {})
    BY DEF Find
  <1>4. UNCHANGED <<vars, holder, lock_of, before>>
    BY DEF Find
  <1>5. h \in Waiting /\ h \in Handles /\ h \notin Delivered
    <2>1. h \in Waiting
      BY <1>3 DEF Found, Waiting
    <2> QED
      BY <2>1, DataFacts DEF Survives, Data, Parted, Lost
  <1>6. /\ Moves(t) /\ next.call = f.call /\ next.h = h /\ next.out = <<>>
        /\ next.keeps = f.keeps /\ next.at \in {"enter", "del_group"}
        /\ f.call = "mark_ready" => next.at = "enter" /\ next.left = {f.arg[1]}
        /\ f.call = "mark_group_ready" => next.at = "enter"
        /\ f.call = "cancel" => next.at = "del_group"
    <2>1. CASE f.call = "mark_ready"
      <3>1. GotoWith(t, "enter", h, {f.arg[1]})
        BY <1>3, <2>1
      <3> QED
        BY <1>2, <2>1, <3>1, GotoWithMoves DEF Survives
    <2>2. CASE f.call = "mark_group_ready"
      <3>1. GotoWith(t, "enter", h, group[h].members)
        BY <1>3, <2>2
      <3> QED
        BY <1>2, <2>2, <3>1, GotoWithMoves DEF Survives
    <2>3. CASE f.call = "cancel"
      <3>1. GotoWith(t, "del_group", h, {})
        BY <1>3, <2>3
      <3> QED
        BY <1>2, <2>3, <3>1, GotoWithMoves DEF Survives
    <2> QED
      BY <1>2, <2>1, <2>2, <2>3 DEF FindCall
  <1>7. handed' = handed /\ UNCHANGED <<group, groups, ready_groups, next_sequence, alive>>
    BY <1>4, <1>6, KeepsHanded DEF vars, queue
  <1>8. Data'
    BY <1>7, DataSame DEF Survives
  <1>9. Handles' = Handles /\ Delivered' = Delivered
    BY <1>7 DEF Handles, Delivered
  <1>10. Within(thread[t], holder[QueueLock].depth)'
    <2>1. CASE f.call \in {"mark_ready", "mark_group_ready"}
      <3>1. Entering(next) \/ next.call = "mark_group_ready"
        BY <1>2, <1>6, <2>1 DEF FindCall, Entering
      <3>2. Sets(thread[t])'
        BY <1>5, <1>6, <1>9, <3>1 DEF Sets
      <3>3. holder'[QueueLock].depth = 1 /\ next.at = "enter"
        BY <1>2, <1>4, <1>6, <2>1
      <3> QED
        BY <3>2, <3>3 DEF Within
    <2>2. CASE f.call = "cancel"
      <3>1. Carries(thread[t])' /\ Range(next.out) = {}
        BY <1>6 DEF Carries, Range, IsInjective
      <3>2. Departs(thread[t])'
        BY <1>5, <1>6, <1>9, <2>2, <3>1 DEF Departs
      <3> QED
        BY <1>6, <2>2, <3>2 DEF Within
    <2> QED
      BY <1>2, <2>1, <2>2 DEF FindCall
  <1> QED
    BY <1>1, <1>4, <1>6, <1>7, <1>8, <1>10, StaysKeeps DEF Unborn
-----------------------------------------------------------------------------
\* Group.mark_ready.

LEMMA EnterKeeps ==
  ASSUME Survives, NEW t \in Threads, Enter(t), Hands(t)
  PROVE  Survives'
  <1> DEFINE f == thread[t]
             next == thread'[t]
  <1>1. f.at = "enter" /\ Goto(t, "flag") /\ UNCHANGED <<vars, lock_of>>
    BY DEF Enter, At
  <1>2. /\ Moves(t) /\ next.at = "flag" /\ next.call = f.call /\ next.h = f.h
        /\ next.left = f.left /\ next.keeps = f.keeps
    BY <1>1, GotoMoves DEF Survives
  <1>3. handed' = handed /\ UNCHANGED <<group, groups, ready_groups, next_sequence, alive>>
    BY <1>1, <1>2, KeepsHanded DEF vars, queue
  <1>4. Data'
    BY <1>3, DataSame DEF Survives
  <1>5. next.keeps \in BOOLEAN /\ (next.keeps => alive)
    BY <1>2 DEF Survives, Framed
  <1>6. CASE holder[QueueLock].by = t
    <2>1. Sets(f) /\ holder[QueueLock].depth = 1
      BY <1>1, <1>6, Holds DEF Within
    <2>2. lock_of[f.h] = QueueLock
      BY <2>1, LockOfGroup DEF Sets
    <2>3. Take(t, QueueLock)
      BY <2>2 DEF Enter
    <2>4. holder' = [holder EXCEPT ![QueueLock] = [by |-> t, depth |-> 2]]
      BY <2>1, <2>3 DEF Take
    <2>5. before' = before
      BY <1>6, <2>3, Holds DEF Take
    <2>6. Within(thread[t], 2)'
      <3>1. Sets(thread[t])'
        BY <1>2, <1>3, <2>1 DEF Sets, Entering, Handles
      <3> QED
        BY <1>2, <3>1 DEF Within, Nested
    <2>7. lock_of' \in Seq({QueueLock}) /\ Len(lock_of') = Len(group')
      BY <1>1, <1>3 DEF Survives, OneLock
    <2>8. Len(group') = IF Unborn(next) THEN Len(before.group) + 1 ELSE Len(before.group)
      BY <1>1, <1>2, <1>3, <1>6, Holds DEF Unborn
    <2>9. PICK depth \in Nat \ {0} : depth = 2
      OBVIOUS
    <2>10. /\ holder' = [holder EXCEPT ![QueueLock] = [by |-> t, depth |-> depth]]
           /\ Within(thread[t], depth)'
      BY <2>4, <2>6, <2>9
    <2> QED
      BY <1>2, <1>3, <1>4, <1>5, <1>6, <2>5, <2>7, <2>8, <2>10, InnerKeeps
  <1>7. CASE holder[QueueLock].by # t
    <2>1. Entering(f) /\ f.h \in Handles
      BY <1>1, <1>7, HoldsNot, LockFacts DEF Outside, Idle, Frame, Published
    <2>2. lock_of[f.h] = QueueLock
      BY <2>1, LockOfGroup
    <2>3. Take(t, QueueLock)
      BY <2>2 DEF Enter
    <2>4. Within(thread[t], 1)'
      <3>1. Sets(thread[t])'
        BY <1>2, <1>3, <2>1 DEF Sets, Entering, Handles
      <3>2. next.call # "mark_group_ready"
        BY <1>2, <2>1 DEF Entering
      <3> QED
        BY <1>2, <3>1, <3>2 DEF Within, Nested
    <2> QED
      BY <1>1, <1>2, <1>4, <1>5, <1>7, <2>3, <2>4, TakeKeeps DEF Unborn
  <1> QED
    BY <1>6, <1>7

\* The thread is marking the group in hand.
Marking(t) ==
  /\ holder[QueueLock].by = t /\ ~ Unborn(thread[t])
  /\ Sets(thread[t]) /\ Nested(thread[t], holder[QueueLock].depth)

\* The method of the group returns.
LEMMA LeavingKeeps ==
  ASSUME Survives, NEW t \in Threads, NEW m \in thread[t].left, NEW ready, Marking(t),
         LeaveMark(t, m, ready), UNCHANGED <<alive, lock_of>>, Len(group') = Len(group),
         handed' = handed => Data', Hands(t)
  PROVE  Survives'
  <1> DEFINE f == thread[t]
             next == thread'[t]
             rest == f.left \ {m}
             value == IF f.call = "mark_group_ready" THEN "True" ELSE Answer(ready)
  <1>1. /\ holder[QueueLock].by = t /\ Sets(f) /\ Nested(f, holder[QueueLock].depth)
        /\ f.call \notin Departing
    BY DEF Marking, Sets, Entering, Departing
  <1>2. lock_of[f.h] = QueueLock
    BY <1>1, LockOfGroup DEF Sets
  <1>3. handed' = handed /\ Data'
    BY <1>1, KeepsHanded
  <1>4. lock_of' \in Seq({QueueLock}) /\ Len(lock_of') = Len(group')
    BY DEF Survives, OneLock
  <1>5. CASE rest # {}
    <2>1. /\ holder' = [holder EXCEPT ![QueueLock] = Given(QueueLock)]
          /\ GotoWith(t, "enter", f.h, rest) /\ before' = before
      BY <1>2, <1>5 DEF LeaveMark
    <2>2. /\ Moves(t) /\ next.at = "enter" /\ next.call = f.call /\ next.h = f.h
          /\ next.left = rest /\ next.keeps = f.keeps
      BY <2>1, GotoWithMoves DEF Survives
    <2>3. f.call = "mark_group_ready" /\ holder[QueueLock].depth = 2
      BY <1>1, <1>5 DEF Sets, Entering, Nested
    <2>4. holder' = [holder EXCEPT ![QueueLock] = [by |-> t, depth |-> 1]]
      <3>1. PICK hl \in [by: Threads \cup {Nobody}, depth: Nat] : hl = holder[QueueLock]
        BY LockFacts
      <3>2. hl.by = t /\ hl.depth = 2
        BY <1>1, <2>3, <3>1
      <3>3. [hl EXCEPT !.depth = @ - 1] = [by |-> t, depth |-> 1]
        BY <3>2
      <3>4. Given(QueueLock) = [hl EXCEPT !.depth = @ - 1]
        BY <3>1, <3>2 DEF Given
      <3> QED
        BY <2>1, <3>3, <3>4
    <2>5. Within(thread[t], 1)'
      <3>1. Handles' = Handles
        BY <1>3, DataFacts DEF Survives, Data, Counted, Handles
      <3>2. Sets(thread[t])'
        BY <1>1, <2>2, <2>3, <3>1 DEF Sets
      <3> QED
        BY <2>2, <3>2 DEF Within
    <2>6. next.keeps \in BOOLEAN /\ (next.keeps => alive)
      BY <2>2 DEF Survives, Framed
    <2>7. Len(group') = IF Unborn(next) THEN Len(before.group) + 1 ELSE Len(before.group)
      BY <1>1, <2>2, Holds DEF Unborn, Marking
    <2>8. PICK depth \in Nat \ {0} : depth = 1
      OBVIOUS
    <2>9. /\ holder' = [holder EXCEPT ![QueueLock] = [by |-> t, depth |-> depth]]
          /\ Within(thread[t], depth)'
      BY <2>4, <2>5, <2>8
    <2> QED
      BY <1>1, <1>3, <1>4, <2>1, <2>2, <2>6, <2>7, <2>9, InnerKeeps
  <1>6. CASE rest = {}
    <2>1. Return(t, value, <<>>)
      BY <1>6 DEF LeaveMark
    <2>2. Len(before.group) <= Len(group')
      BY <1>1, Holds, LockFacts DEF Marking
    <2> QED
      BY <1>1, <1>3, <1>4, <2>1, <2>2, EndKeeps DEF Return
  <1> QED
    BY <1>5, <1>6

\* Where the labels of the marking statements say that the thread is.
LEMMA MarkingAt ==
  ASSUME Survives, NEW t \in Threads,
         thread[t].at \in {"flag", "count", "on_ready", "note", "push"}
  PROVE  /\ Marking(t) /\ Within(thread[t], holder[QueueLock].depth)
         /\ thread[t].at # "flag" => SetsOne(thread[t], holder[QueueLock].depth)
         /\ thread[t].at \in {"on_ready", "note"} =>
              Whole(thread[t].h) /\ group[thread[t].h].on_ready
         /\ thread[t].at = "count" =>
              group[thread[t].h].ready_count < Cardinality(group[thread[t].h].ready)
  <1>1. holder[QueueLock].by = t /\ Within(thread[t], holder[QueueLock].depth)
    BY HoldsAt
  <1>2. ~ Unborn(thread[t])
    BY DEF Unborn
  <1> QED
    BY <1>1, <1>2 DEF Within, Marking, SetsOne

LEMMA NotAMemberKeeps ==
  ASSUME Survives, NEW t \in Threads, NEW m, NotAMember(t, m), Hands(t)
  PROVE  Survives'
  <1>1. Marking(t)
    BY MarkingAt DEF NotAMember, At
  <1> QED
    BY <1>1, HandsNothing DEF NotAMember, queue, Marking

LEMMA AlreadyKeeps ==
  ASSUME Survives, NEW t \in Threads, NEW m, Already(t, m), Hands(t)
  PROVE  Survives'
  <1>1. Marking(t)
    BY MarkingAt DEF Already, At
  <1>2. m \in thread[t].left
    BY DEF Already
  <1>3. /\ LeaveMark(t, m, IsReady(group[thread[t].h]))
        /\ UNCHANGED <<group, groups, ready_groups, next_sequence, alive, lock_of>>
    BY DEF Already, queue
  <1>4. handed' = handed => Data'
    BY <1>3, DataSame DEF Survives
  <1>5. PICK ready : ready = IsReady(group[thread[t].h])
    OBVIOUS
  <1>6. LeaveMark(t, m, ready)
    BY <1>3, <1>5
  <1> QED
    BY <1>1, <1>2, <1>3, <1>4, <1>6, LeavingKeeps

LEMMA FlagKeeps ==
  ASSUME Survives, NEW t \in Threads, NEW m, Flag(t, m), Hands(t)
  PROVE  Survives'
  <1> DEFINE f == thread[t]
             next == thread'[t]
  <1>1. Marking(t) /\ f.at = "flag"
    BY MarkingAt DEF Flag, At
  <1>2. PICK h \in Handles : h = f.h
    BY <1>1 DEF Marking, Sets
  <1>3. PICK g \in GroupRecord : g = group[h] /\ Sound(g)
    BY DataFacts DEF Survives
  <1>4. PICK new : new = [g EXCEPT !.ready = @ \cup {m}]
    OBVIOUS
  <1>5. /\ m \in f.left /\ m \in g.members \ g.ready
        /\ group' = [group EXCEPT ![h] = new]
        /\ thread' = [thread EXCEPT ![t].at = "count", ![t].now = {m}]
        /\ UNCHANGED <<queue, private, holder, lock_of>>
    BY <1>2, <1>3, <1>4 DEF Flag, Write
  <1>6. /\ new \in GroupRecord /\ Alike(new, g) /\ new.ready = g.ready \cup {m}
        /\ new.ready_count = g.ready_count /\ new.on_ready = g.on_ready
    BY <1>3, <1>4, <1>5 DEF GroupRecord, Alike
  <1>7. /\ Cardinality(g.ready) \in Nat /\ Cardinality(new.ready) = Cardinality(g.ready) + 1
        /\ g.ready_count \in Nat
    <2>1. IsFiniteSet(g.ready) /\ g.ready_count \in Nat
      BY <1>3, MembersAssumption, FS_Subset DEF GroupRecord
    <2> QED
      BY <1>5, <1>6, <2>1, FS_CardinalityType, FS_AddElement
  <1>8. Sound(new) /\ new.ready_count < Cardinality(new.ready)
    BY <1>3, <1>5, <1>6, <1>7 DEF Sound, Alike
  <1>9. /\ Moves(t) /\ next.at = "count" /\ next.call = f.call /\ next.h = h
        /\ next.left = f.left /\ next.now = {m} /\ next.keeps = f.keeps
    <2>1. /\ thread' = [thread EXCEPT ![t] = [[thread[t] EXCEPT !.at = "count"] EXCEPT !.now = {m}]]
          /\ DOMAIN thread = Threads /\ FrameForm(thread[t])
      BY <1>5 DEF Survives, Framed
    <2>2. next = [[f EXCEPT !.at = "count"] EXCEPT !.now = {m}]
      BY <2>1
    <2> QED
      BY <1>2, <2>1, <2>2 DEF Moves, FrameForm
  <1>10. handed' = handed
    BY <1>9, KeepsHanded
  <1>11. Whole(h) => new.ready = new.members
    BY <1>3, <1>5 DEF Whole
  <1>12. /\ Data' /\ Len(group') = Len(group) /\ Handles' = Handles
         /\ group'[h] = new
    <2>1. h \in Delivered /\ ~ group[h].on_ready => ~ new.on_ready
      BY <1>3, <1>6, Zenon
    <2>2. Alike(new, group[h])
      BY <1>3, <1>6
    <2>3. UNCHANGED <<groups, ready_groups, next_sequence, handed>> /\ Data
      BY <1>5, <1>10 DEF queue, Survives
    <2> QED
      BY <1>5, <1>6, <1>8, <1>11, <2>1, <2>2, <2>3, OneChanges
  <1>13. Within(thread[t], holder[QueueLock].depth)'
    <2>1. Sets(thread[t])'
      BY <1>1, <1>2, <1>9, <1>12 DEF Marking, Sets, Entering
    <2>2. SetsOne(thread[t], holder[QueueLock].depth)'
      BY <1>1, <1>5, <1>9, <2>1 DEF Marking, SetsOne, Nested
    <2> QED
      BY <1>8, <1>9, <1>12, <2>2 DEF Within
  <1> QED
    BY <1>1, <1>5, <1>9, <1>12, <1>13, StaysKeeps DEF private, queue, Unborn, Marking

LEMMA CountKeeps ==
  ASSUME Survives, NEW t \in Threads, NEW m, Count(t, m), Hands(t)
  PROVE  Survives'
  <1> DEFINE f == thread[t]
             next == thread'[t]
  <1>1. /\ Marking(t) /\ f.at = "count" /\ SetsOne(f, holder[QueueLock].depth)
        /\ group[f.h].ready_count < Cardinality(group[f.h].ready)
    BY MarkingAt DEF Count, At
  <1>2. PICK h \in Handles : h = f.h
    BY <1>1 DEF Marking, Sets
  <1>3. PICK g \in GroupRecord : g = group[h] /\ Sound(g)
    BY DataFacts DEF Survives
  <1>4. PICK new : new = [g EXCEPT !.ready_count = @ + 1]
    OBVIOUS
  <1>5. m \in f.left
    <2>1. m \in f.now
      BY DEF Count
    <2> QED
      BY <1>1, <2>1 DEF SetsOne
  <1>6. /\ group' = [group EXCEPT ![h] = new]
        /\ IF IsReady(new) /\ new.on_ready
           THEN Goto(t, "on_ready") /\ UNCHANGED <<holder, before, result>>
           ELSE LeaveMark(t, m, IsReady(new))
        /\ UNCHANGED <<queue, lock_of>>
    BY <1>2, <1>3, <1>4 DEF Count, Write
  <1>7. /\ new \in GroupRecord /\ Alike(new, g) /\ new.ready = g.ready
        /\ new.ready_count = g.ready_count + 1 /\ new.on_ready = g.on_ready
    BY <1>3, <1>4 DEF GroupRecord, Alike
  <1>8. /\ Sound(new)
        /\ IsReady(new) => new.ready = new.members
    <2>1. /\ IsFiniteSet(g.members) /\ g.ready \subseteq g.members /\ g.ready_count \in Nat
      BY <1>3, MembersAssumption, FS_Subset DEF GroupRecord, Sound
    <2>2. Cardinality(g.ready) \in Nat /\ Cardinality(g.members) \in Nat
      BY <2>1, FS_Subset, FS_CardinalityType
    <2>3. Sound(new)
      BY <1>1, <1>2, <1>3, <1>7, <2>1, <2>2 DEF Sound, Alike
    <2>4. IsReady(new) => g.ready = g.members
      <3>1. IsReady(new) => Cardinality(g.members) <= Cardinality(g.ready)
        BY <1>1, <1>2, <1>3, <1>7, <2>1, <2>2 DEF IsReady, Alike
      <3> QED
        BY <2>1, <2>2, <3>1, FS_Subset
    <2> QED
      BY <1>7, <2>3, <2>4 DEF Alike
  <1>9. Whole(h) => new.ready = new.members
    BY <1>3, <1>7 DEF Whole, Alike
  <1>10. handed' = handed =>
           /\ Data' /\ Len(group') = Len(group) /\ Handles' = Handles
           /\ group'[h] = new
    <2>1. h \in Delivered /\ ~ group[h].on_ready => ~ new.on_ready
      BY <1>3, <1>7, Zenon
    <2>2. Alike(new, group[h])
      BY <1>3, <1>7
    <2>3. UNCHANGED <<groups, ready_groups, next_sequence>> /\ Data
      BY <1>6 DEF queue, Survives
    <2> SUFFICES ASSUME handed' = handed
                 PROVE  /\ Data' /\ Len(group') = Len(group) /\ Handles' = Handles
                        /\ group'[h] = new
      OBVIOUS
    <2> QED
      BY <1>6, <1>7, <1>8, <1>9, <2>1, <2>2, <2>3, OneChanges
  <1>11. CASE IsReady(new) /\ new.on_ready
    <2>1. Goto(t, "on_ready") /\ UNCHANGED <<holder, before, result>>
      BY <1>6, <1>11
    <2>2. /\ Moves(t) /\ next.at = "on_ready" /\ next.call = f.call /\ next.h = h
          /\ next.left = f.left /\ next.now = f.now /\ next.keeps = f.keeps
      BY <1>2, <2>1, GotoMoves DEF Survives
    <2>3. handed' = handed
      BY <2>2, KeepsHanded
    <2>4. Within(thread[t], holder[QueueLock].depth)'
      <3>1. Sets(thread[t])'
        BY <1>1, <1>2, <1>10, <2>2, <2>3 DEF Marking, Sets, Entering
      <3>2. SetsOne(thread[t], holder[QueueLock].depth)'
        BY <1>1, <2>1, <2>2, <3>1 DEF Marking, SetsOne, Nested
      <3>3. Whole(thread[t].h)' /\ group'[next.h].on_ready
        <4>1. group'[next.h] = new
          BY <1>10, <2>2, <2>3
        <4>2. new.ready = new.members
          BY <1>8, <1>11, Zenon
        <4>3. Whole(thread[t].h)'
          BY <4>1, <4>2 DEF Whole
        <4>4. group'[next.h].on_ready
          BY <1>11, <4>1, Zenon
        <4> QED
          BY <4>3, <4>4
      <3> QED
        BY <2>2, <3>2, <3>3 DEF Within
    <2> QED
      BY <1>1, <1>6, <1>10, <2>1, <2>2, <2>3, <2>4, StaysKeeps DEF queue, Unborn, Marking
  <1>12. CASE ~ (IsReady(new) /\ new.on_ready)
    <2>1. LeaveMark(t, m, IsReady(new))
      BY <1>6, <1>12
    <2>2. Len(group') = Len(group)
      BY <1>3, <1>6, <1>7, DataFacts, ExceptSeq DEF Survives
    <2> QED
      BY <1>1, <1>5, <1>6, <1>10, <2>1, <2>2, LeavingKeeps DEF queue
  <1> QED
    BY <1>11, <1>12

LEMMA OnReadyKeeps ==
  ASSUME Survives, NEW t \in Threads, NEW m, OnReady(t, m), Hands(t)
  PROVE  Survives'
  <1> DEFINE f == thread[t]
             next == thread'[t]
  <1>1. /\ Marking(t) /\ f.at = "on_ready" /\ SetsOne(f, holder[QueueLock].depth)
        /\ Whole(f.h) /\ group[f.h].on_ready
    BY MarkingAt DEF OnReady, At
  <1>2. m \in f.left
    <2>1. m \in f.now
      BY DEF OnReady
    <2> QED
      BY <1>1, <2>1 DEF SetsOne
  <1>3. /\ IF alive
           THEN /\ thread' = [thread EXCEPT ![t].at = "note", ![t].keeps = TRUE]
                /\ UNCHANGED <<holder, before, result>>
           ELSE LeaveMark(t, m, TRUE)
        /\ UNCHANGED <<group, groups, ready_groups, next_sequence, alive, lock_of>>
    BY DEF OnReady, queue
  <1>4. handed' = handed => Data'
    BY <1>3, DataSame DEF Survives
  <1>5. CASE alive
    <2>1. /\ thread' = [thread EXCEPT ![t] = [[f EXCEPT !.at = "note"] EXCEPT !.keeps = TRUE]]
          /\ DOMAIN thread = Threads /\ FrameForm(f)
      BY <1>3, <1>5 DEF Survives, Framed
    <2>2. next = [[f EXCEPT !.at = "note"] EXCEPT !.keeps = TRUE]
      BY <2>1
    <2>3. /\ Moves(t) /\ next.at = "note" /\ next.call = f.call /\ next.h = f.h
          /\ next.left = f.left /\ next.now = f.now /\ next.keeps = TRUE
      BY <2>1, <2>2 DEF Moves, FrameForm
    <2>4. handed' = handed
      BY <2>3, KeepsHanded
    <2>5. Within(thread[t], holder[QueueLock].depth)'
      <3>1. Handles' = Handles
        BY <1>3 DEF Handles
      <3>2. Sets(thread[t])'
        BY <1>1, <2>3, <3>1 DEF Marking, Sets, Entering
      <3>3. SetsOne(thread[t], holder[QueueLock].depth)'
        BY <1>1, <1>3, <1>5, <2>3, <3>2 DEF Marking, SetsOne, Nested
      <3>4. Whole(thread[t].h)' /\ group'[next.h].on_ready
        <4>1. group'[next.h] = group[f.h]
          BY <1>3, <2>3
        <4>2. Whole(thread[t].h)'
          BY <1>1, <4>1 DEF Whole
        <4>3. group'[next.h].on_ready
          BY <1>1, <4>1, Zenon
        <4> QED
          BY <4>2, <4>3
      <3> QED
        BY <2>3, <3>3, <3>4 DEF Within
    <2>6. PICK depth \in Nat \ {0} : depth = holder[QueueLock].depth
      BY <1>1, Holds DEF Marking
    <2>7. /\ holder' = [holder EXCEPT ![QueueLock] = [by |-> t, depth |-> depth]]
          /\ Within(thread[t], depth)'
      <3>1. depth = holder'[QueueLock].depth
        BY <1>3, <1>5, <2>6
      <3> QED
        BY <1>1, <1>3, <1>5, <2>5, <2>6, <3>1, Holds DEF Marking
    <2>8. lock_of' \in Seq({QueueLock}) /\ Len(lock_of') = Len(group')
      BY <1>3 DEF Survives, OneLock
    <2>9. Len(group') = IF Unborn(next) THEN Len(before.group) + 1 ELSE Len(before.group)
      BY <1>1, <1>3, <2>3, Holds DEF Unborn, Marking
    <2> QED
      BY <1>1, <1>3, <1>4, <1>5, <2>3, <2>4, <2>7, <2>8, <2>9, InnerKeeps DEF Marking
  <1>6. CASE ~ alive
    BY <1>1, <1>2, <1>3, <1>4, <1>6, LeavingKeeps
  <1> QED
    BY <1>5, <1>6

LEMMA NoteKeeps ==
  ASSUME Survives, NEW t \in Threads, NEW m, Note(t, m), Hands(t)
  PROVE  Survives'
  <1> DEFINE f == thread[t]
             next == thread'[t]
  <1>1. /\ Marking(t) /\ f.at = "note" /\ SetsOne(f, holder[QueueLock].depth)
        /\ Whole(f.h) /\ group[f.h].on_ready
    BY MarkingAt DEF Note, At
  <1>2. m \in f.left
    <2>1. m \in f.now
      BY DEF Note
    <2> QED
      BY <1>1, <2>1 DEF SetsOne
  <1>3. PICK h \in Handles : h = f.h
    BY <1>1 DEF Marking, Sets
  <1>4. PICK s : s = group[h].sequence
    OBVIOUS
  <1>5. /\ IF s \in DOMAIN ready_groups
           THEN LeaveMark(t, m, TRUE) /\ UNCHANGED ready_groups
           ELSE /\ ready_groups' = Put(ready_groups, s, h)
                /\ Goto(t, "push")
                /\ UNCHANGED <<holder, before, result>>
        /\ UNCHANGED <<group, groups, next_sequence, alive, lock_of>>
    BY <1>3, <1>4 DEF Note
  <1>6. CASE s \in DOMAIN ready_groups
    <2>1. handed' = handed => Data'
      BY <1>5, <1>6, DataSame DEF Survives
    <2> QED
      BY <1>1, <1>2, <1>5, <1>6, <2>1, LeavingKeeps
  <1>7. CASE s \notin DOMAIN ready_groups
    <2>1. /\ ready_groups' = Put(ready_groups, s, h) /\ Goto(t, "push")
          /\ UNCHANGED <<holder, before, result>>
      BY <1>5, <1>7
    <2>2. /\ Moves(t) /\ next.at = "push" /\ next.call = f.call /\ next.h = f.h
          /\ next.left = f.left /\ next.now = f.now /\ next.keeps = f.keeps
      BY <2>1, GotoMoves DEF Survives
    <2>3. handed' = handed
      BY <2>2, KeepsHanded
    <2>4. /\ DOMAIN ready_groups' = DOMAIN ready_groups \cup {s}
          /\ \A x \in DOMAIN ready_groups' :
               ready_groups'[x] = IF x = s THEN h ELSE ready_groups[x]
      BY <2>1 DEF Put
    <2>5. Handles' = Handles /\ \A x : Whole(x)' <=> Whole(x)
      BY <1>5 DEF Handles, Whole
    <2>6. Filed'
      <3>1. \A x \in DOMAIN ready_groups' :
              /\ ready_groups'[x] \in Handles /\ group[ready_groups'[x]].sequence = x
              /\ Whole(ready_groups'[x])
        BY <1>1, <1>3, <1>4, <2>4 DEF Survives, Data, Filed
      <3>2. \A x \in DOMAIN ready_groups' : Whole(ready_groups[x])'
        BY <1>5, <3>1 DEF Whole
      <3> QED
        BY <1>5, <2>5, <3>1, <3>2 DEF Survives, Data, Filed
    <2>7. h \notin Delivered
      BY <1>1, <1>3 DEF Survives, Data, Parted, Lost
    <2>8. \A x \in Range(ready_groups') : x \in Range(ready_groups) \/ x \notin Delivered
      BY <2>4, <2>7 DEF Range
    <2>9. Waiting' = Waiting
      BY <1>5 DEF Waiting
    <2>10. Data'
      BY <1>5, <2>3, <2>6, <2>8, <2>9, IndexesChange DEF Survives
    <2>11. Within(thread[t], holder[QueueLock].depth)'
      <3>1. Sets(thread[t])'
        BY <1>1, <2>2, <2>5 DEF Marking, Sets, Entering
      <3>2. SetsOne(thread[t], holder[QueueLock].depth)'
        BY <1>1, <2>1, <2>2, <3>1 DEF Marking, SetsOne, Nested
      <3> QED
        BY <2>2, <3>2 DEF Within
    <2> QED
      BY <1>1, <1>5, <2>1, <2>2, <2>10, <2>11, StaysKeeps DEF Unborn, Marking
  <1> QED
    BY <1>6, <1>7

LEMMA PushKeeps ==
  ASSUME Survives, NEW t \in Threads, NEW m, Push(t, m), Hands(t)
  PROVE  Survives'
  <1>1. Marking(t) /\ SetsOne(thread[t], holder[QueueLock].depth)
    BY MarkingAt DEF Push, At
  <1>2. m \in thread[t].left
    <2>1. m \in thread[t].now
      BY DEF Push
    <2> QED
      BY <1>1, <2>1 DEF SetsOne
  <1>3. /\ LeaveMark(t, m, TRUE)
        /\ UNCHANGED <<group, groups, ready_groups, next_sequence, alive, lock_of>>
    BY DEF Push
  <1>4. handed' = handed => Data'
    BY <1>3, DataSame DEF Survives
  <1> QED
    BY <1>1, <1>2, <1>3, <1>4, LeavingKeeps
-----------------------------------------------------------------------------
\* peek, release and release_all.

\* What a call has taken out it keeps, whatever else the queue forgets.
LEMMA CarriesStays ==
  ASSUME NEW t, Carries(thread[t]), thread'[t].out = thread[t].out,
         Handles' = Handles, handed' = handed,
         \A h \in Handles : (Lost(h) => Lost(h)') /\ (Whole(h) => Whole(h)')
  PROVE  Carries(thread[t])'
  <1>1. Delivered' = Delivered
    BY DEF Delivered
  <1>2. \A h \in Range(thread[t].out) : h \in Handles
    BY DEF Carries, Range
  <1> QED
    BY <1>1, <1>2 DEF Carries

\* What peek finds is in the queue, and whole, though its counter may lag.
LEMMA FoundWhole ==
  ASSUME Data, NEW h \in NextOut
  PROVE  h \in Handles /\ ~ Lost(h) /\ Whole(h)
  <1>1. CASE StrictOrder
    <2>1. h \in Waiting /\ IsReady(group[h])
      BY <1>1 DEF NextOut
    <2>2. h \in Handles /\ group[h] \in GroupRecord /\ Sound(group[h])
      BY <2>1, DataFacts
    <2>3. PICK g \in GroupRecord : g = group[h] /\ Sound(g) /\ IsReady(g)
      BY <2>1, <2>2
    <2>4. g.ready = g.members
      <3>1. IsFiniteSet(g.members) /\ g.ready \subseteq g.members
        BY <2>3, MembersAssumption, FS_Subset DEF GroupRecord, Sound
      <3>2. Cardinality(g.members) <= Cardinality(g.ready)
        BY <2>3 DEF Sound, IsReady
      <3> QED
        BY <3>1, <3>2, FS_Subset, FS_CardinalityType
    <2> QED
      BY <2>1, <2>2, <2>3, <2>4 DEF Whole, Lost
  <1>2. CASE ~ StrictOrder
    <2>1. PICK s \in Live : h = ready_groups[s]
      BY <1>2 DEF NextOut
    <2>2. s \in DOMAIN ready_groups
      BY <2>1 DEF Live
    <2>3. h \in Handles /\ Whole(h)
      BY <2>1, <2>2 DEF Data, Filed
    <2>4. h \in Range(ready_groups)
      BY <2>1, <2>2 DEF Range
    <2> QED
      BY <2>3, <2>4 DEF Lost
  <1> QED
    BY <1>1, <1>2

LEMMA PeekEndsKeeps ==
  ASSUME Survives, NEW t \in Threads, PeekEnds(t), Hands(t)
  PROVE  Survives'
  <1> DEFINE f == thread[t]
  <1>1. /\ f.at = "peek" /\ holder[QueueLock].by = t /\ ~ Unborn(f)
        /\ Within(f, holder[QueueLock].depth)
    BY HoldsAt DEF PeekEnds, At, Unborn
  <1>2. f.call \in {"peek", "release", "release_all"} /\ Carries(f)
    BY <1>1 DEF Within
  <1>3. /\ NextOut = {} \/ f.call = "peek"
        /\ IF f.call = "release_all"
           THEN Return(t, "List", f.out)
           ELSE IF NextOut = {}
           THEN Return(t, "None", <<>>)
           ELSE \E h \in NextOut : Return(t, "Group", <<h>>)
        /\ UNCHANGED <<group, groups, ready_groups, next_sequence, alive, lock_of>>
    BY DEF PeekEnds
  <1>4. handed' = handed => Data'
    BY <1>3, DataSame DEF Survives
  <1>5. CASE f.call = "release_all"
    <2>1. Return(t, "List", f.out)
      BY <1>3, <1>5
    <2>2. PICK list \in Seq(Handles \ Delivered) : list = f.out
      BY <1>2 DEF Carries
    <2>3. IsInjective(list) /\ \A h \in Range(list) : Lost(h) /\ Whole(h)
      BY <1>2, <2>2 DEF Carries
    <2>4. Waiting' = Waiting
      BY <1>3 DEF Waiting
    <2>5. \A h \in Delivered \cup Range(list) : Lost(h)'
      BY <1>3, <2>3, <2>4 DEF Survives, Data, Parted, Lost
    <2>6. Counted' /\ Filed'
      BY <1>3 DEF Survives, Data, Counted, Filed, Handles, Sound, Whole
    <2> QED
      BY <1>1, <1>3, <1>5, <2>1, <2>2, <2>3, <2>5, <2>6, HandsTaken DEF Departing
  <1>6. CASE f.call # "release_all" /\ NextOut = {}
    <2>1. Return(t, "None", <<>>)
      BY <1>3, <1>6
    <2> QED
      BY <1>1, <1>3, <2>1, HandsNothing
  <1>7. CASE f.call # "release_all" /\ NextOut # {}
    <2>1. PICK h \in NextOut : Return(t, "Group", <<h>>)
      BY <1>3, <1>7
    <2>2. f.call \notin Departing
      BY <1>3, <1>7 DEF Departing
    <2>3. End(t) /\ Data'
      BY <1>4, <2>1, <2>2, HandsBack
    <2>4. lock_of' \in Seq({QueueLock}) /\ Len(lock_of') = Len(group')
      BY <1>3 DEF Survives, OneLock
    <2>5. Len(before.group) <= Len(group')
      BY <1>1, <1>3, Holds, LockFacts
    <2> QED
      BY <1>1, <1>3, <2>3, <2>4, <2>5, EndKeeps
  <1> QED
    BY <1>5, <1>6, <1>7

LEMMA PeekFindsKeeps ==
  ASSUME Survives, NEW t \in Threads, PeekFinds(t), Hands(t)
  PROVE  Survives'
  <1> DEFINE f == thread[t]
             next == thread'[t]
  <1>1. /\ f.at = "peek" /\ holder[QueueLock].by = t /\ Within(f, holder[QueueLock].depth)
    BY HoldsAt DEF PeekFinds, At
  <1>2. f.call \in {"peek", "release", "release_all"} /\ Carries(f)
    BY <1>1 DEF Within
  <1>3. PICK h \in NextOut : GotoWith(t, "del_group", h, {})
    BY DEF PeekFinds
  <1>4. /\ f.call # "peek"
        /\ UNCHANGED <<group, groups, member_index, next_sequence, ready_groups, private,
                       holder, lock_of>>
    BY DEF PeekFinds
  <1>5. h \in Handles /\ ~ Lost(h) /\ Whole(h)
    BY FoundWhole DEF Survives
  <1>6. /\ Moves(t) /\ next.at = "del_group" /\ next.call = f.call /\ next.h = h
        /\ next.out = f.out /\ next.keeps = f.keeps
    BY <1>3, GotoWithMoves DEF Survives
  <1>7. handed' = handed
    BY <1>6, KeepsHanded
  <1>8. Data'
    BY <1>4, <1>7, DataSame DEF Survives
  <1>9. /\ Handles' = Handles /\ Delivered' = Delivered /\ Waiting' = Waiting
        /\ \A x : (Lost(x) <=> Lost(x)') /\ (Whole(x) <=> Whole(x)')
    BY <1>4, <1>7 DEF Handles, Delivered, Waiting, Lost, Whole
  <1>10. Within(thread[t], holder[QueueLock].depth)'
    <2>1. Carries(thread[t])'
      BY <1>2, <1>6, <1>7, <1>9, CarriesStays
    <2>2. h \notin Delivered /\ h \notin Range(f.out)
      BY <1>2, <1>5 DEF Carries, Survives, Data, Parted
    <2>3. Departs(thread[t])'
      BY <1>2, <1>4, <1>5, <1>6, <1>9, <2>1, <2>2 DEF Departs
    <2> QED
      BY <1>6, <2>3 DEF Within
  <1> QED
    BY <1>1, <1>4, <1>6, <1>8, <1>10, StaysKeeps DEF private, Unborn
-----------------------------------------------------------------------------
\* _remove.

LEMMA DepartingAt ==
  ASSUME Survives, NEW t \in Threads,
         thread[t].at \in {"del_group", "del_members", "detach", "pop"}
  PROVE  /\ holder[QueueLock].by = t /\ ~ Unborn(thread[t]) /\ Departs(thread[t])
         /\ thread[t].h \in Handles
         /\ thread[t].at # "del_group" => thread[t].h \notin Waiting
         /\ thread[t].at = "pop" => ~ group[thread[t].h].on_ready
  <1>1. holder[QueueLock].by = t /\ Within(thread[t], holder[QueueLock].depth)
    BY HoldsAt
  <1>2. ~ Unborn(thread[t])
    BY DEF Unborn
  <1> QED
    BY <1>1, <1>2 DEF Within, Departs

LEMMA DepartsStays ==
  ASSUME NEW t, Departs(thread[t]), thread'[t].call = thread[t].call,
         thread'[t].h = thread[t].h, thread'[t].out = thread[t].out,
         Handles' = Handles, handed' = handed,
         \A h \in Handles : (Lost(h) => Lost(h)') /\ (Whole(h) => Whole(h)')
  PROVE  Departs(thread[t])'
  <1>1. Delivered' = Delivered
    BY DEF Delivered
  <1>2. Carries(thread[t])'
    BY CarriesStays DEF Departs
  <1>3. PICK h : h = thread[t].h
    OBVIOUS
  <1>4. thread[t].call # "cancel" => Whole(h)'
    BY <1>3 DEF Departs
  <1> QED
    BY <1>1, <1>2, <1>3, <1>4 DEF Departs

LEMMA RemoveBreaksKeeps ==
  ASSUME Survives, NEW t \in Threads, RemoveBreaks(t), Hands(t)
  PROVE  Survives'
  <1>1. holder[QueueLock].by = t /\ ~ Unborn(thread[t])
    BY DepartingAt DEF RemoveBreaks, At
  <1> QED
    BY <1>1, HandsNothing DEF RemoveBreaks, queue

LEMMA DelGroupKeeps ==
  ASSUME Survives, NEW t \in Threads, DelGroup(t), Hands(t)
  PROVE  Survives'
  <1> DEFINE f == thread[t]
             next == thread'[t]
  <1>1. /\ f.at = "del_group" /\ holder[QueueLock].by = t /\ ~ Unborn(f) /\ Departs(f)
    BY DepartingAt DEF DelGroup, At
  <1>2. PICK h \in Handles : h = f.h
    BY <1>1 DEF Departs
  <1>3. PICK id : id = group[h].group_id
    OBVIOUS
  <1>4. /\ groups' = Without(groups, {id})
        /\ GotoWith(t, "del_members", f.h, group[f.h].members)
        /\ UNCHANGED <<group, member_index, next_sequence, ready_groups, ready_heap,
                       private, holder, lock_of>>
    BY <1>2, <1>3 DEF DelGroup
  <1>5. /\ Moves(t) /\ next.at = "del_members" /\ next.call = f.call /\ next.h = f.h
        /\ next.out = f.out /\ next.keeps = f.keeps
    BY <1>4, GotoWithMoves DEF Survives
  <1>6. handed' = handed
    BY <1>5, KeepsHanded
  <1>7. /\ DOMAIN groups' = DOMAIN groups \ {id}
        /\ \A x \in DOMAIN groups' : groups'[x] = groups[x]
    BY <1>4 DEF Without, Restrict
  <1>8. Handles' = Handles /\ Waiting' \subseteq Waiting
    BY <1>4, <1>7 DEF Handles, Waiting
  <1>9. h \notin Waiting'
    BY <1>3, <1>7 DEF Waiting, Survives, Data, Filed
  <1>10. \A x : (Lost(x) => Lost(x)') /\ (Whole(x) <=> Whole(x)')
    BY <1>4, <1>8 DEF Lost, Whole
  <1>11. Filed'
    <2>1. \A x \in DOMAIN groups' : groups'[x] \in Handles /\ group[groups'[x]].group_id = x
      BY <1>7 DEF Survives, Data, Filed
    <2>2. \A s \in DOMAIN ready_groups :
            /\ ready_groups[s] \in Handles /\ group[ready_groups[s]].sequence = s
            /\ Whole(ready_groups[s])
      BY DEF Survives, Data, Filed
    <2> QED
      BY <1>4, <1>8, <2>1, <2>2 DEF Filed, Whole
  <1>12. Data'
    BY <1>4, <1>6, <1>8, <1>11, IndexesChange DEF Survives
  <1>13. Within(thread[t], holder[QueueLock].depth)'
    <2>1. Departs(thread[t])'
      BY <1>1, <1>5, <1>6, <1>8, <1>10, DepartsStays
    <2> QED
      BY <1>2, <1>5, <1>9, <2>1 DEF Within
  <1> QED
    BY <1>1, <1>4, <1>5, <1>12, <1>13, StaysKeeps DEF private, Unborn

LEMMA DelMemberKeeps ==
  ASSUME Survives, NEW t \in Threads, NEW m, DelMember(t, m), Hands(t)
  PROVE  Survives'
  <1> DEFINE f == thread[t]
             next == thread'[t]
             label == IF f.left = {m} THEN "detach" ELSE "del_members"
  <1>1. /\ f.at = "del_members" /\ holder[QueueLock].by = t /\ ~ Unborn(f) /\ Departs(f)
        /\ f.h \notin Waiting
    BY DepartingAt DEF DelMember, At
  <1>2. /\ GotoWith(t, label, f.h, f.left \ {m})
        /\ UNCHANGED <<group, groups, next_sequence, ready_groups, ready_heap, private,
                       holder, lock_of>>
    BY DEF DelMember
  <1>3. label \in {"detach", "del_members"}
    OBVIOUS
  <1> HIDE DEF label
  <1>4. /\ Moves(t) /\ next.at = label /\ next.call = f.call /\ next.h = f.h
        /\ next.out = f.out /\ next.keeps = f.keeps
    BY <1>2, GotoWithMoves DEF Survives
  <1>5. handed' = handed
    BY <1>3, <1>4, KeepsHanded
  <1>6. /\ Handles' = Handles /\ Waiting' = Waiting
        /\ \A x : (Lost(x) => Lost(x)') /\ (Whole(x) => Whole(x)')
    BY <1>2 DEF Handles, Waiting, Lost, Whole
  <1>7. Data'
    BY <1>2, <1>5, DataSame DEF Survives
  <1>8. Within(thread[t], holder[QueueLock].depth)'
    <2>1. Departs(thread[t])'
      BY <1>1, <1>4, <1>5, <1>6, DepartsStays
    <2> QED
      BY <1>1, <1>3, <1>4, <1>6, <2>1 DEF Within
  <1> QED
    BY <1>1, <1>2, <1>3, <1>4, <1>7, <1>8, StaysKeeps DEF private, Unborn

\* A group whose callback is taken away.
LEMMA DetachedOne ==
  ASSUME NEW g \in GroupRecord, Sound(g), NEW d, d = [g EXCEPT !.on_ready = FALSE]
  PROVE  /\ d \in GroupRecord /\ Sound(d) /\ Alike(d, g)
         /\ d.ready = g.ready /\ ~ d.on_ready
  BY DEF GroupRecord, Sound, Alike

LEMMA DetachChanges ==
  ASSUME Data, NEW hs, group' = Detached(hs),
         UNCHANGED <<groups, ready_groups, next_sequence, handed>>
  PROVE  /\ Data' /\ Len(group') = Len(group) /\ Handles' = Handles /\ Waiting' = Waiting
         /\ \A x \in hs \cap Handles : ~ group'[x].on_ready
         /\ \A x \in Handles : (Lost(x) => Lost(x)') /\ (Whole(x) <=> Whole(x)')
  <1>1. /\ Len(group) \in Nat /\ Handles = 1..Len(group)
        /\ \A x \in Handles : group[x] \in GroupRecord /\ Sound(group[x])
    BY DataFacts
  <1>2. ASSUME NEW x \in Handles
        PROVE  /\ group'[x] \in GroupRecord /\ Sound(group'[x]) /\ Alike(group'[x], group[x])
               /\ group'[x].ready = group[x].ready
               /\ ~ group[x].on_ready => ~ group'[x].on_ready
               /\ x \in hs => ~ group'[x].on_ready
    <2>1. PICK g \in GroupRecord : g = group[x] /\ Sound(g)
      BY <1>1
    <2>2. PICK d : d = [g EXCEPT !.on_ready = FALSE]
      OBVIOUS
    <2>3. d \in GroupRecord /\ Sound(d) /\ Alike(d, g) /\ d.ready = g.ready /\ ~ d.on_ready
      BY <2>1, <2>2, DetachedOne
    <2>4. group'[x] = IF x \in hs THEN d ELSE g
      BY <2>1, <2>2 DEF Detached
    <2>5. CASE x \in hs
      <3>1. group'[x] = d
        BY <2>4, <2>5
      <3> QED
        BY <2>1, <2>3, <3>1, Zenon
    <2>6. CASE x \notin hs
      <3>1. group'[x] = g
        BY <2>4, <2>6
      <3>2. Alike(g, g)
        BY DEF Alike
      <3> QED
        BY <2>1, <2>6, <3>1, <3>2, Zenon
    <2> QED
      BY <2>5, <2>6
  <1>3. group' \in Seq(GroupRecord) /\ Len(group') = Len(group) /\ Handles' = Handles
    <2>1. DOMAIN group' = 1..Len(group)
      BY <1>1 DEF Detached
    <2>2. group' = [x \in 1..Len(group) |-> group'[x]]
      BY <1>1 DEF Detached
    <2>3. \A x \in 1..Len(group) : group'[x] \in GroupRecord
      BY <1>1, <1>2
    <2>4. group' \in Seq(GroupRecord) /\ Len(group') = Len(group)
      BY <1>1, <2>2, <2>3
    <2> QED
      BY <1>1, <2>1, <2>4 DEF Handles
  <1>4. Waiting' = Waiting
    BY DEF Waiting
  <1>5. \A x \in Handles : Whole(x) <=> Whole(x)'
    BY <1>2 DEF Whole, Alike
  <1>6. \A x \in Handles : Lost(x) => Lost(x)'
    BY <1>2, <1>4 DEF Lost
  <1>7. Data'
    BY <1>2, <1>3, <1>5, GroupsChange
  <1>8. \A x \in hs \cap Handles : ~ group'[x].on_ready
    BY <1>2
  <1> QED
    BY <1>3, <1>4, <1>5, <1>6, <1>7, <1>8

LEMMA DetachKeeps ==
  ASSUME Survives, NEW t \in Threads, Detach(t), Hands(t)
  PROVE  Survives'
  <1> DEFINE f == thread[t]
             next == thread'[t]
  <1>1. /\ f.at = "detach" /\ holder[QueueLock].by = t /\ ~ Unborn(f) /\ Departs(f)
        /\ f.h \notin Waiting
    BY DepartingAt DEF Detach, At
  <1>2. PICK h \in Handles : h = f.h
    BY <1>1 DEF Departs
  <1>3. group' = Detached({h}) /\ Goto(t, "pop") /\ UNCHANGED <<queue, private, holder, lock_of>>
    BY <1>2 DEF Detach
  <1>4. /\ Moves(t) /\ next.at = "pop" /\ next.call = f.call /\ next.h = f.h
        /\ next.out = f.out /\ next.keeps = f.keeps
    BY <1>3, GotoMoves DEF Survives
  <1>5. handed' = handed
    BY <1>4, KeepsHanded
  <1>6. /\ Data' /\ Len(group') = Len(group) /\ Handles' = Handles /\ Waiting' = Waiting
        /\ ~ group'[h].on_ready
        /\ \A x \in Handles : (Lost(x) => Lost(x)') /\ (Whole(x) <=> Whole(x)')
    BY <1>3, <1>5, DetachChanges DEF Survives, queue
  <1>7. Within(thread[t], holder[QueueLock].depth)'
    <2>1. Departs(thread[t])'
      BY <1>1, <1>4, <1>5, <1>6, DepartsStays
    <2>2. next.h = h /\ h \notin Waiting' /\ ~ group'[next.h].on_ready
      BY <1>1, <1>2, <1>4, <1>6
    <2> QED
      BY <1>4, <2>1, <2>2 DEF Within
  <1> QED
    BY <1>1, <1>3, <1>4, <1>6, <1>7, StaysKeeps DEF private, queue, Unborn

LEMMA AppendNamesMore ==
  ASSUME NEW S, NEW list \in Seq(S), IsInjective(list), NEW e \in S \ Range(list)
  PROVE  /\ Append(list, e) \in Seq(S) /\ IsInjective(Append(list, e))
         /\ Range(Append(list, e)) = Range(list) \cup {e}
  <1>1. /\ Append(list, e) \in Seq(S) /\ Len(list) \in Nat
        /\ DOMAIN list = 1..Len(list) /\ DOMAIN Append(list, e) = 1..(Len(list) + 1)
        /\ \A i \in 1..Len(list) : Append(list, e)[i] = list[i]
        /\ Append(list, e)[Len(list) + 1] = e
    BY AppendProperties
  <1>2. \A i \in 1..(Len(list) + 1) : i \in 1..Len(list) \/ i = Len(list) + 1
    BY <1>1
  <1>3. \A i \in 1..Len(list) : list[i] # e
    BY <1>1 DEF Range
  <1>4. IsInjective(Append(list, e))
    BY <1>1, <1>2, <1>3 DEF IsInjective
  <1> QED
    BY <1>1, <1>4, RangeOfAppend

LEMMA PopKeeps ==
  ASSUME Survives, NEW t \in Threads, Pop(t), Hands(t)
  PROVE  Survives'
  <1> DEFINE f == thread[t]
             next == thread'[t]
  <1>1. /\ f.at = "pop" /\ holder[QueueLock].by = t /\ ~ Unborn(f) /\ Departs(f)
        /\ f.h \notin Waiting /\ ~ group[f.h].on_ready
    BY DepartingAt DEF Pop, At
  <1>2. PICK h \in Handles : h = f.h
    BY <1>1 DEF Departs
  <1>3. PICK s : s = group[h].sequence
    OBVIOUS
  <1>4. /\ ready_groups' = Without(ready_groups, {s})
        /\ UNCHANGED <<group, groups, member_index, next_sequence, alive, lock_of>>
        /\ IF f.call = "release_all"
           THEN /\ thread' = [thread EXCEPT ![t].at = "peek", ![t].out = Append(@, h)]
                /\ UNCHANGED <<holder, before, result>>
           ELSE Return(t, "Group", <<h>>)
    BY <1>2, <1>3 DEF Pop
  <1>5. /\ DOMAIN ready_groups' = DOMAIN ready_groups \ {s}
        /\ \A x \in DOMAIN ready_groups' : ready_groups'[x] = ready_groups[x]
    BY <1>4 DEF Without, Restrict
  <1>6. /\ Handles' = Handles /\ Waiting' = Waiting
        /\ Range(ready_groups') \subseteq Range(ready_groups)
    BY <1>4, <1>5 DEF Handles, Waiting, Range
  <1>7. /\ \A x : (Lost(x) => Lost(x)') /\ (Whole(x) <=> Whole(x)')
        /\ Lost(h)'
    <2>1. h \notin Range(ready_groups')
      BY <1>3, <1>5 DEF Range, Survives, Data, Filed
    <2>2. \A x : (Lost(x) => Lost(x)') /\ (Whole(x) <=> Whole(x)')
      BY <1>4, <1>6 DEF Lost, Whole
    <2>3. h \notin Waiting'
      BY <1>1, <1>2, <1>6
    <2>4. ~ group'[h].on_ready
      BY <1>1, <1>2, <1>4, Zenon
    <2>5. Lost(h)'
      BY <2>1, <2>3, <2>4 DEF Lost
    <2> QED
      BY <2>2, <2>5
  <1>8. Filed'
    <2>1. \A x \in DOMAIN ready_groups' :
            /\ ready_groups'[x] \in Handles /\ group[ready_groups'[x]].sequence = x
            /\ Whole(ready_groups'[x])
      BY <1>5 DEF Survives, Data, Filed
    <2>2. \A id \in DOMAIN groups : groups[id] \in Handles /\ group[groups[id]].group_id = id
      BY DEF Survives, Data, Filed
    <2> QED
      BY <1>4, <1>6, <2>1, <2>2 DEF Filed, Whole
  <1>9. \A x \in Delivered : Lost(x)'
    BY <1>7 DEF Survives, Data, Parted
  <1>10. PICK out \in Seq(Handles \ Delivered) :
           /\ out = f.out /\ IsInjective(out) /\ h \in Handles \ (Delivered \cup Range(out))
           /\ \A x \in Range(out) : Lost(x) /\ Whole(x)
           /\ f.call # "cancel" => Whole(h)
    BY <1>1, <1>2 DEF Departs, Carries
  <1>11. CASE f.call = "release_all"
    <2>1. /\ thread' = [thread EXCEPT ![t] = [[f EXCEPT !.at = "peek"] EXCEPT !.out = Append(out, h)]]
          /\ UNCHANGED <<holder, before, result>>
          /\ DOMAIN thread = Threads /\ FrameForm(f)
      BY <1>4, <1>10, <1>11 DEF Survives, Framed
    <2>2. next = [[f EXCEPT !.at = "peek"] EXCEPT !.out = Append(out, h)]
      BY <2>1
    <2>3. /\ Moves(t) /\ next.at = "peek" /\ next.call = f.call
          /\ next.out = Append(out, h) /\ next.keeps = f.keeps
      BY <2>1, <2>2 DEF Moves, FrameForm
    <2>4. handed' = handed
      BY <2>3, KeepsHanded
    <2>5. Data'
      BY <1>4, <1>6, <1>8, <2>4, IndexesChange DEF Survives
    <2>6. /\ Append(out, h) \in Seq(Handles \ Delivered) /\ IsInjective(Append(out, h))
          /\ Range(Append(out, h)) = Range(out) \cup {h}
      BY <1>10, AppendNamesMore
    <2>7. Delivered' = Delivered
      BY <2>4 DEF Delivered
    <2>8. Carries(thread[t])'
      <3>1. \A x \in Range(out) \cup {h} : Lost(x)' /\ Whole(x)'
        BY <1>7, <1>10, <1>11
      <3> QED
        BY <1>6, <2>3, <2>6, <2>7, <3>1 DEF Carries
    <2>9. Within(thread[t], holder[QueueLock].depth)'
      BY <1>11, <2>3, <2>8 DEF Within
    <2> QED
      BY <1>1, <1>4, <2>1, <2>3, <2>5, <2>9, StaysKeeps DEF Unborn
  <1>12. CASE f.call # "release_all"
    <2>1. Return(t, "Group", <<h>>) /\ f.call \in Departing
      BY <1>1, <1>4, <1>12 DEF Departs, Departing
    <2>2. PICK list \in Seq(Handles \ Delivered) : list = <<h>>
      <3>1. PICK S : S = Handles \ Delivered
        OBVIOUS
      <3>2. h \in S
        BY <1>10, <3>1
      <3>3. <<h>> \in Seq(S)
        BY <3>2
      <3> QED
        BY <3>1, <3>3
    <2>3. IsInjective(list) /\ Range(list) = {h}
      BY <2>2 DEF IsInjective, Range
    <2>4. Counted'
      BY <1>4 DEF Survives, Data, Counted, Handles, Sound
    <2>5. f.call \in {"release", "release_all"} => \A x \in Range(list) : Whole(x)
      BY <1>10, <2>3
    <2> QED
      BY <1>1, <1>4, <1>7, <1>8, <1>9, <2>1, <2>2, <2>3, <2>4, <2>5, HandsTaken
  <1> QED
    BY <1>11, <1>12
-----------------------------------------------------------------------------
\* clear.

LEMMA ClearCallbacksKeeps ==
  ASSUME Survives, NEW t \in Threads, ClearCallbacks(t), Hands(t)
  PROVE  Survives'
  <1> DEFINE f == thread[t]
             next == thread'[t]
  <1>1. /\ f.at = "clear_callbacks" /\ holder[QueueLock].by = t
        /\ Within(f, holder[QueueLock].depth)
    BY HoldsAt DEF ClearCallbacks, At
  <1>2. f.call = "clear"
    BY <1>1 DEF Within
  <1>3. PICK hs : hs = Waiting
    OBVIOUS
  <1>4. PICK list \in InHandleOrder(hs) :
          thread' = [thread EXCEPT ![t].at = "clear_groups", ![t].out = list]
    BY <1>3 DEF ClearCallbacks
  <1>5. group' = Detached(hs) /\ UNCHANGED <<queue, private, holder, lock_of>>
    BY <1>3 DEF ClearCallbacks
  <1>6. hs \subseteq Handles /\ \A h \in hs : h \notin Delivered
    BY <1>3, DataFacts DEF Survives, Data, Parted, Lost
  <1>7. Range(list) = hs /\ IsInjective(list) /\ list \in Seq(hs)
    <2>1. hs \in SUBSET Nat /\ IsFiniteSet(hs)
      <3>1. Len(group) \in Nat /\ Handles = 1..Len(group)
        BY DataFacts DEF Survives
      <3>2. IsFiniteSet(1..Len(group))
        BY <3>1, FS_Interval
      <3>3. hs \in SUBSET (1..Len(group))
        BY <1>6, <3>1
      <3>4. hs \in SUBSET Nat
        BY <3>1, <3>3
      <3>5. IsFiniteSet(hs)
        BY <3>2, <3>3, FS_Subset
      <3> QED
        BY <3>4, <3>5
    <2> DEFINE key == [h \in hs |-> h]
    <2>2. key \in [hs -> Int] /\ list \in Sorted(hs, key)
      BY <1>4, <2>1 DEF InHandleOrder
    <2>3. Cardinality(hs) \in Nat
      BY <2>1, FS_CardinalityType
    <2>4. list \in Seq(hs)
      BY <2>2, <2>3 DEF Sorted
    <2> HIDE DEF key
    <2> QED
      BY <2>1, <2>2, <2>4, SameLists, Order!SortedNamesAll
  <1>8. /\ thread' = [thread EXCEPT ![t] =
                        [[f EXCEPT !.at = "clear_groups"] EXCEPT !.out = list]]
        /\ DOMAIN thread = Threads /\ FrameForm(f)
    BY <1>4 DEF Survives, Framed
  <1>9. next = [[f EXCEPT !.at = "clear_groups"] EXCEPT !.out = list]
    BY <1>8
  <1>10. /\ Moves(t) /\ next.at = "clear_groups" /\ next.call = f.call
         /\ next.out = list /\ next.keeps = f.keeps
    BY <1>8, <1>9 DEF Moves, FrameForm
  <1>11. handed' = handed
    BY <1>10, KeepsHanded
  <1>12. /\ Data' /\ Len(group') = Len(group) /\ Handles' = Handles
         /\ \A x \in hs \cap Handles : ~ group'[x].on_ready
    BY <1>5, <1>11, DetachChanges DEF Survives, queue
  <1>13. Within(thread[t], holder[QueueLock].depth)'
    <2>1. Delivered' = Delivered
      BY <1>11 DEF Delivered
    <2>2. list \in Seq(Handles \ Delivered)
      <3>1. hs \subseteq Handles \ Delivered
        BY <1>6
      <3> QED
        BY <1>7, <3>1, LongerSeq
    <2>3. \A x \in Range(list) : ~ group'[x].on_ready
      BY <1>6, <1>7, <1>12
    <2>4. Clears(thread[t])'
      BY <1>2, <1>7, <1>10, <1>12, <2>1, <2>2, <2>3 DEF Clears
    <2> QED
      BY <1>10, <2>4 DEF Within
  <1> QED
    BY <1>1, <1>5, <1>10, <1>12, <1>13, StaysKeeps DEF private, queue, Unborn

\* The queue has no groups any more, or is about to have none.
LEMMA ClearingAt ==
  ASSUME Survives, NEW t \in Threads,
         thread[t].at \in {"clear_groups", "clear_members", "clear_ready"}
  PROVE  /\ holder[QueueLock].by = t /\ ~ Unborn(thread[t]) /\ Clears(thread[t])
         /\ thread[t].at # "clear_groups" => groups = EmptyDict
  <1>1. holder[QueueLock].by = t /\ Within(thread[t], holder[QueueLock].depth)
    BY HoldsAt
  <1>2. ~ Unborn(thread[t])
    BY DEF Unborn
  <1> QED
    BY <1>1, <1>2 DEF Within

LEMMA ClearGroupsKeeps ==
  ASSUME Survives, NEW t \in Threads, ClearGroups(t), Hands(t)
  PROVE  Survives'
  <1> DEFINE f == thread[t]
             next == thread'[t]
  <1>1. /\ f.at = "clear_groups" /\ holder[QueueLock].by = t /\ ~ Unborn(f) /\ Clears(f)
    BY ClearingAt DEF ClearGroups, At
  <1>2. /\ groups' = EmptyDict /\ Goto(t, "clear_members")
        /\ UNCHANGED <<group, member_index, next_sequence, ready_groups, ready_heap, private,
                       holder, lock_of>>
    BY DEF ClearGroups
  <1>3. /\ Moves(t) /\ next.at = "clear_members" /\ next.call = f.call
        /\ next.out = f.out /\ next.keeps = f.keeps
    BY <1>2, GotoMoves DEF Survives
  <1>4. handed' = handed
    BY <1>3, KeepsHanded
  <1>5. Waiting' = {} /\ DOMAIN groups' = {}
    BY <1>2 DEF EmptyDict, Waiting
  <1>6. Filed'
    BY <1>2, <1>5 DEF Survives, Data, Filed, Handles, Whole
  <1>7. Data'
    BY <1>2, <1>4, <1>5, <1>6, IndexesChange DEF Survives
  <1>8. Within(thread[t], holder[QueueLock].depth)'
    <2>1. Clears(thread[t])'
      BY <1>1, <1>2, <1>3, <1>4 DEF Clears, Handles, Delivered
    <2>2. next.at = "clear_members" /\ groups' = EmptyDict
      BY <1>2, <1>3
    <2>3. EmptyDict' = EmptyDict
      BY DEF EmptyDict
    <2> QED
      BY <2>1, <2>2, <2>3 DEF Within
  <1> QED
    BY <1>1, <1>2, <1>3, <1>7, <1>8, StaysKeeps DEF private, Unborn

LEMMA ClearMembersKeeps ==
  ASSUME Survives, NEW t \in Threads, ClearMembers(t), Hands(t)
  PROVE  Survives'
  <1> DEFINE f == thread[t]
             next == thread'[t]
  <1>1. /\ f.at = "clear_members" /\ holder[QueueLock].by = t /\ ~ Unborn(f) /\ Clears(f)
        /\ groups = EmptyDict
    BY ClearingAt DEF ClearMembers, At
  <1>2. /\ Goto(t, "clear_ready")
        /\ UNCHANGED <<group, groups, next_sequence, ready_groups, ready_heap, private,
                       holder, lock_of>>
    BY DEF ClearMembers
  <1>3. /\ Moves(t) /\ next.at = "clear_ready" /\ next.call = f.call
        /\ next.out = f.out /\ next.keeps = f.keeps
    BY <1>2, GotoMoves DEF Survives
  <1>4. handed' = handed
    BY <1>3, KeepsHanded
  <1>5. Data'
    BY <1>2, <1>4, DataSame DEF Survives
  <1>6. Within(thread[t], holder[QueueLock].depth)'
    <2>1. Clears(thread[t])'
      BY <1>1, <1>2, <1>3, <1>4 DEF Clears, Handles, Delivered
    <2>2. groups' = EmptyDict
      BY <1>1, <1>2
    <2> QED
      BY <1>3, <2>1, <2>2 DEF Within
  <1> QED
    BY <1>1, <1>2, <1>3, <1>5, <1>6, StaysKeeps DEF private, Unborn

LEMMA ClearReadyKeeps ==
  ASSUME Survives, NEW t \in Threads, ClearReady(t), Hands(t)
  PROVE  Survives'
  <1> DEFINE f == thread[t]
  <1>1. /\ f.at = "clear_ready" /\ holder[QueueLock].by = t /\ ~ Unborn(f) /\ Clears(f)
        /\ groups = EmptyDict
    BY ClearingAt DEF ClearReady, At
  <1>2. /\ ready_groups' = EmptyDict /\ Return(t, "List", f.out)
        /\ UNCHANGED <<group, groups, member_index, next_sequence, alive, lock_of>>
    BY DEF ClearReady
  <1>3. PICK list \in Seq(Handles \ Delivered) : list = f.out
    BY <1>1 DEF Clears
  <1>4. /\ IsInjective(list) /\ f.call = "clear"
        /\ \A x \in Range(list) : ~ group[x].on_ready
    BY <1>1, <1>3 DEF Clears
  <1>5. Return(t, "List", list)
    BY <1>2, <1>3
  <1>6. Waiting' = {} /\ Range(ready_groups') = {} /\ DOMAIN ready_groups' = {}
    BY <1>1, <1>2 DEF Waiting, EmptyDict, Range
  <1>7. Filed' /\ Counted'
    BY <1>1, <1>2, <1>6 DEF Survives, Data, Filed, Counted, Handles, Whole, Sound
  <1>8. \A x \in Delivered : ~ group[x].on_ready
    BY DEF Survives, Data, Parted, Lost
  <1>9. \A x \in Delivered \cup Range(list) : Lost(x)'
    BY <1>2, <1>4, <1>6, <1>8 DEF Lost
  <1>10. f.call \in Departing /\ f.call \notin {"release", "release_all"}
    BY <1>4 DEF Departing
  <1> QED
    BY <1>1, <1>2, <1>4, <1>5, <1>7, <1>9, <1>10, HandsTaken
-----------------------------------------------------------------------------
\* Group.__repr__.

LEMMA ReprAtLabel ==
  ASSUME Survives, NEW t \in Threads, thread[t].at \in {"repr_count", "repr_waiting"}
  PROVE  /\ holder[QueueLock].by = t /\ ~ Unborn(thread[t])
         /\ thread[t].call = "repr" /\ thread[t].h \in Handles
  <1>1. holder[QueueLock].by = t /\ Within(thread[t], holder[QueueLock].depth)
    BY HoldsAt
  <1>2. ~ Unborn(thread[t])
    BY DEF Unborn
  <1> QED
    BY <1>1, <1>2 DEF Within

LEMMA ReprCountKeeps ==
  ASSUME Survives, NEW t \in Threads, ReprCount(t), Hands(t)
  PROVE  Survives'
  <1> DEFINE f == thread[t]
             next == thread'[t]
  <1>1. holder[QueueLock].by = t /\ ~ Unborn(f) /\ f.call = "repr" /\ f.h \in Handles
    BY ReprAtLabel DEF ReprCount, At
  <1>2. PICK out : out = <<group[f.h].ready_count>>
    OBVIOUS
  <1>3. UNCHANGED <<vars, holder, before, lock_of>>
    BY DEF ReprCount
  <1>4. /\ thread' = [thread EXCEPT ![t] =
                        [[f EXCEPT !.at = "repr_waiting"] EXCEPT !.out = out]]
        /\ DOMAIN thread = Threads /\ FrameForm(f)
    BY <1>2 DEF Survives, Framed, ReprCount
  <1>5. next = [[f EXCEPT !.at = "repr_waiting"] EXCEPT !.out = out]
    BY <1>4
  <1>6. /\ Moves(t) /\ next.at = "repr_waiting" /\ next.call = f.call
        /\ next.h = f.h /\ next.keeps = f.keeps
    BY <1>4, <1>5 DEF Moves, FrameForm
  <1>7. handed' = handed
    BY <1>6, KeepsHanded
  <1>8. Data'
    BY <1>3, <1>7, DataSame DEF Survives, vars, queue
  <1>9. Within(thread[t], holder[QueueLock].depth)'
    BY <1>1, <1>3, <1>6 DEF Within, Handles, vars
  <1> QED
    BY <1>1, <1>3, <1>6, <1>8, <1>9, StaysKeeps DEF vars, queue, Unborn

LEMMA ReprWaitingKeeps ==
  ASSUME Survives, NEW t \in Threads, ReprWaiting(t), Hands(t)
  PROVE  Survives'
  <1>1. /\ holder[QueueLock].by = t /\ ~ Unborn(thread[t]) /\ thread[t].call = "repr"
    BY ReprAtLabel DEF ReprWaiting, At
  <1>2. handed' = handed
    BY <1>1, KeepsHanded DEF Departing
  <1>3. End(t) /\ UNCHANGED <<vars, lock_of>>
    BY DEF ReprWaiting
  <1>4. Data'
    BY <1>2, <1>3, DataSame DEF Survives, vars, queue
  <1>5. lock_of' \in Seq({QueueLock}) /\ Len(lock_of') = Len(group')
    BY <1>3 DEF Survives, OneLock, vars
  <1>6. Len(before.group) <= Len(group')
    BY <1>1, <1>3, Holds, LockFacts DEF vars
  <1> QED
    BY <1>1, <1>3, <1>4, <1>5, <1>6, EndKeeps DEF vars, queue
-----------------------------------------------------------------------------
\* The call is cut short.

\* The group that admit had made is lost with the call: nobody knew of it.
LEMMA LosesGroup ==
  ASSUME Survives, NEW t \in Threads, holder[QueueLock].by = t, thread[t].at = "insert",
         group' = ButLast(group), UNCHANGED <<groups, ready_groups, next_sequence, handed>>
  PROVE  Data' /\ Len(group') = Len(group) - 1 /\ Len(group) \in Nat \ {0}
  <1> DEFINE n == Len(group)
  <1>1. Data /\ group \in Seq(GroupRecord) /\ n \in Nat /\ Handles = 1..n
    BY DataFacts DEF Survives
  <1>2. /\ n \in Handles /\ n \notin Delivered
        /\ n \notin Waiting /\ n \notin Range(ready_groups)
    BY Holds DEF Within, Admits
  <1>3. n \in Nat \ {0}
    BY <1>1, <1>2
  <1>4. /\ group' \in Seq(GroupRecord) /\ Len(group') = n - 1
        /\ \A x \in 1..(n - 1) : group'[x] = group[x]
    <2>1. /\ SubSeq(group, 1, n - 1) \in Seq(GroupRecord)
          /\ Len(SubSeq(group, 1, n - 1)) = n - 1
          /\ \A x \in 1..(n - 1) : SubSeq(group, 1, n - 1)[x] = group[x]
      <3>1. \A i \in 1..(n - 1) : group[i] \in GroupRecord
        <4>1. \A i \in 1..Len(group) : group[i] \in GroupRecord
          BY <1>1, ElementOfSeq
        <4> QED
          BY <1>1, <4>1
      <3>2. PICK last : last = n - 1
        OBVIOUS
      <3>3. last \in Nat /\ last - 1 + 1 = last
        BY <1>3, <3>2
      <3>4. /\ SubSeq(group, 1, last) \in Seq(GroupRecord)
            /\ Len(SubSeq(group, 1, last)) = IF 1 <= last THEN last - 1 + 1 ELSE 0
            /\ \A i \in 1..(last - 1 + 1) : SubSeq(group, 1, last)[i] = group[1 + i - 1]
        <4> HIDE DEF n
        <4> QED
          BY <3>1, <3>2, <3>3, SubSeqProperties
      <3>5. Len(SubSeq(group, 1, last)) = last
        BY <3>3, <3>4
      <3>6. \A i \in 1..last : SubSeq(group, 1, last)[i] = group[i]
        <4>1. \A i \in 1..last : 1 + i - 1 = i
          BY <3>3
        <4> QED
          BY <3>3, <3>4, <4>1
      <3> QED
        BY <3>2, <3>4, <3>5, <3>6
    <2> QED
      BY <2>1 DEF ButLast
  <1> HIDE DEF n
  <1>5. Handles' = 1..(n - 1) /\ Handles' = Handles \ {n}
    <2>1. Handles' = 1..(n - 1)
      BY <1>4 DEF Handles
    <2> QED
      BY <1>1, <1>3, <2>1
  <1>6. \A x \in Handles' : group'[x] = group[x] /\ x \in Handles
    BY <1>4, <1>5
  <1>7. Counted'
    BY <1>1, <1>4, <1>6 DEF Data, Counted
  <1>8. Waiting' = Waiting /\ Waiting \subseteq Handles'
        /\ Range(ready_groups) \subseteq Handles'
        /\ Delivered' = Delivered /\ Delivered \subseteq Handles'
    BY <1>1, <1>2, <1>5, DataFacts DEF Waiting, Delivered
  <1>9. \A x \in Handles' : (Whole(x) => Whole(x)') /\ (Lost(x) => Lost(x)')
    BY <1>6, <1>8 DEF Whole, Lost
  <1>10. Filed'
    <2>1. \A id \in DOMAIN groups :
            groups[id] \in Handles' /\ group[groups[id]].group_id = id
      BY <1>1, <1>8 DEF Data, Filed, Waiting
    <2>2. \A s \in DOMAIN ready_groups :
            /\ ready_groups[s] \in Handles' /\ group[ready_groups[s]].sequence = s
            /\ Whole(ready_groups[s])
      BY <1>1, <1>8 DEF Data, Filed, Range
    <2> QED
      BY <1>6, <2>1, <2>2 DEF Filed, Whole
  <1>11. Parted'
    <2>1. handed' \in Seq([call: Departing, h: Handles'])
      <3>1. handed \in Seq([call: Departing, h: Handles])
        BY <1>1 DEF Data, Parted
      <3>2. DOMAIN handed = 1..Len(handed)
        BY <3>1
      <3>3. \A i \in 1..Len(handed) : handed[i] \in [call: Departing, h: Handles']
        <4>1. ASSUME NEW i \in 1..Len(handed)
              PROVE  handed[i] \in [call: Departing, h: Handles']
          <5>1. handed[i] \in [call: Departing, h: Handles]
            BY <3>1, ElementOfSeq
          <5>2. handed[i].h \in Delivered
            BY <3>2 DEF Delivered
          <5> QED
            BY <1>8, <5>1, <5>2
        <4> QED
          BY <4>1
      <3>4. PICK S : S = [call: Departing, h: Handles']
        OBVIOUS
      <3>5. handed \in Seq(S)
        <4>1. \A i \in 1..Len(handed) : handed[i] \in S
          BY <3>3, <3>4
        <4>2. Len(handed) \in Nat /\ handed = [i \in 1..Len(handed) |-> handed[i]]
          BY <3>1
        <4> QED
          BY <4>1, <4>2
      <3> QED
        BY <3>4, <3>5
    <2>2. \A x \in Delivered' : Lost(x)'
      BY <1>1, <1>8, <1>9 DEF Data, Parted
    <2>3. HandedOnce'
      BY <1>1 DEF Data, Parted, HandedOnce
    <2>4. ReleasedWhole'
      <3>1. \A i \in DOMAIN handed : group'[handed[i].h] = group[handed[i].h]
        <4>1. \A i \in DOMAIN handed : handed[i].h \in Delivered
          BY DEF Delivered
        <4> QED
          BY <1>6, <1>8, <4>1
      <3> QED
        BY <1>1, <3>1 DEF Data, Parted, ReleasedWhole
    <2> QED
      BY <2>1, <2>2, <2>3, <2>4 DEF Parted
  <1> QED
    BY <1>3, <1>4, <1>7, <1>10, <1>11 DEF Data, n

LEMMA InterruptKeeps ==
  ASSUME Survives, NEW t \in Threads, Interrupt(t)
  PROVE  Survives'
  <1>1. /\ thread[t].at # "idle" /\ End(t)
        /\ IF thread[t].at = "insert"
           THEN group' = ButLast(group) /\ lock_of' = ButLast(lock_of)
           ELSE UNCHANGED <<group, lock_of>>
        /\ UNCHANGED <<queue, result, handed>>
    BY DEF Interrupt, At
  <1>2. UNCHANGED <<groups, ready_groups, next_sequence, alive>>
    BY <1>1 DEF queue
  <1>3. CASE holder[QueueLock].by # t
    <2>1. thread[t].at # "insert"
      BY <1>3, HoldsNot DEF Outside
    <2>2. UNCHANGED <<group, lock_of>>
      BY <1>1, <2>1
    <2>3. holder' = holder /\ before' = before
      <3>1. \A l \in Locks : holder[l].by # t
        BY <1>3, ThreadsAssumption DEF Survives, OneLock, Free
      <3>2. holder = [l \in Locks |-> holder[l]]
        BY LockFacts
      <3> QED
        BY <1>1, <1>3, <3>1, <3>2 DEF End
    <2>4. Moves(t) /\ thread'[t] = Idle
      BY <1>1, EndMoves DEF Survives
    <2>5. Outside(Len(Settled.group), thread'[t]) /\ thread'[t].keeps = FALSE
      BY <2>4 DEF Outside, Idle, Frame
    <2>6. Data'
      BY <1>1, <1>2, <2>2, DataSame DEF Survives
    <2> QED
      BY <1>1, <1>3, <2>2, <2>3, <2>4, <2>5, <2>6, OutsideKeeps
  <1>4. CASE holder[QueueLock].by = t /\ thread[t].at = "insert"
    <2>1. group' = ButLast(group) /\ lock_of' = ButLast(lock_of)
      BY <1>1, <1>4
    <2>2. Data' /\ Len(group') = Len(group) - 1 /\ Len(group) \in Nat \ {0}
      BY <1>1, <1>2, <1>4, <2>1, LosesGroup
    <2>3. lock_of \in Seq({QueueLock}) /\ Len(lock_of) = Len(group)
      BY DEF Survives, OneLock
    <2>4. lock_of' \in Seq({QueueLock}) /\ Len(lock_of') = Len(group')
      BY <2>1, <2>2, <2>3, SubSeqProperties DEF ButLast
    <2>5. Len(before.group) <= Len(group')
      <3>1. Len(group) = Len(before.group) + 1 /\ Len(before.group) \in Nat
        BY <1>4, Holds, LockFacts DEF Unborn
      <3> QED
        BY <2>2, <3>1
    <2> QED
      BY <1>1, <1>2, <1>4, <2>2, <2>4, <2>5, EndKeeps
  <1>5. CASE holder[QueueLock].by = t /\ thread[t].at # "insert"
    <2>1. UNCHANGED <<group, lock_of>>
      BY <1>1, <1>5
    <2>2. Data'
      BY <1>1, <1>2, <2>1, DataSame DEF Survives
    <2>3. lock_of' \in Seq({QueueLock}) /\ Len(lock_of') = Len(group')
      BY <2>1 DEF Survives, OneLock
    <2>4. Len(before.group) <= Len(group')
      <3>1. Len(group) >= Len(before.group)
        BY <1>5, Holds, LockFacts
      <3> QED
        BY <2>1, <3>1
    <2> QED
      BY <1>1, <1>2, <1>5, <2>2, <2>3, <2>4, EndKeeps
  <1> QED
    BY <1>3, <1>4, <1>5
-----------------------------------------------------------------------------
\* The queue is freed.

LEMMA CollectKeeps ==
  ASSUME Survives, Collect, handed' = handed
  PROVE  Survives'
  <1>1. /\ \A t \in Threads : ~ thread[t].keeps
        /\ groups' = EmptyDict /\ ready_groups' = EmptyDict
        /\ UNCHANGED <<group, next_sequence, thread, holder, lock_of>>
    BY DEF Collect, DropQueue
  <1>2. /\ Waiting' = {} /\ Range(ready_groups') = {}
        /\ DOMAIN groups' = {} /\ DOMAIN ready_groups' = {}
    BY <1>1 DEF EmptyDict, Waiting, Range
  <1>3. Filed'
    BY <1>2 DEF Filed
  <1>4. Data'
    BY <1>1, <1>2, <1>3, IndexesChange DEF Survives
  <1>5. (Busy' <=> Busy) /\ Settled'.group = Settled.group
    <2>1. Busy' <=> Busy
      BY <1>1 DEF Busy
    <2>2. CASE Busy
      <3>1. before' = [before EXCEPT !.groups = EmptyDict, !.member_index = EmptyDict,
                                     !.ready_groups = EmptyDict, !.ready_heap = {}]
        BY <2>2 DEF Collect
      <3>2. before'.group = before.group
        BY <2>2, <3>1 DEF Survives, Remembered
      <3> QED
        BY <2>1, <2>2, <3>2 DEF Settled
    <2>3. CASE ~ Busy
      BY <1>1, <2>1, <2>3, SnapshotIs, SnapshotNext DEF Settled
    <2> QED
      BY <2>1, <2>2, <2>3
  <1>6. Framed'
    <2>1. \A t \in Threads : thread'[t].keeps \in BOOLEAN /\ ~ thread'[t].keeps
      BY <1>1 DEF Survives, Framed
    <2> QED
      BY <1>1, <2>1 DEF Survives, Framed
  <1>7. OneLock'
    BY <1>1 DEF Survives, OneLock
  <1>8. Remembered'
    <2>1. CASE Busy
      <3>1. before' = [before EXCEPT !.groups = EmptyDict, !.member_index = EmptyDict,
                                     !.ready_groups = EmptyDict, !.ready_heap = {}]
        BY <2>1 DEF Collect
      <3>2. before' = [group |-> before'.group, groups |-> before'.groups,
                       member_index |-> before'.member_index,
                       next_sequence |-> before'.next_sequence,
                       ready_groups |-> before'.ready_groups,
                       ready_heap |-> before'.ready_heap]
        BY <2>1, <3>1 DEF Survives, Remembered
      <3> QED
        BY <1>5, <2>1, <3>2 DEF Remembered
    <2>2. CASE ~ Busy
      BY <1>5, <2>2 DEF Survives, Remembered, Collect
    <2> QED
      BY <2>1, <2>2
  <1>9. Known'
    BY <1>1, <1>5 DEF Survives, Known
  <1>10. Somewhere'
    <2>1. ASSUME NEW u \in Threads, holder[QueueLock].by = u
          PROVE  Within(thread[u], holder[QueueLock].depth)'
      <3>1. PICK depth : depth = holder[QueueLock].depth
        OBVIOUS
      <3>2. Within(thread[u], depth)
        BY <2>1, <3>1, Holds
      <3>3. thread'[u] = thread[u] /\ group' = group
        BY <1>1
      <3>4. EmptyDict' = EmptyDict
        BY DEF EmptyDict
      <3>5. Within(thread[u], depth)'
        BY <1>1, <1>2, <3>2, <3>3, <3>4, WithinStays
      <3>6. depth = holder'[QueueLock].depth
        BY <1>1, <3>1
      <3> QED
        BY <3>5, <3>6
    <2>2. ASSUME NEW u \in Threads, holder[QueueLock].by # u
          PROVE  Outside(Len(Settled'.group), thread'[u])
      BY <1>1, <1>5, <2>2, HoldsNot
    <2> QED
      BY <1>1, <2>1, <2>2 DEF Somewhere
  <1> QED
    BY <1>4, <1>6, <1>7, <1>8, <1>9, <1>10 DEF Survives
-----------------------------------------------------------------------------
\* Every step.

LEMMA IStepKeeps ==
  ASSUME Survives, NEW t \in Threads, IStep(t)
  PROVE  Survives'
  <1>1. Hands(t)
    BY DEF IStep, Hands
  <1>2. Step(t) \/ RemoveBreaks(t)
    BY DEF IStep
  <1>3. ASSUME NEW m \in Members,
               \/ Index(t, m) \/ DelMember(t, m)
               \/ NotAMember(t, m) \/ Already(t, m) \/ Flag(t, m)
               \/ Count(t, m) \/ OnReady(t, m) \/ Note(t, m) \/ Push(t, m)
        PROVE  Survives'
    BY <1>1, <1>3, IndexKeeps, DelMemberKeeps, NotAMemberKeeps, AlreadyKeeps, FlagKeeps,
       CountKeeps, OnReadyKeeps, NoteKeeps, PushKeeps
  <1>4. ASSUME \/ Acquire(t) \/ CheckFails(t) \/ Check(t) \/ Insert(t) \/ Install(t)
               \/ FindFails(t) \/ Find(t) \/ Enter(t)
        PROVE  Survives'
    BY <1>1, <1>4, AcquireKeeps, CheckFailsKeeps, CheckKeeps, InsertKeeps, InstallKeeps,
       FindFailsKeeps, FindKeeps, EnterKeeps
  <1>5. ASSUME \/ PeekEnds(t) \/ PeekFinds(t) \/ DelGroup(t) \/ Detach(t) \/ Pop(t)
               \/ ReprCount(t) \/ ReprWaiting(t)
        PROVE  Survives'
    BY <1>1, <1>5, PeekEndsKeeps, PeekFindsKeeps, DelGroupKeeps, DetachKeeps, PopKeeps,
       ReprCountKeeps, ReprWaitingKeeps
  <1>6. ASSUME ClearCallbacks(t) \/ ClearGroups(t) \/ ClearMembers(t) \/ ClearReady(t)
        PROVE  Survives'
    BY <1>1, <1>6, ClearCallbacksKeeps, ClearGroupsKeeps, ClearMembersKeeps, ClearReadyKeeps
  <1> QED
    BY <1>1, <1>2, <1>3, <1>4, <1>5, <1>6, RemoveBreaksKeeps DEF Step

LEMMA UnchangedKeeps ==
  ASSUME Survives, UNCHANGED ivars
  PROVE  Survives'
  <1>1. UNCHANGED <<group, queue, result, thread, holder, lock_of, before, handed>>
    BY DEF ivars, tvars, vars
  <1>2. UNCHANGED <<groups, member_index, next_sequence, ready_groups, ready_heap, alive>>
    BY <1>1 DEF queue
  <1>3. Data'
    BY <1>1, <1>2, DataSame DEF Survives
  <1>4. (Busy' <=> Busy) /\ Settled' = Settled
    <2>1. Snapshot' = Snapshot
      BY <1>1, <1>2 DEF Snapshot
    <2> QED
      BY <1>1, <2>1 DEF Busy, Settled
  <1>5. Framed' /\ OneLock' /\ Remembered' /\ Known'
    BY <1>1, <1>2, <1>4 DEF Survives, Framed, OneLock, Remembered, Known
  <1>6. Somewhere'
    <2>1. ASSUME NEW u \in Threads, holder[QueueLock].by = u
          PROVE  Within(thread[u], holder[QueueLock].depth)'
      <3>1. PICK depth : depth = holder[QueueLock].depth
        OBVIOUS
      <3>2. Within(thread[u], depth)
        BY <2>1, <3>1, Holds
      <3>3. thread'[u] = thread[u] /\ Waiting' = Waiting
        BY <1>1, <1>2 DEF Waiting
      <3>4. Within(thread[u], depth)'
        BY <1>1, <1>2, <3>2, <3>3, WithinStays
      <3>5. depth = holder'[QueueLock].depth
        BY <1>1, <3>1
      <3> QED
        BY <3>4, <3>5
    <2>2. ASSUME NEW u \in Threads, holder[QueueLock].by # u
          PROVE  Outside(Len(Settled'.group), thread'[u])
      BY <1>1, <1>4, <2>2, HoldsNot
    <2> QED
      BY <1>1, <2>1, <2>2 DEF Somewhere
  <1> QED
    BY <1>3, <1>5, <1>6 DEF Survives

LEMMA NextKeeps == Survives /\ [INext]_ivars => Survives'
  <1> SUFFICES ASSUME Survives, [INext]_ivars
               PROVE  Survives'
    OBVIOUS
  <1>1. CASE Collect /\ UNCHANGED <<interrupts, handed>>
    BY <1>1, CollectKeeps
  <1>2. ASSUME NEW t \in Threads, ICall(t) \/ IStep(t) \/ Interrupt(t)
        PROVE  Survives'
    BY <1>2, CallKeeps, IStepKeeps, InterruptKeeps
  <1>3. CASE UNCHANGED ivars
    BY <1>3, UnchangedKeeps
  <1> QED
    BY <1>1, <1>2, <1>3 DEF INext

LEMMA SurvivesAtFirst == IInit => Survives
  <1> SUFFICES ASSUME IInit
               PROVE  Survives
    OBVIOUS
  <1>1. /\ group = <<>> /\ groups = EmptyDict /\ next_sequence = 0
        /\ ready_groups = EmptyDict /\ handed = <<>> /\ lock_of = <<>>
        /\ thread = [t \in Threads |-> Idle] /\ holder = [l \in Locks |-> Free]
        /\ before = NoSnapshot
    BY DEF IInit, TInit, Init
  <1>2. /\ DOMAIN groups = {} /\ DOMAIN ready_groups = {} /\ DOMAIN handed = {}
        /\ Handles = {} /\ Delivered = {}
    BY <1>1 DEF EmptyDict, Handles, Delivered
  <1>3. Data
    <2>1. group \in Seq(GroupRecord) /\ handed \in Seq([call: Departing, h: Handles])
      BY <1>1
    <2> QED
      BY <1>1, <1>2, <2>1 DEF Data, Counted, Filed, Parted, HandedOnce, ReleasedWhole
  <1>4. QueueLock \in Locks /\ holder[QueueLock] = Free
    BY <1>1, BoundsAssumption DEF QueueLock, Locks
  <1>5. ~ Busy
    BY <1>4 DEF Busy, Free
  <1>6. Settled.group = <<>>
    BY <1>1, <1>5, SnapshotIs DEF Settled
  <1>7. \A t \in Threads : thread[t] = Idle
    BY <1>1
  <1>8. Framed
    BY <1>1, <1>7 DEF Framed, FrameForm, Idle, Frame
  <1>9. OneLock
    <2>1. holder \in [Locks -> [by: Threads \cup {Nobody}, depth: Nat]]
      BY <1>1 DEF Free
    <2>2. lock_of \in Seq({QueueLock}) /\ Len(lock_of) = Len(group)
      BY <1>1
    <2> QED
      BY <1>1, <1>4, <2>1, <2>2 DEF OneLock, Free
  <1>10. Remembered
    BY <1>1, <1>5 DEF Remembered
  <1>11. Known
    <2>1. \A t \in Threads : holder[QueueLock].by # t
      BY <1>4, ThreadsAssumption DEF Free
    <2> QED
      BY <1>1, <1>6, <2>1 DEF Known
  <1>12. Somewhere
    <2>1. \A t \in Threads : holder[QueueLock].by # t
      BY <1>4, ThreadsAssumption DEF Free
    <2>2. \A t \in Threads : Outside(Len(Settled.group), thread[t])
      BY <1>7 DEF Outside, Idle, Frame
    <2> QED
      BY <2>1, <2>2 DEF Somewhere
  <1> QED
    BY <1>3, <1>8, <1>9, <1>10, <1>11, <1>12 DEF Survives
-----------------------------------------------------------------------------
\* The theorems.

\* What a queue can still be relied on for after any calls were cut short between any
\* two of their statements: each index holds what it says, no counter runs ahead of
\* its flags, and what was handed over is in neither index.
THEOREM InterruptedSurvive == ISpec => []Survives
  <1>1. IInit => Survives
    BY SurvivesAtFirst
  <1>2. Survives /\ [INext]_ivars => Survives'
    BY NextKeeps
  <1> QED
    BY <1>1, <1>2, PTL DEF ISpec

\* However calls are cut short, no group leaves the queue twice.
THEOREM NeverHandedTwice == ISpec => []HandedOnce
  <1>1. Survives => HandedOnce
    BY DEF Survives, Data, Parted
  <1> QED
    BY <1>1, InterruptedSurvive, PTL

\* However calls are cut short, release and release_all hand over whole groups only.
THEOREM NeverReleasedInPart == ISpec => []ReleasedWhole
  <1>1. Survives => ReleasedWhole
    BY DEF Survives, Data, Parted
  <1> QED
    BY <1>1, InterruptedSurvive, PTL
=============================================================================
