----------------------------- MODULE TitoThreads -----------------------------
(***************************************************************************)
(* The methods of TitoQueue and Group statement by statement, called by    *)
(* several threads at once. What Tito.tla does in one step happens here    *)
(* between taking the queue's reentrant lock and giving it back. A repr    *)
(* reads a group twice under the lock, and the application may let go of   *)
(* the queue while its threads still mark groups.                          *)
(*                                                                         *)
(* Lock 0 is the queue's. Group h is born with a lock of its own, lock h,  *)
(* and admit replaces it by the queue's before anybody can see the group.  *)
(***************************************************************************)
EXTENDS Tito

CONSTANTS
  Threads,   \* the threads that share the queue
  Nobody     \* the holder of a lock that is free

ASSUME ThreadsAssumption == IsFiniteSet(Threads) /\ Nobody \notin Threads

VARIABLES
  thread,    \* the call each thread is in, and where
  holder,    \* the thread that holds each lock, and how many times
  lock_of,   \* the lock of each group
  before     \* the queue as it was when its lock was last taken

tvars == <<vars, thread, holder, lock_of, before>>
private == <<before, result, alive>>

QueueLock == 0
Locks == 0..MaxAdmissions
Busy == holder[QueueLock].depth > 0

Snapshot == [group |-> group, groups |-> groups, member_index |-> member_index,
             next_sequence |-> next_sequence, ready_groups |-> ready_groups,
             ready_heap |-> ready_heap]
NoSnapshot == <<>>

\* The queue as the last locked section that ended has left it.
Settled == IF Busy THEN before ELSE Snapshot

\* Groups whose handle some call has given out.
Published == DOMAIN Settled.group

\* A thread's place in a call: the label it is at, the call and its argument, the
\* group in hand, the members still to do and the one being done, the groups
\* taken out so far (or, in a repr, the count read so far), and whether the call
\* keeps the queue alive.
Frame(at, call, arg) ==
  [at |-> at, call |-> call, arg |-> arg, h |-> 0, left |-> {}, now |-> {}, out |-> <<>>,
   keeps |-> FALSE]
Idle == Frame("idle", "none", <<>>)

At(t, label) == thread[t].at = label
Goto(t, label) == thread' = [thread EXCEPT ![t].at = label]
GotoWith(t, label, h, left) ==
  thread' = [thread EXCEPT ![t].at = label, ![t].h = h, ![t].left = left]
-----------------------------------------------------------------------------
\* The reentrant locks.

Free == [by |-> Nobody, depth |-> 0]
\* Mutant of CanTake: the lock is not reentrant.
CanTakeOnce(t, l) == holder[l].by = Nobody

CanTake(t, l) == holder[l].by \in {Nobody, t}

Take(t, l) ==
  /\ CanTake(t, l)
  /\ holder' = [holder EXCEPT ![l] = [by |-> t, depth |-> @.depth + 1]]
  /\ before' = IF l = QueueLock /\ ~ Busy THEN Snapshot ELSE before

\* Leave a `with` block on l.
Given(l) ==
  IF holder[l].depth = 1 THEN Free ELSE [holder[l] EXCEPT !.depth = @ - 1]

\* The call of t ends and gives back every lock it holds.
End(t) ==
  /\ holder' = [l \in Locks |-> IF holder[l].by = t THEN Free ELSE holder[l]]
  /\ before' = IF holder[QueueLock].by = t THEN NoSnapshot ELSE before
  /\ thread' = [thread EXCEPT ![t] = Idle]

Return(t, value, gs) == End(t) /\ result' = Returns(thread[t].call, value, gs)
-----------------------------------------------------------------------------
\* Calls.

Begin(t, frame) ==
  /\ At(t, "idle")
  /\ thread' = [thread EXCEPT ![t] = frame]
  /\ UNCHANGED <<vars, holder, lock_of, before>>

\* A method of the queue refers to it until it returns.
BeginOnQueue(t, call, arg) ==
  alive /\ Begin(t, [Frame("acquire", call, arg) EXCEPT !.keeps = TRUE])

\* Every admission that is under way may still add a group.
Admitting == {t \in Threads : thread[t].call = "admit"}
Room == Len(Settled.group) + Cardinality(Admitting) < MaxAdmissions

\* Group.__init__ runs before the lock is taken; a list it refuses ends the call.
BeginAdmit(t, id, list) ==
  /\ WellFormed(list)
  /\ Room
  /\ BeginOnQueue(t, "admit", <<id, list>>)

BuildRefused(t, id, list) ==
  /\ At(t, "idle")
  /\ alive
  /\ ~ WellFormed(list)
  /\ result' = Raises("admit")
  /\ UNCHANGED <<group, queue, thread, holder, lock_of, before>>

BeginMember(t, m) == BeginOnQueue(t, "mark_ready", <<m>>)
BeginGroup(t, call, id) == BeginOnQueue(t, call, <<id>>)
BeginQueue(t, call) == BeginOnQueue(t, call, <<>>)
BeginHandle(t, h, m) ==
  Begin(t, [Frame("enter", "mark_ready", <<m>>) EXCEPT !.h = h, !.left = {m}])

FirstLabel ==
  [admit |-> "check", mark_ready |-> "find", mark_group_ready |-> "find",
   cancel |-> "find", peek |-> "peek", release |-> "peek", release_all |-> "peek",
   clear |-> "clear_callbacks"]

Acquire(t) ==
  /\ At(t, "acquire")
  /\ Take(t, QueueLock)
  /\ Goto(t, FirstLabel[thread[t].call])
  /\ UNCHANGED <<vars, lock_of>>
-----------------------------------------------------------------------------
\* admit

CheckFails(t) ==
  /\ At(t, "check")
  /\ ~ Admissible(thread[t].arg[1], thread[t].arg[2])
  /\ Return(t, "TitoError", <<>>)
  /\ UNCHANGED <<group, queue, lock_of>>

\* Mutant of Donated: the group keeps the lock it was born with.
DonatedNever(h) == h

\* The lock that admit gives a group.
Donated(h) == QueueLock

Check(t) ==
  LET id   == thread[t].arg[1]
      list == thread[t].arg[2]
      h    == Len(group) + 1
  IN  /\ At(t, "check")
      /\ Admissible(id, list)
      /\ group' = Append(group, [NewGroup(id, list) EXCEPT !.on_ready = FALSE])
      /\ next_sequence' = next_sequence + 1
      /\ lock_of' = Append(lock_of, Donated(h))
      /\ GotoWith(t, "insert", h, Range(list))
      /\ UNCHANGED <<groups, member_index, ready_groups, ready_heap, private, holder>>

Insert(t) ==
  /\ At(t, "insert")
  /\ groups' = Put(groups, thread[t].arg[1], thread[t].h)
  /\ Goto(t, "index")
  /\ UNCHANGED <<group, member_index, next_sequence, ready_groups, ready_heap,
                 private, holder, lock_of>>

\* One turn of the loop over the members.
Index(t, m) ==
  /\ At(t, "index")
  /\ m \in thread[t].left
  /\ member_index' = IndexMembers(thread[t].arg[1], {m})
  /\ GotoWith(t, IF thread[t].left = {m} THEN "install" ELSE "index",
              thread[t].h, thread[t].left \ {m})
  /\ UNCHANGED <<group, groups, next_sequence, ready_groups, ready_heap,
                 private, holder, lock_of>>

Install(t) ==
  /\ At(t, "install")
  /\ group' = [group EXCEPT ![thread[t].h] = [@ EXCEPT !.on_ready = ~ StrictOrder]]
  /\ Return(t, "Group", <<thread[t].h>>)
  /\ UNCHANGED <<queue, lock_of>>
-----------------------------------------------------------------------------
\* group_of and _find

\* The id that the call looks up, if it has one, and the group under it.
Key(t) ==
  IF thread[t].call = "mark_ready"
  THEN {member_index[m] : m \in {thread[t].arg[1]} \cap DOMAIN member_index}
  ELSE {thread[t].arg[1]}
Found(t) == {groups[id] : id \in Key(t) \cap DOMAIN groups}

\* group_of catches the KeyError of the first index only.
FindFails(t) ==
  /\ At(t, "find")
  /\ Found(t) = {}
  /\ Return(t, IF thread[t].call = "mark_ready" /\ Key(t) # {} THEN "KeyError" ELSE "TitoError",
            <<>>)
  /\ UNCHANGED <<group, queue, lock_of>>

Find(t) ==
  /\ At(t, "find")
  /\ \E h \in Found(t) :
       CASE thread[t].call = "mark_ready"       -> GotoWith(t, "enter", h, {thread[t].arg[1]})
         [] thread[t].call = "mark_group_ready" -> GotoWith(t, "enter", h, group[h].members)
         [] thread[t].call = "cancel"           -> GotoWith(t, "del_group", h, {})
  /\ UNCHANGED <<vars, holder, lock_of, before>>
-----------------------------------------------------------------------------
\* Group.mark_ready, called by a thread that may hold the queue's lock already.

Enter(t) ==
  /\ At(t, "enter")
  /\ Take(t, lock_of[thread[t].h])
  /\ Goto(t, "flag")
  /\ UNCHANGED <<vars, lock_of>>

\* The group's method returns: to the caller of the group, to the caller of the
\* queue, or to the loop of mark_group_ready.
LeaveMark(t, m, ready) ==
  LET h == thread[t].h
      l == lock_of[h]
      rest == thread[t].left \ {m}
      value == IF thread[t].call = "mark_group_ready" THEN "True" ELSE Answer(ready)
  IN  IF rest # {}
      THEN /\ holder' = [holder EXCEPT ![l] = Given(l)]
           /\ GotoWith(t, "enter", h, rest)
           /\ UNCHANGED <<before, result>>
      ELSE Return(t, value, <<>>)

NotAMember(t, m) ==
  /\ At(t, "flag")
  /\ thread[t].left = {m}
  /\ m \notin group[thread[t].h].members
  /\ Return(t, "TitoError", <<>>)
  /\ UNCHANGED <<group, queue, lock_of>>

Already(t, m) ==
  /\ At(t, "flag")
  /\ m \in thread[t].left \cap group[thread[t].h].ready
  /\ UNCHANGED <<group, queue, lock_of>>
  /\ LeaveMark(t, m, IsReady(group[thread[t].h]))

\* Mutant of Write: the counter first, then the flag.
WriteSwapped(n, g, m) ==
  IF n = 2 THEN [g EXCEPT !.ready = @ \cup {m}] ELSE [g EXCEPT !.ready_count = @ + 1]

\* The two statements that mark m: first the flag, then the counter.
Write(n, g, m) ==
  IF n = 1 THEN [g EXCEPT !.ready = @ \cup {m}] ELSE [g EXCEPT !.ready_count = @ + 1]

Flag(t, m) ==
  /\ At(t, "flag")
  /\ m \in thread[t].left \cap (group[thread[t].h].members \ group[thread[t].h].ready)
  /\ group' = [group EXCEPT ![thread[t].h] = Write(1, @, m)]
  /\ thread' = [thread EXCEPT ![t].at = "count", ![t].now = {m}]
  /\ UNCHANGED <<queue, private, holder, lock_of>>

Count(t, m) ==
  LET h == thread[t].h
      counted == Write(2, group[h], m)
  IN  /\ At(t, "count")
      /\ m \in thread[t].now
      /\ group' = [group EXCEPT ![h] = counted]
      /\ IF IsReady(counted) /\ counted.on_ready
         THEN Goto(t, "on_ready") /\ UNCHANGED <<holder, before, result>>
         ELSE LeaveMark(t, m, IsReady(counted))
      /\ UNCHANGED <<queue, lock_of>>

\* Mutant of OnReady: the queue is looked up and not held.
OnReadyNotHolding(t, m) ==
  /\ At(t, "on_ready")
  /\ m \in thread[t].now
  /\ IF alive THEN Goto(t, "note") /\ UNCHANGED <<holder, before, result>>
              ELSE LeaveMark(t, m, TRUE)
  /\ UNCHANGED <<group, queue, lock_of>>

\* The callback finds its queue through a weak reference, and holds it from there.
OnReady(t, m) ==
  /\ At(t, "on_ready")
  /\ m \in thread[t].now
  /\ IF alive
     THEN /\ thread' = [thread EXCEPT ![t].at = "note", ![t].keeps = TRUE]
          /\ UNCHANGED <<holder, before, result>>
     ELSE LeaveMark(t, m, TRUE)
  /\ UNCHANGED <<group, queue, lock_of>>

\* _note_ready: the index, then the heap.
Note(t, m) ==
  LET h == thread[t].h
      s == group[h].sequence
  IN  /\ At(t, "note")
      /\ m \in thread[t].now
      /\ IF s \in DOMAIN ready_groups
         THEN LeaveMark(t, m, TRUE) /\ UNCHANGED ready_groups
         ELSE /\ ready_groups' = Put(ready_groups, s, h)
              /\ Goto(t, "push")
              /\ UNCHANGED <<holder, before, result>>
      /\ UNCHANGED <<group, groups, member_index, next_sequence, ready_heap, alive,
                     lock_of>>

Push(t, m) ==
  /\ At(t, "push")
  /\ m \in thread[t].now
  /\ ready_heap' = ready_heap \cup {group[thread[t].h].sequence}
  /\ LeaveMark(t, m, TRUE)
  /\ UNCHANGED <<group, groups, member_index, next_sequence, ready_groups, alive,
                 lock_of>>
-----------------------------------------------------------------------------
\* peek and release; release_all repeats them with the lock held. The loop that pops
\* stale heap entries and what follows it in the same call are one step.

PeekEnds(t) ==
  /\ At(t, "peek")
  /\ NextOut = {} \/ thread[t].call = "peek"
  /\ ready_heap' = Purged
  /\ IF thread[t].call = "release_all"
     THEN Return(t, "List", thread[t].out)
     ELSE IF NextOut = {}
     THEN Return(t, "None", <<>>)
     ELSE \E h \in NextOut : Return(t, "Group", <<h>>)
  /\ UNCHANGED <<group, groups, member_index, next_sequence, ready_groups, alive,
                 lock_of>>

PeekFinds(t) ==
  /\ At(t, "peek")
  /\ thread[t].call # "peek"
  /\ \E h \in NextOut : GotoWith(t, "del_group", h, {})
  /\ ready_heap' = Purged
  /\ UNCHANGED <<group, groups, member_index, next_sequence, ready_groups, private,
                 holder, lock_of>>

\* _remove
DelGroup(t) ==
  LET h == thread[t].h
  IN  /\ At(t, "del_group")
      /\ group[h].group_id \in DOMAIN groups
      /\ groups' = Without(groups, {group[h].group_id})
      /\ GotoWith(t, "del_members", h, group[h].members)
      /\ UNCHANGED <<group, member_index, next_sequence, ready_groups, ready_heap,
                     private, holder, lock_of>>

\* Mutant of DelMember: the index is dropped to be filled again.
DelMemberAll(t, m) ==
  /\ At(t, "del_members")
  /\ m \in thread[t].left
  /\ member_index' = EmptyDict
  /\ GotoWith(t, "detach", thread[t].h, {})
  /\ UNCHANGED <<group, groups, next_sequence, ready_groups, ready_heap, private,
                 holder, lock_of>>

DelMember(t, m) ==
  /\ At(t, "del_members")
  /\ m \in thread[t].left \cap DOMAIN member_index
  /\ member_index' = Without(member_index, {m})
  /\ GotoWith(t, IF thread[t].left = {m} THEN "detach" ELSE "del_members",
              thread[t].h, thread[t].left \ {m})
  /\ UNCHANGED <<group, groups, next_sequence, ready_groups, ready_heap, private,
                 holder, lock_of>>

Detach(t) ==
  /\ At(t, "detach")
  /\ group' = Detached({thread[t].h})
  /\ Goto(t, "pop")
  /\ UNCHANGED <<queue, private, holder, lock_of>>

\* One step from the pop of the ready index on: the compaction, and the return of the
\* group or its place in the list of release_all.
Pop(t) ==
  LET h == thread[t].h
      s == group[h].sequence
      live == DOMAIN ready_groups \ {s}
  IN  /\ At(t, "pop")
      /\ ready_groups' = Without(ready_groups, {s})
      /\ ready_heap' = IF s \in DOMAIN ready_groups THEN Compacted(ready_heap, live)
                                                    ELSE ready_heap
      /\ UNCHANGED <<group, groups, member_index, next_sequence, alive, lock_of>>
      /\ IF thread[t].call = "release_all"
         THEN /\ thread' = [thread EXCEPT ![t].at = "peek", ![t].out = Append(@, h)]
              /\ UNCHANGED <<holder, before, result>>
         ELSE Return(t, "Group", <<h>>)
-----------------------------------------------------------------------------
\* clear

ClearCallbacks(t) ==
  /\ At(t, "clear_callbacks")
  /\ group' = Detached(Waiting)
  /\ \E list \in InHandleOrder(Waiting) :
       thread' = [thread EXCEPT ![t].at = "clear_groups", ![t].out = list]
  /\ UNCHANGED <<queue, private, holder, lock_of>>

ClearGroups(t) ==
  /\ At(t, "clear_groups")
  /\ groups' = EmptyDict
  /\ Goto(t, "clear_members")
  /\ UNCHANGED <<group, member_index, next_sequence, ready_groups, ready_heap, private,
                 holder, lock_of>>

ClearMembers(t) ==
  /\ At(t, "clear_members")
  /\ member_index' = EmptyDict
  /\ Goto(t, "clear_ready")
  /\ UNCHANGED <<group, groups, next_sequence, ready_groups, ready_heap, private,
                 holder, lock_of>>

ClearReady(t) ==
  /\ At(t, "clear_ready")
  /\ ready_groups' = EmptyDict
  /\ ready_heap' = {}
  /\ Return(t, "List", thread[t].out)
  /\ UNCHANGED <<group, groups, member_index, next_sequence, alive, lock_of>>
-----------------------------------------------------------------------------
\* Group.__repr__ reads the counter and then, through a property that takes the
\* lock again, the flags. The other inspections read once.

\* Mutant of BeginRepr: no lock is taken around the two reads.
BeginReprUnlocked(t, h) ==
  Begin(t, [Frame("repr_count", "repr", <<>>) EXCEPT !.h = h])

\* Called and inside: until it has the lock a repr has done nothing.
BeginRepr(t, h) ==
  /\ At(t, "idle")
  /\ Take(t, lock_of[h])
  /\ thread' = [thread EXCEPT ![t] = [Frame("repr_count", "repr", <<>>) EXCEPT !.h = h]]
  /\ UNCHANGED <<vars, lock_of>>

ReprCount(t) ==
  /\ At(t, "repr_count")
  /\ thread' = [thread EXCEPT ![t].at = "repr_waiting",
                              ![t].out = <<group[thread[t].h].ready_count>>]
  /\ UNCHANGED <<vars, holder, before, lock_of>>

ReprWaiting(t) ==
  /\ At(t, "repr_waiting")
  /\ CanTake(t, lock_of[thread[t].h])
  /\ End(t)
  /\ UNCHANGED <<vars, lock_of>>
-----------------------------------------------------------------------------
\* The application's last reference to the queue is gone and no call that is under
\* way holds one: the queue is freed. Its lock lives on in the groups.
Collect ==
  /\ \A t \in Threads : ~ thread[t].keeps
  /\ DropQueue
  /\ before' = IF Busy
               THEN [before EXCEPT !.groups = EmptyDict, !.member_index = EmptyDict,
                                   !.ready_groups = EmptyDict, !.ready_heap = {}]
               ELSE before
  /\ UNCHANGED <<thread, holder, lock_of>>

TInit ==
  /\ Init
  /\ thread = [t \in Threads |-> Idle]
  /\ holder = [l \in Locks |-> Free]
  /\ lock_of = <<>>
  /\ before = NoSnapshot

Call(t) ==
  \/ \E id \in GroupIds, list \in MemberLists :
       BeginAdmit(t, id, list) \/ BuildRefused(t, id, list)
  \/ \E m \in Members : BeginMember(t, m)
  \/ \E id \in GroupIds, call \in {"mark_group_ready", "cancel"} : BeginGroup(t, call, id)
  \/ \E call \in {"peek", "release", "release_all", "clear"} : BeginQueue(t, call)
  \/ \E h \in Published : BeginRepr(t, h) \/ \E m \in Members : BeginHandle(t, h, m)

Step(t) ==
  \/ Acquire(t) \/ CheckFails(t) \/ Check(t) \/ Insert(t) \/ Install(t)
  \/ FindFails(t) \/ Find(t) \/ Enter(t)
  \/ PeekEnds(t) \/ PeekFinds(t) \/ DelGroup(t) \/ Detach(t) \/ Pop(t)
  \/ ReprCount(t) \/ ReprWaiting(t)
  \/ ClearCallbacks(t) \/ ClearGroups(t) \/ ClearMembers(t) \/ ClearReady(t)
  \/ \E m \in Members : \/ Index(t, m) \/ DelMember(t, m)
                        \/ NotAMember(t, m) \/ Already(t, m) \/ Flag(t, m)
                        \/ Count(t, m) \/ OnReady(t, m) \/ Note(t, m) \/ Push(t, m)

\* The queue is gone and nobody was ever given a group: there is nothing to call.
Over == ~ alive /\ Published = {} /\ \A t \in Threads : At(t, "idle")

TNext ==
  \/ Collect
  \/ \E t \in Threads : Call(t) \/ Step(t)
  \/ Over /\ UNCHANGED tvars

TSpec == TInit /\ [][TNext]_tvars
-----------------------------------------------------------------------------
\* Properties.

\* Each locked section is one step of Tito, whatever the other threads do: the
\* README's "every public operation is atomic", for the operations that lock.
Atomic == INSTANCE Tito WITH
  group         <- Settled.group,
  groups        <- Settled.groups,
  member_index  <- Settled.member_index,
  next_sequence <- Settled.next_sequence,
  ready_groups  <- Settled.ready_groups,
  ready_heap    <- Settled.ready_heap
ImplementsTito == Atomic!Spec

\* The groups that the call holding the queue's lock is moving in or out.
UnderWay ==
  UNION {{thread[t].h} \cup Range(thread[t].out) :
           t \in {u \in Threads : holder[QueueLock].by = u}}

\* A lookup without the lock is wrong only about members of the groups that the
\* call under way is moving: for all others the index is as the last call left it.
\* A length read without the lock counts wrong only those groups.
LooksWrongOnlyUnderWay ==
  Busy => /\ \A m \in Members :
               \/ m \in DOMAIN member_index <=> m \in DOMAIN before.member_index
               \/ \E h \in UnderWay \cap Handles : m \in group[h].members
          /\ \A id \in GroupIds :
               \/ id \in DOMAIN groups <=> id \in DOMAIN before.groups
               \/ \E h \in UnderWay \cap Handles : group[h].group_id = id

\* A repr tells one story: the count that it read is still the number of members
\* marked when it reads who is waiting, whatever other threads mark meanwhile.
ReprAgrees ==
  \A t \in Threads : At(t, "repr_waiting") =>
    thread[t].out = <<Cardinality(group[thread[t].h].ready)>>

=============================================================================
