------------------------------- MODULE CQueue -------------------------------
(***************************************************************************)
(* The port in examples/tito_example.c. The queue owns an array of Group   *)
(* structs. A caller that is handed a waiting group gets a pointer into    *)
(* that array; a group that leaves is copied into the caller's own struct, *)
(* and the slots above it move down by one. A slot above group_count keeps *)
(* what was last in it, and pointers to it are not revoked.                *)
(*                                                                         *)
(* `handle`, in a struct, is not in the code: it tells which admission the *)
(* struct is about.                                                        *)
(***************************************************************************)
EXTENDS TitoCalls

CONSTANTS
  MaxGroups,   \* MAX_GROUPS: slots in the array
  MaxMembers,  \* MAX_MEMBERS: members that a slot has room for
  LongNames,   \* ids and members of MAX_NAME characters or more
  Careful      \* callers use no pointer to a group that left its slot, and pass
               \* buffers as long as the array

ASSUME ArrayAssumption == MaxGroups \in Nat /\ MaxMembers \in Nat /\ Careful \in BOOLEAN

VARIABLES
  slots,        \* queue->groups, as far as it has ever been in use
  group_count,  \* queue->group_count
  out,          \* handle -> the caller's copy of a group that has left
  no_room,      \* TRUE when the last call was refused for its size alone
  result        \* what the last call that was not so refused gave its caller

vars == <<slots, group_count, out, no_room, result>>

Filled == 1..group_count
EmptyDict == [x \in {} |-> x]
Waiting == {slots[s].handle : s \in Filled}
Admitted == Cardinality(Waiting \cup DOMAIN out)

\* Pointers to slots that callers may use.
Pointers == IF Careful THEN Filled ELSE DOMAIN slots

\* Lengths of the buffers they may pass.
Capacities == IF Careful THEN {MaxGroups} ELSE 0..MaxGroups
-----------------------------------------------------------------------------
\* Groups.

IsReady(g) == g.ready_count = Len(g.members)

\* Mutant of Marked: a member that was marked before is counted again.
MarkedAgain(g, m) == [g EXCEPT !.ready = @ \cup {m}, !.ready_count = @ + 1]

\* group_mark_ready
Marked(g, m) ==
  [g EXCEPT !.ready = @ \cup {m},
            !.ready_count = IF m \in g.ready THEN @ ELSE @ + 1]

\* The lowest of some slots, if there is one: where a search of the array ends.
First(at) == {s \in at : \A r \in at : s <= r}
Named(id) == First({s \in Filled : slots[s].id = id})
GroupOf(m) == First({s \in Filled : m \in Range(slots[s].members)})

\* tito_peek_index
NextOut ==
  IF StrictOrder
  THEN {s \in Filled \cap {1} : IsReady(slots[s])}
  ELSE First({s \in Filled : IsReady(slots[s])})
-----------------------------------------------------------------------------
\* Admission.

Fits(id, list) ==
  /\ ({id} \cup Range(list)) \cap LongNames = {}
  /\ Len(list) <= MaxMembers
  /\ group_count < MaxGroups

Admissible(id, list) ==
  /\ WellFormed(list)
  /\ Named(id) = {}
  /\ \A i \in DOMAIN list : GroupOf(list[i]) = {}

\* Mutant of Fresh: the flags that the slot held are not cleared.
FreshWithOldFlags(id, list) ==
  [id |-> id, members |-> list, ready_count |-> 0, handle |-> Admitted + 1,
   ready |-> IF group_count < Len(slots)
             THEN slots[group_count + 1].ready \cap Range(list) ELSE {}]

\* What admit writes into the first free slot, over whatever was there.
Fresh(id, list) ==
  [id |-> id, members |-> list, ready_count |-> 0, handle |-> Admitted + 1, ready |-> {}]

Admit(id, list) ==
  /\ Admitted < MaxAdmissions
  /\ Fits(id, list)
  /\ Admissible(id, list)
  /\ slots' = IF group_count = Len(slots) THEN Append(slots, Fresh(id, list))
              ELSE [slots EXCEPT ![group_count + 1] = Fresh(id, list)]
  /\ group_count' = group_count + 1
  /\ result' = Returns("admit", "Group", <<Admitted + 1>>)
  /\ no_room' = FALSE
  /\ UNCHANGED out

Refuse(call) ==
  /\ result' = Raises(call)
  /\ no_room' = FALSE
  /\ UNCHANGED <<slots, group_count, out>>

AdmitRefused(id, list) == ~ Admissible(id, list) /\ Refuse("admit")

\* Nothing is wrong with the group but its size, or that of the line.
AdmitNoRoom(id, list) ==
  /\ Admissible(id, list)
  /\ ~ Fits(id, list)
  /\ no_room' = TRUE
  /\ UNCHANGED <<slots, group_count, out, result>>
-----------------------------------------------------------------------------
\* Readiness.

\* group_mark_ready through a pointer to a slot, and on the caller's own copy.
MarkSlot(s, m) ==
  /\ m \in Range(slots[s].members)
  /\ slots' = [slots EXCEPT ![s] = Marked(slots[s], m)]
  /\ result' = Returns("mark_ready", Answer(IsReady(slots'[s])), <<>>)
  /\ no_room' = FALSE
  /\ UNCHANGED <<group_count, out>>

MarkSlotRefused(s, m) == m \notin Range(slots[s].members) /\ Refuse("mark_ready")

MarkCopy(h, m) ==
  /\ m \in Range(out[h].members)
  /\ out' = [out EXCEPT ![h] = Marked(out[h], m)]
  /\ result' = Returns("mark_ready", Answer(IsReady(out'[h])), <<>>)
  /\ no_room' = FALSE
  /\ UNCHANGED <<slots, group_count>>

MarkCopyRefused(h, m) == m \notin Range(out[h].members) /\ Refuse("mark_ready")

\* tito_mark_ready
MarkReady(m) == \E s \in GroupOf(m) : MarkSlot(s, m)
MarkReadyRefused(m) == GroupOf(m) = {} /\ Refuse("mark_ready")

\* tito_mark_group_ready sets the counter rather than counting.
MarkGroupReady(s) ==
  /\ slots' = [slots EXCEPT ![s].ready = Range(slots[s].members),
                            ![s].ready_count = Len(slots[s].members)]
  /\ result' = Returns("mark_group_ready", "True", <<>>)
  /\ no_room' = FALSE
  /\ UNCHANGED <<group_count, out>>
-----------------------------------------------------------------------------
\* Departure.

\* The numbers of some slots, lowest first.
InSlotOrder(at) == Sorted(at, [s \in at |-> s])

\* Mutant of ShiftDown: the shift stops one slot short.
ShiftDownShort(left) ==
  [r \in DOMAIN slots |-> IF r \in DOMAIN left /\ left[r] < group_count
                         THEN slots[left[r]] ELSE slots[r]]

\* tito_remove_at, once for each slot that is not in `left`: the groups left move
\* down. A shift takes nothing out of the last slot, so that the slots which fall
\* free all end up with its struct.
ShiftDown(left) ==
  [r \in DOMAIN slots |-> CASE r \in DOMAIN left          -> slots[left[r]]
                            [] r \in Filled \ DOMAIN left -> slots[group_count]
                            [] r \notin Filled            -> slots[r]]

\* The slot of a waiting group.
SlotOf(h) == CHOOSE s \in Filled : slots[s].handle = h

\* The groups in the slots `at` are copied out, each to a struct of its own.
CopyOut(at) ==
  out' = [h \in DOMAIN out \cup {slots[s].handle : s \in at} |->
            IF h \in DOMAIN out THEN out[h] ELSE slots[SlotOf(h)]]

\* Each of the groups in the slots `at` is copied out and removed, in turn.
Depart(at) ==
  /\ CopyOut(at)
  /\ \E left \in InSlotOrder(Filled \ at) : slots' = ShiftDown(left)
  /\ group_count' = group_count - Cardinality(at)
  /\ no_room' = FALSE

Peek ==
  /\ result' \in IF NextOut = {} THEN {Returns("peek", "None", <<>>)}
                 ELSE {Returns("peek", "Group", <<slots[s].handle>>) : s \in NextOut}
  /\ no_room' = FALSE
  /\ UNCHANGED <<slots, group_count, out>>

Release ==
  \E s \in NextOut :
    /\ Depart({s})
    /\ result' = Returns("release", "Group", <<slots[s].handle>>)

ReleaseNone ==
  /\ NextOut = {}
  /\ Depart({})
  /\ result' = Returns("release", "None", <<>>)

\* The handles of the groups in some slots, in the order of the slots: the list
\* of them, and there is only one.
Line(at) == {[i \in DOMAIN list |-> slots[list[i]].handle] : list \in InSlotOrder(at)}

\* Mutant of AllOut: the loop asks one turn too late whether the buffer is full.
AllOutOnePast(capacity) ==
  LET able == {s \in Filled : /\ IsReady(slots[s])
                              /\ StrictOrder => \A r \in 1..s : IsReady(slots[r])}
  IN  {s \in able : Cardinality({r \in able : r < s}) <= capacity}

\* What the loop of tito_release_all releases into a buffer of that length.
AllOut(capacity) ==
  LET able == {s \in Filled : /\ IsReady(slots[s])
                              /\ StrictOrder => \A r \in 1..s : IsReady(slots[r])}
  IN  {s \in able : Cardinality({r \in able : r < s}) < capacity}

ReleaseAll(capacity) ==
  /\ Depart(AllOut(capacity))
  /\ \E list \in Line(AllOut(capacity)) : result' = Returns("release_all", "List", list)

Cancel(s) ==
  /\ Depart({s})
  /\ result' = Returns("cancel", "Group", <<slots[s].handle>>)

\* tito_clear copies the groups out and leaves the slots as they are.
Clear(capacity) ==
  /\ group_count <= capacity
  /\ CopyOut(Filled)
  /\ \E list \in Line(Filled) : result' = Returns("clear", "List", list)
  /\ group_count' = 0
  /\ no_room' = FALSE
  /\ UNCHANGED slots

ClearRefused(capacity) == capacity < group_count /\ Refuse("clear")

Init ==
  /\ slots = <<>>
  /\ group_count = 0
  /\ out = EmptyDict
  /\ no_room = FALSE
  /\ result = Returns("init", "None", <<>>)

Next ==
  \/ \E id \in GroupIds, list \in MemberLists :
       Admit(id, list) \/ AdmitRefused(id, list) \/ AdmitNoRoom(id, list)
  \/ \E s \in Pointers, m \in Members : MarkSlot(s, m) \/ MarkSlotRefused(s, m)
  \/ \E h \in DOMAIN out, m \in Members : MarkCopy(h, m) \/ MarkCopyRefused(h, m)
  \/ \E m \in Members : MarkReady(m) \/ MarkReadyRefused(m)
  \/ \E id \in GroupIds :
       \/ \E s \in Named(id) : MarkGroupReady(s) \/ Cancel(s)
       \/ Named(id) = {} /\ (Refuse("mark_group_ready") \/ Refuse("cancel"))
  \/ Peek \/ Release \/ ReleaseNone
  \/ \E capacity \in Capacities :
       ReleaseAll(capacity) \/ Clear(capacity) \/ ClearRefused(capacity)

Spec == Init /\ [][Next]_vars
-----------------------------------------------------------------------------
\* Properties.

\* The array holds whole groups in order of arrival, nobody twice, and every
\* struct, in a slot in use or not or in a caller's hands, counts its flags
\* right. It holds though callers mark through pointers that have gone stale.
ArrayInOrder ==
  /\ group_count <= Len(slots) /\ Len(slots) <= MaxGroups
  /\ \A r, s \in Filled : r < s =>
       /\ slots[r].handle < slots[s].handle
       /\ slots[r].id # slots[s].id
       /\ Range(slots[r].members) \cap Range(slots[s].members) = {}
  /\ \A g \in Range(slots) \cup Range(out) : g.ready_count = Cardinality(g.ready)

\* Callers that mark the wrong slot do not mix groups up: the struct that a
\* group leaves with is the one it waited in, a waiting group stays who it is
\* and loses no flag, and a call hands over exactly the groups it copied out.
CopiedOutWhole ==
  [][ /\ \A r \in Filled : \/ \E s \in 1..group_count' :
                               /\ slots'[s].handle = slots[r].handle
                               /\ slots'[s].members = slots[r].members
                               /\ slots[r].ready \subseteq slots'[s].ready
                           \/ /\ slots[r].handle \in DOMAIN out'
                              /\ out'[slots[r].handle] = slots[r]
      /\ \A h \in DOMAIN out : h \in DOMAIN out' /\ out[h].ready \subseteq out'[h].ready
      /\ result'.call \in Departing /\ result' # result =>
           Range(result'.groups) = DOMAIN out' \ DOMAIN out ]_vars

\* release_all writes nothing past the end of its caller's buffer, however short, and
\* leaves a group in line that the next release would take only when the buffer is full.
\* clear writes nothing past the end either.
BuffersRespected ==
  [][ /\ result'.call = "release_all" =>
           \A capacity \in Capacities : ReleaseAll(capacity) =>
             /\ Len(result'.groups) <= capacity
             /\ Len(result'.groups) < capacity => NextOut' = {}
      /\ result'.call = "clear" =>
           \A capacity \in Capacities : Clear(capacity) =>
             Len(result'.groups) <= capacity ]_vars

\* With careful callers every call is answered as the discipline says; a call
\* refused for its size alone is one that the discipline never saw.
Struct(h) == IF h \in DOMAIN out THEN out[h] ELSE slots[SlotOf(h)]
Roster == [h \in 1..Admitted |-> [group_id |-> Struct(h).id,
                                 members |-> Range(Struct(h).members),
                                 ready |-> Struct(h).ready]]
Promised == INSTANCE Discipline WITH roster <- Roster, waiting <- Waiting, alive <- TRUE
ImplementsDiscipline == Promised!Spec
=============================================================================
