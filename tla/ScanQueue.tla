----------------------------- MODULE ScanQueue -----------------------------
(***************************************************************************)
(* The ports of the queue in examples/, all but the one in C. They have    *)
(* one thread, no ready index and no callback: peek scans the waiting      *)
(* groups in arrival order. The variable `port` says which program runs;   *)
(* it is chosen once. Two things set the ports apart:                      *)
(*                                                                         *)
(*   store   the groups are in an insertion-ordered "map" by id, in a      *)
(*           "list" beside a map by id ("both"), or in a "list" alone,     *)
(*           searched for an id from the front;                            *)
(*   copies  whether a group copies the list of members it is given, or    *)
(*           keeps the very list that its caller may edit later.           *)
(***************************************************************************)
EXTENDS TitoCalls

CONSTANT
  Ports    \* the ports that this instance looks at

ASSUME PortsAssumption == Ports \subseteq [store: {"map", "both", "list"}, copies: BOOLEAN]

VARIABLES
  port,          \* the program that runs
  group,         \* every Group object admitted so far, by handle: `list` is what
                 \* its member list holds now, `entered` the keys of its ready map
  order,         \* the handles of the waiting groups in arrival order
  by_id,         \* group id -> handle, in the ports that keep such a map apart
  member_index,  \* member -> group id
  result         \* what the last call gave its caller

queue == <<order, by_id, member_index>>
vars == <<port, group, queue, result>>

\* The ports. Each stands for the queue class of one file: its fields, and the methods
\* from admit to remove that work on them. `copies` is read off the constructor of Group.
Port(store, copies) == [store |-> store, copies |-> copies]
Python     == Port("map", TRUE)
Java       == Port("map", TRUE)
JavaScript == Port("map", TRUE)
TypeScript == Port("map", TRUE)
Kotlin     == Port("map", TRUE)
PHP        == Port("map", TRUE)
Ruby       == Port("map", FALSE)
CSharp     == Port("both", TRUE)
Go         == Port("both", TRUE)
Swift      == Port("both", TRUE)
CPlusPlus  == Port("list", TRUE)
Rust       == Port("list", TRUE)

Handles == DOMAIN group
Waiting == Range(order)
EmptyDict == [x \in {} |-> x]
Put(dict, keys, value) ==
  [x \in DOMAIN dict \cup keys |-> IF x \in keys THEN value ELSE dict[x]]
Without(dict, keys) == Restrict(dict, DOMAIN dict \ keys)

\* The waiting groups hs as they stand in line (there is exactly one such list).
Place == [h \in Waiting |-> CHOOSE i \in DOMAIN order : order[i] = h]
InLine(hs) == Sorted(hs, Place)
-----------------------------------------------------------------------------
\* Lookups.

\* Group.is_ready compares the counter with the length of the list.
IsReady(h) == group[h].ready_count = Len(group[h].list)

\* The group under an id: at most one.
Find(id) ==
  IF port.store = "both"
  THEN {by_id[i] : i \in DOMAIN by_id \cap {id}}
  ELSE LET at == {i \in DOMAIN order : group[order[i]].group_id = id}
       IN  {order[i] : i \in {j \in at : \A k \in at : j <= k}}

\* group_of goes through both maps; the second may know nothing of the id.
GroupOf(m) == UNION {Find(member_index[n]) : n \in DOMAIN member_index \cap {m}}

\* The scan of peek stops at the first group that is ready and, under strict
\* order, at the first group.
NextOut ==
  {order[i] : i \in {j \in DOMAIN order : /\ IsReady(order[j])
                                          /\ \A k \in 1..(j - 1) : ~ IsReady(order[k])
                                          /\ StrictOrder => j = 1}}
-----------------------------------------------------------------------------
\* Operations.

Refuse(call) ==
  /\ result' = Raises(call)
  /\ UNCHANGED <<port, group, queue>>

Admissible(id, list) ==
  /\ WellFormed(list)
  /\ Find(id) = {}
  /\ Range(list) \cap DOMAIN member_index = {}

Admit(id, list) ==
  /\ Len(group) < MaxAdmissions
  /\ Admissible(id, list)
  /\ LET h == Len(group) + 1
     IN  /\ group' = Append(group, [group_id |-> id, list |-> list, entered |-> Range(list),
                                    ready |-> {}, ready_count |-> 0])
         /\ order' = Append(order, h)
         /\ by_id' = IF port.store = "both" THEN Put(by_id, {id}, h) ELSE by_id
         /\ member_index' = Put(member_index, Range(list), id)
         /\ result' = Returns("admit", "Group", <<h>>)
  /\ UNCHANGED port

AdmitRefused(id, list) == ~ Admissible(id, list) /\ Refuse("admit")

\* Mutant of Mark: members that were marked before are counted again.
MarkAgain(h, ms) ==
  /\ group' = [group EXCEPT ![h].ready = @ \cup ms, ![h].ready_count = @ + Cardinality(ms)]
  /\ UNCHANGED <<port, queue>>

\* Group.mark_ready for every member of ms, all of them keys of the ready map.
Mark(h, ms) ==
  /\ group' = [group EXCEPT ![h].ready = @ \cup ms,
                            ![h].ready_count = @ + Cardinality(ms \ group[h].ready)]
  /\ UNCHANGED <<port, queue>>

\* Group.mark_ready on a Group object, waiting or departed.
GroupMarkReady(h, m) ==
  IF m \in group[h].entered
  THEN /\ Mark(h, {m})
       /\ result' = Returns("mark_ready", Answer(IsReady(h)'), <<>>)
  ELSE Refuse("mark_ready")

MarkReady(m) ==
  IF GroupOf(m) = {} THEN Refuse("mark_ready")
  ELSE \E h \in GroupOf(m) : GroupMarkReady(h, m)

\* The loop over the list ends at a member that the ready map does not know;
\* those before it stay marked.
Known(g) == {i \in DOMAIN g.list : \A j \in 1..i : g.list[j] \in g.entered}

MarkGroupReady(h) ==
  LET g == group[h]
  IN  /\ Mark(h, {g.list[i] : i \in Known(g)})
      /\ result' = IF Known(g) = DOMAIN g.list THEN Returns("mark_group_ready", "True", <<>>)
                   ELSE Raises("mark_group_ready")

\* Mutant of Remove: the map by id keeps its entry.
RemoveFromOrder(hs) ==
  /\ order' \in InLine(Waiting \ hs)
  /\ member_index' = Without(member_index, UNION {Range(group[h].list) : h \in hs})
  /\ UNCHANGED <<port, group, by_id>>

\* remove, for each group of hs: what it takes out of the member index is what
\* the group's list holds now.
Remove(hs) ==
  /\ order' \in InLine(Waiting \ hs)
  /\ by_id' = Without(by_id, {group[h].group_id : h \in hs})
  /\ member_index' = Without(member_index, UNION {Range(group[h].list) : h \in hs})
  /\ UNCHANGED <<port, group>>

Peek ==
  /\ result' \in IF NextOut = {} THEN {Returns("peek", "None", <<>>)}
                 ELSE {Returns("peek", "Group", <<h>>) : h \in NextOut}
  /\ UNCHANGED <<port, group, queue>>

Release ==
  \E h \in NextOut :
    /\ Remove({h})
    /\ result' = Returns("release", "Group", <<h>>)

ReleaseNone ==
  /\ NextOut = {}
  /\ result' = Returns("release", "None", <<>>)
  /\ UNCHANGED <<port, group, queue>>

\* Mutant of AllOut: the loop ends at the first group that is not ready.
AllOutUpToFirst ==
  {order[i] : i \in {j \in DOMAIN order : \A k \in 1..j : IsReady(order[k])}}

\* What the loop of release_all releases before a peek finds nothing.
AllOut ==
  {order[i] : i \in {j \in DOMAIN order : /\ IsReady(order[j])
                                          /\ StrictOrder => \A k \in 1..j : IsReady(order[k])}}

ReleaseAll ==
  /\ Remove(AllOut)
  /\ \E list \in InLine(AllOut) : result' = Returns("release_all", "List", list)

Cancel(h) ==
  /\ Remove({h})
  /\ result' = Returns("cancel", "Group", <<h>>)

\* Mutant of Clear: the caller gets the queue's own list, which is then emptied.
ClearHandingOwn ==
  /\ order' = <<>>
  /\ by_id' = EmptyDict
  /\ member_index' = EmptyDict
  /\ result' = Returns("clear", "List", order')
  /\ UNCHANGED <<port, group>>

\* clear forgets the members of every group, whatever their lists hold.
Clear ==
  /\ order' = <<>>
  /\ by_id' = EmptyDict
  /\ member_index' = EmptyDict
  /\ result' = Returns("clear", "List", order)
  /\ UNCHANGED <<port, group>>

\* The caller edits the list that it passed to admit for h. A group that
\* copied the list sees nothing of it.
EditList(h, list) ==
  /\ group' = IF port.copies THEN group ELSE [group EXCEPT ![h].list = list]
  /\ UNCHANGED <<port, queue, result>>

Init ==
  /\ port \in Ports
  /\ group = <<>>
  /\ order = <<>>
  /\ by_id = EmptyDict
  /\ member_index = EmptyDict
  /\ result = Returns("init", "None", <<>>)

Next ==
  \/ \E id \in GroupIds, list \in MemberLists : Admit(id, list) \/ AdmitRefused(id, list)
  \/ \E h \in Handles, m \in Members : GroupMarkReady(h, m)
  \/ \E m \in Members : MarkReady(m)
  \/ \E id \in GroupIds :
       \/ \E h \in Find(id) : MarkGroupReady(h) \/ Cancel(h)
       \/ Find(id) = {} /\ (Refuse("mark_group_ready") \/ Refuse("cancel"))
  \/ Peek \/ Release \/ ReleaseNone \/ ReleaseAll \/ Clear
  \/ \E h \in Handles, list \in MemberLists : EditList(h, list)

Spec == Init /\ [][Next]_vars
-----------------------------------------------------------------------------
\* Properties.

\* The counter of a group, which alone decides readiness, is the number of its
\* members marked, and nobody is marked who did not enter with the group.
CounterMatchesFlags ==
  \A h \in Handles : /\ group[h].ready_count = Cardinality(group[h].ready)
                     /\ group[h].ready \subseteq group[h].entered

\* The list, the map by id and the member index tell the same story: the
\* lookups of cancel and mark_ready find the groups that peek scans. Ports that copy
\* the list only.
IndexesAgree ==
  port.copies =>
    /\ \A h \in Waiting : Find(group[h].group_id) = {h}
    /\ \A id \in GroupIds : Find(id) \subseteq Waiting
    /\ \A m \in Members : GroupOf(m) = {h \in Waiting : m \in group[h].entered}

\* Whatever callers do to their lists, the line stays in order of arrival and
\* nobody comes back: a departing call hands over exactly the groups it takes
\* out, oldest first, and no other call takes one out.
OutOnceInOrder ==
  [][ /\ \A i, j \in DOMAIN order' : i < j => order'[i] < order'[j]
      /\ Waiting' \cap Handles \subseteq Waiting
      /\ IF result' # result /\ result'.call \in Departing
         THEN result'.groups \in InLine(Waiting \ Waiting')
         ELSE Waiting \subseteq Waiting' ]_vars

\* Together in, together out: everybody who entered with a group is marked when
\* the group is released. The port in Ruby breaks this, because its caller can
\* take a member out of the list that the group counts.
EnteredLeaveReady ==
  [][ result'.call \in {"release", "release_all"} =>
        \A h \in Waiting \ Waiting' : group[h].ready = group[h].entered ]_vars

\* The groups as the discipline sees them: their flags.
Roster == [h \in Handles |-> [group_id |-> group[h].group_id,
                              members |-> group[h].entered, ready |-> group[h].ready]]

\* The ports that copy the list answer every call as the discipline says.
Promised == INSTANCE Discipline WITH roster <- Roster, waiting <- Waiting, alive <- TRUE
ImplementsDiscipline ==
  /\ port.copies => Promised!Init
  /\ [][port.copies => Promised!Next]_(Promised!vars)
=============================================================================
