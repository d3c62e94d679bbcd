----------------------------- MODULE Discipline -----------------------------
(***************************************************************************)
(* Together in, together out: what TitoQueue promises its callers, with    *)
(* none of the bookkeeping that makes it fast. There is no member index,   *)
(* counter, sequence number, heap or callback here. Each question is       *)
(* answered by looking at the flags of the waiting groups, oldest first.   *)
(*                                                                         *)
(* Tito.tla is shown to implement this specification.                      *)
(***************************************************************************)
EXTENDS TitoCalls

VARIABLES
  roster,   \* every group admitted so far, in arrival order
  waiting,  \* the handles of the groups still in the queue
  alive,    \* FALSE once the application has dropped the queue
  result    \* what the last call gave its caller

vars == <<roster, waiting, alive, result>>

Handles == DOMAIN roster

\* Every member of the group is marked.
Full(h) == roster[h].ready = roster[h].members

\* The groups that may leave now. Under strict order a group waits for every
\* older one, under relaxed order only for its own members.
Departable ==
  {h \in waiting : /\ Full(h)
                   /\ StrictOrder => \A g \in waiting : g < h => Full(g)}

\* The oldest of them, if there is one.
NextOut == {h \in Departable : \A g \in Departable : h <= g}

Named(id) == {h \in waiting : roster[h].group_id = id}
Holding(m) == {h \in waiting : m \in roster[h].members}
-----------------------------------------------------------------------------
Admissible(id, list) ==
  /\ WellFormed(list)
  /\ Named(id) = {}
  /\ \A i \in DOMAIN list : Holding(list[i]) = {}

Admit(id, list) ==
  /\ alive
  /\ Len(roster) < MaxAdmissions
  /\ Admissible(id, list)
  /\ roster' = Append(roster, [group_id |-> id, members |-> Range(list), ready |-> {}])
  /\ waiting' = waiting \cup {Len(roster) + 1}
  /\ result' = Returns("admit", "Group", <<Len(roster) + 1>>)
  /\ UNCHANGED alive

Refuse(call) ==
  /\ result' = Raises(call)
  /\ UNCHANGED <<roster, waiting, alive>>

Mark(h, ms) ==
  /\ roster' = [roster EXCEPT ![h].ready = @ \cup ms]
  /\ UNCHANGED <<waiting, alive>>

MarkReady(h, m) ==
  /\ m \in roster[h].members
  /\ Mark(h, {m})
  /\ result' = Returns("mark_ready", Answer(Full(h)'), <<>>)

MarkGroupReady(h) ==
  /\ Mark(h, roster[h].members)
  /\ result' = Returns("mark_group_ready", "True", <<>>)

Peek ==
  /\ alive
  /\ result' \in IF NextOut = {} THEN {Returns("peek", "None", <<>>)}
                 ELSE {Returns("peek", "Group", <<h>>) : h \in NextOut}
  /\ UNCHANGED <<roster, waiting, alive>>

Leave(hs) ==
  /\ waiting' = waiting \ hs
  /\ UNCHANGED <<roster, alive>>

Release ==
  /\ alive
  /\ \E h \in NextOut :
       /\ Leave({h})
       /\ result' = Returns("release", "Group", <<h>>)

ReleaseNone ==
  /\ alive
  /\ NextOut = {}
  /\ Leave({})
  /\ result' = Returns("release", "None", <<>>)

ReleaseAll ==
  /\ alive
  /\ Leave(Departable)
  /\ \E list \in InHandleOrder(Departable) : result' = Returns("release_all", "List", list)

Cancel(id) ==
  /\ alive
  /\ \E h \in Named(id) :
       /\ Leave({h})
       /\ result' = Returns("cancel", "Group", <<h>>)

Clear ==
  /\ alive
  /\ Leave(waiting)
  /\ \E list \in InHandleOrder(waiting) : result' = Returns("clear", "List", list)

DropQueue ==
  /\ alive
  /\ alive' = FALSE
  /\ waiting' = {}
  /\ result' = Returns("drop", "None", <<>>)
  /\ UNCHANGED roster

Init ==
  /\ roster = <<>>
  /\ waiting = {}
  /\ alive = TRUE
  /\ result = Returns("init", "None", <<>>)

Next ==
  \/ \E id \in GroupIds, list \in MemberLists :
       \/ Admit(id, list)
       \/ alive /\ ~ Admissible(id, list) /\ Refuse("admit")
  \/ \E h \in Handles, m \in Members :
       \/ MarkReady(h, m)
       \/ m \notin roster[h].members /\ Refuse("mark_ready")
  \/ \E m \in Members : alive /\ Holding(m) = {} /\ Refuse("mark_ready")
  \/ \E h \in waiting : MarkGroupReady(h)
  \/ \E id \in GroupIds :
       \/ Cancel(id)
       \/ alive /\ Named(id) = {} /\ Refuse("cancel")
       \/ alive /\ Named(id) = {} /\ Refuse("mark_group_ready")
  \/ Peek
  \/ Release
  \/ ReleaseNone
  \/ ReleaseAll
  \/ Clear
  \/ DropQueue

Spec == Init /\ [][Next]_vars
-----------------------------------------------------------------------------
\* Properties.

\* A member waits in at most one group and an id names at most one group, so
\* a member's readiness is never credited to two groups.
OneGroupEach ==
  /\ \A m \in Members : \A g, h \in Holding(m) : g = h
  /\ \A id \in GroupIds : \A g, h \in Named(id) : g = h

\* A group leaves a live queue exactly when a call hands it to its caller, and
\* each call hands over exactly the groups it removed, each once: however the
\* calls of several callers interleave, no group is lost and none goes to two.
HandsOver ==
  alive' =>
    IF result'.call \in Departing
    THEN Range(result'.groups) = waiting \ waiting' /\ IsInjective(result'.groups)
    ELSE waiting \subseteq waiting'
HandedToOneCaller == [][HandsOver]_vars

\* Together out, in order: a released group is complete, a group left behind
\* under strict order is younger than every group released, and under relaxed
\* order an older group is only overtaken because it is not complete.
Releases ==
  result'.call \in {"release", "release_all"} =>
    \A h \in waiting \ waiting' :
      /\ Full(h)
      /\ \A g \in waiting' : g < h => ~ StrictOrder /\ ~ Full(g)
ReleasedInOrder == [][Releases]_vars

\* A caller told that nothing may leave was told the truth, and so was one
\* that asked for everything: then the queue really holds nothing to release.
Exhausts ==
  (result'.call = "release_all" \/ result'.value = "None") /\ alive' => Departable' = {}
NothingLeftBehind == [][Exhausts]_vars

\* A group that has left never waits again, and nobody's readiness is undone.
OnlyForward ==
  \A h \in Handles :
    /\ h \notin waiting => h \notin waiting'
    /\ roster[h].ready \subseteq roster'[h].ready
NeverBack == [][OnlyForward]_vars
=============================================================================
