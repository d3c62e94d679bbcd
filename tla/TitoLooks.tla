------------------------------ MODULE TitoLooks ------------------------------
(***************************************************************************)
(* TitoThreads with threads that ask `member in queue` between their       *)
(* calls. The question is answered from the index without taking any lock. *)
(***************************************************************************)
EXTENDS TitoThreads

CONSTANT MaxLooks   \* bound: lookups a thread makes

VARIABLE looks      \* the lookups each thread has made

LInit == TInit /\ looks = [t \in Threads |-> <<>>]

\* TitoQueue.__contains__
Look(t, m) ==
  /\ At(t, "idle")
  /\ alive
  /\ Len(looks[t]) < MaxLooks
  /\ looks' = [looks EXCEPT ![t] = Append(@,
       [member |-> m, seen |-> m \in DOMAIN member_index, admitted |-> Len(group)])]
  /\ UNCHANGED tvars

LNext ==
  \/ TNext /\ UNCHANGED looks
  \/ \E t \in Threads, m \in Members : Look(t, m)

LSpec == LInit /\ [][LNext]_<<tvars, looks>>
-----------------------------------------------------------------------------
\* docs/technical-disclosure.md, 4.1: admit inserts all members as one indivisible
\* unit. A thread that has seen one member of a waiting group in the queue would
\* then see the others, too.
EntersAsOne ==
  \A t \in Threads : \A h \in Waiting : \A i, j \in DOMAIN looks[t] :
    /\ i < j
    /\ looks[t][i].seen /\ h <= looks[t][i].admitted
    /\ {looks[t][i].member, looks[t][j].member} \subseteq group[h].members
    => looks[t][j].seen
=============================================================================
