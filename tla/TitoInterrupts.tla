--------------------------- MODULE TitoInterrupts ---------------------------
(***************************************************************************)
(* TitoThreads when a call may be cut short between two of its steps:      *)
(* Ctrl-C raises KeyboardInterrupt in whatever the thread is doing, and a  *)
(* member whose __hash__ or __eq__ raises ends a loop over the members     *)
(* half way. The `with` blocks give their locks back; what the steps had   *)
(* done to the queue stays done, for no method undoes anything. The queue  *)
(* is then used on. Where TitoThreads takes several statements in one step *)
(* (the purge in peek, Pop, ClearCallbacks, ClearReady), a call is not cut *)
(* short between them.                                                     *)
(***************************************************************************)
EXTENDS TitoThreads

CONSTANT MaxInterrupts   \* bound: calls that are cut short

ASSUME InterruptsAssumption == MaxInterrupts \in Nat

VARIABLES
  interrupts,   \* how many calls were cut short
  handed        \* the groups that calls took out of the queue for their callers

ivars == <<tvars, interrupts, handed>>

IInit == TInit /\ interrupts = 0 /\ handed = <<>>

ICall(t) == Call(t) /\ UNCHANGED <<interrupts, handed>>

\* _remove raises KeyError at an entry that is not there. Only after an interruption
\* does it meet one.
RemoveBreaks(t) ==
  LET h == thread[t].h
  IN  /\ \/ At(t, "del_group") /\ group[h].group_id \notin DOMAIN groups
         \/ At(t, "del_members") /\ thread[t].left \ DOMAIN member_index # {}
      /\ Return(t, "KeyError", <<>>)
      /\ UNCHANGED <<group, queue, lock_of>>

\* A statement of the call that t is in; the last one hands over what it returns.
IStep(t) ==
  /\ Step(t) \/ RemoveBreaks(t)
  /\ handed' = IF thread[t].call \in Departing /\ thread'[t] = Idle
               THEN handed \o [i \in DOMAIN result'.groups |->
                                 [call |-> thread[t].call, h |-> result'.groups[i]]]
               ELSE handed
  /\ UNCHANGED interrupts

\* A list without its last element.
ButLast(list) == SubSeq(list, 1, Len(list) - 1)

\* The call of t is cut short: its caller gets the exception and no group. A group
\* that admit had not put into the queue yet is lost with the call.
Interrupt(t) ==
  /\ ~ At(t, "idle")
  /\ interrupts < MaxInterrupts
  /\ interrupts' = interrupts + 1
  /\ End(t)
  /\ IF At(t, "insert")
     THEN group' = ButLast(group) /\ lock_of' = ButLast(lock_of)
     ELSE UNCHANGED <<group, lock_of>>
  /\ UNCHANGED <<queue, result, handed>>

INext ==
  \/ Collect /\ UNCHANGED <<interrupts, handed>>
  \/ \E t \in Threads : ICall(t) \/ IStep(t) \/ Interrupt(t)
  \/ Over /\ UNCHANGED ivars

ISpec == IInit /\ [][INext]_ivars

\* A thread that can run is run. Nothing is assumed of who gets a contended lock,
\* and nobody is bound to call, to interrupt or to be interrupted.
FairSpec == ISpec /\ \A t \in Threads : WF_ivars(IStep(t))
-----------------------------------------------------------------------------
\* Properties.

\* No lock stays taken: every path through every method gives it back, the ones
\* that raise and the ones that an exception cuts short included.
LocksComeBack == \A l \in Locks : []<> (holder[l].depth = 0)

\* However calls are cut short, no group leaves the queue twice: release,
\* release_all, cancel and clear together hand each group over at most once, even
\* when an interrupted departure left it in one index and not in the other.
HandedOnce ==
  \A i, j \in DOMAIN handed : handed[i].h = handed[j].h => i = j

\* Never a partial group, even then: what release and release_all hand over has
\* every member marked. Group.mark_ready sets the flag before it counts, so a call
\* cut short in between leaves the counter too low and never too high.
ReleasedWhole ==
  \A i \in DOMAIN handed :
    handed[i].call \in {"release", "release_all"} =>
      group[handed[i].h].ready = group[handed[i].h].members
=============================================================================
