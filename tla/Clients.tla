------------------------------ MODULE Clients ------------------------------
(***************************************************************************)
(* Programs that use a TitoQueue: the scenarios of                         *)
(* examples/practical_usage.py and the concurrent tests of                 *)
(* tests/test_tito.py, run by threads against the queue of Tito.tla.       *)
(*                                                                         *)
(* A scenario gives each thread a list of statements. A call on the queue  *)
(* is one step, as TitoThreads shows that it may be. Formatting and        *)
(* printing are left out.                                                  *)
(***************************************************************************)
EXTENDS Integers, Sequences, FiniteSets, Functions, SequencesExt

CONSTANT Count   \* groups, members or threads of a test that uses hundreds

ASSUME CountAssumption == Count \in Nat \ {0}

VARIABLES
  \* the queue
  group, groups, member_index, next_sequence, ready_groups, ready_heap, alive, result,
  scenario,  \* the name of the program that runs
  at,        \* the statement each thread is at, 0 until it is started
  failed,    \* the threads that an exception ended
  noted,     \* the keys of `results`, and "produced" once that event is set
  claims     \* the groups that calls gave each thread to take away

queue == <<group, groups, member_index, next_sequence, ready_groups, ready_heap, alive, result>>
vars == <<queue, scenario, at, failed, noted, claims>>

Q(strict) == INSTANCE Tito WITH
  StrictOrder <- strict, CompactSlack <- 8, GroupIds <- {}, Members <- {},
  MaxAdmissions <- Count + 2, MaxGroupSize <- 3
-----------------------------------------------------------------------------
\* Statements: a call of a method and what it is given, <<>> when that is nothing.

Do(op, arg) == [op |-> op, arg |-> arg, catch |-> FALSE]
Try(op, arg) == [op |-> op, arg |-> arg, catch |-> TRUE]
Each(op, args) == [i \in DOMAIN args |-> Do(op, args[i])]

\* A scenario: the policy, the ids that still wait when all threads are through, the
\* groups that "main" has been given by then, in order, and each thread's statements.
\* "main" starts the other threads.
Scenario(strict, left, taken, program) ==
  [strict |-> strict, left |-> left, taken |-> taken, program |-> program]
-----------------------------------------------------------------------------
\* examples/practical_usage.py

Restaurant == Scenario(TRUE, {}, <<1, 2>>, [main |->
  << Do("admit", <<"mehta-party", <<"asha", "raj", "priya">>>>),
     Do("admit", <<"okafor-party", <<"ngozi", "chidi">>>>) >>
  \o Each("mark_ready", <<"asha", "raj", "ngozi", "chidi">>)
  \o << Do("peek", <<>>), Do("group_of", "asha"), Do("mark_ready", "priya"), Do("release_all", <<>>) >>])

Matchmaking == Scenario(FALSE, {}, <<2, 1>>, [main |->
  << Do("admit", <<"lobby-alpha", <<"ada", "linus", "grace">>>>),
     Do("admit", <<"lobby-beta", <<"hedy", "alan">>>>) >>
  \o Each("mark_ready", <<"ada", "hedy", "alan">>)
  \o << Do("release", <<>>), Do("group_of", "ada") >>
  \o Each("mark_ready", <<"linus", "grace">>) \o << Do("release", <<>>) >>])

\* Shards are scoped by their batch; the last one of the second is never computed.
Batches ==
  LET Shards(day) == <<<<day, "clicks">>, <<day, "views">>, <<day, "spend">>>>
  IN  Scenario(TRUE, {}, <<1, 2>>, [main |->
        << Do("admit", <<"18", Shards("18")>>), Do("admit", <<"19", Shards("19")>>) >>
        \o Each("mark_ready", Shards("18")) \o Each("mark_ready", Front(Shards("19")))
        \o << Do("release_all", <<>>), Do("cancel", "19") >>])

FanOut ==
  LET parts == <<"profile", "orders", "recommendations">>
  IN  Scenario(TRUE, {}, <<1>>, [t \in {"main"} \cup Range(parts) |->
        IF t = "main"
        THEN << Do("admit", <<"request-7", parts>>) >>
             \o Each("start", parts) \o Each("join", parts)
             \o << Do("release", <<>>), Do("respond", parts) >>
        ELSE << Do("note", t), Do("mark_ready", t) >>])

Guarded == Scenario(TRUE, {"shift-a"}, <<>>, [main |->
  << Do("admit", <<"shift-a", <<"nurse-1", "nurse-2">>>>),
     Try("admit", <<"shift-b", <<"nurse-2", "nurse-3">>>>),
     Do("group_of", "nurse-2") >>])
-----------------------------------------------------------------------------
\* tests/test_tito.py, ThreadSafetyTests

Numbers == [i \in 1..Count |-> i]
\* `_run` holds the threads at a barrier until all are there; here each goes ahead.
Run(threads) == Each("start", threads) \o Each("join", threads)
\* Each number is admitted as a group of its own and then marked.
Admitted == [i \in 1..(2 * Count) |->
  IF i % 2 = 1 THEN Do("admit", <<(i + 1) \div 2, <<(i + 1) \div 2>>>>)
               ELSE Do("mark_group_ready", i \div 2)]

\* Two threads mark the members of one group in opposite orders.
Halves == Scenario(TRUE, {}, <<1>>, [
  main |-> << Do("admit", <<0, Numbers>>) >> \o Run(<<"up", "down">>) \o << Do("release", <<>>) >>,
  up   |-> Each("mark_ready", Numbers),
  down |-> Each("mark_ready", Reverse(Numbers))])

Drains(strict) == Scenario(strict, {}, <<>>, [
  main |-> Admitted \o Run(<<"one", "two">>),
  one  |-> << Do("drain", <<>>) >>,
  two  |-> << Do("drain", <<>>) >>])

SameId == Scenario(TRUE, {"same"}, <<>>, [
  main |-> Run(<<"one", "two", "three">>),
  one  |-> << Try("admit", <<"same", <<"one">>>>) >>,
  two  |-> << Try("admit", <<"same", <<"two">>>>) >>,
  three |-> << Try("admit", <<"same", <<"three">>>>) >>])

ProducersConsumers ==
  LET consume == << Do("release_all", <<>>), Do("until_produced", <<>>) >>
  IN  Scenario(FALSE, {}, <<>>, [
        main |-> Run(<<"producer", "one", "two">>),
        producer |-> Admitted \o << Do("note", "produced") >>,
        one |-> consume, two |-> consume])

CancelRelease == Scenario(FALSE, {}, <<>>, [
  main |-> Admitted \o Run(<<"canceller", "releaser">>),
  canceller |-> [i \in 1..Count |-> Try("cancel", i)],
  releaser  |-> << Do("while_queue", <<>>), Do("release_all", <<>>), Do("again", <<>>) >>])

Scenarios == {Restaurant, Matchmaking, Batches, FanOut, Guarded, Halves, Drains(TRUE),
              Drains(FALSE), SameId, ProducersConsumers, CancelRelease}
-----------------------------------------------------------------------------
\* Threads.

Threads == DOMAIN scenario.program
Finished(t) == at[t] > Len(scenario.program[t])
Over(t) == Finished(t) \/ t \in failed
Statement(t) == scenario.program[t][at[t]]
At(t, op) == at[t] > 0 /\ ~ Over(t) /\ Statement(t).op = op

\* The policy of the queue in this scenario.
Policy == {scenario.strict}

Goto(t, i) == at' = [at EXCEPT ![t] = i] /\ UNCHANGED failed
Advance(t) == Goto(t, at[t] + 1)
Fail(t) == failed' = failed \cup {t} /\ UNCHANGED at

Waiting == Range(groups)
LenQueue == Cardinality(DOMAIN groups)
-----------------------------------------------------------------------------
\* Calls on the queue. An exception that nobody catches ends the thread.

Returned(t) ==
  /\ IF result'.value = "TitoError" /\ ~ Statement(t).catch THEN Fail(t) ELSE Advance(t)
  /\ UNCHANGED <<scenario, noted>>

Take(t) == claims' = [claims EXCEPT ![t] = @ \o result'.groups]

Admit(t) ==
  /\ At(t, "admit")
  /\ \E strict \in Policy, id \in {Statement(t).arg[1]}, list \in {Statement(t).arg[2]} :
       Q(strict)!Admit(id, list) \/ Q(strict)!AdmitRefused(id, list)
  /\ Returned(t)
  /\ UNCHANGED claims

MarkReady(t) ==
  /\ At(t, "mark_ready")
  /\ \E strict \in Policy, m \in {Statement(t).arg} :
       Q(strict)!MarkReady(m) \/ Q(strict)!MarkReadyRefused(m)
  /\ Returned(t)
  /\ UNCHANGED claims

MarkGroupReady(t) ==
  /\ At(t, "mark_group_ready")
  /\ \E strict \in Policy, id \in {Statement(t).arg} :
       Q(strict)!MarkGroupReady(id) \/ Q(strict)!MarkGroupReadyRefused(id)
  /\ Returned(t)
  /\ UNCHANGED claims

Peek(t) ==
  /\ At(t, "peek")
  /\ \E strict \in Policy : Q(strict)!Peek
  /\ Returned(t)
  /\ UNCHANGED claims

\* The caller reads the members of the group that it finds.
GroupOf(t) ==
  /\ At(t, "group_of")
  /\ IF Statement(t).arg \in DOMAIN member_index THEN Advance(t) ELSE Fail(t)
  /\ UNCHANGED <<queue, scenario, noted, claims>>

\* The caller reads the group's id, which None does not have.
Release(t) ==
  /\ At(t, "release")
  /\ \/ \E strict \in Policy : Q(strict)!Release /\ Advance(t)
     \/ \E strict \in Policy : Q(strict)!ReleaseNone /\ Fail(t)
  /\ Take(t)
  /\ UNCHANGED <<scenario, noted>>

\* Mutant of Drain: the loop takes what peek shows it.
DrainByPeek(t) ==
  /\ At(t, "drain")
  /\ \E strict \in Policy : Q(strict)!Peek
  /\ IF result'.value = "None" THEN Advance(t) ELSE UNCHANGED <<at, failed>>
  /\ Take(t)
  /\ UNCHANGED <<scenario, noted>>

\* One turn of a loop that releases until nothing is left.
Drain(t) ==
  /\ At(t, "drain")
  /\ \/ \E strict \in Policy : Q(strict)!Release /\ UNCHANGED <<at, failed>>
     \/ \E strict \in Policy : Q(strict)!ReleaseNone /\ Advance(t)
  /\ Take(t)
  /\ UNCHANGED <<scenario, noted>>

ReleaseAll(t) ==
  /\ At(t, "release_all")
  /\ \E strict \in Policy : Q(strict)!ReleaseAll
  /\ Returned(t)
  /\ Take(t)

Cancel(t) ==
  /\ At(t, "cancel")
  /\ \E strict \in Policy, id \in {Statement(t).arg} :
       Q(strict)!Cancel(id) \/ Q(strict)!CancelRefused(id)
  /\ Returned(t)
  /\ Take(t)
-----------------------------------------------------------------------------
\* Everything else.

Note(t) ==
  /\ At(t, "note")
  /\ noted' = noted \cup {Statement(t).arg}
  /\ Advance(t)
  /\ UNCHANGED <<queue, scenario, claims>>

Start(t) ==
  /\ At(t, "start")
  /\ at' = [at EXCEPT ![t] = @ + 1, ![Statement(t).arg] = 1]
  /\ UNCHANGED <<queue, scenario, failed, noted, claims>>

\* Mutant of Join: the main thread does not wait.
JoinAtOnce(t) ==
  /\ At(t, "join")
  /\ Advance(t)
  /\ UNCHANGED <<queue, scenario, noted, claims>>

Join(t) ==
  /\ At(t, "join")
  /\ Over(Statement(t).arg)
  /\ Advance(t)
  /\ UNCHANGED <<queue, scenario, noted, claims>>

\* results[part] for every part.
Respond(t) ==
  /\ At(t, "respond")
  /\ IF Range(Statement(t).arg) \subseteq noted THEN Advance(t) ELSE Fail(t)
  /\ UNCHANGED <<queue, scenario, noted, claims>>

\* Mutant of UntilProduced: an empty queue is enough to stop.
UntilEmpty(t) ==
  /\ At(t, "until_produced")
  /\ IF LenQueue = 0 THEN Advance(t) ELSE Goto(t, at[t] - 1)
  /\ UNCHANGED <<queue, scenario, noted, claims>>

\* The end of the consumer's loop. An event that is set stays set, so reading it
\* and then the length is like reading both at once.
UntilProduced(t) ==
  /\ At(t, "until_produced")
  /\ IF "produced" \in noted /\ LenQueue = 0 THEN Advance(t) ELSE Goto(t, at[t] - 1)
  /\ UNCHANGED <<queue, scenario, noted, claims>>

\* while len(queue): the body is one statement and the way back another.
WhileQueue(t) ==
  /\ At(t, "while_queue")
  /\ Goto(t, IF LenQueue = 0 THEN at[t] + 3 ELSE at[t] + 1)
  /\ UNCHANGED <<queue, scenario, noted, claims>>

Again(t) ==
  /\ At(t, "again")
  /\ Goto(t, at[t] - 2)
  /\ UNCHANGED <<queue, scenario, noted, claims>>

Init ==
  /\ \E strict \in BOOLEAN : Q(strict)!Init
  /\ scenario \in Scenarios
  /\ at = [t \in Threads |-> IF t = "main" THEN 1 ELSE 0]
  /\ failed = {}
  /\ noted = {}
  /\ claims = [t \in Threads |-> <<>>]

Turn(t) ==
  \/ Admit(t) \/ MarkReady(t) \/ MarkGroupReady(t) \/ Peek(t) \/ GroupOf(t) \/ Release(t)
  \/ Drain(t) \/ ReleaseAll(t) \/ Cancel(t)
  \/ Note(t) \/ Start(t) \/ Join(t) \/ Respond(t)
  \/ UntilProduced(t) \/ WhileQueue(t) \/ Again(t)

AllOver == \A t \in Threads : Over(t)
Terminating == AllOver /\ UNCHANGED vars

Next == (\E t \in Threads : Turn(t)) \/ Terminating

\* The operating system runs every thread that can run, and the lock is held for
\* finitely many statements (LocksComeBack); that no thread loses the race for
\* it for ever is assumed.
Fairness == \A t \in {"main", "profile", "orders", "recommendations", "up", "down", "one",
                      "two", "three", "producer", "canceller", "releaser"} :
              WF_vars(t \in Threads /\ Turn(t))

Spec == Init /\ [][Next]_vars /\ Fairness
-----------------------------------------------------------------------------
\* Properties.

\* Every program comes to its end and no thread is ended by an exception: what the
\* callers wait for does happen, and nothing is None or missing when it is used.
EveryoneFinishes == <>(\A t \in Threads : Finished(t))

\* Where in the threads' hands a group is.
ClaimsOf(h) ==
  {c \in UNION {{t} \X DOMAIN claims[t] : t \in Threads} : claims[c[1]][c[2]] = h}

\* However the threads interleave, each group that was admitted either waits or has
\* been given to one thread, once.
EachClaimedOnce ==
  \A h \in DOMAIN group : Cardinality(ClaimsOf(h)) = IF h \in Waiting THEN 0 ELSE 1

\* At the end the queue holds what the scenario or test says that it holds, with no
\* trace of the groups that left, and the main thread has been given the groups that
\* it expects in the order that it expects.
EndsAsTested ==
  AllOver =>
    /\ DOMAIN groups = scenario.left
    /\ Range(member_index) = scenario.left
    /\ ready_groups = <<>>
    /\ claims["main"] = scenario.taken
=============================================================================
