# A formal model of TITO

TITO ("together in, together out") is a queue that admits members in groups and
releases a group only as a whole, once every member has been marked ready. The
library is `tito/tito.py`; everything else in the repository is documentation,
tests, scenarios that use the library, and ports of it to other languages.
This directory holds TLA+ models of the library, the TLC runs that check them,
and machine-checked proofs about them.

## Inventory

| Component | State | Operations | Makes it correct |
| --- | --- | --- | --- |
| `Group` (tito.py 49-193) | members, a ready flag each, a counter, a sequence number, a readiness callback, a lock | `mark_ready`, inspection | the counter equals the flags; the callback runs once, when the last flag is set, and only while the group waits |
| `TitoQueue` (208-381) | `_groups` (ordered), `_member_index`, `_sequence` | `admit`, `mark_ready`, `mark_group_ready`, `group_of`, `cancel`, `clear`, `peek`, `release`, `release_all` | whole groups, each to one caller, in the order the policy gives; the two indexes agree |
| Ready index (354-362, 390-417) | `_ready_groups`, `_ready_heap` | `_note_ready`, the purge in `peek`, `_compact_ready_heap` | exactly the ready waiting groups; nothing lost from the heap; the heap stays bounded |
| Locking (102-105, 224-226, 277) | one reentrant lock per queue; a group's own lock until it is admitted | `with self._lock` in every method but `__len__` and `__contains__` | a locked section is one step; the lock always comes back |
| Weak callback (196-205) | a weak reference from groups to the queue | called by `Group.mark_ready` | marking a group of a collected queue does nothing to it |
| Inspection (108-142, 173-193, 418-442) | none | `ready_members`, `groups`, `len`, `in`, reprs | a repr that reads twice tells one story; reads without the lock are wrong only about what is being moved |
| `examples/practical_usage.py` | threads and loops around a queue | five scenarios | every caller gets what it waits for |
| `tests/test_tito.py`, concurrent tests (334-482) | threads, an event, the lists of groups they were given | drain, produce and consume, cancel against release | each group to one thread, nothing left behind |
| `examples/tito_example.*` (12 languages) | an ordered map or list of groups, scanned; a member index | the same methods, single-threaded | the same discipline |
| `examples/tito_example.c` | an array of group structs, in arrival order | the same, with pointers into the array and copies out of it | the same discipline, within its capacity |

The parts interact by direct calls: a caller holds the queue and the `Group`
objects it was given; `Group.mark_ready` calls back into the queue through a
weak reference while holding the lock both share. What is hard here: callers on
several threads, groups that are marked after they left, ids and members that
come back, heap entries that outlive their groups, methods that raise half way,
and two readers that take no lock. `PROJECT.json` lists each hazard at its line
with the properties that watch it.

## Modules

- `TitoCalls` - the constants (ids, members, policy, bounds), the arguments a
  call may carry and the answers it may get.
- `Discipline` - the abstract promise. A roster of groups with their flags and
  the set of those that wait; every question is answered by looking at flags.
  There are no indexes, counters, numbers or callbacks.
- `Tito` - the library, one action per method. `group` holds every Group object
  by handle (the n-th admitted is handle n), so groups that departed are still
  there to be marked. `groups`, `member_index`, `next_sequence`, `ready_groups`
  and `ready_heap` are the queue's attributes; `result` is what the last call
  gave its caller. `DropQueue` is the collection of a queue that the
  application let go. The OrderedDict is a function: it is iterated in handle
  order, which is insertion order. The heap is the set of its entries:
  `HeapCoversReady` shows that no entry is ever pushed twice.
- `TitoThreads` - the same methods statement by statement in several threads (a few
  statements are merged, see "Not modelled"), with the reentrant locks, lock donation, nested sections, and the two reads of
  `Group.__repr__`. It EXTENDS `Tito` for the data
  operators and maps onto it: while the queue's lock is held, the abstract queue is
  the one `before` recorded when the lock was taken. The order of a member loop is
  left open. `Collect` frees the queue when no call that is under way refers to it
  (`keeps` in a thread's frame): a thread inside `Group.mark_ready` does so only from
  the moment the callback has followed its weak reference.
- `TitoLooks` - `TitoThreads` with threads that ask `member in queue`, which takes no
  lock, and remember the answers.
- `TitoInterrupts` - `TitoThreads` with one more step: `Interrupt` ends a call between
  any two steps of `TitoThreads`, as `KeyboardInterrupt` or a member's `__hash__` that raises
  does. The locks come back, nothing is undone, and the queue is used on; so `_remove`
  and `group_of` may then raise KeyError (`RemoveBreaks`; `FindFails` of `TitoThreads`). `handed` is the
  history of the groups that departing calls returned.
- `Clients` - the callers: the five functions of `practical_usage.py` and the concurrent
  tests, each a record with a script per thread (`Scenario`), run against the actions of
  `Tito` through `Q(strict)`. A test that uses hundreds of groups uses `Count`. What a
  scenario's callers expect at the end is part of its record (`left`, `taken`).
- `ScanQueue` - the twelve ports that hold groups by reference. `port` says which
  one runs; they differ in how the groups are stored (ordered map, list and map,
  list) and in whether the list of members is copied. `EditList` is a caller that
  edits the list it passed, which only the Ruby port can see. Each port's name
  is a definition that stands for its queue class, from the fields that hold the groups
  to the methods that admit, look up and remove them; whether the list is copied is read
  off the constructor of its `Group`. An operation is the same in all ports up to the
  two differences, and is mapped to one of them. Ports with the same description are one
  element of `Ports`.
- `GoOrder` - the slice of groups in the Go port: backing arrays, `append` in
  place or to a larger array of any length, removal in place, and the slices
  that `groups` and `clear` gave to callers. `line` is what the slice should hold.
- `CQueue` - the C port: slots that are shifted and reused, stale slots above
  `group_count`, the callers' own copies in `out`. `handle` in a struct is a
  history variable. A refusal for size sets `no_room` and leaves `result`, since
  the discipline knows no sizes.
- `TitoProofs`, `TitoThreadsProofs`, `TitoInterruptsProofs`, `ClientsProofs`,
  `ScanQueueProofs`, `GoOrderProofs`, `CQueueProofs` - TLAPS proofs, with `DisciplineProofs`
  beneath them, which also holds what they need of lists and least elements.
- `MCTito`, `MCTitoThreads`, `MCTitoInterrupts`, `MCClients`, `MCScanQueue`, `MCGoOrder`,
  `MCCQueue` - TLC instances (symmetry sets, a view, sets of ports).

Operators whose comment starts with "Mutant" are wrong on purpose: each is a
plausible bug that makes one property fail when it replaces the definition it is
named after. They are not part of any specification.

## Runs

| Run | Shows | Bounds |
| --- | --- | --- |
| `tito_strict`, `tito_relaxed` | `Tito` implements `Discipline`: every answer of every method is the one that a scan of the flags would give; indexes, counters and sequences stay consistent; under relaxed order the heap keeps every ready group and stays bounded. Under strict order also what the discipline promises, of the queue itself: one group per member, each group to exactly one caller, order, nothing ready left behind, no way back | 3 members, 2 ids, 3 admissions, lists up to 2; slack 0 in the relaxed run, so that compaction happens with 3 groups |
| `clients` | every scenario and concurrent test comes to its end, in every interleaving; each group is given to one thread; the queue ends as the tests say | the scenarios as they are; 4 groups or members in the tests; 2 to 3 worker threads |
| `threads` | two threads, statement by statement, and the collection of the queue: a locked section is one step of `Tito`; reprs are consistent; what reads without the lock can get wrong | 2 members, 2 ids, 2 admissions, slack 0 |
| `interrupts` | when calls are cut short, no group is handed over twice and none is released with a member unmarked | 2 members, 1 id, 2 admissions, 2 interrupted calls, 1 thread |
| `threads_locks` | every lock comes back, from interrupted calls, too | 2 threads, 1 member, 1 id, 1 admission, 1 interrupted call |
| `threads_looks` | the first finding below | 2 members, 1 group, 2 lookups |
| `scan` | the eleven ports that copy lists implement `Discipline`, and their lists, maps and indexes agree; in all twelve, the Ruby port with callers that edit their lists included, counters are true and groups leave once, in order | relaxed order, 2 admissions of up to 2 of 2 members, 2 ids |
| `scan_shared_breaks` | the second finding below | 1 admission |
| `go_lists` | the Go slices: the queue's own is exact, `clear`'s is never written again, what may happen to one from `groups` | 5 admissions, arrays up to 5, 2 slices held |
| `c_careful` | the C port implements `Discipline` for callers that use no stale pointer and pass whole buffers | 2 slots, 2 admissions, 4 ids of which one does not fit, 3 members |
| `c_careless` | stale pointers and short buffers mix no groups up, and nothing is written past a buffer | 2 slots, 3 admissions, 3 members, 3 ids |

Two ids and three admissions are enough for an id and a member to be readmitted
while an old handle is still marked; three members give a group of two beside
another group. `MaxGroupSize` 2 includes the empty list and the repeated member
that `Group.__init__` refuses. `CompactSlack` is 8 in the code; the runs shrink
it so that compaction happens, and the theorems hold for every value. In
`interrupts` one id is what makes a readmission meet the remains of a call that was
cut short, two members what makes a group partly marked; one thread is enough,
since the other threads can only wait for the lock that an interrupted section
holds, and what they do after it one thread can do as well. `interrupts` and `c_careless` compare
states without `result`, which no step reads. In both C runs two waiting groups leave an id
and a member over, so that an admission is refused for the full array and for nothing else.
The `tito` runs do not check deadlock: once the queue is dropped and no
group exists, nothing can be called. `TitoThreads` and `TitoInterrupts` name that
state (`Over`) and `Clients` its end (`Terminating`), and their runs check deadlock
everywhere else. Nor does `go_lists`, which stops when its
bounds on admissions and slices held are used up. The ports keep no memory of
groups that left beyond the objects themselves, so two generations show a
reused id, member or slot, and two slots a shift.

Fairness is used in two runs. `FairSpec` of `TitoInterrupts` assumes that a thread
which can take a step inside a call takes one, which is what an operating system gives a
running thread. Nothing is assumed of who wins a contended lock, and that
threads keep calling is not assumed either; so a thread may starve, as it may
on a Python lock, but the lock itself always comes back. `Clients` assumes weak
fairness of each thread, where a call is one step: the operating system runs the
thread, the lock comes back (`threads_locks`), and that the thread does not lose the
race for it for ever is the assumption that is added.

What `interrupts` does not show, because it does not hold: that the queue stays usable.
A departure cut short inside `_remove` leaves a group in the ready index and not in
the dictionary. `release` then raises KeyError each time, and if its id has been admitted
again takes out the new group's entry and hands over the old one; a mark cut short
between flag and counter leaves a group that no further mark completes, so that only
`cancel` or `clear` gets it out.

## Findings

`__contains__` and `__len__` read the indexes without the lock (tito.py:425-433),
while README.md:189 says that every public operation is atomic and
docs/technical-disclosure.md:44 that `admit` inserts all members as one
indivisible unit. `threads_looks` shows a thread that finds `a` in the queue and
`b` not, for a group `[a, b]` which another thread is admitting and which has
not left. `LooksWrongOnlyUnderWay` is what does hold: such a lookup is wrong only
about members of the groups that the call under way is moving, and a length counts
wrong only those groups.

`Group#initialize` of the Ruby port keeps the array it is given
(tito_example.rb:16, `to_a` copies no Array). `scan_shared_breaks` shows a caller
that takes a member out of its array: the group then counts as ready and is
released although that member was never marked, against the comment at
tito_example.rb:10. `scan` shows what still holds there (`CounterMatchesFlags`, `OutOnceInOrder`). The other ports and the
library copy the list. (A caller that edits a list which a group hands out, such
as `group.members` in JavaScript, is not modelled.)

## Proofs

Every theorem holds for all values of the constants that meet the assumptions of the
modules: the policy is Boolean, the members are finitely many, the slack and the bounds
are natural numbers, there are finitely many threads and `Nobody` is none of them, a
port stores its groups in one of the three ways, the sizes of the C port's arrays are
natural numbers, and a test that uses many groups uses at least one. The
bounds are there for TLC; no proof uses that they are small.

### The library, one step per method

`TitoProofs` proves `Spec => []IInv` and from it every invariant that the runs of
`Tito` check. None of them is inductive alone. `ReadyIndexExact` needs the
callbacks (`CallbackWhileWaiting`: a departed group has none, so a late mark
cannot enter the index) and the counters (`CounterMatchesFlags`: the last flag is
the moment the counter arrives); removing a group from the ready index needs
distinct sequences (`Numbered`); the bound on the heap needs that a noted
sequence is not on the heap yet (`HeapCoversReady`), since otherwise the live
entries would not grow with it. `IInv` is their conjunction. The proof has one
lemma per kind of step: `MarkPreserves`, `AdmitPreserves`, `RemovePreserves` (any
set of waiting groups taken out, with any stale entries dropped; cancel, release,
release_all and clear are instances), `PurgePreserves`, `DropPreserves` and
`AnswerPreserves`.

Its second half proves that `Tito` implements `Discipline`. A step of `Tito` maps to
the step of the same name: the indexes are scans of the waiting groups (`IndexesAgree`),
the counter is the number of flags (`CounterMatchesFlags`), the least live sequence is
the oldest complete group (`ReadyIndexExact`, `Numbered`, `HeapCoversReady`); purging and
compaction map to nothing. `DisciplineProofs` proves what the discipline promises, of the
abstract queue, where it is easy: each member in one waiting group (`Alone`), departing
groups handed over once, order, nothing left behind, no way back. Through the refinement
`Tito` inherits the five promises, and `DepartedStaysOut` follows from them and
`ReadyIndexExact`.

### The threads

`TitoThreadsProofs` proves, for any number of threads, that each locked section is
one step of `Tito` (`SectionsAreAtomic`). The queue as the last section that ended has
left it is `Settled`: `before` while the lock is held, the variables while it is free.
The inductive invariant `TInv` says:

- of the settled queue, `IInv` of `TitoProofs`;
- of the locks (`Locked`), that every published group has the queue's lock and that no
  other lock is ever held: this is what makes a section on a group and one on the queue
  exclude each other;
- of the thread that holds the lock (`Inside`), for each label, which call it is in and
  how the queue differs from `before`: the statements that the section has done so far
  (a group appended and part of its members indexed; flags set and one not counted yet;
  groups taken out of one index and not of the next);
- of every other thread (`Outside`), that it waits for the lock with a call in hand, or
  is idle;
- that there is room for the admissions under way (`Bounded`), since a thread asks for
  room before it has the lock.

A statement inside a section leaves the settled queue alone and moves `Inside` to the
next label (`InnerStep`); the last one gives the lock back, and what `Inside` says there
makes the variables the outcome of one action of `Tito` (`EndStep`). The hard case is
`release_all`, whose loop peeks again after each removal: `Oldest` says that what is out
so far are the oldest of those that were to leave, so that what is left for the next
peek is the oldest of the rest. `Collect`, which frees the queue while threads mark
groups, is `DropQueue` only because no thread whose frame keeps the queue alive exists.

From `Inside`, `ReprsAgree` and `LooksAreRight` follow: what the two reads of a repr and
the lookups without the lock can see in the middle of a section.

### Interrupted calls

`TitoInterruptsProofs` proves, for any number of threads and of interruptions, that no group
is handed over twice and that none is released with a member unmarked. `IInv` is lost with the first
call cut short: an id may be in one index only, a counter may lag for ever, the heap may miss
an entry. `Survives` is what is left, and it is inductive:

- of the queue as it stands, in the middle of a section or not (`Data`): each entry of either
  index names the group it says, and a group in the ready index has all its flags (`Filed`); a
  counter is at most the number of flags (`Counted`), so that the callback, which runs when the
  counter is full, runs for complete groups only; and a group that was handed over is `Lost`,
  in neither index and without a callback that could put it back (`Parted`);
- of the locks (`OneLock`) and of what the first statement of a section remembers
  (`Remembered`), as in `TInv`: an interruption gives the lock back and ends the section, so
  the queue that it leaves is the next one to be settled;
- that the callers know every group but the one being admitted (`Known`), and of the thread
  that holds the lock what the rest of its call relies on (`Within`): a group being admitted is
  in no index yet; before a flag is counted there are more flags than the counter says; a group
  that `_remove` takes out has left what the label has passed. This is
  weaker than `Inside`, which says how the queue differs from `before` and is
  false when the indexes disagreed to begin with.

Both theorems are about safety and lean on the order of statements in `_remove`: the callback
is cleared and both indexes are emptied of the group before the call returns it, and a call that
raises on the way (`RemoveBreaks`) returns nothing.

### The clients

`ClientsProofs` proves, for every `Count` and every interleaving, that each group is given
to one thread (`EachClaimedOnce`) and that a program which comes to its end leaves the queue
as its scenario prints or its test asserts (`EndsAsTested`). That it comes to its end is
liveness and stays with TLC.

The programs run against `Tito` under both policies, so the proofs take two instances of
`TitoProofs`, `Strict` and `Relaxed`; its last section says what a caller may rely on between
calls, `CallKeeps` that a call keeps `IInv` under either policy, and `CallEffects` what a call
does to the groups: one comes, one is marked, some leave, or nothing happens. To use `Tito`'s invariant at all, each program
must be shown to stay within what its actions take: `Programs` says that every statement of
every program is a call with an id, a member or a list of members as it should be.

`CInv` adds that each group is in exactly one place: it waits and is in nobody's hands, or it
has left and is at one place of one thread's list (`Once`). It is inductive
because `release_all` names each group that it lets out, and names it once (`AllNamedOnce`).

`EndsAsTested` needs to know how far each program is, and there is one invariant per
scenario (`EndsInv`):

- the programs of one thread keep `SoFar`: the ready members of a waiting group are exactly
  those of its members that a statement so far has marked. What each release or `release_all` lets
  out is then known from the statement at which it is called;
- the tests that admit number after number keep `NumbersMarked`: every waiting group is
  complete but for the one whose mark is the admitting thread's next statement. So a drain that
  gets nothing, after the admissions, finds nothing waiting, and stays so: a
  thread that has ended its loop (`Drainer`, `Consumer`) has left an empty queue behind.
  The consumers of a producer may be refused while a group is incomplete, and that they end
  rightly rests on the event that is set after the last mark;
- the fan-out and the two threads that mark a group from either end keep `Part` and `Marker`:
  a worker at a statement has marked what is behind it, and the main thread is past its
  joins only when the workers are through. So the release finds the group complete;
- of the threads that admit one id, `Applicant` says that one that is through with its attempt
  leaves the id waiting, whether it was admitted or refused.

At the end these leave the groups that the scenario says; that nothing else is left of
those that went follows from `IInv` (`NoTrace`, `ReadyEnds`).

### The ports

`ScanQueueProofs` proves one invariant for all twelve ports, with callers that edit the
lists they passed. Its parts: the line is in order of arrival (`Arrival`), so that a scan
of it is a scan by age; an id names one waiting group (`OneIdEach`), without which the map
by id (`ById`) could not survive a removal; a copied list is what entered with the group
(`Copied`), so that what a departing group takes out of the member index is what it put
in (`ByMember`); the counters; and that the groups which the last departing call handed
over wait no longer (`Handed`). `OutOnceInOrder` tells a repeated answer from a new one by
this last part: the same answer twice running would mean that a group left twice.

`Copied` and `ByMember` speak of ports that copy; the other parts need no copy, and so the
counters and the order hold of the Ruby port as well. For a port that copies, a step maps
to the discipline's step of the same name, and a caller that edits its list to no step
(`Refinement`). `CopiedLeaveReady` follows: `EnteredLeaveReady`, which the
Ruby port breaks, holds of all the others.

### The Go slices

`GoOrderProofs` proves, for arrays of any length, that the queue's slice is the line, that
`clear`'s list is never written again, and what may happen to a list from `groups`. The
invariant relates each slice that a caller holds to the queue's own (`PlaceByPlace`,
`WritesBehind`): while both look at the same array, the queue writes at a place of the
list only what was further on in the line.

### The C port

`CQueueProofs` proves one invariant for careful and careless callers. A mark through a
stale pointer reaches a slot above `group_count`, or one that another group has moved
into, and such a slot may be shifted down or reused later: so every struct must be sound
wherever it is (`AllGood`), and a mark must leave the struct's id, members and handle
alone (`Refines`). The slots in use are in order of arrival (`InOrder`) and share nobody
(`Apart`), and each admission is either in line or in its caller's hands (`OneEach`),
which is what makes a handle find one struct. A departure is a shift for each group that
goes. `ShiftDown` states the result of all of them at once, the structs that stay in the
freed slots included, and the proof needs of it only that the groups left stand in line as
they stood (`StandIn`). So `ArrayStaysInOrder` and `CopiedWhole` hold whatever callers do.

The refinement needs the two habits that `Careful` names: no pointer to a group that left
its slot, and a buffer as long as the array. Then a mark reaches the group that the caller
means, `AllOut` is all that may leave (`AllFit`), `clear` is never refused, and an
admission refused for its size alone is a step that the discipline does not see.

`BuffersHold` needs neither habit. The groups that `release_all` copies out are those with
fewer than `capacity` before them; they are at most `capacity`, and all that may leave when
they are fewer (`FirstFew`, `FewLeave`). When all that may leave have left, the line that
stands has no next group (`NoneAble`): under strict order its head is a group with somebody
unready before it or in it, and all those before it stayed as well.

### Only model-checked

`LocksComeBack` and `EveryoneFinishes` are liveness under fairness and beyond the prover: that
the lock always comes back, and that every scenario and test comes to its end. TLC checks
them on the instances above.

## Not modelled

- The demos and the formatting in the ports; the wording of errors.
- Inspections that copy in one locked read what the model holds (`ready_members`,
  `TitoQueue.__repr__`, `sequence`, `members`).
- Unhashable ids and members, which end a call before it changes anything.
- User code in `__hash__` or `__eq__` that calls the queue again from inside a locked
  section. That it may raise is modelled.
- The heap's array layout.
- An interruption between some adjacent statements, which are one step in `TitoThreads`:
  the checks of `admit`, the sequence number and the lock of a group that nobody can see yet
  (257-277: `Check`); the turns of the purge in `peek` and its answer (354-362: `PeekEnds`, `PeekFinds`); the
  pop of the ready index, the compaction and the return of the group (404-417: `Pop`);
  the turns of `clear`'s loop over the callbacks (337-340: `ClearCallbacks`); the emptying of
  the ready index, that of the heap and the return (343-345: `ClearReady`). In none of them can
  the two properties of `interrupts` be lost. A purge or compaction cut short leaves
  heap entries missing, stale or out of order, and the heap only says which group of the ready
  index comes next: a group that `Pop` has taken out of the ready index is in no index any more
  and has no callback. A loop over the callbacks that is cut short leaves waiting
  groups without one, which are then never noted ready.
- The sequential tests, whose call sequences are all in the runs of `Tito`, and the test
  of concurrent admissions with distinct ids, which asserts `SequencesFollowArrival`.

## Plan

Every safety property that a passing run checks is proved. What could be added is among what
is not modelled: an interruption between the statements of a compaction, which needs the
heap's array, and callers whose `__hash__` calls the queue again.
