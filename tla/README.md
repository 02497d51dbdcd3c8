# The uthread library in TLA+

This is a verification project for `uthread`, a user-space threading library
for C: user threads are multiplexed over one kernel thread (many-to-one) or
several (many-to-many), scheduled first-come first-served, or round-robin with
timer preemption. The modules are written from the code (`src/uthread.c` and
the three small libraries it uses), not from its documentation; the
documentation is used only for what a *caller* may do.

## The system

| component | state | operations | hard part |
|---|---|---|---|
| thread life cycle (`uthread.c`) | `tcbs[]`, `bitvec`, a TCB per thread (state, join queue, context) | `uthread_create`, `_exit`, `_yield`, `_join`, `_self` | allocation and release of tids and TCBs by several kernel threads; create that fails half-way |
| scheduler (`uthread.c`) | per kernel thread: `current_tid`, `sched_info` (task, queue, lock) | `schedule()` | a blocking call starts on the thread's stack and ends on the scheduler's, with locks held across the switch |
| ready queue (`uthread.c`) | `rqueue.queue`, `.lock`, `.not_empty` | `ready_enqueue`, `ready_dequeue` | lock and counting semaphore change in different steps |
| user semaphores (`uthread.c`) | `counter`, `queue`, `lock` | `uthread_sem_init/wait/post/destroy` | lost wake-ups; overtaking of a woken thread; three nested locks |
| init and teardown (`uthread.c`) | `inited`, `exitall_sem`, `inited_sem`, `kthread_info` | `uthread_init`, `uthread_teardown`, `kthread_main` | ending every kernel thread exactly once and finishing on the main one |
| preemption (`uthread.c`) | a timer and the flag `preempted` per kernel thread, the signal mask | `sigrtmin_handler`, `check_preempted`, `set_timer_interrupt` | signal masks saved in contexts, handler during teardown |
| kernel threads (`kthread.c`) | the table `kthreads[64]` | `kthread_create/join/exit`, wrappers of pthread objects | creation handshake over a stack variable, full table |
| queue (`queue.c`) | singly linked list with tail pointer | enqueue, insert_first, dequeue, peek, clear, remove_item | pointer updates at the ends |
| bit vector (`bitvec.c`) | bytes | get, set, clear, first cleared index | integer promotion, last byte |

The life-cycle calls, the semaphores and teardown hand their caller over to
`schedule()` through `sched_info`; `schedule()` finishes the call (it puts the
thread into a queue, releases the locks), takes the next TCB from the ready
queue and resumes its context. The calls share `tcbs` under `tcbs_lock` and
`bitvec` under `bitvec_lock`; `destroy_thread` and `tcbs[tid]` at the beginning
of `uthread_join` are outside any lock.

What makes each part correct:

* life cycle and scheduler: no user thread is in two places (two kernel threads
  on one stack), none is lost, no freed TCB is used, the assertions of the code
  hold, a join waits only for a thread that has not finished and returns after
  it has;
* ready queue: it is an atomic FIFO queue to its callers;
* semaphores: no post is lost, the counter never goes below zero;
* locks: whoever is in a critical section owns its lock, and none is kept by
  user code;
* teardown: every kernel thread ends, teardown returns on the main one, and no
  signal finds the freed `kthread_info`;
* start: every worker waits until `kthread_info` is complete, and the arguments
  of a new kernel thread outlive their use;
* preemption: the signal is held off wherever the library runs, a tick takes
  effect soon, no thread starves another, and no call yields for ever;
* queue and bit vector: they are a sequence and a set to their callers.

## The modules

| module | models | implements | TLC instance | theorems |
|---|---|---|---|---|
| `Uthread`, properties in `UthreadInv` | life cycle, scheduler, semaphores, teardown | `Threads` | `MCUthread` | `UthreadProofs`, `UthreadTeardown`, `UthreadPromises` |
| `ReadyQueue` | ready queue at the grain of its lock and semaphore | `Fifo` | `MCParts` | `ReadyQueueProofs` |
| `Queue` | the linked list of `queue.c` | `ItemList` | `MCParts` | `StructuresProofs` |
| `Bitvec` | the byte vector of `bitvec.c`, `get_next_tid`, `reclaim_tid` | `TidSet` | `MCParts` | `StructuresProofs` |
| `Startup` | `uthread_init`, `kthread_create`, `kthread_join`, `kthread_main` | | `MCParts` | `StartupProofs` |
| `Preempt` | timers, `SIGRTMIN`, signal masks, `check_preempted` | | `MCPreempt` | `PreemptProofs` |
| `TestPrograms` | ten `test-*.c` with `test.h`, composed with `Uthread` | | `MCTests` | |
| `ProducerConsumer` | `test-m2m-pc.c` over the semaphores `Threads` promises | | `MCTests` | `ProducerConsumerProofs` |

The levels fit together: `Queue` shows that the lists are sequences and `Bitvec`
that the tids are a set, which is how `ReadyQueue` and `Uthread` use them;
`ReadyQueue` shows that the ready queue is an atomic FIFO queue, as `Uthread`
uses it; `Startup` ends in the states in which `Uthread` and `Preempt` begin;
`Uthread` implements `Threads`, on whose semaphores `ProducerConsumer` runs.

In every module a definition that precedes the one whose name it extends
(`TakeJoinerPeeks`, then `TakeJoiner`) is a faulty variant of it: no
specification uses it, and a property must tell it from the original.

### Uthread

A process is a kernel thread `k`; `pc[k]` says what it executes. With `pc[k]`
in `UserPc` it is on the stack of the user thread `current_tid[k]`, executing
that thread's own code (`"user"`) or a library call; with `pc[k]` in `SchedPc`
it is on its scheduler stack or has ended. A user thread that is not on a kernel
thread is a saved context `ctx[t]`, the location where the call resumes and its
argument, and an entry in a queue.

The variables are the globals of `uthread.c` (`bitvec`, `tcbs`, `tcbs_lock`,
`rqueue`, `exitall_sem`), the fields of a TCB (`state`, `join_queue`, `ctx`),
of a semaphore (`counter`, `sem_lock`, `sem_queue`) and of `uthread_kinfo_t`
(`current_tid`, `task`, `queue`; `sched_info.lock` is the lock of the semaphore
`queue` names), and the locals that live across a step (`arg`, `tcb`).
`sem_inited`, `joining` and `fault` are auxiliary: they record which calls the
documentation allows next, and why the model stopped.

An action is a stretch of code that acquires at most one lock, at its
beginning; so that `uthread_join`, for example, is

    JoinBlocks ; SchedJoin ; ... Dispatch ; Rejoin ; Reclaim ; Destroy ; ClearSlot
    JoinFinished                                   ; Reclaim ; Destroy ; ClearSlot

where the last three are steps of their own because the code has no lock there.
`pthread_mutex_lock` is a guard, a `kthread_sem_wait` is a guard and a
decrement. The mutex `bitvec_lock` protects a single access each time and is
part of the step; `ready_enqueue` and `ready_dequeue` are single steps, which
`ReadyQueue` justifies.

*Naming TCBs by tid.* The code passes pointers to TCBs around; the model passes
tids. The two agree as long as a slot of `tcbs` that holds an allocated TCB is
neither overwritten (`CreateOverwrites`) nor cleared by someone who freed an
older one (`ClearLoses`). At those two steps, and at the assertion of line 834
(`JoinAborts`), the model stops with `fault` set: what the program does
afterwards is undefined.

*Preemption.* The library never switches threads from the signal handler: the
handler sets a flag, and the next library call begins with `uthread_yield`.
Because the user code of the model may call `Yield` before any call, preempted
executions are among its behaviours; when the flag is set and seen is the
subject of `Preempt`.

*The program.* User code makes any call at any time, within the documented
limits: it joins a thread that exists and that nobody has joined or waits to
join (not itself, not main), uses a semaphore between init and destroy, destroys it when no
call on it is in progress, and main calls teardown when the others have
finished. Main does not call `uthread_exit`: nobody could call teardown after it.
`Parents` says which threads create and join, and make and destroy semaphores,
`Quota` how many threads there are at most.

### Threads, and what Uthread owes it

`Threads` is the promise of the public interface: `phase[t]` is the state of a
thread or `"none"`, `waits[t]` what it waits for, `value[s]` the units of a
semaphore. A thread may begin to wait only when it has to (the target has not
finished, the value is 0) and is woken only when what it waits for has happened;
no more threads run than there are kernel threads; a thread disappears only
after it has finished; a unit is taken only where there is one. The refinement
mapping (`T` in `UthreadInv`) takes a thread to wait from the call
that decides so, on the thread's own stack, and not from the later step of
`schedule()` that puts it into a queue: in between other kernel threads run, and
the locks held across the switch are what makes the decision still true.

### ReadyQueue and Fifo

One step for each operation on the mutex, the semaphore `not_empty` or the
list, with any number of kernel threads in either function. `Fifo` has two
actions, `Put` and `Take`. The refinement mapping is the identity on the queue
and on what a thread took; `EnqueueAppend` implements `Put`, `DequeueTake`
implements `Take`, everything else stutters.

### Queue and ItemList, Bitvec and TidSet

`Queue` has a heap of nodes, the header node inside the `queue_t`, the tail
pointer and the count. A call is one step, since its callers hold the lock of
the list; `queue_remove_item` takes a step per iteration, because its locals `n`
and `prev` matter. The model stops with `fault` set when the code would follow a
null pointer or use a freed node. `ItemList` has the sequence and the result of
the last call; the mapping follows `next` from the header.

Two functions, which the library does not call, have defects of their own.
`queue_remove_item` advances twice per iteration: it passes over every other
node, unlinks with a `prev` that is not the node before, or follows a null
pointer. `queue_clear` leaves `head.next` at a freed node: a `queue_enqueue`
repairs that, any other call that reads it uses the node. So there are two
specifications. `Spec` has every function, in any order and for any item; under
it the run `remove_item` refutes what the comment of `queue_remove_item` says,
and TLC also refutes `ListSound`, `NoMemoryError` and `ItemListSpec`. `CoreSpec`
has every function but those two, again in any order and with malloc failing at
will, and is what the properties and theorems of `Queue` are about; the calls of
`uthread.c` are all among its actions.

`Bitvec` has a set of bits per byte and the functions of `bitvec.c` as
`get_next_tid` and `reclaim_tid` call them. The search never skips a byte, since
`~bv->vec[i]` is never 0 after integer promotion, which is harmless; and it goes
to the end of the last byte, so that a full vector whose length is not a whole
number of bytes yields an index beyond it (`NBits` 10 with `Byte` 4 violates
`TidSetSpec`; `uthread.c` uses 1024, so that no run has the case).

### Startup

The main kernel thread runs the loops of `uthread_init` and `uthread_teardown`
with `kthread_create` and `kthread_join` step by step; a worker runs
`kthread_trampoline` and `kthread_main`. `args` is the `trampoline_args` on the
creator's stack: its owner is recorded, and it is empty once `kthread_create`
returns. `kthreads` is the table, `info` the `ktid`s of `kthread_info`, empty
once freed. What workers do between is `Uthread`; here a worker that is in
`schedule()` leaves when teardown has begun.

### Preempt

What `Uthread` does not see: the timers of the kernel with their owners, a
pending `SIGRTMIN` per kernel thread, its mask, the flag `preempted`, and the
mask that every saved context carries. `Tick(k)` is a timer of `k` going off: it
runs the handler, or stays pending while the signal is blocked. A library call
is `Enter ; CheckPreempted ; (body) ; Leave`; what bodies do to other threads is
a choice between returning, waking or creating a thread, blocking and exiting.
`schedule()` is `Dequeue ; Reset ; UnblockInSchedule ; Resume`, four steps
because a tick may come between any two. `uthread_yield` called by
the program returns with the signal still blocked (it does not unblock), and a
call that `check_preempted` interrupted resumes in its body without blocking
again: that both do no harm is what `SignalHeldOff` and `PromptPreemption` say.
The auxiliary `owed[k]` counts the calls completed since a tick came.

### TestPrograms and ProducerConsumer

A test is a record of functions, each the sequence of calls it makes;
`TestPrograms` interprets them on `Uthread` with one kernel thread, as their
`INIT(1, 0)` does. `CHECKPOINT(n)` compares with the counter, so that each test
states an order of events that first-come first-served scheduling must give.
`ProducerConsumer` has one step for every statement of `producer()` and
`consumer()` that touches shared data.

## The runs

| run | instance | shows |
|---|---|---|
| `safety` | `Uthread`: 2 kernel threads, 3 tids, all threads create and join, 1 semaphore, malloc fails at will | types, lock ownership, `NotDuplicated`, `NotLost`, `NoDanglingUse`, `StateMatchesPlace`, `AssertsHold`, `JoinJustified`, and the refinement `ThreadsSpec`: for every program, up to the step that sets `fault` |
| `flat` | `Uthread`: 3 kernel threads, 3 threads, only main creates and joins, no more threads than tids, counter up to 2 | `NoFault`: such programs never meet the defects below; `NoLockInUserCode`, `NoLostWakeup`, `IdleMeansBlocked`, `TeardownClean` |
| `liveness` | `Uthread`: 2 kernel threads, 3 tids, fair | `ReadyRuns`, `JoinReturns`, `TeardownEnds`, and no deadlock |
| `parts` | four parts, one per behaviour. `Queue` (`CoreSpec`): 3 nodes, 2 items, malloc fails at will | `ListSound`, `NoMemoryError`, the refinement of `ItemList` |
| | `Bitvec`: 3 bytes of 3 bits | the refinement of `TidSet` |
| | `ReadyQueue`: 3 kernel threads, 2 TCBs, at most 2 queued, fair | `NotEmptyCounts`, `DequeueFinds`, the refinement of `Fifo`, `ClaimServed` |
| | `Startup`: 1, 2, 4 or 5 kernel threads asked for, a table of 4, `pthread_create` fails at will, fair | `StartTypeOK`, `InfoFound`, `ArgsAlive`, `AllStarted`, `AllCollected`, `StartupEnds`; and no deadlock in any part |
| `preemption` | 1 or 2 kernel threads, 2 user threads, quantum 0, 5 or 10^9, fair | `SignalHeldOff`, `HandlerSafe`, `PromptPreemption`, `ReadyRuns`, `CallGoesOn` |
| `tests` | ten test programs on 1 kernel thread; 3 producers, 2 consumers, 2 slots, 2 items | `TestsEnd`, `NothingLost` |

Six runs end in a counterexample; each is a place where the code does not do
what its documentation, its own assertion or its own test says:

| run | what happens |
|---|---|
| `tids_exhausted` | with all tids in use `get_next_tid` returns 1, `new_tid < 0` is never true for the unsigned `tid_t`, and `uthread_create` overwrites `tcbs[1]` |
| `nested_join` | main joins A, A joins B: the assertion of line 834 looks at the caller's join queue instead of the target's and aborts |
| `join_create_race` | `uthread_join` returns the tid before it frees the TCB, without `tcbs_lock`: a create on another kernel thread fills the slot, and the join clears it |
| `create_fails` | malloc fails in `uthread_create`: the error path jumps past `unlock_tcbs` |
| `left_over_item` | `test-m2m-pc.c` has 8 producers and 7 consumers (here 3 and 2): the `-1`s of the other producers may end every consumer while a slow producer still has an item in its hand, and `VERIFY(DONE)` fails though the library did nothing wrong |
| `remove_item` | `queue_remove_item`, asked for the second of two items, returns -1 |

Smaller differences that were met while modelling, and that no run is kept for:

* `queue_clear` and the last byte of a bit vector: see `Queue` and `Bitvec`
  above. The library meets neither of them.
* `quantum_us` is documented in microseconds (`uthread.c:441`) and stored in
  `tv_nsec` (`uthread.c:134`): the timeslice is a thousandth of what was asked
  for, and 10^9 or more makes `timer_settime` fail and the library abort.
* A worker creates its timer when it first runs. If teardown comes before that,
  `timer_delete` gets 0, the id of another timer, in its place, and the worker's
  own timer is created later and never deleted (`uthread.c:606`). The signals
  of such a timer are for a kernel thread that has ended; `HandlerSafe` says so.
* `uthread_init` is documented to return nonzero on failure (`uthread.c:444`)
  but aborts, as it does when the table of kernel threads is full.
* The README of the repository says that `ptest` tests preemption; every test
  calls `INIT` with quantum 0.

*Bounds.* Three tids are main and two threads: enough for one thread to join
another while a third runs, for two waiters on a semaphore with a third thread
posting, and for a tid to be reused while its old TCB is being freed. Two kernel
threads give every pairwise interleaving; `flat` has three, so that the main
one waits for more than one post at teardown (its workers are symmetric).
`Quota` is one more than the tids where
exhaustion is wanted. `MaxCount` bounds a semaphore's counter, which in the code
is an `int`; 2 is the least for which several units and several waiters meet.
`MaxLen` bounds the ready queue of `ReadyQueue` (there is no bound in the code);
in `Uthread` the queue is bounded by the threads that exist. Three
nodes give a list with a first, an inner and a last one, and a heap that is
full. Three bytes give a first, a middle and a last one. Five kernel threads do not fit a
table of four, four do. With two user threads on two kernel threads a thread is
resumed on the kernel thread it did not leave; on one kernel thread they compete
for it, and only preemption makes `ReadyRuns` hold. `OwedCap` is where `owed` saturates, one more
than `PromptPreemption` allows. Three producers and two
consumers keep the difference of one that the program has; two slots and two
items make the buffer full, empty and wrap round, and leave one producer with
nothing but its `-1`.

*Deadlock* is checked in `liveness` and `parts` (where `StartOver` marks the end
of start-up and teardown, the one part that ends). The other runs of `Uthread`
have semaphores, nested joins or failed calls, with which a program can block
itself; what must hold when everything is idle is `IdleMeansBlocked`. `Preempt`
and the tests come to an end, by teardown or abort; that they do not stop
earlier is `CallGoesOn` and `TestsEnd`.

*Fairness.* `FairSpec` of `Uthread` assumes of every kernel thread that the
operating system runs it and that the user code it executes reaches its next
library call (weak fairness of its steps), and that a pthread mutex does not
starve a waiter for ever (strong fairness of the steps outside
`ready_dequeue`). For `ready_dequeue` only weak fairness is assumed: an idle
kernel thread need not win against another one. In `ReadyQueue` the strong
fairness is for `DequeueLock` alone, and nothing forces a thread to call either
function.

`Startup` assumes that the operating system runs every kernel thread and that
the program calls teardown. `Preempt` assumes that every kernel thread runs, that
its timers go off, and that a user thread keeps making library calls; which
calls, and that any is `uthread_yield`, is not assumed. `TestPrograms` needs its
only kernel thread to run. `ProducerConsumer` assumes of each thread that it goes
on when it can (weak fairness): nothing about who gets a semaphore for which
several wait, since in the library a woken thread competes with the others.

## The proofs

TLC checks the instances above; the theorems hold for every value of the
constants that satisfies the modules' named assumptions. Each module has one
or two inductive invariants, which TLC has also checked on the instances of the
runs; the theorem that a run's property always holds is then a
consequence. A proof of a step has one case per action.

| module | theorem | states |
|---|---|---|
| `UthreadProofs` | `TypeCorrect`, `LockOwnership`, `SemLockOwnership` | `TypeOK`, `TcbsLockOwned`, `SemLockOwned` |
| | `TcbsLockExcludes`, `SemLockExcludes` | at most one kernel thread is in a critical section of a lock |
| | `OnePlace`, `NoThreadLost`, `NoDanglingReference` | `NotDuplicated`, `NotLost`, `NoDanglingUse` |
| | `StateAgrees`, `JoinsJustified` | `StateMatchesPlace`, `JoinJustified` |
| `UthreadTeardown` | `TeardownIsClean`, `AssertionsHold` | `TeardownClean`, `AssertsHold` |
| `UthreadPromises` | `NoWakeupLost`, `IdleIsBlocked` | `NoLostWakeup`, `IdleMeansBlocked` |
| | `ImplementsThreads` | `ThreadsSpec` |
| | `LivesInOrder` | `LifeOrder`: a finished thread stays so until its TCB is freed, and only then is it freed |
| | `UserCodeHoldsNoLock`, `TcbsAreKept`, `JoinAssertionHolds`, `FlatProgramsRun` | `NoLockInUserCode`, `NoTcbLost`, `JoinAssertHolds`, `NoFault`, each for the programs named below |
| `ReadyQueueProofs` | `TypeCorrect`, `CountsAgree`, `AssertionsHold`, `ImplementsFifo` | `RQTypeOK`, `NotEmptyCounts`, `DequeueFinds`, `FifoSpec` |
| `StructuresProofs` | `ListsSound`, `NoMemoryErrors`, `ImplementsItemList` | `ListSound`, `NoMemoryError`, `ItemListSpec` |
| | `ImplementsTidSet` | `TidSetSpec` |
| `StartupProofs` | `TypeCorrect`, `ArgsOutliveThread`, `WorkerFindsInfo`, `InitStartsAll`, `TeardownCollectsAll` | `StartTypeOK`, `ArgsAlive`, `InfoFound`, `AllStarted`, `AllCollected` |
| `PreemptProofs` | `TypeCorrect`, `SignalsHeldOff`, `HandlerIsSafe`, `PreemptsPromptly` | `TypeOK`, `SignalHeldOff`, `HandlerSafe`, `PromptPreemption` |
| `ProducerConsumerProofs` | `NoItemIsLost`, `FewAreLeftOver`, `SomeoneGoesOn` | `NothingLost`, `FewLeftOver`, and for the numbers of threads named below `NeverStuck` |

### Uthread: locks, places, joins

The assumptions are those of `Uthread`: finitely many kernel threads with the
main one among them, at least two tids, sentinels that are no tids. Every
program is covered, and every failing malloc, up to the step that sets `fault`.

`LockInv` is `TypeOK` and `TcbsLockOwned`. `TypeOK` says more than types: a
saved context has the argument the call it resumes needs, a kernel thread on a
stack has a current thread, and `sched_info.queue` fits the task; without these
neither `Dispatch` nor the cases of `schedule()` could be shown to stay within
the types. Ownership needs them in turn: `Dispatch` must not arrive inside a
critical section, and the main kernel thread that comes back to `schedule()`
after `Reap` has no task.

`ThreadInv` adds four parts. `PlaceInv` says of each of the five states of a
thread who may have a thread in that state: kernel threads (`Held`) and one kind
of queue. Since a thread has one state, uniqueness has to be shown only among
places of one kind, not for every pair of places, and each action moves one
thread from one kind of place to another. `JoinInv` gives every target of a join
one joiner, from the test in `uthread_join` to the end of `destroy_thread`: only
it frees the target, which is why no queue is left with a freed TCB although
`destroy_thread` holds no lock. `SemInv` ties saved contexts of semaphore waits
to semaphores that exist and have not been destroyed. `TearInv` says that main
is alone when it tears down.

### Uthread: teardown

`SignalInv` balances sentinels: those that main has put into the ready queue are
those still queued and those taken, and the ones taken by other kernel threads
are the posts of `exitall_sem`. Before the main kernel thread has waited for the
others the semaphore counts those that exited; afterwards it is 0 and nothing is
left to take. Main is queued behind all sentinels, so that whoever resumes it
comes after the last one: this is what makes the assertion that teardown is
back on the main kernel thread hold. It needs `ThreadInv` to know that nobody
else can put anything into the queue.

### Uthread: promises

`NoLostWakeup` is not inductive alone: a thread goes into the queue of a
semaphore, or is taken out of it, some steps after the counter was read.
`CounterAgrees` says that the counter is then still what was read; it rests on
`SemLockOwned`, that is on the lock that is held across the switch of stacks.
`IdleIsBlocked` follows from both and from `NotLost`.

`ImplementsThreads` has a step per action of `Uthread`, which names the action of
`Threads` it is or shows that the mapped state does not change. `ThreadInv` is
what makes the mapped actions enabled (the target of a beginning wait has not
finished, no more threads run than there are kernel threads); `Threads` has no
fairness, so that nothing about liveness is contained in it. `LivesInOrder` is a
consequence: each action of `Threads` moves one thread one step along its life,
so no step of `Uthread`, whichever kernel thread takes it, revives a thread that
has finished or frees one that has not (main's TCB is freed by teardown, which
main itself runs).

Four theorems have hypotheses, because without them the code does otherwise, as
the findings show:

| theorem | assumes | without it |
|---|---|---|
| `UserCodeHoldsNoLock` | malloc does not fail | `create_fails` |
| `TcbsAreKept` | no more threads than tids (`Quota <= MaxThreads`) | `tids_exhausted` |
| | `OneManager`: one thread creates and joins, or there is one kernel thread | `join_create_race` |
| | malloc does not fail | a failed create keeps its tid, so that the tids run out earlier |
| `JoinAssertionHolds` | `OneParent`: one thread creates and joins | `nested_join` |

`FlatProgramsRun` puts the last two together: such programs, of which the two
tests on several kernel threads are examples and which `flat` checks, set no
`fault`. The first one rests on `LocksInUse`, the converse of ownership: who owns
a lock is in a critical section. `TcbsAreKept` rests on `SlotsAgree`, which ties
tids to slots: a tid is in use exactly while its slot is filled, but for a tid
that a create has taken and not yet stored, and one that a join has given back
and not yet cleared. Under `OneManager` there is never more than one such call
under way, and a create finds a free tid because every tid in use belongs to a
thread. `JoinAssertionHolds` rests on `CallerInv`: nobody waits to join a thread
that joins others; it holds also when malloc fails or the tids run out.

### ReadyQueue

For any finite set of kernel threads, any TCBs and any `MaxLen`. `RQInv` is the
conjunction of `RQTypeOK`, `LockOwned`, `NotEmptyCounts` and `TookItem` (what was
dequeued is not NULL). The count is what makes the assertions provable: a thread
at `"take"` is itself in `Claimed`, hence `Len(queue) >= 1`. Each step moves one
thread into or out of one counted set (lemmas `Gains`, `Loses`). `ImplementsFifo`
needs the invariant because `Take` is enabled only on a nonempty queue.

### Queue and Bitvec

The theorems of `StructuresProofs` about lists are about `CoreSpec`, for any
finite heap and any items, without a condition on the calls. The properties
follow `next` from the header with the recursive function `Pointer`; `QueueInv`
names the nodes instead: some sequence of distinct nodes is the list, the
allocated nodes are those, and `size` and `tail` agree with it. That `Pointer`
yields exactly these nodes is not shown by induction: both satisfy the same
equation, and a least index at which they differ would contradict it. For
`queue_remove_item` and `queue_clear` the statements are false.

Its theorem about tids assumes `WholeBytes`: bytes have at least one bit and the vector is
a whole number of bytes, as `UTHREAD_MAX_THREADS` (1024) is. Without that the
statement is false (see `Bitvec` above). The lemmas are the arithmetic: an index
is given by its byte and its bit, a write changes one member, and the search
finds the least index that is not set, if any is.

### Startup and Preempt

`StartInv` says for each point of the main kernel thread how far each worker is:
those below the loop counter have been through the loop's body, the others not,
and the one at the counter is where the handshake lets it be. That a worker uses
`args` only while `kthread_create` waits rests on the value of `args.sem`; that
`kthread_join` finds every worker rests on the whole start-up. The assumption of
`Startup` on the constants includes that the numbers of kernel threads asked
for have a greatest one (an `int` has).

`PreInv` has three parts. `MaskInv`: a context that was saved inside a call was
saved with the signal blocked, so that it may be resumed on any kernel thread.
`EndInv`: at which point of teardown the main kernel thread's timer is gone and
its last signal delivered. `OwedInv`: where a tick that has come is kept, pending
while the signal is blocked and in the flag afterwards, and at which points of
a call one, or no, call may have been completed since.

### ProducerConsumer

For any finite sets of producers and consumers, any number of slots but 0 and
any number of items (`BufferAssumption`). `NothingLost` looks at the buffer
between critical sections; `ProgramInv` follows it through them. `Count` is the
number of items in the buffer as the semaphores and the locations of the threads
account for them, `Room` that of the free slots; both change at `Put` and `Take`
only, although `empty` and `full` change elsewhere. `Filled` are the `Count`
slots from `head` on, where `head` and `tail` are read as they will be after the
pending `% SLOTS`. A producer about to put is itself counted in `Room`, a
consumer about to take in `Count`, so that no slot is overwritten and none is
read empty. `ItemInv` gives every item one place. `PillInv` counts the `-1`s: each
producer puts one, after the last item has been made, and each consumer that
ends has taken one.

`FewLeftOver` says what `main` finds: when all have ended, at most one item is
missing for each producer that has no consumer, and `VERIFY` fails only if there
are such producers. `LateInv` says that every item behind a `-1` has a `-1` of
its own, behind it or still to be put by a producer that has no item left. When
all have ended, each consumer has taken one `-1` and each producer has put one:
the buffer holds as many as there are producers more than consumers, and what
items it holds are behind a `-1` that was taken. So there are no more of them.
For the 8 and 7 of the test that is one item, which the run `left_over_item`
shows to be possible.

`NeverStuck` needs a bound on the other side: when the consumers have ended, the
producers that are left over still put what they carry, and `LateInv` bounds
that. So two slots for each producer without a consumer are enough
(`EnoughRoom`; the test has 10 slots for one such producer), and with fewer TLC
finds the threads stuck, for example with two producers, one consumer and one
slot. `CanGo` says what a thread waits for; TLC has compared it with `ENABLED`
of its steps, which the prover cannot.

### Only model-checked

* Liveness, which is out of the prover's reach: `ReadyRuns`, `JoinReturns` and
  `TeardownEnds` of `Uthread`, `ClaimServed`, `StartupEnds`, `ReadyRuns` and
  `CallGoesOn` of `Preempt`, `TestsEnd`; and the absence of deadlock.
  `SomeoneGoesOn` is as close as the proofs come to it: someone can always go on,
  not that the test ends.
* The tests on one kernel thread, which are particular programs: there is
  nothing to generalise about them.
* The findings, which are counterexamples.
* The composition: that `Uthread` may use the ready queue as one step is argued
  from `ImplementsFifo` in prose, as is the use of `Queue` and `Bitvec`.

## Not modelled

* Return values of threads, stacks, Valgrind registration: no property depends
  on them. Failure of the pthread and ucontext functions, which makes the
  library abort (but for `pthread_create` and `timer_settime`, which `Startup`
  and `Preempt` have).
* The condition variables of `kthread.c`, which nobody uses.
* `test-m2m.c`: it measures parallelism by the clock and by the updates a data
  race loses. Of `test-sem.c` the fifty semaphores are two.
* `valgrind.h` (vendored): inline assembly without effect on the library's
  state. It is 72% of the repository's lines, so that the modules, which cover
  nearly all of the library itself, cover a small share of the whole.

## What is left open

* Liveness and deadlock in general, for which the prover has no means.
* A mechanical proof of the composition: `Uthread` with the steps of `ReadyQueue`
  in place of its atomic queue, and `ReadyQueue` with the pointers of `Queue`.
* Return values of threads as part of what `Threads` promises: `uthread_join`
  reads one under `tcbs_lock` after the target has finished, which is the order
  `LivesInOrder` establishes, but the values themselves are not in the model.
