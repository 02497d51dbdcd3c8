------------------------------ MODULE Uthread ------------------------------
(***************************************************************************)
(* The many-to-many user-thread library of uthread.c: thread life cycle,   *)
(* the scheduler that every kernel thread runs, join, counting semaphores  *)
(* and teardown.                                                           *)
(*                                                                         *)
(* A process of the model is a kernel thread k: pc[k] says what it is      *)
(* executing.  On the stack of a user thread it runs that thread's code or *)
(* a library call made by it; on its own scheduler stack it runs           *)
(* schedule().  A user thread is passive: when it is not on a kernel       *)
(* thread it is a saved context, ctx[t], and an entry in some queue.       *)
(*                                                                         *)
(* Grain of atomicity.  A step is a stretch of code that contains at most  *)
(* one acquisition of a lock, at its beginning, followed by accesses that  *)
(* the locks held protect and by releases; every access that the code      *)
(* makes without a lock (destroy_thread) has a step of its own.            *)
(* ready_enqueue and ready_dequeue are atomic here; module ReadyQueue      *)
(* shows that their lock and semaphore implement that.                     *)
(*                                                                         *)
(* A TCB is named by its tid.  That is exact until uthread_create stores   *)
(* over a slot of tcbs that still holds an allocated TCB, or               *)
(* destroy_thread clears a slot that was filled again: from there on a     *)
(* freed TCB is used, and the model stops with fault set.  It also stops   *)
(* when an assertion aborts the program.                                   *)
(*                                                                         *)
(* check_preempted makes a library call begin with uthread_yield when the  *)
(* timer has fired; user code may always call uthread_yield before its     *)
(* next call, so that these behaviours are among the model's.              *)
(*                                                                         *)
(* A definition that precedes the one whose name it extends is a faulty    *)
(* variant of it (LockTcbsUnguarded of LockTcbs): no specification uses    *)
(* it, and the properties must tell it from the original.                  *)
(***************************************************************************)
EXTENDS Naturals, Sequences, FiniteSets

CONSTANTS
  KThread,      \* the kernel threads (kthread_info)
  MainK,        \* kthread_info[MAIN_KTHREAD_INDEX]
  MaxThreads,   \* UTHREAD_MAX_THREADS
  Parents,      \* the tids whose code creates and joins threads, and makes
                \* and destroys semaphores
  Quota,        \* the most threads the program has at a time
  Sem,          \* the program's semaphores
  MaxCount,     \* bound on a semaphore's counter
  MallocFails,  \* whether malloc may return NULL in uthread_create
  NULL,         \* no lock owner, no argument
  ExitAll       \* the TCB &exitall, which signals teardown

ASSUME KThreadAssumption  == MainK \in KThread /\ IsFiniteSet(KThread)
ASSUME ThreadsAssumption  == MaxThreads \in Nat /\ MaxThreads >= 2
ASSUME CountAssumption    == MaxCount \in Nat /\ Quota \in Nat
ASSUME MallocAssumption   == MallocFails \in BOOLEAN
ASSUME SentinelAssumption == /\ NULL \notin KThread \cup Sem \cup Nat
                             /\ ExitAll \notin Nat \cup {NULL}

Tid  == 0 .. MaxThreads - 1
MAIN == 0                        \* UTHREAD_TID_MAIN
NumK == Cardinality(KThread)     \* num_kthreads

ThreadState == {"READY", "RUNNING", "WAITING_JOIN", "WAITING_SEM", "FINISHED"}
SchedTask   == {"NONE", "YIELD", "EXIT", "JOIN", "SEM_WAIT", "TEARDOWN"}

\* Where a kernel thread is when it runs on the stack of a user thread ...
UserPc == {"user", "start", "create", "ready_new", "rejoin", "reclaim",
           "destroy", "clear", "sem_wait", "sem_relock", "sem_wake",
           "sem_ready", "teardown", "torndown"}
\* ... and on its scheduler stack, or after its end.
SchedPc == {"sched", "dequeue", "dispatch", "reap", "exited", "done"}

VARIABLES
  bitvec,       \* the tids in use
  tcbs,         \* tcbs[t]: "null", "live", or "freed" (a dangling pointer)
  state,        \* tcbs[t]->state
  join_queue,   \* tcbs[t]->join_queue
  ctx,          \* tcbs[t]->ctx: where the thread resumes, with its argument
  tcbs_lock,    \* the kernel thread that holds it, or NULL
  rqueue,       \* the ready queue
  sem_inited,       \* the semaphores between sem_init and sem_destroy
  counter,      \* sem->counter
  sem_lock,     \* sem->lock
  sem_queue,    \* sem->queue
  exitall_sem,  \* the value of exitall_sem
  pc,           \* what kernel thread k executes
  current_tid,  \* kinfo->current_tid
  task,         \* kinfo->sched_info.task
  queue,        \* kinfo->sched_info.queue: of a tid's TCB or a semaphore
  arg,          \* local: the tid, semaphore or count the call is about
  tcb,          \* local: next_tcb in schedule, tcb in uthread_sem_post
  joining,      \* auxiliary: the tids whose join has begun and not returned
  fault         \* "none", or why the model stopped

tidVars   == <<bitvec, joining>>
tcbVars   == <<state, join_queue, ctx>>
semVars   == <<sem_inited, counter, sem_lock, sem_queue>>
schedVars == <<task, queue>>
vars == <<bitvec, tcbs, state, join_queue, ctx, tcbs_lock, rqueue, sem_inited,
          counter, sem_lock, sem_queue, exitall_sem, pc, current_tid, task,
          queue, arg, tcb, joining, fault>>

\* uthread_init has returned: main runs on the main kernel thread, the
\* others are about to enter schedule() from kthread_main.
Init ==
  /\ bitvec = {MAIN}
  /\ tcbs = [t \in Tid |-> IF t = MAIN THEN "live" ELSE "null"]
  /\ state = [t \in Tid |-> IF t = MAIN THEN "RUNNING" ELSE "FINISHED"]
  /\ join_queue = [t \in Tid |-> <<>>]
  /\ ctx = [t \in Tid |-> [at |-> "start", arg |-> NULL]]
  /\ tcbs_lock = NULL
  /\ rqueue = <<>>
  /\ sem_inited = {}
  /\ counter = [s \in Sem |-> 0]
  /\ sem_lock = [s \in Sem |-> NULL]
  /\ sem_queue = [s \in Sem |-> <<>>]
  /\ exitall_sem = 0
  /\ pc = [k \in KThread |-> IF k = MainK THEN "user" ELSE "sched"]
  /\ current_tid = [k \in KThread |-> IF k = MainK THEN MAIN ELSE NULL]
  /\ task = [k \in KThread |-> "NONE"]
  /\ queue = [k \in KThread |-> NULL]
  /\ arg = [k \in KThread |-> NULL]
  /\ tcb = [k \in KThread |-> NULL]
  /\ joining = {}
  /\ fault = "none"

-----------------------------------------------------------------------------
(* Helpers.                                                                *)

\* k executes user code of a thread that may create and join threads.
InUser(k)   == pc[k] = "user" /\ fault = "none"
InParent(k) == InUser(k) /\ current_tid[k] \in Parents

At(k, label) == pc[k] = label /\ fault = "none"

Goto(k, label, a) ==
  /\ pc' = [pc EXCEPT ![k] = label]
  /\ arg' = [arg EXCEPT ![k] = a]

Return(k) == Goto(k, "user", NULL)

\* lock_tcbs, left locked at the end of the step, and unlock_tcbs.
LockTcbsUnguarded(k) == tcbs_lock' = k
LockTcbs(k)          == tcbs_lock = NULL /\ tcbs_lock' = k

UnlockTcbsForgotten  == tcbs_lock' = tcbs_lock
UnlockTcbs           == tcbs_lock' = NULL

\* swapcontext(&current_tcb->ctx, get_sched_ctx()), with sched_info filled
\* in for the scheduler, to which tcbs_lock is left.
SwitchToSched(k, t, q, resume) ==
  /\ ctx' = [ctx EXCEPT ![current_tid[k]] = resume]
  /\ task' = [task EXCEPT ![k] = t]
  /\ queue' = [queue EXCEPT ![k] = q]
  /\ LockTcbs(k)
  /\ Goto(k, "sched", NULL)

\* ready_enqueue(tcbs[t]), whose atomicity module ReadyQueue shows.
ReadyEnqueueFirst(t) == rqueue' = <<t>> \o rqueue
ReadyEnqueueLost(t)  == rqueue' = rqueue
ReadyEnqueue(t)      == rqueue' = Append(rqueue, t)

SetStateNotReady(t, s) == state' = [state EXCEPT ![t] = IF s = "READY" THEN @ ELSE s]
SetState(t, s)         == state' = [state EXCEPT ![t] = s]

Stop(why) ==
  /\ fault' = why
  /\ UNCHANGED <<bitvec, tcbs, state, join_queue, ctx, tcbs_lock, rqueue,
                 sem_inited, counter, sem_lock, sem_queue, exitall_sem, pc,
                 current_tid, task, queue, arg, tcb, joining>>

-----------------------------------------------------------------------------
(* uthread_create                                                          *)

\* get_next_tid: the first cleared bit, or 1 when every tid is in use.
NextTid ==
  IF bitvec # Tid
  THEN CHOOSE t \in Tid \ bitvec : \A u \in Tid \ bitvec : t <= u
  ELSE 1

\* get_next_tid marks its tid as in use; reclaim_tid gives it back.
TakeTid              == bitvec' = bitvec \cup {NextTid}

ReclaimTidNext(t)    == bitvec' = bitvec \ {t + 1}
ReclaimTid(t)        == bitvec' = bitvec \ {t}

\* The caller goes on with whatever get_next_tid returned: new_tid is
\* unsigned, so that "new_tid < 0" never holds.
CreateTid(k) ==
  /\ InParent(k)
  /\ Cardinality({t \in Tid : tcbs[t] = "live"}) < Quota
  /\ TakeTid
  /\ Goto(k, "create", NextTid)
  /\ UNCHANGED <<tcbs, tcbVars, tcbs_lock, rqueue, semVars, exitall_sem,
                 current_tid, schedVars, tcb, joining, fault>>

\* lock_tcbs, then the TCB and its context are made.
CreateTcb(k) ==
  /\ At(k, "create")
  /\ tcbs[arg[k]] # "live"
  /\ tcbs' = [tcbs EXCEPT ![arg[k]] = "live"]
  /\ SetState(arg[k], "READY")
  /\ join_queue' = [join_queue EXCEPT ![arg[k]] = <<>>]
  /\ ctx' = [ctx EXCEPT ![arg[k]] = [at |-> "start", arg |-> NULL]]
  /\ LockTcbs(k)
  /\ Goto(k, "ready_new", arg[k])
  /\ UNCHANGED <<tidVars, rqueue, semVars, exitall_sem, current_tid,
                 schedVars, tcb, fault>>

\* The slot still holds an allocated TCB, which the store loses.
CreateOverwrites(k) ==
  /\ At(k, "create")
  /\ tcbs_lock = NULL
  /\ tcbs[arg[k]] = "live"
  /\ Stop("overwrite")

\* malloc fails, for the TCB (the slot becomes NULL) or for the stack (the
\* TCB is freed and the slot dangles).  Both paths return to the caller
\* past unlock_tcbs, and keep the tid.
CreateFails(k) ==
  /\ MallocFails
  /\ At(k, "create")
  /\ tcbs[arg[k]] # "live"
  /\ \E left \in {"null", "freed"} : tcbs' = [tcbs EXCEPT ![arg[k]] = left]
  /\ LockTcbs(k)
  /\ Return(k)
  /\ UNCHANGED <<tidVars, tcbVars, rqueue, semVars, exitall_sem, current_tid,
                 schedVars, tcb, fault>>

\* ready_enqueue(tcbs[new_tid]); unlock_tcbs()
CreateReady(k) ==
  /\ At(k, "ready_new")
  /\ ReadyEnqueue(arg[k])
  /\ UnlockTcbs
  /\ Return(k)
  /\ UNCHANGED <<tidVars, tcbs, tcbVars, semVars, exitall_sem, current_tid,
                 schedVars, tcb, fault>>

\* The first steps of a new thread, on its own stack.
Trampoline(k) ==
  /\ At(k, "start")
  /\ tcbs_lock = NULL
  /\ Return(k)
  /\ UNCHANGED <<tidVars, tcbs, tcbVars, tcbs_lock, rqueue, semVars,
                 exitall_sem, current_tid, schedVars, tcb, fault>>

-----------------------------------------------------------------------------
(* uthread_yield, uthread_exit, uthread_join                               *)

Yield(k) ==
  /\ InUser(k)
  /\ SetState(current_tid[k], "READY")
  /\ SwitchToSched(k, "YIELD", NULL, [at |-> "user", arg |-> NULL])
  /\ UNCHANGED <<tidVars, tcbs, join_queue, rqueue, semVars, exitall_sem,
                 current_tid, tcb, fault>>

\* Main does not exit: it ends with uthread_teardown.
Exit(k) ==
  /\ InUser(k)
  /\ current_tid[k] # MAIN
  /\ SetState(current_tid[k], "FINISHED")
  /\ task' = [task EXCEPT ![k] = "EXIT"]
  /\ LockTcbs(k)
  /\ Goto(k, "sched", NULL)
  /\ UNCHANGED <<tidVars, tcbs, join_queue, ctx, rqueue, semVars,
                 exitall_sem, current_tid, queue, tcb, fault>>

\* What the documentation asks of a caller of uthread_join(t): t was
\* created, and nobody has joined it or is waiting to.
MayJoin(k, t) ==
  /\ InParent(k)
  /\ t \notin joining \cup {MAIN, current_tid[k]}
  /\ tcbs[t] = "live"

\* Whether uthread_join goes on at once.
TargetNotTested(t)    == TRUE
TargetNeverDone(t)    == FALSE
TargetFinished(t)     == state[t] = "FINISHED"

JoinBlocks(k, t) ==
  /\ MayJoin(k, t)
  /\ ~TargetFinished(t)
  /\ join_queue[current_tid[k]] = <<>>
  /\ SetState(current_tid[k], "WAITING_JOIN")
  /\ SwitchToSched(k, "JOIN", t, [at |-> "rejoin", arg |-> t])
  /\ joining' = joining \cup {t}
  /\ UNCHANGED <<bitvec, tcbs, join_queue, rqueue, semVars, exitall_sem,
                 current_tid, tcb, fault>>

\* assert(queue_size(&current_tcb->join_queue) == 0): the assertion is about
\* the caller's own queue.
JoinAborts(k, t) ==
  /\ MayJoin(k, t)
  /\ tcbs_lock = NULL
  /\ ~TargetFinished(t)
  /\ join_queue[current_tid[k]] # <<>>
  /\ Stop("join_assert")

\* The target has finished: its value is read under tcbs_lock, which is
\* released again.
JoinFinished(k, t) ==
  /\ MayJoin(k, t)
  /\ tcbs_lock = NULL
  /\ TargetFinished(t)
  /\ joining' = joining \cup {t}
  /\ Goto(k, "reclaim", t)
  /\ UNCHANGED <<bitvec, tcbs, tcbVars, tcbs_lock, rqueue, semVars,
                 exitall_sem, current_tid, schedVars, tcb, fault>>

\* The same after the caller had to wait.
Rejoin(k) ==
  /\ At(k, "rejoin")
  /\ tcbs_lock = NULL
  /\ Goto(k, "reclaim", arg[k])
  /\ UNCHANGED <<tidVars, tcbs, tcbVars, tcbs_lock, rqueue, semVars,
                 exitall_sem, current_tid, schedVars, tcb, fault>>

\* reclaim_tid(tid)
Reclaim(k) ==
  /\ At(k, "reclaim")
  /\ ReclaimTid(arg[k])
  /\ Goto(k, "destroy", arg[k])
  /\ UNCHANGED <<tcbs, tcbVars, tcbs_lock, rqueue, semVars, exitall_sem,
                 current_tid, schedVars, tcb, joining, fault>>

\* destroy_thread(tid), which holds no lock: the frees ...
Destroy(k) ==
  /\ At(k, "destroy")
  /\ tcbs' = [tcbs EXCEPT ![arg[k]] = "freed"]
  /\ Goto(k, "clear", arg[k])
  /\ UNCHANGED <<tidVars, tcbVars, tcbs_lock, rqueue, semVars, exitall_sem,
                 current_tid, schedVars, tcb, fault>>

\* ... and tcbs[tid] = NULL, after which uthread_join returns.
ClearSlot(k) ==
  /\ At(k, "clear")
  /\ tcbs[arg[k]] # "live"
  /\ tcbs' = [tcbs EXCEPT ![arg[k]] = "null"]
  /\ joining' = joining \ {arg[k]}
  /\ Return(k)
  /\ UNCHANGED <<bitvec, tcbVars, tcbs_lock, rqueue, semVars, exitall_sem,
                 current_tid, schedVars, tcb, fault>>

\* Another kernel thread has filled the slot again: its TCB is lost.
ClearLoses(k) ==
  /\ At(k, "clear")
  /\ tcbs[arg[k]] = "live"
  /\ Stop("lost")

-----------------------------------------------------------------------------
(* Semaphores.  Their users keep to the documentation: a semaphore is used *)
(* between init and destroy, and destroyed when nobody waits on it.        *)

\* A call on s is in progress, on a kernel thread or in a saved context.
InUse(s) ==
  \/ sem_lock[s] # NULL
  \/ sem_queue[s] # <<>>
  \/ \E k \in KThread : pc[k] = "sem_relock" /\ arg[k] = s
  \/ \E t \in Tid : /\ tcbs[t] = "live" /\ state[t] = "READY"
                    /\ ctx[t] = [at |-> "sem_relock", arg |-> s]

\* The value is the caller's; the mutex and the queue are made anew.
SemInit(k, s, value) ==
  /\ InParent(k)
  /\ s \notin sem_inited
  /\ sem_inited' = sem_inited \cup {s}
  /\ counter' = [counter EXCEPT ![s] = value]
  /\ sem_lock' = [sem_lock EXCEPT ![s] = NULL]
  /\ sem_queue' = [sem_queue EXCEPT ![s] = <<>>]
  /\ UNCHANGED <<tidVars, tcbs, tcbVars, tcbs_lock, rqueue, exitall_sem, pc,
                 current_tid, schedVars, arg, tcb, fault>>

SemDestroy(k, s) ==
  /\ InParent(k)
  /\ s \in sem_inited
  /\ ~InUse(s)
  /\ sem_inited' = sem_inited \ {s}
  /\ UNCHANGED <<tidVars, tcbs, tcbVars, tcbs_lock, rqueue, counter, sem_lock,
                 sem_queue, exitall_sem, pc, current_tid, schedVars, arg, tcb,
                 fault>>

LockSemUnguarded(k, s) == sem_lock' = [sem_lock EXCEPT ![s] = k]
LockSem(k, s) == sem_lock[s] = NULL /\ sem_lock' = [sem_lock EXCEPT ![s] = k]
UnlockSem(s)  == sem_lock' = [sem_lock EXCEPT ![s] = NULL]

\* The test of the loop in uthread_sem_wait, and the one for a waiter in
\* uthread_sem_post.
CounterNotTested(s)    == TRUE
CounterPositive(s)     == counter[s] # 0

HasWaiterFirstOnly(s)  == sem_queue[s] # <<>> /\ counter[s] = 0
HasWaiter(s)           == sem_queue[s] # <<>>

\* The lock is taken before the counter is looked at, and again after the
\* thread was woken.
SemWait(k, s) ==
  /\ InUser(k)
  /\ s \in sem_inited
  /\ LockSem(k, s)
  /\ Goto(k, "sem_wait", s)
  /\ UNCHANGED <<tidVars, tcbs, tcbVars, tcbs_lock, rqueue, sem_inited, counter,
                 sem_queue, exitall_sem, current_tid, schedVars, tcb, fault>>

SemRelock(k) ==
  /\ At(k, "sem_relock")
  /\ LockSem(k, arg[k])
  /\ Goto(k, "sem_wait", arg[k])
  /\ UNCHANGED <<tidVars, tcbs, tcbVars, tcbs_lock, rqueue, sem_inited, counter,
                 sem_queue, exitall_sem, current_tid, schedVars, tcb, fault>>

\* The loop condition is false: decrement and unlock.
SemDecrement(k) ==
  /\ At(k, "sem_wait")
  /\ CounterPositive(arg[k])
  /\ counter' = [counter EXCEPT ![arg[k]] = @ - 1]
  /\ UnlockSem(arg[k])
  /\ Return(k)
  /\ UNCHANGED <<tidVars, tcbs, tcbVars, tcbs_lock, rqueue, sem_inited, sem_queue,
                 exitall_sem, current_tid, schedVars, tcb, fault>>

\* The counter is 0: the caller leaves its context, and the scheduler puts
\* it in the queue and releases both locks.
SemBlock(k) ==
  /\ At(k, "sem_wait")
  /\ ~CounterPositive(arg[k])
  /\ SetState(current_tid[k], "WAITING_SEM")
  /\ SwitchToSched(k, "SEM_WAIT", arg[k], [at |-> "sem_relock", arg |-> arg[k]])
  /\ UNCHANGED <<tidVars, tcbs, join_queue, rqueue, semVars, exitall_sem,
                 current_tid, tcb, fault>>

\* MaxCount bounds the counter.
SemPost(k, s) ==
  /\ InUser(k)
  /\ s \in sem_inited
  /\ sem_lock[s] = NULL
  /\ ~HasWaiter(s)
  /\ counter[s] < MaxCount
  /\ counter' = [counter EXCEPT ![s] = @ + 1]
  /\ UNCHANGED <<tidVars, tcbs, tcbVars, tcbs_lock, rqueue, sem_inited, sem_lock,
                 sem_queue, exitall_sem, pc, current_tid, schedVars, arg, tcb,
                 fault>>

\* With a waiter, which leaves the queue; sem->lock is held until SemReady.
SemPostWakes(k, s) ==
  /\ InUser(k)
  /\ s \in sem_inited
  /\ HasWaiter(s)
  /\ counter[s] < MaxCount
  /\ counter' = [counter EXCEPT ![s] = @ + 1]
  /\ LockSem(k, s)
  /\ tcb' = [tcb EXCEPT ![k] = Head(sem_queue[s])]
  /\ sem_queue' = [sem_queue EXCEPT ![s] = Tail(@)]
  /\ Goto(k, "sem_wake", s)
  /\ UNCHANGED <<tidVars, tcbs, tcbVars, tcbs_lock, rqueue, sem_inited,
                 exitall_sem, current_tid, schedVars, fault>>

\* lock_tcbs; tcb->state = READY; unlock_tcbs
SemWake(k) ==
  /\ At(k, "sem_wake")
  /\ tcbs_lock = NULL
  /\ SetState(tcb[k], "READY")
  /\ Goto(k, "sem_ready", arg[k])
  /\ UNCHANGED <<tidVars, tcbs, join_queue, ctx, tcbs_lock, rqueue, semVars,
                 exitall_sem, current_tid, schedVars, tcb, fault>>

\* ready_enqueue(tcb), then sem->lock is released.
SemReady(k) ==
  /\ At(k, "sem_ready")
  /\ ReadyEnqueue(tcb[k])
  /\ UnlockSem(arg[k])
  /\ tcb' = [tcb EXCEPT ![k] = NULL]
  /\ Return(k)
  /\ UNCHANGED <<tidVars, tcbs, tcbVars, tcbs_lock, sem_inited, counter,
                 sem_queue, exitall_sem, current_tid, schedVars, fault>>

-----------------------------------------------------------------------------
(* schedule()                                                              *)

\* The end of the switch: the task is done, tcbs_lock is free (unless there
\* was no task), and the kernel thread goes on to ready_dequeue.
TaskDone(k) ==
  /\ task' = [task EXCEPT ![k] = "NONE"]
  /\ queue' = [queue EXCEPT ![k] = NULL]
  /\ Goto(k, "dequeue", NULL)

SchedNone(k) ==
  /\ At(k, "sched")
  /\ task[k] = "NONE"
  /\ TaskDone(k)
  /\ UNCHANGED <<tidVars, tcbs, tcbVars, tcbs_lock, rqueue, semVars,
                 exitall_sem, current_tid, tcb, fault>>

SchedYield(k) ==
  /\ At(k, "sched")
  /\ task[k] = "YIELD"
  /\ ReadyEnqueue(current_tid[k])
  /\ UnlockTcbs
  /\ TaskDone(k)
  /\ UNCHANGED <<tidVars, tcbs, tcbVars, semVars, exitall_sem, current_tid,
                 tcb, fault>>

\* A thread that waits to join t leaves its queue and becomes ready.
TakeJoinerPeeks(t) == join_queue' = join_queue
TakeJoiner(t)      == join_queue' = [join_queue EXCEPT ![t] = Tail(@)]

WakeJoinerNever(t) == UNCHANGED <<state, join_queue, rqueue>>
WakeJoiner(t) ==
  IF join_queue[t] = <<>>
  THEN UNCHANGED <<state, join_queue, rqueue>>
  ELSE /\ TakeJoiner(t)
       /\ SetState(Head(join_queue[t]), "READY")
       /\ ReadyEnqueue(Head(join_queue[t]))

SchedExit(k) ==
  /\ At(k, "sched")
  /\ task[k] = "EXIT"
  /\ WakeJoiner(current_tid[k])
  /\ UnlockTcbs
  /\ TaskDone(k)
  /\ UNCHANGED <<tidVars, tcbs, ctx, semVars, exitall_sem, current_tid, tcb,
                 fault>>

SchedJoin(k) ==
  /\ At(k, "sched")
  /\ task[k] = "JOIN"
  /\ join_queue' = [join_queue EXCEPT ![queue[k]] = Append(@, current_tid[k])]
  /\ UnlockTcbs
  /\ TaskDone(k)
  /\ UNCHANGED <<tidVars, tcbs, state, ctx, rqueue, semVars, exitall_sem,
                 current_tid, tcb, fault>>

SchedSemWait(k) ==
  /\ At(k, "sched")
  /\ task[k] = "SEM_WAIT"
  /\ sem_queue' = [sem_queue EXCEPT ![queue[k]] = Append(@, current_tid[k])]
  /\ UnlockSem(queue[k])
  /\ UnlockTcbs
  /\ TaskDone(k)
  /\ UNCHANGED <<tidVars, tcbs, tcbVars, rqueue, sem_inited, counter, exitall_sem,
                 current_tid, tcb, fault>>

SchedTeardown(k) ==
  /\ At(k, "sched")
  /\ task[k] = "TEARDOWN"
  /\ SetState(current_tid[k], "READY")
  /\ ReadyEnqueue(current_tid[k])
  /\ UnlockTcbs
  /\ TaskDone(k)
  /\ UNCHANGED <<tidVars, tcbs, join_queue, ctx, semVars, exitall_sem,
                 current_tid, tcb, fault>>

\* ready_dequeue() returns a thread ...
Dequeue(k) ==
  /\ At(k, "dequeue")
  /\ rqueue # <<>>
  /\ Head(rqueue) # ExitAll
  /\ tcb' = [tcb EXCEPT ![k] = Head(rqueue)]
  /\ rqueue' = Tail(rqueue)
  /\ Goto(k, "dispatch", NULL)
  /\ UNCHANGED <<tidVars, tcbs, tcbVars, tcbs_lock, semVars, exitall_sem,
                 current_tid, schedVars, fault>>

\* ... or &exitall: the main kernel thread waits for the others, which exit.
DequeueExitAll(k) ==
  /\ At(k, "dequeue")
  /\ rqueue # <<>>
  /\ Head(rqueue) = ExitAll
  /\ rqueue' = Tail(rqueue)
  /\ IF k = MainK
     THEN Goto(k, "reap", NULL) /\ UNCHANGED exitall_sem
     ELSE Goto(k, "exited", NULL) /\ exitall_sem' = exitall_sem + 1
  /\ UNCHANGED <<tidVars, tcbs, tcbVars, tcbs_lock, semVars, current_tid,
                 schedVars, tcb, fault>>

\* One kthread_sem_wait(&exitall_sem) for each of the other kernel threads,
\* then schedule().
ReapNone  == 0
ReapAll   == NumK
ReapCount == NumK - 1

Reap(k) ==
  /\ At(k, "reap")
  /\ exitall_sem >= ReapCount
  /\ exitall_sem' = exitall_sem - ReapCount
  /\ Goto(k, "sched", NULL)
  /\ UNCHANGED <<tidVars, tcbs, tcbVars, tcbs_lock, rqueue, semVars,
                 current_tid, schedVars, tcb, fault>>

\* The thread becomes the current one and its context is resumed.
Dispatch(k) ==
  /\ At(k, "dispatch")
  /\ tcbs_lock = NULL
  /\ current_tid' = [current_tid EXCEPT ![k] = tcb[k]]
  /\ SetState(tcb[k], "RUNNING")
  /\ tcb' = [tcb EXCEPT ![k] = NULL]
  /\ Goto(k, ctx[tcb[k]].at, ctx[tcb[k]].arg)
  /\ UNCHANGED <<tidVars, tcbs, join_queue, ctx, tcbs_lock, rqueue, semVars,
                 exitall_sem, schedVars, fault>>

-----------------------------------------------------------------------------
(* uthread_teardown: by main, when every other thread has terminated.      *)

Teardown(k) ==
  /\ InUser(k)
  /\ current_tid[k] = MAIN
  /\ \A t \in Tid \ {MAIN} : tcbs[t] = "live" => state[t] = "FINISHED"
  /\ Goto(k, "teardown", 0)
  /\ UNCHANGED <<tidVars, tcbs, tcbVars, tcbs_lock, rqueue, semVars,
                 exitall_sem, current_tid, schedVars, tcb, fault>>

\* One &exitall for each kernel thread.
TeardownSignal(k) ==
  /\ At(k, "teardown")
  /\ arg[k] < NumK
  /\ ReadyEnqueue(ExitAll)
  /\ Goto(k, "teardown", arg[k] + 1)
  /\ UNCHANGED <<tidVars, tcbs, tcbVars, tcbs_lock, semVars, exitall_sem,
                 current_tid, schedVars, tcb, fault>>

TeardownSwitch(k) ==
  /\ At(k, "teardown")
  /\ arg[k] = NumK
  /\ SwitchToSched(k, "TEARDOWN", NULL, [at |-> "torndown", arg |-> NULL])
  /\ UNCHANGED <<tidVars, tcbs, state, join_queue, rqueue, semVars,
                 exitall_sem, current_tid, tcb, fault>>

\* kthread_join of the others, then everything is destroyed; the destroy
\* loops wait for a mutex that is held.
TeardownFinish(k) ==
  /\ At(k, "torndown")
  /\ \A j \in KThread \ {MainK} : pc[j] = "exited"
  /\ tcbs_lock = NULL
  /\ tcbs' = [t \in Tid |-> "null"]
  /\ bitvec' = {}
  /\ Goto(k, "done", NULL)
  /\ UNCHANGED <<tcbVars, tcbs_lock, rqueue, semVars, exitall_sem,
                 current_tid, schedVars, tcb, joining, fault>>

-----------------------------------------------------------------------------
(* The specification.                                                      *)

\* The calls of the program that runs on k, each with the steps it is
\* made of, and the steps of the scheduler.
Call(k) ==
  \/ CreateTid(k) \/ Yield(k) \/ Exit(k) \/ Teardown(k)
  \/ \E t \in Tid : JoinBlocks(k, t) \/ JoinAborts(k, t) \/ JoinFinished(k, t)
  \/ \E s \in Sem : \/ \E v \in 0 .. MaxCount : SemInit(k, s, v)
                    \/ SemDestroy(k, s)
                    \/ SemWait(k, s)
                    \/ SemPost(k, s)
                    \/ SemPostWakes(k, s)

InCall(k) ==
  \/ CreateTcb(k) \/ CreateOverwrites(k) \/ CreateFails(k) \/ CreateReady(k)
  \/ Trampoline(k)
  \/ Rejoin(k) \/ Reclaim(k) \/ Destroy(k) \/ ClearSlot(k) \/ ClearLoses(k)
  \/ SemRelock(k) \/ SemDecrement(k) \/ SemBlock(k) \/ SemWake(k)
  \/ SemReady(k)
  \/ TeardownSignal(k) \/ TeardownSwitch(k) \/ TeardownFinish(k)

Schedule(k) ==
  \/ SchedNone(k) \/ SchedYield(k) \/ SchedExit(k) \/ SchedJoin(k)
  \/ SchedSemWait(k) \/ SchedTeardown(k)
  \/ Dequeue(k) \/ DequeueExitAll(k) \/ Reap(k) \/ Dispatch(k)

Step(k) == Call(k) \/ InCall(k) \/ Schedule(k)

\* The program has ended: torn down, or stopped by a fault.
Ended ==
  /\ pc[MainK] = "done" \/ fault # "none"
  /\ UNCHANGED vars

Next == (\E k \in KThread : Step(k)) \/ Ended

Spec == Init /\ [][Next]_vars
=============================================================================
