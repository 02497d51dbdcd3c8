----------------------------- MODULE UthreadInv -----------------------------
(***************************************************************************)
(* What makes Uthread correct: the invariants of its state, and what must  *)
(* eventually happen.  All invariants hold for every program that keeps to *)
(* the documentation, up to the step at which the model stops (fault).     *)
(***************************************************************************)
EXTENDS Uthread

-----------------------------------------------------------------------------
(* Vocabulary.                                                             *)

\* k executes on the stack of current_tid[k].
OnStack(k) == pc[k] \in UserPc

\* The scheduler on k is finishing the call that current_tid[k] made.
Handing(k) == pc[k] = "sched" /\ task[k] # "NONE"

\* The exit of t is not yet complete.
Exiting(t) == \E k \in KThread : Handing(k) /\ task[k] = "EXIT"
                                            /\ current_tid[k] = t

HoldsTcbsLock(k)  == pc[k] = "ready_new" \/ Handing(k)
HoldsSemLock(k, s) ==
  \/ pc[k] \in {"sem_wait", "sem_wake", "sem_ready"} /\ arg[k] = s
  \/ Handing(k) /\ task[k] = "SEM_WAIT" /\ queue[k] = s

\* Every place from which thread t can come to run, or that runs it: an
\* entry of a queue or a pointer that a kernel thread is responsible for.
Places(t) ==
       {<<"rqueue", i>> : i \in {j \in DOMAIN rqueue : rqueue[j] = t}}
  \cup (UNION {{<<"join", u, i>> : i \in {j \in DOMAIN join_queue[u] :
                                             join_queue[u][j] = t}} :
               u \in Tid})
  \cup (UNION {{<<"sem", s, i>> : i \in {j \in DOMAIN sem_queue[s] :
                                             sem_queue[s][j] = t}} :
               s \in Sem})
  \cup {<<"current", k>> : k \in {j \in KThread :
                  (OnStack(j) \/ Handing(j)) /\ current_tid[j] = t}}
  \cup {<<"tcb", k>> : k \in {j \in KThread : tcb[j] = t}}
  \cup {<<"new", k>> : k \in {j \in KThread :
                  pc[j] = "ready_new" /\ arg[j] = t}}

\* Where a saved context resumes.
ResumePc == {"start", "user", "rejoin", "sem_relock", "torndown"}

-----------------------------------------------------------------------------
(* Invariants.                                                             *)

\* The argument of a call at a program location, and of a saved context.
ArgAt(at) ==
  IF at \in {"create", "ready_new", "rejoin", "reclaim", "destroy", "clear"}
  THEN Tid
  ELSE IF at \in {"sem_wait", "sem_relock", "sem_wake", "sem_ready"} THEN Sem
  ELSE IF at = "teardown" THEN 0 .. NumK
  ELSE {NULL}

\* What sched_info.queue points to.
QueueOf(t) == IF t = "JOIN" THEN Tid
              ELSE IF t = "SEM_WAIT" THEN Sem
              ELSE {NULL}

\* The locals of kernel thread k fit what it executes.
LocalsOK(k) ==
  /\ OnStack(k) \/ Handing(k) => current_tid[k] \in Tid
  /\ task[k] # "NONE" => pc[k] = "sched"
  /\ queue[k] \in QueueOf(task[k])
  /\ arg[k] \in ArgAt(pc[k])
  /\ tcb[k] \in Tid <=> pc[k] \in {"dispatch", "sem_wake", "sem_ready"}

\* The type invariant of the state of uthread.c and of the locals of its
\* functions.
TypeOK ==
  /\ bitvec \in SUBSET Tid
  /\ tcbs \in [Tid -> {"null", "live", "freed"}]
  /\ state \in [Tid -> ThreadState]
  /\ join_queue \in [Tid -> Seq(Tid)]
  /\ ctx \in [Tid -> [at : ResumePc, arg : Tid \cup Sem \cup {NULL}]]
  /\ \A t \in Tid : ctx[t].arg \in ArgAt(ctx[t].at)
  /\ tcbs_lock \in KThread \cup {NULL}
  /\ rqueue \in Seq(Tid \cup {ExitAll})
  /\ sem_inited \in SUBSET Sem
  /\ counter \in [Sem -> 0 .. MaxCount]
  /\ sem_lock \in [Sem -> KThread \cup {NULL}]
  /\ sem_queue \in [Sem -> Seq(Tid)]
  /\ exitall_sem \in Nat
  /\ pc \in [KThread -> UserPc \cup SchedPc]
  /\ current_tid \in [KThread -> Tid \cup {NULL}]
  /\ task \in [KThread -> SchedTask]
  /\ queue \in [KThread -> Tid \cup Sem \cup {NULL}]
  /\ arg \in [KThread -> Nat \cup Sem \cup {NULL}]
  /\ tcb \in [KThread -> Tid \cup {NULL}]
  /\ \A k \in KThread : LocalsOK(k)
  /\ joining \in SUBSET Tid
  /\ fault \in {"none", "overwrite", "lost", "join_assert"}

\* Whoever is between lock_tcbs and unlock_tcbs owns tcbs_lock: also when
\* the call locks on the thread's stack and the scheduler unlocks on its own
\* (schedule(): "this kernel thread is already holding tcbs_lock").
TcbsLockOwned == \A k \in KThread : HoldsTcbsLock(k) => tcbs_lock = k

\* Whoever is inside a critical section of a semaphore owns its lock, which
\* a waiting call leaves to the scheduler as well.
SemLockOwned ==
  \A k \in KThread, s \in Sem : HoldsSemLock(k, s) => sem_lock[s] = k

\* No user thread is in two places: two kernel threads never run on one
\* stack, and a thread that is queued is not queued again or still running.
\* This is what the hand-over of tasks to schedule() "to avoid race
\* conditions" is for.
NotDuplicated ==
  \A t \in Tid : \A p, q \in Places(t) : p = q

\* No user thread is lost: until it has finished, a thread is in a place
\* from which it runs or will be woken.
NotLost ==
  \A t \in Tid : tcbs[t] = "live" /\ state[t] # "FINISHED" => Places(t) # {}

\* No queue and no kernel thread refers to a TCB that was freed, and a
\* thread waits to join only a TCB that is allocated.
NoDanglingUse ==
  \A t \in Tid :
     tcbs[t] # "live" =>
        /\ Places(t) = {}
        /\ \A k \in KThread : ~(task[k] = "JOIN" /\ queue[k] = t)

\* A thread is in the queue its state names.
StateMatchesPlace ==
  /\ \A i \in DOMAIN rqueue : rqueue[i] # ExitAll => state[rqueue[i]] = "READY"
  /\ \A t \in Tid : \A i \in DOMAIN join_queue[t] :
        state[join_queue[t][i]] = "WAITING_JOIN"
  /\ \A s \in Sem : \A i \in DOMAIN sem_queue[s] :
        state[sem_queue[s][i]] = "WAITING_SEM"

\* Every assertion of uthread.c holds when it is reached, except the one of
\* line 834: trampoline, the wake-up of a joiner in schedule(), the dispatch
\* of a READY thread, teardown on the main kernel thread, uthread_exit and
\* uthread_yield by a RUNNING thread, the join of a FINISHED thread and the
\* state of a waiter that a post wakes.  (That no counter is negative, lines
\* 1025 and 1054, is part of TypeOK.)
AssertsHold ==
  \A k \in KThread :
    /\ pc[k] \in {"start", "user"} => state[current_tid[k]] = "RUNNING"
    /\ Handing(k) /\ task[k] = "EXIT" /\ join_queue[current_tid[k]] # <<>> =>
         LET joiner == Head(join_queue[current_tid[k]])
         IN  joiner # current_tid[k] /\ state[joiner] = "WAITING_JOIN"
    /\ pc[k] = "dispatch" => state[tcb[k]] = "READY"
    /\ pc[k] = "torndown" => k = MainK
    /\ pc[k] = "rejoin" => /\ tcbs[arg[k]] = "live"
                           /\ state[arg[k]] = "FINISHED"
    /\ pc[k] = "sem_wake" => state[tcb[k]] = "WAITING_SEM"

\* A thread that waits to join another waits for an unfinished one, alone.
JoinJustified ==
  \A u \in Tid :
    /\ Len(join_queue[u]) <= 1
    /\ join_queue[u] # <<>> /\ tcbs[u] = "live" =>
         state[u] # "FINISHED" \/ Exiting(u)

\* Threads on their way to take the semaphore: woken and not yet back in
\* the loop of uthread_sem_wait, or in it.
Woken(s) ==
  {t \in Tid :
     \/ /\ tcbs[t] = "live" /\ state[t] = "READY"
        /\ ctx[t] = [at |-> "sem_relock", arg |-> s]
     \/ \E k \in KThread :
          \/ /\ pc[k] \in {"sem_relock", "sem_wait"} /\ arg[k] = s
             /\ current_tid[k] = t
          \/ pc[k] = "sem_wake" /\ arg[k] = s /\ tcb[k] = t}

\* While threads wait on a semaphore, each unit of its counter has a woken
\* thread on its way: no post is lost, although a thread that was not
\* waiting may take the unit first and the woken one queue up again.
NoLostWakeup ==
  \A s \in Sem : sem_queue[s] # <<>> => counter[s] <= Cardinality(Woken(s))

\* When every kernel thread is idle the threads that are left wait for
\* something that has not happened: a thread that has not finished, or a
\* semaphore whose counter is 0.
IdleMeansBlocked ==
  (fault = "none" /\ rqueue = <<>> /\ \A k \in KThread : pc[k] = "dequeue") =>
     \A t \in Tid : tcbs[t] = "live" =>
        \/ state[t] = "FINISHED"
        \/ /\ state[t] = "WAITING_JOIN"
           /\ tcbs[ctx[t].arg] = "live" /\ state[ctx[t].arg] # "FINISHED"
        \/ state[t] = "WAITING_SEM" /\ counter[ctx[t].arg] = 0

\* When teardown frees everything, the other kernel threads have ended and
\* nothing is left in the ready queue: each &exitall ended one of them.
TeardownClean ==
  pc[MainK] = "done" => /\ rqueue = <<>> /\ exitall_sem = 0
                        /\ \A k \in KThread \ {MainK} : pc[k] = "exited"

\* No library call aborts, and none loses a TCB.
NoFault == fault = "none"

\* uthread_create never stores over a slot of tcbs that holds an allocated
\* TCB, and uthread_join never clears a slot that was filled again.
NoTcbLost == fault \notin {"overwrite", "lost"}

\* The assertion of uthread_join (line 834) never fails.
JoinAssertHolds == fault # "join_assert"

\* A kernel thread that executes user code holds no lock of the library.
NoLockInUserCode ==
  \A k \in KThread : pc[k] = "user" =>
     tcbs_lock # k /\ \A s \in Sem : sem_lock[s] # k

-----------------------------------------------------------------------------
(* Refinement.                                                             *)

Waiting == {"WAITING_JOIN", "WAITING_SEM"}

\* A thread exists while its TCB is allocated; what it waits for is the
\* argument of the call it will resume.
T == INSTANCE Threads WITH
       phase <- [t \in Tid |-> IF tcbs[t] = "live" THEN state[t] ELSE "none"],
       waits <- [t \in Tid |-> IF tcbs[t] = "live" /\ state[t] \in Waiting
                                THEN ctx[t].arg ELSE NULL],
       value <- counter

\* Kernel threads, locks, queues and the hand-over to schedule() together
\* implement what module Threads promises: among other things that a join
\* returns and frees its target only after the target has finished, and
\* that waiting and waking agree with the counter and with the target.
ThreadsSpec == T!Spec

-----------------------------------------------------------------------------
(* Liveness.                                                               *)

\* The operating system runs every kernel thread, the program's code always
\* reaches its next library call, and a mutex does not starve one of the
\* threads that wait for it.  Nothing of the kind is assumed of the wait
\* for the ready queue, beyond that a thread that can go on for ever goes
\* on.
Fairness ==
  \A k \in KThread : /\ WF_vars(Step(k))
                     /\ SF_vars(pc[k] # "dequeue" /\ Step(k))

FairSpec == Spec /\ Fairness

\* Every thread that is made ready runs: by create, yield, the end of the
\* thread it joins, or a post.
ReadyRuns ==
  \A t \in Tid : (tcbs[t] = "live" /\ state[t] = "READY")
                    ~> (state[t] = "RUNNING")

\* A thread that waits to join another returns once that one has finished.
JoinReturns ==
  \A t, u \in Tid :
     (/\ state[t] = "WAITING_JOIN" /\ ctx[t].arg = u
      /\ tcbs[u] = "live" /\ state[u] = "FINISHED")
        ~> (tcbs[u] = "null")

\* Teardown ends, on the main kernel thread, whichever kernel thread main
\* was on when it was called.
TeardownEnds == (\E k \in KThread : pc[k] = "teardown") ~> (pc[MainK] = "done")

=============================================================================
