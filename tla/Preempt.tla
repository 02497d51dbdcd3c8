------------------------------ MODULE Preempt -------------------------------
(***************************************************************************)
(* Preemption in uthread.c: a POSIX timer per kernel thread raises         *)
(* SIGRTMIN, whose handler sets kinfo->preempted; library calls block the  *)
(* signal, and most begin with check_preempted, which yields.  The signal  *)
(* mask is part of every saved context, and a signal that arrives while it *)
(* is blocked stays pending until it is unblocked.                         *)
(*                                                                         *)
(* Module Uthread has what the calls do.  Here a call's body may return,   *)
(* block its thread, wake or create one, or end its thread; the queues of  *)
(* blocked threads are one set.  Kernel thread i is kthread_info[i].       *)
(***************************************************************************)
EXTENDS Naturals, Sequences, FiniteSets

CONSTANTS MaxK,      \* the most kernel threads uthread_init is asked for
          NumT,      \* how many user threads there may be
          Quanta,    \* the arguments quantum_us of uthread_init
          NONE,      \* no thread; not owed
          ExitAll    \* &exitall

ASSUME PreemptAssumption == /\ MaxK \in Nat \ {0} /\ NumT \in Nat \ {0}
                            /\ Quanta \subseteq Nat
                            /\ NONE # ExitAll /\ {NONE, ExitAll} \cap Nat = {}

MainK   == 0                       \* MAIN_KTHREAD_INDEX
Thread  == 0 .. NumT - 1
MAIN    == 0                       \* UTHREAD_TID_MAIN
Second  == 1000000000              \* nanoseconds; tv_nsec must be less
OwedCap == 2                       \* where the auxiliary count owed saturates

VARIABLES quantum,      \* quantum
          num_kthreads, \* num_kthreads
          inited,       \* inited
          freed,        \* kthread_info has been freed
          timer_id,     \* kinfo->timer_id
          preempted,    \* kinfo->preempted
          current,      \* the user thread of kinfo->current_tid
          timers,       \* of the kernel: [id, owner, nsec]
          created,      \* of the kernel: timers created so far
          mask,         \* of the kernel: k has SIGRTMIN blocked
          pending,      \* of the kernel: a SIGRTMIN waits for k
          ctx,          \* tcb->ctx: where it resumes, with which mask
          rqueue,       \* the ready queue
          waiting,      \* the user threads in a join or semaphore queue
          unborn,       \* the user threads not created yet
          exitall_sem,  \* its value
          i,            \* local of uthread_teardown
          pc,           \* what kernel thread k executes
          owed          \* auxiliary: the calls that k's thread completed
                        \* since a tick came for it, NONE if none came

\* The kernel threads: the indices of kthread_info.
KThread == 0 .. num_kthreads - 1

argVars   == <<quantum, num_kthreads>>
kinfoVars == <<timer_id, preempted, current>>
timerVars == <<timers, created>>
poolVars  == <<waiting, unborn>>
tearVars  == <<inited, freed, exitall_sem, i>>
vars == <<quantum, num_kthreads, inited, freed, timer_id, preempted, current,
          timers, created, mask, pending, ctx, rqueue, waiting, unborn,
          exitall_sem, i, pc, owed>>

\* uthread_init has set inited and posted inited_sem.  It blocked SIGRTMIN
\* before it created the workers, which inherit the mask, and before it saved
\* their sched_ctx.
Init ==
  /\ quantum \in Quanta /\ num_kthreads \in 1 .. MaxK
  /\ inited = TRUE /\ freed = FALSE
  /\ timer_id = [k \in KThread |-> 0]
  /\ preempted = [k \in KThread |-> FALSE]
  /\ current = [k \in KThread |-> IF k = MainK THEN MAIN ELSE NONE]
  /\ timers = {} /\ created = 0
  /\ mask = [k \in KThread |-> quantum # 0]
  /\ pending = [k \in KThread |-> FALSE]
  /\ ctx = [t \in Thread |-> [at |-> "user", mask |-> TRUE]]
  /\ rqueue = <<>> /\ waiting = {} /\ unborn = Thread \ {MAIN}
  /\ exitall_sem = 0 /\ i = 0
  /\ pc = [k \in KThread |-> IF k = MainK THEN "init" ELSE "kthread_main"]
  /\ owed = [k \in KThread |-> NONE]

-----------------------------------------------------------------------------
(* Signals.                                                                *)

Goto(k, from, to) == pc[k] = from /\ pc' = [pc EXCEPT ![k] = to]

\* block_sigrtmin and unblock_sigrtmin do nothing without a quantum.
BlockSigrtmin(k) ==
  mask' = [mask EXCEPT ![k] = @ \/ quantum # 0]

\* The kernel sets k's mask to m: what was pending is delivered when it is
\* unblocked, and sigrtmin_handler notes it in k's kinfo.
SetMask(k, m) ==
  /\ mask' = [mask EXCEPT ![k] = m]
  /\ pending' = [pending EXCEPT ![k] = @ /\ m]
  /\ preempted' = [preempted EXCEPT ![k] = @ \/ (pending[k] /\ ~m /\ inited)]

UnblockSigrtmin(k) == SetMask(k, mask[k] /\ quantum = 0)

\* A timer of k expires; a second signal of one timer is not queued.
OnUserStack(k) == pc[k] \in {"user", "check", "check_first", "body", "reblock",
                             "leave"}
Tick(k) ==
  /\ pc[k] # "aborted" /\ \E x \in timers : x.owner = k
  /\ IF mask[k]
     THEN pending' = [pending EXCEPT ![k] = TRUE] /\ UNCHANGED preempted
     ELSE preempted' = [preempted EXCEPT ![k] = @ \/ inited] /\ UNCHANGED pending
  /\ owed' = [owed EXCEPT ![k] = IF OnUserStack(k) /\ @ = NONE THEN 0 ELSE @]
  /\ UNCHANGED <<argVars, tearVars, timer_id, current, timerVars, mask, ctx,
                 rqueue, poolVars, pc>>

\* set_timer_interrupt: ids count from 0, tv_nsec is the quantum, and one of
\* a second or more is refused, which aborts.
IntervalForgotten == 0
Interval          == quantum

CanSetTimer == Interval < Second

SetTimer(k) ==
  /\ timers' = timers \cup {[id |-> created, owner |-> k, nsec |-> Interval]}
  /\ timer_id' = [timer_id EXCEPT ![k] = created]
  /\ created' = created + 1

-----------------------------------------------------------------------------
(* The end of uthread_init, and kthread_main after its barrier.            *)

StartKThread(k, from, to) ==
  /\ IF quantum = 0
     THEN Goto(k, from, to) /\ UNCHANGED <<timerVars, timer_id>>
     ELSE CanSetTimer /\ SetTimer(k) /\ Goto(k, from, to)
  /\ BlockSigrtmin(k)
  /\ UNCHANGED <<argVars, tearVars, preempted, current, pending, ctx, rqueue,
                 poolVars, owed>>

InitTimer        == StartKThread(MainK, "init", "init_end")
KthreadMain(k)   == StartKThread(k, "kthread_main", "sched")

\* timer_settime fails: abort().
SetTimerAborts(k) ==
  /\ pc[k] \in {"init", "kthread_main"}
  /\ quantum # 0 /\ ~CanSetTimer
  /\ pc' = [j \in KThread |-> "aborted"]
  /\ UNCHANGED <<argVars, tearVars, kinfoVars, timerVars, mask, pending, ctx,
                 rqueue, poolVars, owed>>

InitEnd ==
  /\ Goto(MainK, "init_end", "user")
  /\ UnblockSigrtmin(MainK)
  /\ UNCHANGED <<argVars, tearVars, timer_id, current, timerVars, ctx, rqueue,
                 poolVars, owed>>

-----------------------------------------------------------------------------
(* Library calls.                                                          *)

\* swapcontext: the context keeps the mask, and the scheduler runs with its
\* own, saved by uthread_init.
SavedMaskClear(k) == FALSE
SavedMask(k)      == mask[k]

SwapContext(k, at) ==
  /\ ctx' = [ctx EXCEPT ![current[k]] = [at |-> at, mask |-> SavedMask(k)]]
  /\ mask' = [mask EXCEPT ![k] = quantum # 0]
  /\ pc' = [pc EXCEPT ![k] = "sched"]
  /\ owed' = [owed EXCEPT ![k] = NONE]

\* A call begins: block_sigrtmin().  uthread_yield goes on without a check.
Enter(k) ==
  /\ Goto(k, "user", "check") \/ Goto(k, "user", "yield")
  /\ BlockSigrtmin(k)
  /\ UNCHANGED <<argVars, tearVars, kinfoVars, timerVars, pending, ctx, rqueue,
                 poolVars, owed>>

\* uthread_sem_destroy checks first and blocks the signal after.
EnterSemDestroy(k) ==
  /\ Goto(k, "user", "check_first")
  /\ UNCHANGED <<argVars, tearVars, kinfoVars, timerVars, mask, pending, ctx,
                 rqueue, poolVars, owed>>

\* check_preempted, up to the block_sigrtmin of uthread_yield or of
\* uthread_sem_destroy.
FlagUnseen(k) == FALSE
FlagSet(k)    == quantum # 0 /\ preempted[k]

CheckPreempted(k) ==
  /\ \E from \in {"check", "check_first"} :
        Goto(k, from, IF FlagSet(k) THEN "check_yield" ELSE "body")
  /\ preempted' = [preempted EXCEPT ![k] = @ /\ ~FlagSet(k)]
  /\ BlockSigrtmin(k)
  /\ UNCHANGED <<argVars, tearVars, timer_id, current, timerVars, pending, ctx,
                 rqueue, poolVars, owed>>

\* uthread_yield: called by the thread it returns to user code, with the
\* signal still blocked; called by check_preempted it returns into the call.
ResumesInCheck(k) == IF pc[k] = "yield" THEN "user" ELSE "check"
ResumesIn(k)      == IF pc[k] = "yield" THEN "user" ELSE "body"

Yield(k) ==
  /\ pc[k] \in {"yield", "check_yield"}
  /\ SwapContext(k, ResumesIn(k))
  /\ rqueue' = Append(rqueue, current[k])
  /\ UNCHANGED <<argVars, tearVars, kinfoVars, timerVars, pending, poolVars>>

\* The body of a call that returns, with what it may do to other threads;
\* the mask of a new thread's context is that of uthread_create.
Returns(k) ==
  /\ Goto(k, "body", "leave")
  /\ \/ UNCHANGED <<rqueue, poolVars, ctx>>
     \/ \E t \in waiting : /\ waiting' = waiting \ {t}
                           /\ rqueue' = Append(rqueue, t)
                           /\ UNCHANGED <<unborn, ctx>>
     \/ \E t \in unborn  : /\ unborn' = unborn \ {t}
                           /\ ctx' = [ctx EXCEPT ![t] = [at |-> "user", mask |-> mask[k]]]
                           /\ rqueue' = Append(rqueue, t)
                           /\ UNCHANGED waiting
  /\ UNCHANGED <<argVars, tearVars, kinfoVars, timerVars, mask, pending, owed>>

\* Of one that blocks: it continues with block_sigrtmin() in its body.
Blocks(k) ==
  /\ pc[k] = "body"
  /\ SwapContext(k, "reblock")
  /\ waiting' = waiting \cup {current[k]}
  /\ UNCHANGED <<argVars, tearVars, kinfoVars, timerVars, pending, rqueue, unborn>>

Reblock(k) ==
  /\ Goto(k, "reblock", "body")
  /\ BlockSigrtmin(k)
  /\ UNCHANGED <<argVars, tearVars, kinfoVars, timerVars, pending, ctx, rqueue,
                 poolVars, owed>>

\* Of uthread_exit: setcontext(get_sched_ctx()).  Main does not exit.
Exits(k) ==
  /\ Goto(k, "body", "sched")
  /\ current[k] # MAIN
  /\ mask' = [mask EXCEPT ![k] = quantum # 0]
  /\ owed' = [owed EXCEPT ![k] = NONE]
  /\ UNCHANGED <<argVars, tearVars, kinfoVars, timerVars, pending, ctx, rqueue,
                 poolVars>>

\* A call ends: unblock_sigrtmin().
Leave(k) ==
  /\ Goto(k, "leave", "user")
  /\ UnblockSigrtmin(k)
  /\ owed' = [owed EXCEPT ![k] = IF @ = NONE THEN NONE
                                             ELSE IF @ < OwedCap THEN @ + 1 ELSE @]
  /\ UNCHANGED <<argVars, tearVars, timer_id, current, timerVars, ctx, rqueue,
                 poolVars>>

-----------------------------------------------------------------------------
(* schedule(), after the handover of the thread that left.                 *)

Dequeue(k) ==
  /\ Goto(k, "sched", "reset")
  /\ rqueue # <<>> /\ Head(rqueue) # ExitAll
  /\ current' = [current EXCEPT ![k] = Head(rqueue)]
  /\ rqueue' = Tail(rqueue)
  /\ UNCHANGED <<argVars, tearVars, timer_id, preempted, timerVars, mask,
                 pending, ctx, poolVars, owed>>

\* kinfo->preempted = 0
Reset(k) ==
  /\ Goto(k, "reset", "unblock")
  /\ preempted' = [preempted EXCEPT ![k] = FALSE]
  /\ UNCHANGED <<argVars, tearVars, timer_id, current, timerVars, mask, pending,
                 ctx, rqueue, poolVars, owed>>

\* unblock_sigrtmin(): a tick that came for the thread that left is charged
\* to the one that is about to run.
UnblockInSchedule(k) ==
  /\ Goto(k, "unblock", "resume")
  /\ UnblockSigrtmin(k)
  /\ UNCHANGED <<argVars, tearVars, timer_id, current, timerVars, ctx, rqueue,
                 poolVars, owed>>

\* setcontext(&next_tcb->ctx)
Resume(k) ==
  /\ Goto(k, "resume", ctx[current[k]].at)
  /\ SetMask(k, ctx[current[k]].mask)
  /\ UNCHANGED <<argVars, tearVars, timer_id, current, timerVars, ctx, rqueue,
                 poolVars, owed>>

\* &exitall: a worker ends, the main kernel thread waits for them and calls
\* schedule() again.
TakeExitAll(k) ==
  /\ Goto(k, "sched", IF k = MainK THEN "reap" ELSE "exited")
  /\ rqueue # <<>> /\ Head(rqueue) = ExitAll
  /\ rqueue' = Tail(rqueue)
  /\ exitall_sem' = exitall_sem + (IF k = MainK THEN 0 ELSE 1)
  /\ UNCHANGED <<argVars, inited, freed, i, kinfoVars, timerVars, mask, pending,
                 ctx, poolVars, owed>>

Reap ==
  /\ Goto(MainK, "reap", "sched")
  /\ exitall_sem = num_kthreads - 1
  /\ exitall_sem' = 0
  /\ UNCHANGED <<argVars, inited, freed, i, kinfoVars, timerVars, mask, pending,
                 ctx, rqueue, poolVars, owed>>

-----------------------------------------------------------------------------
(* uthread_teardown, called by main when it is the only thread.            *)

Teardown(k) ==
  /\ Goto(k, "user", "delete")
  /\ current[k] = MAIN /\ rqueue = <<>> /\ waiting = {}
  /\ \A j \in KThread \ {k} : pc[j] \in {"kthread_main", "sched"}
  /\ unborn' = {}
  /\ BlockSigrtmin(k)
  /\ UNCHANGED <<argVars, tearVars, kinfoVars, timerVars, pending, ctx, rqueue,
                 waiting, owed>>

\* timer_delete(kthread_info[i]->timer_id), which is 0 for a worker that has
\* not run yet; its failure is only reported.
DeletedTimerNone == {}
DeletedTimer     == {x \in timers : x.id = timer_id[i]}

DeleteTimer(k) ==
  /\ Goto(k, "delete", "delete")
  /\ quantum # 0 /\ i < num_kthreads
  /\ timers' = timers \ DeletedTimer
  /\ i' = i + 1
  /\ UNCHANGED <<argVars, inited, freed, exitall_sem, kinfoVars, created, mask,
                 pending, ctx, rqueue, poolVars, owed>>

\* An &exitall for every kernel thread, then main itself.
SignalExit(k) ==
  /\ pc[k] = "delete"
  /\ quantum = 0 \/ i = num_kthreads
  /\ SwapContext(k, "torndown")
  /\ rqueue' = [j \in 1 .. num_kthreads |-> ExitAll] \o <<MAIN>>
  /\ UNCHANGED <<argVars, tearVars, kinfoVars, timerVars, pending, poolVars>>

\* kthread_join of the workers, then the frees; the unblocking; inited = 0.
Free(k) ==
  /\ Goto(k, "torndown", "unblock_last")
  /\ \A j \in KThread \ {MainK} : pc[j] = "exited"
  /\ freed' = TRUE
  /\ UNCHANGED <<argVars, inited, exitall_sem, i, kinfoVars, timerVars, mask,
                 pending, ctx, rqueue, poolVars, owed>>

UnblockLast(k) ==
  /\ Goto(k, "unblock_last", "clear_inited")
  /\ UnblockSigrtmin(k)
  /\ UNCHANGED <<argVars, tearVars, timer_id, current, timerVars, ctx, rqueue,
                 poolVars, owed>>

ClearInited(k) ==
  /\ Goto(k, "clear_inited", "done")
  /\ inited' = FALSE
  /\ UNCHANGED <<argVars, freed, exitall_sem, i, kinfoVars, timerVars, mask,
                 pending, ctx, rqueue, poolVars, owed>>

-----------------------------------------------------------------------------

Step(k) ==
  \/ KthreadMain(k) \/ SetTimerAborts(k)
  \/ Enter(k) \/ EnterSemDestroy(k) \/ CheckPreempted(k) \/ Yield(k)
  \/ Returns(k) \/ Blocks(k) \/ Reblock(k) \/ Exits(k) \/ Leave(k)
  \/ Dequeue(k) \/ Reset(k) \/ UnblockInSchedule(k) \/ Resume(k)
  \/ TakeExitAll(k) \/ Teardown(k) \/ DeleteTimer(k) \/ SignalExit(k)
  \/ Free(k) \/ UnblockLast(k) \/ ClearInited(k)

Next == \/ InitTimer \/ InitEnd \/ Reap
        \/ \E k \in KThread : Step(k) \/ Tick(k)

Spec == Init /\ [][Next]_vars

\* The operating system runs every kernel thread and its timers go off; a
\* user thread goes on making library calls, none of which need be a yield.
FairSpec == /\ Spec
            /\ WF_vars(InitTimer \/ InitEnd \/ Reap)
            /\ \A k \in 0 .. MaxK - 1 : /\ WF_vars(k \in KThread /\ Step(k))
                                       /\ WF_vars(k \in KThread /\ Tick(k))

-----------------------------------------------------------------------------
(* Properties.                                                             *)

\* The type invariant of the preemption model.
TypeOK ==
  /\ quantum \in Quanta /\ num_kthreads \in 1 .. MaxK /\ inited \in BOOLEAN /\ freed \in BOOLEAN
  /\ timer_id \in [KThread -> 0 .. num_kthreads - 1]
  /\ preempted \in [KThread -> BOOLEAN]
  /\ current \in [KThread -> Thread \cup {NONE}]
  /\ timers \subseteq [id : 0 .. num_kthreads - 1, owner : KThread,
                       nsec : 1 .. Second - 1]
  /\ created \in 0 .. num_kthreads
  /\ mask \in [KThread -> BOOLEAN] /\ pending \in [KThread -> BOOLEAN]
  /\ DOMAIN ctx = Thread
  /\ rqueue \in Seq(Thread \cup {ExitAll})
  /\ waiting \in SUBSET Thread /\ unborn \in SUBSET Thread
  /\ exitall_sem \in 0 .. num_kthreads - 1 /\ i \in 0 .. num_kthreads
  /\ DOMAIN pc = KThread /\ owed \in [KThread -> 0 .. OwedCap \cup {NONE}]

\* With preemption, the scheduler and the body of every call run with
\* SIGRTMIN blocked, whatever kernel thread they resume on: also the rest of
\* a call that check_preempted had yield and that blocks nothing itself.
SignalHeldOff ==
  quantum # 0 =>
    \A k \in KThread :
       pc[k] \in {"body", "yield", "check_yield", "leave", "sched", "reset",
                  "unblock", "reap", "delete", "torndown"} => mask[k]

\* Between free(kthread_info) and inited = 0, where teardown unblocks
\* SIGRTMIN, no such signal can come: sigrtmin_handler would walk the freed
\* kthread_info.
HandlerSafe ==
  freed /\ inited =>
    \A k \in KThread : pc[k] # "exited" =>
       ~pending[k] /\ \A x \in timers : x.owner # k

\* A tick that comes while a user thread is running takes effect soon,
\* however the mask was left by an earlier yield or switch: the thread
\* completes at most one more call before it gives up its kernel thread.
PromptPreemption == \A k \in KThread : owed[k] \in {NONE, 0, 1}

Runs(t) == \E k \in KThread : current[k] = t /\ pc[k] # "sched"

\* No thread that keeps a kernel thread busy with library calls starves the
\* others, although none of its calls need be uthread_yield.
ReadyRuns ==
  quantum \in 1 .. Second - 1 =>
    \A t \in Thread : (\E n \in DOMAIN rqueue : rqueue[n] = t) ~> Runs(t)

\* However short the timeslice, a call gets past check_preempted: the tick
\* charged to it by schedule() does not make it yield for ever.
CallGoesOn ==
  \A t \in Thread :
    (\E k \in KThread : current[k] = t /\ pc[k] = "check")
       ~> (\E k \in KThread : current[k] = t /\ pc[k] = "body")
=============================================================================
