-------------------------- MODULE UthreadPromises ---------------------------
(***************************************************************************)
(* Proofs about what Uthread promises the program: no unit that is posted  *)
(* to a semaphore is missed by the threads that wait for one, a library in *)
(* which nothing runs is one in which nothing could, every step is a step  *)
(* of Threads (the promise of the public interface) or a stutter, user code *)
(* holds no lock, and which programs the library serves without fault: no  *)
(* TCB is lost when one thread creates and joins, or one kernel thread     *)
(* runs, there are never more threads than tcbs has slots, and malloc does *)
(* not fail; and the assertion of uthread_join holds when one thread       *)
(* creates and joins, whatever else happens.                               *)
(*                                                                         *)
(* NoLostWakeup is not inductive alone: it counts the woken threads that   *)
(* are on their way, and a thread goes into the queue, or is taken out of  *)
(* it, some steps after the counter was read.  CounterAgrees says that the *)
(* counter is then still what was read.                                    *)
(*                                                                         *)
(* LocksInUse is the converse of lock ownership: who owns a lock is in a   *)
(* critical section.  SlotsAgree ties tids to slots: a tid is in use       *)
(* exactly while its slot is filled, but for the one create or join that is *)
(* under way, which is why a second such call, on another kernel thread,   *)
(* would break it.                                                         *)
(***************************************************************************)
EXTENDS UthreadProofs

-----------------------------------------------------------------------------
(* Waiting and waking: the inductive invariant.                            *)

\* A thread is on its way into the queue of a semaphore only while the
\* counter is 0, and out of it only while the counter is not.
CounterAgrees ==
  \A k \in KThread :
    /\ pc[k] = "sched" /\ task[k] = "SEM_WAIT" => counter[queue[k]] = 0
    /\ pc[k] = "sem_wake" => counter[arg[k]] > 0

WakeInv == ThreadInv /\ CounterAgrees /\ NoLostWakeup

-----------------------------------------------------------------------------
(* What a step does to a thread that is on its way to a semaphore.         *)

\* A thread that is READY stays so until a kernel thread resumes it.
LEMMA ReadyStays ==
  ASSUME ThreadInv, NEW k \in KThread, Step(k), NEW t \in Tid,
         tcbs[t] = "live", state[t] = "READY"
  PROVE  state'[t] = "READY" \/ (Dispatch(k) /\ t = tcb[k])
<1>1. TypeOK /\ HeldSound
  BY DEF ThreadInv, LockInv, PlaceInv
<1>2. tcbs[t] = "live" /\ state[t] = "READY"
  OBVIOUS
<1>3. OnStack(k) => state[current_tid[k]] = "RUNNING"
  BY <1>1, HoldsAt DEF HeldSound, ThreadState
<1>4. CASE Call(k)
  BY <1>1, <1>2, <1>3, <1>4
  DEF Call, CreateTid, Yield, Exit, Teardown, JoinBlocks, JoinAborts,
      JoinFinished, MayJoin, InParent, InUser, SemInit, SemDestroy, SemWait,
      SemPost, SemPostWakes, SetState, Stop, tcbVars, TypeOK,
      OnStack, UserPc
<1>5. CASE InCall(k)
  BY <1>1, <1>2, <1>3, <1>5
  DEF InCall, CreateTcb, CreateOverwrites, CreateFails, CreateReady,
      Trampoline, Rejoin, Reclaim, Destroy, ClearSlot, ClearLoses,
      SemRelock, SemDecrement, SemBlock, SemWake, SemReady, TeardownSignal,
      TeardownSwitch, TeardownFinish, SetState, Stop, At, tcbVars, TypeOK,
      OnStack, UserPc
<1>6. CASE Schedule(k)
  BY <1>1, <1>2, <1>6
  DEF Schedule, SchedNone, SchedYield, SchedExit, SchedJoin, SchedSemWait,
      SchedTeardown, Dequeue, DequeueExitAll, Reap, Dispatch, WakeJoiner,
      SetState, tcbVars, TypeOK
<1> QED
  BY <1>4, <1>5, <1>6 DEF Step

\* Inside the calls on a semaphore there is one way to go on.
LEMMA SemSteps ==
  ASSUME NEW k \in KThread, Step(k)
  PROVE  /\ pc[k] = "sem_relock" => SemRelock(k)
         /\ pc[k] = "sem_wait" => SemDecrement(k) \/ SemBlock(k)
         /\ pc[k] = "sem_wake" => SemWake(k)
BY DEF Step, Call, CreateTid, Yield, Exit, Teardown, JoinBlocks, JoinAborts,
       JoinFinished, MayJoin, InParent, InUser, SemInit, SemDestroy, SemWait,
       SemPost, SemPostWakes, InCall, CreateTcb, CreateOverwrites,
       CreateFails, CreateReady, Trampoline, Rejoin, Reclaim, Destroy,
       ClearSlot, ClearLoses, SemRelock, SemDecrement, SemBlock, SemWake,
       SemReady, TeardownSignal, TeardownSwitch, TeardownFinish, At,
       Schedule, SchedNone, SchedYield, SchedExit, SchedJoin, SchedSemWait,
       SchedTeardown, Dequeue, DequeueExitAll, Reap, Dispatch

\* A thread stays on its way to s until it takes a unit or finds none.
LEMMA WokenStays ==
  ASSUME ThreadInv, NEW k \in KThread, Step(k), ~TeardownFinish(k),
         NEW s \in Sem, NEW t \in Woken(s)
  PROVE  \/ t \in Woken(s)'
         \/ /\ SemDecrement(k) \/ SemBlock(k)
            /\ arg[k] = s /\ t = current_tid[k]
<1>1. /\ TypeOK /\ HeldSound /\ HeldContext /\ JoinInv /\ Others(k)
      /\ Contexts(k) /\ JoinStep(k)
  BY StepFrame, StepJoinStep DEF ThreadInv, LockInv, PlaceInv
<1>2. t \in Tid
  BY DEF Woken
<1>3. CASE /\ tcbs[t] = "live" /\ state[t] = "READY"
           /\ ctx[t] = [at |-> "sem_relock", arg |-> s]
  <2>1. OnStack(k) => state[current_tid[k]] = "RUNNING"
    BY <1>1, HoldsAt DEF HeldSound, ThreadState
  <2>2. ctx'[t] = ctx[t]
    BY <1>1, <1>2, <1>3, <2>1 DEF Contexts
  <2>3. tcbs'[t] = "live"
    <3>1. ~(Destroy(k) /\ t = arg[k])
      <4> SUFFICES ASSUME Destroy(k), t = arg[k] PROVE FALSE
        OBVIOUS
      <4>1. Claims(k, t) /\ pc[k] # "clear"
        BY DEF Destroy, At, Claims
      <4>2. state[t] = "FINISHED"
        BY <1>1, <1>2, <4>1 DEF JoinInv, Gone
      <4> QED
        BY <1>3, <4>2
    <3> QED
      BY <1>1, <1>2, <1>3, <3>1 DEF JoinStep
  <2>4. CASE state'[t] = "READY"
    BY <1>2, <1>3, <2>2, <2>3, <2>4 DEF Woken
  <2>5. CASE Dispatch(k) /\ t = tcb[k]
    <3>1. ctx[t].at = "sem_relock" /\ ctx[t].arg = s
      BY <1>3
    <3>2. pc'[k] = "sem_relock" /\ arg'[k] = s /\ current_tid'[k] = t
      BY <1>1, <2>5, <3>1 DEF Dispatch, Goto, TypeOK
    <3> QED
      BY <1>2, <3>2 DEF Woken
  <2> QED
    BY <1>2, <1>3, <2>4, <2>5, ReadyStays
<1>4. ASSUME NEW j \in KThread,
             \/ /\ pc[j] \in {"sem_relock", "sem_wait"} /\ arg[j] = s
                /\ current_tid[j] = t
             \/ pc[j] = "sem_wake" /\ arg[j] = s /\ tcb[j] = t
      PROVE  \/ t \in Woken(s)'
             \/ /\ SemDecrement(k) \/ SemBlock(k)
                /\ arg[k] = s /\ t = current_tid[k]
  <2>1. CASE j # k
    BY <1>1, <1>2, <1>4, <2>1 DEF Others, Woken
  <2>2. CASE j = k /\ pc[k] = "sem_relock"
    <3>1. SemRelock(k)
      BY <2>2, SemSteps
    <3>2. pc'[k] = "sem_wait" /\ arg'[k] = s /\ current_tid'[k] = t
      BY <1>1, <1>4, <2>2, <3>1 DEF SemRelock, Goto, TypeOK
    <3> QED
      BY <1>2, <3>2 DEF Woken
  <2>3. CASE j = k /\ pc[k] = "sem_wait"
    BY <1>4, <2>3, SemSteps
  <2>4. CASE j = k /\ pc[k] = "sem_wake"
    <3>1. SemWake(k) /\ tcb[k] = t /\ arg[k] = s
      BY <1>4, <2>4, SemSteps
    <3>2. Held(k, t, "WAITING_SEM")
      BY <1>1, <2>4, <3>1, HoldsAt
    <3>3. tcbs[t] = "live"
      BY <1>1, <1>2, <3>2 DEF HeldSound, ThreadState
    <3>4. PICK r \in Sem : /\ HoldsSemLock(k, r)
                           /\ ctx[t] = [at |-> "sem_relock", arg |-> r]
      BY <1>1, <1>2, <3>2 DEF HeldContext
    <3>5. r = s
      BY <2>4, <3>1, <3>4 DEF HoldsSemLock, Handing
    <3>6. /\ tcbs'[t] = "live" /\ ctx'[t] = [at |-> "sem_relock", arg |-> s]
          /\ state'[t] = "READY"
      BY <1>1, <1>2, <3>1, <3>3, <3>4, <3>5 DEF SemWake, SetState, TypeOK
    <3> QED
      BY <1>2, <3>6 DEF Woken
  <2> QED
    BY <1>4, <2>1, <2>2, <2>3, <2>4
<1> QED
  BY <1>3, <1>4 DEF Woken

\* How the counter of s changes, and how its queue comes to have a waiter.
UnitStep(k, s) ==
  /\ counter'[s] # counter[s] =>
        \/ s \notin sem_inited /\ sem_queue'[s] = <<>>
        \/ SemDecrement(k) /\ arg[k] = s
        \/ SemPost(k, s) \/ SemPostWakes(k, s)
  /\ sem_queue'[s] # <<>> =>
        sem_queue[s] # <<>> \/ (SchedSemWait(k) /\ queue[k] = s)

\* The calls on a semaphore are the only ones that do either.
LEMMA StepUnit ==
  ASSUME TypeOK, NEW k \in KThread, Step(k), NEW s \in Sem
  PROVE  UnitStep(k, s)
<1>1. CASE Call(k)
  <2>1. CASE \/ CreateTid(k) \/ Yield(k) \/ Exit(k) \/ Teardown(k)
             \/ \E t \in Tid : JoinBlocks(k, t) \/ JoinAborts(k, t)
                                                \/ JoinFinished(k, t)
    BY <2>1 DEF CreateTid, Yield, Exit, Teardown, JoinBlocks, JoinAborts,
       JoinFinished, Stop, semVars, UnitStep
  <2>2. ASSUME NEW r \in Sem, NEW v, SemInit(k, r, v) PROVE UnitStep(k, s)
    BY <2>2 DEF SemInit, UnitStep, TypeOK
  <2>3. ASSUME NEW r \in Sem, SemDestroy(k, r) \/ SemWait(k, r)
        PROVE  UnitStep(k, s)
    BY <2>3 DEF SemDestroy, SemWait, UnitStep
  <2>4. ASSUME NEW r \in Sem, SemPost(k, r) PROVE UnitStep(k, s)
    <3>1. /\ sem_queue' = sem_queue
          /\ r # s => counter'[s] = counter[s]
      BY <2>4 DEF SemPost, TypeOK
    <3> QED
      BY <2>4, <3>1 DEF UnitStep
  <2>5. ASSUME NEW r \in Sem, SemPostWakes(k, r) PROVE UnitStep(k, s)
    <3>1. /\ r # s => counter'[s] = counter[s] /\ sem_queue'[s] = sem_queue[s]
          /\ sem_queue[r] # <<>>
      BY <2>5 DEF SemPostWakes, HasWaiter, TypeOK
    <3> QED
      BY <2>5, <3>1 DEF UnitStep
  <2> QED
    BY <1>1, <2>1, <2>2, <2>3, <2>4, <2>5 DEF Call
<1>2. CASE InCall(k)
  <2>1. CASE SemDecrement(k)
    BY <2>1 DEF SemDecrement, UnitStep, TypeOK
  <2>2. CASE ~SemDecrement(k)
    BY <1>2, <2>2
    DEF InCall, CreateTcb, CreateOverwrites, CreateFails, CreateReady,
        Trampoline, Rejoin, Reclaim, Destroy, ClearSlot, ClearLoses,
        SemRelock, SemBlock, SemWake, SemReady, TeardownSignal,
        TeardownSwitch, TeardownFinish, Stop, semVars, UnitStep
  <2> QED
    BY <2>1, <2>2
<1>3. CASE Schedule(k)
  <2>1. CASE SchedSemWait(k)
    BY <2>1 DEF SchedSemWait, UnitStep, TypeOK
  <2>2. CASE ~SchedSemWait(k)
    BY <1>3, <2>2
    DEF Schedule, SchedNone, SchedYield, SchedExit, SchedJoin,
        SchedTeardown, Dequeue, DequeueExitAll, Reap, Dispatch, semVars,
        UnitStep
  <2> QED
    BY <2>1, <2>2
<1> QED
  BY <1>1, <1>2, <1>3 DEF Step

\* While another kernel thread is inside a critical section of s, nobody
\* changes the counter.
LEMMA CounterKept ==
  ASSUME ThreadInv, NEW k \in KThread, Step(k), NEW s \in Sem,
         NEW j \in KThread \ {k}, HoldsSemLock(j, s)
  PROVE  counter'[s] = counter[s]
<1>1. TypeOK /\ SemInv /\ UnitStep(k, s)
  BY StepUnit DEF ThreadInv, LockInv
<1>2. sem_lock[s] = j /\ sem_lock[s] # NULL /\ s \in sem_inited
  BY <1>1, SentinelAssumption DEF SemInv, SemLockOwned
<1>3. ~HoldsSemLock(k, s)
  BY <1>1, <1>2 DEF SemInv, SemLockOwned
<1>4. ~(SemDecrement(k) /\ arg[k] = s)
  BY <1>3 DEF SemDecrement, At, HoldsSemLock
<1>5. ~SemPost(k, s) /\ ~SemPostWakes(k, s)
  BY <1>2 DEF SemPost, SemPostWakes, LockSem
<1> QED
  BY <1>1, <1>2, <1>4, <1>5 DEF UnitStep

-----------------------------------------------------------------------------
(* The invariant is preserved.                                             *)

\* The threads on their way to s are finitely many.
LEMMA WokenFinite ==
  ASSUME NEW s
  PROVE  /\ IsFiniteSet(Woken(s)) /\ Cardinality(Woken(s)) \in Nat
         /\ IsFiniteSet(Woken(s)') /\ Cardinality(Woken(s)') \in Nat
<1>1. IsFiniteSet(Tid)
  BY ThreadsAssumption, FS_Interval DEF Tid
<1>2. Woken(s) \subseteq Tid /\ Woken(s)' \subseteq Tid
  BY DEF Woken
<1> QED
  BY <1>1, <1>2, FS_Subset, FS_CardinalityType

\* The counter agrees with what is done under the semaphore's lock.
LEMMA StepCounter ==
  ASSUME WakeInv, NEW k \in KThread, Step(k)
  PROVE  CounterAgrees'
<1>1. /\ ThreadInv /\ TypeOK /\ CounterAgrees /\ Others(k) /\ Waits(k)
  BY StepFrame DEF WakeInv, ThreadInv, LockInv
<1>2. ASSUME NEW j \in KThread \ {k}
      PROVE  /\ pc'[j] = "sched" /\ task'[j] = "SEM_WAIT" =>
                   counter'[queue'[j]] = 0
             /\ pc'[j] = "sem_wake" => counter'[arg'[j]] > 0
  <2>1. /\ pc'[j] = pc[j] /\ task'[j] = task[j] /\ queue'[j] = queue[j]
        /\ arg'[j] = arg[j]
    BY <1>1 DEF Others
  <2>2. ASSUME pc[j] = "sched", task[j] = "SEM_WAIT"
        PROVE  counter'[queue[j]] = 0
    <3>1. queue[j] \in Sem /\ HoldsSemLock(j, queue[j])
      BY <1>1, <2>2, HoldsAt DEF HoldsSemLock, Handing
    <3>2. counter'[queue[j]] = counter[queue[j]]
      BY <1>1, <3>1, CounterKept
    <3> QED
      BY <1>1, <2>2, <3>2 DEF CounterAgrees
  <2>3. ASSUME pc[j] = "sem_wake"
        PROVE  counter'[arg[j]] > 0
    <3>1. arg[j] \in Sem /\ HoldsSemLock(j, arg[j])
      BY <1>1, <2>3, ArgFacts DEF HoldsSemLock, TypeOK, LocalsOK
    <3>2. counter'[arg[j]] = counter[arg[j]]
      BY <1>1, <3>1, CounterKept
    <3> QED
      BY <1>1, <2>3, <3>2 DEF CounterAgrees
  <2> QED
    BY <2>1, <2>2, <2>3
<1>3. pc'[k] = "sched" /\ task'[k] = "SEM_WAIT" => counter'[queue'[k]] = 0
  <2> SUFFICES ASSUME pc'[k] = "sched", task'[k] = "SEM_WAIT"
               PROVE  counter'[queue'[k]] = 0
    OBVIOUS
  <2>1. SemBlock(k)
    BY <1>1 DEF Waits
  <2>2. queue'[k] = arg[k] /\ counter' = counter /\ counter[arg[k]] = 0
    BY <1>1, <2>1 DEF SemBlock, CounterPositive, SwitchToSched, semVars, TypeOK
  <2> QED
    BY <2>2
<1>4. pc'[k] = "sem_wake" => counter'[arg'[k]] > 0
  <2> SUFFICES ASSUME pc'[k] = "sem_wake" PROVE counter'[arg'[k]] > 0
    OBVIOUS
  <2>1. PICK s \in Sem : SemPostWakes(k, s)
    BY <1>1 DEF Waits
  <2>2. arg'[k] = s /\ counter'[s] = counter[s] + 1 /\ counter[s] \in Nat
    BY <1>1, <2>1, CountAssumption DEF SemPostWakes, Goto, TypeOK
  <2> QED
    BY <2>2
<1> QED
  BY <1>2, <1>3, <1>4 DEF CounterAgrees

\* No step loses a wake-up.
LEMMA StepWakeup ==
  ASSUME WakeInv, NEW k \in KThread, Step(k)
  PROVE  NoLostWakeup'
<1>1. /\ ThreadInv /\ TypeOK /\ HeldSound /\ SemSound /\ TearInv
      /\ CounterAgrees /\ NoLostWakeup
  BY DEF WakeInv, ThreadInv, LockInv, PlaceInv
<1> SUFFICES ASSUME NEW s \in Sem, sem_queue'[s] # <<>>
             PROVE  counter'[s] <= Cardinality(Woken(s)')
  BY DEF NoLostWakeup
<1>2. UnitStep(k, s)
  BY <1>1, StepUnit
<1>3. /\ IsFiniteSet(Woken(s)) /\ Cardinality(Woken(s)) \in Nat
      /\ IsFiniteSet(Woken(s)') /\ Cardinality(Woken(s)') \in Nat
      /\ counter[s] \in Nat /\ counter \in [Sem -> 0 .. MaxCount]
  BY <1>1, WokenFinite, CountAssumption DEF TypeOK
<1>4. CASE TeardownFinish(k)
  \* Main tears down, and no thread waits.
  <2>1. sem_queue'[s] = sem_queue[s]
    BY <1>4 DEF TeardownFinish, semVars
  <2> DEFINE h == Head(sem_queue[s])
  <2>2. h \in Tid /\ In(sem_queue[s], h)
    BY <1>1, <2>1, InTail DEF TypeOK
  <2>3. tcbs[h] = "live" /\ state[h] = "WAITING_SEM"
    BY <1>1, <2>2 DEF SemSound
  <2>4. pc[k] = "torndown" /\ Tearing /\ current_tid[k] = MAIN
    BY <1>1, <1>4 DEF TeardownFinish, At, Tearing, TearInv
  <2>5. state[MAIN] = "RUNNING"
    BY <1>1, <2>4, HoldsAt DEF OnStack, UserPc, HeldSound, ThreadState
  <2> QED
    BY <1>1, <2>2, <2>3, <2>4, <2>5 DEF TearInv
<1>5. CASE SemDecrement(k) /\ arg[k] = s
  <2>1. counter'[s] = counter[s] - 1 /\ sem_queue' = sem_queue
    BY <1>1, <1>3, <1>5 DEF SemDecrement
  <2>2. counter[s] <= Cardinality(Woken(s))
    BY <1>1, <2>1 DEF NoLostWakeup
  <2>3. ~TeardownFinish(k)
    BY <1>5 DEF SemDecrement, TeardownFinish, At
  <2>4. Woken(s) \subseteq Woken(s)' \cup {current_tid[k]}
    BY <1>1, <2>3, WokenStays
  <2>5. Cardinality(Woken(s)) <= Cardinality(Woken(s)') + 1
    <3>1. /\ IsFiniteSet(Woken(s)' \cup {current_tid[k]})
          /\ \/ Cardinality(Woken(s)' \cup {current_tid[k]})
                  = Cardinality(Woken(s)') + 1
             \/ Cardinality(Woken(s)' \cup {current_tid[k]})
                  = Cardinality(Woken(s)')
      BY <1>3, FS_AddElement
    <3>2. Cardinality(Woken(s)) <= Cardinality(Woken(s)' \cup {current_tid[k]})
      BY <2>4, <3>1, FS_Subset
    <3> QED
      BY <1>3, <3>1, <3>2
  <2> QED
    BY <1>3, <2>1, <2>2, <2>5
<1>6. CASE SemBlock(k) /\ arg[k] = s
  <2>1. counter'[s] = 0
    BY <1>6 DEF SemBlock, CounterPositive, semVars
  <2> QED
    BY <1>3, <2>1
<1>7. CASE SchedSemWait(k) /\ queue[k] = s
  <2>1. counter'[s] = 0
    BY <1>1, <1>7 DEF SchedSemWait, At, CounterAgrees
  <2> QED
    BY <1>3, <2>1
<1>8. CASE SemPostWakes(k, s)
  <2> DEFINE h == Head(sem_queue[s])
  <2>1. /\ counter'[s] = counter[s] + 1 /\ sem_queue[s] # <<>>
        /\ pc'[k] = "sem_wake" /\ arg'[k] = s /\ tcb'[k] = h /\ pc[k] = "user"
    BY <1>1, <1>3, <1>8 DEF SemPostWakes, HasWaiter, Goto, InUser, TypeOK
  <2>2. counter[s] <= Cardinality(Woken(s))
    BY <1>1, <2>1 DEF NoLostWakeup
  <2>3. h \in Tid /\ In(sem_queue[s], h)
    BY <1>1, <2>1, InTail DEF TypeOK
  <2>4. /\ state[h] = "WAITING_SEM"
        /\ \A j \in KThread : ~Held(j, h, "WAITING_SEM")
    BY <1>1, <2>3 DEF SemSound
  <2>5. h \notin Woken(s)
    <3>1. ASSUME NEW j \in KThread, pc[j] \in {"sem_relock", "sem_wait"},
                 current_tid[j] = h
          PROVE  FALSE
      BY <1>1, <2>3, <2>4, <3>1, HoldsAt
      DEF OnStack, UserPc, HeldSound, ThreadState
    <3>2. ASSUME NEW j \in KThread, pc[j] = "sem_wake", tcb[j] = h
          PROVE  FALSE
      BY <1>1, <2>4, <3>2, HoldsAt
    <3> QED
      BY <2>4, <3>1, <3>2 DEF Woken
  <2>6. h \in Woken(s)'
    BY <2>1, <2>3 DEF Woken
  <2>7. ~TeardownFinish(k) /\ ~SemDecrement(k) /\ ~SemBlock(k)
    BY <2>1 DEF SemDecrement, SemBlock, TeardownFinish, At
  <2>8. Woken(s) \cup {h} \subseteq Woken(s)'
    BY <1>1, <2>6, <2>7, WokenStays
  <2>9. Cardinality(Woken(s)) + 1 <= Cardinality(Woken(s)')
    <3>1. Cardinality(Woken(s) \cup {h}) = Cardinality(Woken(s)) + 1
      BY <1>3, <2>5, FS_AddElement
    <3> QED
      BY <1>3, <2>8, <3>1, FS_Subset
  <2> QED
    BY <1>3, <2>1, <2>2, <2>9
<1>9. CASE /\ ~TeardownFinish(k) /\ ~((SemDecrement(k) \/ SemBlock(k)) /\ arg[k] = s)
           /\ ~(SchedSemWait(k) /\ queue[k] = s) /\ ~SemPostWakes(k, s)
  <2>1. sem_queue[s] # <<>>
    BY <1>2, <1>9 DEF UnitStep
  <2>2. ~SemPost(k, s)
    BY <2>1 DEF SemPost, HasWaiter
  <2>3. counter'[s] = counter[s]
    BY <1>2, <1>9, <2>2 DEF UnitStep
  <2>4. counter[s] <= Cardinality(Woken(s))
    BY <1>1, <2>1 DEF NoLostWakeup
  <2>5. Woken(s) \subseteq Woken(s)'
    BY <1>1, <1>9, WokenStays
  <2>6. Cardinality(Woken(s)) <= Cardinality(Woken(s)')
    BY <1>3, <2>5, FS_Subset
  <2> QED
    BY <1>3, <2>3, <2>4, <2>6
<1> QED
  BY <1>4, <1>5, <1>6, <1>7, <1>8, <1>9

-----------------------------------------------------------------------------
(* The theorems.                                                           *)

\* At first nobody waits.
LEMMA InitWake == Init => WakeInv
<1> SUFFICES ASSUME Init PROVE WakeInv
  OBVIOUS
<1>1. ThreadInv
  BY InitThread
<1>2. CounterAgrees /\ NoLostWakeup
  BY DEF Init, CounterAgrees, NoLostWakeup
<1> QED
  BY <1>1, <1>2 DEF WakeInv

\* Every step keeps the invariant.
LEMMA NextWake == WakeInv /\ [Next]_vars => WakeInv'
<1> SUFFICES ASSUME WakeInv, [Next]_vars PROVE WakeInv'
  OBVIOUS
<1>1. ThreadInv'
  BY NextThread DEF WakeInv
<1>2. ASSUME NEW k \in KThread, Step(k) PROVE CounterAgrees' /\ NoLostWakeup'
  BY <1>2, StepCounter, StepWakeup
<1>3. ASSUME UNCHANGED vars PROVE CounterAgrees' /\ NoLostWakeup'
  BY <1>3 DEF vars, WakeInv, CounterAgrees, NoLostWakeup, Woken
<1> QED
  BY <1>1, <1>2, <1>3 DEF Next, Ended, WakeInv

\* WakeInv is an invariant of the library.
THEOREM WakeInvariant == Spec => []WakeInv
<1>1. Init => WakeInv
  BY InitWake
<1>2. WakeInv /\ [Next]_vars => WakeInv'
  BY NextWake
<1> QED
  BY <1>1, <1>2, PTL DEF Spec

\* While threads wait on a semaphore, each unit of its counter has a woken
\* thread on its way: uthread_sem_post loses no wake-up, for any number of
\* kernel threads, threads and semaphores.
THEOREM NoWakeupLost == Spec => []NoLostWakeup
BY WakeInvariant, PTL DEF WakeInv

\* When every kernel thread waits for the ready queue, the threads that are
\* left wait for a thread that has not finished or for a semaphore whose
\* counter is 0: the library never sleeps while a thread could run.
THEOREM IdleIsBlocked == Spec => []IdleMeansBlocked
<1>1. ASSUME WakeInv PROVE IdleMeansBlocked
  <2> SUFFICES ASSUME rqueue = <<>>, \A k \in KThread : pc[k] = "dequeue",
                      NEW t \in Tid, tcbs[t] = "live", state[t] # "FINISHED"
               PROVE  \/ /\ state[t] = "WAITING_JOIN"
                         /\ tcbs[ctx[t].arg] = "live"
                         /\ state[ctx[t].arg] # "FINISHED"
                      \/ state[t] = "WAITING_SEM" /\ counter[ctx[t].arg] = 0
    BY DEF IdleMeansBlocked
  <2>1. /\ TypeOK /\ JoinSound /\ SemSound /\ Found /\ JoinInv /\ NoLostWakeup
    BY <1>1 DEF WakeInv, ThreadInv, LockInv, PlaceInv
  <2>2. \A k \in KThread, u \in Tid, c \in ThreadState : ~Held(k, u, c)
    BY DEF Held, OnStack, UserPc
  <2>3. \A u \in Tid : ~(tcbs[u] = "live" /\ state[u] = "READY")
    BY <2>1, <2>2, EmptyQueue DEF Found
  <2>4. CASE state[t] = "WAITING_JOIN"
    <3>1. PICK u \in Tid : In(join_queue[u], t)
      BY <2>1, <2>2, <2>4 DEF Found
    <3>2. ctx[t] = [at |-> "rejoin", arg |-> u]
      BY <2>1, <3>1 DEF JoinSound
    <3>3. Awaits(t, u)
      BY <2>4, <3>2 DEF Awaits
    <3>4. tcbs[u] = "live" /\ ~Gone(u)
      BY <2>1, <2>4, <3>3 DEF JoinInv
    <3>5. state[u] # "FINISHED"
      BY <2>2, <3>4 DEF Gone, ThreadState
    <3>6. ctx[t].arg = u
      BY <3>2
    <3> QED
      BY <2>4, <3>4, <3>5, <3>6
  <2>5. CASE state[t] = "WAITING_SEM"
    <3>1. PICK s \in Sem : In(sem_queue[s], t)
      BY <2>1, <2>2, <2>5 DEF Found
    <3>2. ctx[t] = [at |-> "sem_relock", arg |-> s]
      BY <2>1, <3>1 DEF SemSound
    <3>3. sem_queue[s] # <<>>
      BY <3>1, EmptyQueue
    <3>4. Woken(s) = {}
      BY <2>3 DEF Woken
    <3>5. counter[s] <= 0 /\ counter[s] \in Nat
      <4>1. counter[s] <= Cardinality({})
        BY <2>1, <3>3, <3>4 DEF NoLostWakeup
      <4> QED
        BY <2>1, <4>1, FS_EmptySet, CountAssumption DEF TypeOK
    <3>6. ctx[t].arg = s
      BY <3>2
    <3> QED
      BY <2>5, <3>5, <3>6
  <2> QED
    BY <2>1, <2>2, <2>3, <2>4, <2>5 DEF Found
<1> QED
  BY <1>1, WakeInvariant, PTL

-----------------------------------------------------------------------------
(* The refinement: what Uthread does is what module Threads promises.      *)

\* The refinement mapping, one thread at a time.
Phase(t)    == IF tcbs[t] = "live" THEN state[t] ELSE "none"
WaitsFor(t) == IF tcbs[t] = "live" /\ state[t] \in Waiting
               THEN ctx[t].arg ELSE NULL

\* A thread that runs.
LEMMA SomeoneRuns ==
  ASSUME ThreadInv, NEW k \in KThread, OnStack(k)
  PROVE  /\ current_tid[k] \in Tid /\ Phase(current_tid[k]) = "RUNNING"
         /\ WaitsFor(current_tid[k]) = NULL /\ T!Running # {}
<1>1. TypeOK /\ HeldSound
  BY DEF ThreadInv, LockInv, PlaceInv
<1>2. /\ current_tid[k] \in Tid
      /\ tcbs[current_tid[k]] = "live" /\ state[current_tid[k]] = "RUNNING"
  BY <1>1, HoldsAt DEF HeldSound, ThreadState
<1>3. current_tid[k] \in T!Running
  BY <1>2 DEF T!Running
<1> QED
  BY <1>2, <1>3 DEF Phase, WaitsFor, Waiting

\* One thread moves, and the others stay where they are.
LEMMA MoveMaps ==
  ASSUME NEW u \in Tid, NEW from, NEW to, NEW w, counter' = counter,
         Phase(u) = from,
         \A t \in Tid : Phase(t)' = IF t = u THEN to ELSE Phase(t),
         \A t \in Tid : WaitsFor(t)' = IF t = u THEN w ELSE WaitsFor(t)
  PROVE  T!MoveFor(u, from, to, w)
BY DEF T!MoveFor, T!Move, Phase, WaitsFor

\* Nobody moves.
LEMMA StayMaps ==
  ASSUME \A t \in Tid : Phase(t)' = Phase(t) /\ WaitsFor(t)' = WaitsFor(t)
  PROVE  /\ counter' = counter => UNCHANGED T!vars
         /\ \A s, v : T!Running # {} /\ counter' = [counter EXCEPT ![s] = v]
                       => T!SetValue(s, v)
BY DEF Phase, WaitsFor, T!vars, T!SetValue

\* A kernel thread that is about to resume a thread runs none: the others
\* are enough for the threads that run.
LEMMA RoomToRun ==
  ASSUME ThreadInv, NEW k \in KThread, pc[k] = "dispatch"
  PROVE  Cardinality(T!Running) < NumK
<1>1. TypeOK /\ HeldSound /\ ReadySound /\ JoinSound /\ SemSound /\ Found
  BY DEF ThreadInv, LockInv, PlaceInv
<1> DEFINE R == T!Running
           J == KThread \ {k}
           f == [t \in R |-> CHOOSE j \in J : Held(j, t, "RUNNING")]
<1>2. ASSUME NEW t \in R
      PROVE  t \in Tid /\ \E j \in J : Held(j, t, "RUNNING")
  <2>1. t \in Tid /\ tcbs[t] = "live" /\ state[t] = "RUNNING"
    BY DEF T!Running
  <2>2. PICK j \in KThread : \E c \in ThreadState : Held(j, t, c)
    BY <1>1, <2>1 DEF Found
  <2>3. Held(j, t, "RUNNING")
    BY <1>1, <2>1, <2>2 DEF HeldSound
  <2>4. j # k
    BY <2>3 DEF Held, OnStack, UserPc
  <2> QED
    BY <2>1, <2>3, <2>4
<1>3. \A t \in R : f[t] \in J /\ Held(f[t], t, "RUNNING")
  BY <1>2
<1>4. ASSUME NEW t \in R, NEW u \in R, f[t] = f[u] PROVE t = u
  <2> HIDE DEF f
  <2>1. Held(f[t], t, "RUNNING") /\ Held(f[t], u, "RUNNING")
    BY <1>3, <1>4
  <2> QED
    BY <2>1 DEF Held
<1>5. f \in Injection(R, J)
  BY <1>3, <1>4 DEF Injection, IsInjective
<1>6. IsFiniteSet(J) /\ Cardinality(J) = NumK - 1
  BY KThreadAssumption, FS_RemoveElement DEF NumK
<1>7. IsFiniteSet(R) /\ Cardinality(R) <= Cardinality(J)
  BY <1>5, <1>6, FS_Injection
<1> QED
  BY <1>6, <1>7, NumKType, FS_CardinalityType

\* The state of one thread is set.
LEMMA SetStateMaps ==
  ASSUME TypeOK, NEW u \in Tid, NEW from, NEW to, NEW w, tcbs[u] = "live",
         state[u] = from, tcbs' = tcbs, state' = [state EXCEPT ![u] = to],
         \A t \in Tid \ {u} : ctx'[t] = ctx[t], counter' = counter,
         w = IF to \in Waiting THEN ctx'[u].arg ELSE NULL
  PROVE  T!MoveFor(u, from, to, w)
<1>1. \A t \in Tid : state'[t] = IF t = u THEN to ELSE state[t]
  BY DEF TypeOK
<1>2. Phase(u) = from
  BY DEF Phase
<1>3. \A t \in Tid : Phase(t)' = IF t = u THEN to ELSE Phase(t)
  BY <1>1 DEF Phase
<1>4. \A t \in Tid : WaitsFor(t)' = IF t = u THEN w ELSE WaitsFor(t)
  BY <1>1 DEF WaitsFor
<1> QED
  BY <1>2, <1>3, <1>4, MoveMaps

\* The context of a thread that runs is of no consequence.
LEMMA StutterMaps ==
  ASSUME tcbs' = tcbs, state' = state,
         \A t \in Tid : ctx'[t] = ctx[t] \/ state[t] = "RUNNING"
  PROVE  \A t \in Tid : Phase(t)' = Phase(t) /\ WaitsFor(t)' = WaitsFor(t)
BY DEF Phase, WaitsFor, Waiting

\* A call begins: the caller yields, exits or waits, or a semaphore changes.
LEMMA CallRefines ==
  ASSUME WakeInv, NEW k \in KThread, Call(k)
  PROVE  T!Next \/ UNCHANGED T!vars
<1>1. /\ ThreadInv /\ TypeOK /\ HeldSound /\ JoinSound /\ SemSound /\ Found
      /\ HeldContext /\ SemInv /\ CounterAgrees
  BY DEF WakeInv, ThreadInv, LockInv, PlaceInv
<1>2. OnStack(k)
  BY DEF Call, CreateTid, Yield, Exit, Teardown, JoinBlocks, JoinAborts,
     JoinFinished, MayJoin, InParent, InUser, SemInit, SemDestroy, SemWait,
     SemPost, SemPostWakes, OnStack, UserPc
<1>3. PICK c \in Tid : /\ c = current_tid[k] /\ tcbs[c] = "live"
                      /\ state[c] = "RUNNING" /\ T!Running # {}
  BY <1>1, <1>2, HoldsAt, SomeoneRuns DEF HeldSound, ThreadState
<1>4. CASE Yield(k)
  <2>1. /\ tcbs' = tcbs /\ state' = [state EXCEPT ![c] = "READY"]
        /\ \A t \in Tid \ {c} : ctx'[t] = ctx[t] /\ counter' = counter
    BY <1>1, <1>3, <1>4 DEF Yield, SetState, SwitchToSched, semVars, TypeOK
  <2>2. counter' = counter
    BY <1>4 DEF Yield, semVars
  <2>3. T!Yield(c)
    BY <1>1, <1>3, <2>1, <2>2, SetStateMaps DEF Waiting, T!Yield
  <2> QED
    BY <1>3, <2>3 DEF T!Next
<1>5. CASE Exit(k)
  <2>1. /\ tcbs' = tcbs /\ state' = [state EXCEPT ![c] = "FINISHED"]
        /\ ctx' = ctx /\ counter' = counter /\ c # MAIN
    BY <1>3, <1>5 DEF Exit, SetState, semVars
  <2>2. T!Exit(c)
    BY <1>1, <1>3, <2>1, SetStateMaps DEF Waiting, T!Exit
  <2> QED
    BY <1>3, <2>2 DEF T!Next
<1>6. ASSUME NEW u \in Tid, JoinBlocks(k, u) PROVE T!Next
  <2>1. /\ tcbs' = tcbs /\ state' = [state EXCEPT ![c] = "WAITING_JOIN"]
        /\ counter' = counter /\ tcbs[u] = "live" /\ state[u] # "FINISHED"
    BY <1>3, <1>6
    DEF JoinBlocks, MayJoin, TargetFinished, SetState, semVars
  <2>2. /\ \A t \in Tid \ {c} : ctx'[t] = ctx[t]
        /\ ctx'[c] = [at |-> "rejoin", arg |-> u]
    BY <1>1, <1>3, <1>6 DEF JoinBlocks, SwitchToSched, TypeOK
  <2>3. ctx'[c].arg = u
    BY <2>2
  <2>4. T!MoveFor(c, "RUNNING", "WAITING_JOIN", u)
    BY <1>1, <1>3, <2>1, <2>2, <2>3, SetStateMaps DEF Waiting
  <2>5. state[u] # "none"
    BY <1>1 DEF TypeOK, ThreadState
  <2>6. T!AwaitThread(c, u)
    BY <2>1, <2>4, <2>5 DEF T!AwaitThread
  <2> QED
    BY <1>3, <2>6 DEF T!Next
<1>7. CASE \/ CreateTid(k) \/ Teardown(k)
           \/ \E u \in Tid : JoinAborts(k, u) \/ JoinFinished(k, u)
           \/ \E s \in Sem : SemDestroy(k, s) \/ SemWait(k, s)
  <2>1. tcbs' = tcbs /\ state' = state /\ ctx' = ctx /\ counter' = counter
    BY <1>7 DEF CreateTid, Teardown, JoinAborts, JoinFinished, SemDestroy,
       SemWait, Stop, tcbVars, semVars
  <2> QED
    BY <2>1, StutterMaps, StayMaps
<1>8. ASSUME NEW s \in Sem, NEW v \in 0 .. MaxCount, SemInit(k, s, v)
      PROVE  T!Next
  <2>1. /\ tcbs' = tcbs /\ state' = state /\ ctx' = ctx
        /\ counter' = [counter EXCEPT ![s] = v] /\ s \notin sem_inited
    BY <1>8 DEF SemInit, tcbVars
  <2>2. T!SetValue(s, v)
    BY <1>3, <2>1, StutterMaps, StayMaps
  <2>3. sem_lock[s] = NULL /\ sem_queue[s] = <<>>
    BY <1>1, <2>1 DEF SemInv
  <2>4. ASSUME NEW t \in Tid, tcbs[t] = "live", state[t] = "WAITING_SEM"
        PROVE  ctx[t].arg # s
    <3>1. CASE \E r \in Sem : In(sem_queue[r], t)
      <4>1. PICK r \in Sem : In(sem_queue[r], t)
        BY <3>1
      <4>2. r # s
        BY <2>3, <4>1, EmptyQueue
      <4>3. ctx[t] = [at |-> "sem_relock", arg |-> r]
        BY <1>1, <4>1 DEF SemSound
      <4>4. ctx[t].arg = r
        BY <4>3
      <4> QED
        BY <4>2, <4>4
    <3>2. CASE \E j \in KThread, e \in ThreadState : Held(j, t, e)
      <4>1. PICK j \in KThread : \E e \in ThreadState : Held(j, t, e)
        BY <3>2
      <4>2. Held(j, t, "WAITING_SEM")
        BY <1>1, <2>4, <4>1 DEF HeldSound
      <4>3. PICK r \in Sem : /\ HoldsSemLock(j, r)
                             /\ ctx[t] = [at |-> "sem_relock", arg |-> r]
        BY <1>1, <4>2 DEF HeldContext
      <4>4. r # s
        BY <1>1, <2>3, <4>3, SentinelAssumption DEF SemInv, SemLockOwned
      <4>5. ctx[t].arg = r
        BY <4>3
      <4> QED
        BY <4>4, <4>5
    <3> QED
      BY <1>1, <2>4, <3>1, <3>2 DEF Found
  <2>5. \A t \in Tid : ~(Phase(t) = "WAITING_SEM" /\ WaitsFor(t) = s)
    BY <2>4 DEF Phase, WaitsFor, Waiting
  <2>6. T!InitSem(s)
    BY <2>2, <2>5 DEF T!InitSem, T!SetValue, Phase, WaitsFor
  <2> QED
    BY <2>6 DEF T!Next
<1>9. ASSUME NEW s \in Sem, SemPost(k, s) \/ SemPostWakes(k, s) PROVE T!Next
  <2>1. /\ tcbs' = tcbs /\ state' = state /\ ctx' = ctx
        /\ counter' = [counter EXCEPT ![s] = counter[s] + 1]
    BY <1>9 DEF SemPost, SemPostWakes, tcbVars
  <2>2. T!SetValue(s, counter[s] + 1)
    BY <1>3, <2>1, StutterMaps, StayMaps
  <2> QED
    BY <2>2 DEF T!Post, T!Next
<1> QED
  BY <1>4, <1>5, <1>6, <1>7, <1>8, <1>9 DEF Call

\* A call goes on: threads are made, freed and woken, and units taken.
LEMMA InCallRefines ==
  ASSUME WakeInv, NEW k \in KThread, InCall(k)
  PROVE  T!Next \/ UNCHANGED T!vars
<1>1. /\ ThreadInv /\ TypeOK /\ HeldSound /\ HeldContext /\ JoinInv /\ TearInv
      /\ CounterAgrees
  BY DEF WakeInv, ThreadInv, LockInv, PlaceInv
<1>2. OnStack(k)
  BY DEF InCall, CreateTcb, CreateOverwrites, CreateFails, CreateReady,
     Trampoline, Rejoin, Reclaim, Destroy, ClearSlot, ClearLoses, SemRelock,
     SemDecrement, SemBlock, SemWake, SemReady, TeardownSignal,
     TeardownSwitch, TeardownFinish, At, OnStack, UserPc
<1>3. PICK c \in Tid : /\ c = current_tid[k] /\ tcbs[c] = "live"
                      /\ state[c] = "RUNNING" /\ T!Running # {}
  BY <1>1, <1>2, HoldsAt, SomeoneRuns DEF HeldSound, ThreadState
<1>4. CASE CreateTcb(k)
  <2>1. PICK u \in Tid : u = arg[k] /\ tcbs[u] # "live"
    BY <1>1, <1>4, ArgFacts DEF CreateTcb, At, TypeOK, LocalsOK
  <2>2. /\ tcbs' = [tcbs EXCEPT ![u] = "live"]
        /\ state' = [state EXCEPT ![u] = "READY"]
        /\ \A t \in Tid \ {u} : ctx'[t] = ctx[t]
        /\ counter' = counter
    BY <1>1, <1>4, <2>1 DEF CreateTcb, SetState, semVars, TypeOK
  <2>3. \A t \in Tid : /\ tcbs'[t] = IF t = u THEN "live" ELSE tcbs[t]
                       /\ state'[t] = IF t = u THEN "READY" ELSE state[t]
    BY <1>1, <2>2 DEF TypeOK
  <2>4. /\ Phase(u) = "none"
        /\ \A t \in Tid : Phase(t)' = IF t = u THEN "READY" ELSE Phase(t)
        /\ \A t \in Tid : WaitsFor(t)' = IF t = u THEN NULL ELSE WaitsFor(t)
    BY <2>1, <2>2, <2>3 DEF Phase, WaitsFor, Waiting
  <2>5. T!Create(u)
    BY <1>3, <2>1, <2>2, <2>4, MoveMaps DEF T!Create
  <2> QED
    BY <2>1, <2>5 DEF T!Next
<1>5. CASE Destroy(k)
  <2>1. PICK u \in Tid : u = arg[k] /\ Claims(k, u) /\ pc[k] # "clear"
    BY <1>1, <1>5, ArgFacts DEF Destroy, At, TypeOK, LocalsOK, Claims
  <2>2. tcbs[u] = "live" /\ state[u] = "FINISHED"
    BY <1>1, <2>1 DEF JoinInv, Gone
  <2>3. /\ tcbs' = [tcbs EXCEPT ![u] = "freed"] /\ state' = state
        /\ ctx' = ctx /\ counter' = counter
    BY <1>5, <2>1 DEF Destroy, tcbVars, semVars
  <2>4. \A t \in Tid : tcbs'[t] = IF t = u THEN "freed" ELSE tcbs[t]
    BY <1>1, <2>3 DEF TypeOK
  <2>5. /\ Phase(u) = "FINISHED"
        /\ \A t \in Tid : Phase(t)' = IF t = u THEN "none" ELSE Phase(t)
        /\ \A t \in Tid : WaitsFor(t)' = IF t = u THEN NULL ELSE WaitsFor(t)
    BY <2>2, <2>3, <2>4 DEF Phase, WaitsFor, Waiting
  <2>6. T!Reap(u)
    BY <1>3, <2>1, <2>3, <2>5, MoveMaps DEF T!Reap
  <2> QED
    BY <2>1, <2>6 DEF T!Next
<1>6. CASE CreateFails(k) \/ ClearSlot(k)
  <2>1. /\ state' = state /\ ctx' = ctx /\ counter' = counter
        /\ \A t \in Tid : tcbs'[t] = "live" <=> tcbs[t] = "live"
    BY <1>1, <1>6 DEF CreateFails, ClearSlot, tcbVars, semVars, TypeOK
  <2>2. \A t \in Tid : Phase(t)' = Phase(t) /\ WaitsFor(t)' = WaitsFor(t)
    BY <2>1 DEF Phase, WaitsFor
  <2> QED
    BY <2>1, <2>2, StayMaps
<1>7. CASE SemDecrement(k)
  <2>1. PICK s \in Sem : s = arg[k]
    BY <1>1, <1>7, ArgFacts DEF SemDecrement, At, TypeOK, LocalsOK
  <2>2. /\ tcbs' = tcbs /\ state' = state /\ ctx' = ctx
        /\ counter' = [counter EXCEPT ![s] = counter[s] - 1] /\ counter[s] # 0
    BY <1>7, <2>1 DEF SemDecrement, CounterPositive, tcbVars
  <2>3. counter[s] > 0
    BY <1>1, <2>1, <2>2, CountAssumption DEF TypeOK
  <2>4. T!SetValue(s, counter[s] - 1)
    BY <1>3, <2>2, StutterMaps, StayMaps
  <2> QED
    BY <2>1, <2>3, <2>4 DEF T!Take, T!Next
<1>8. CASE SemBlock(k)
  <2>1. PICK s \in Sem : s = arg[k]
    BY <1>1, <1>8, ArgFacts DEF SemBlock, At, TypeOK, LocalsOK
  <2>2. /\ tcbs' = tcbs /\ state' = [state EXCEPT ![c] = "WAITING_SEM"]
        /\ counter' = counter /\ counter[s] = 0
    BY <1>3, <1>8, <2>1 DEF SemBlock, CounterPositive, SetState, semVars
  <2>3. /\ \A t \in Tid \ {c} : ctx'[t] = ctx[t]
        /\ ctx'[c] = [at |-> "sem_relock", arg |-> s]
    BY <1>1, <1>3, <1>8, <2>1 DEF SemBlock, SwitchToSched, TypeOK
  <2>4. ctx'[c].arg = s
    BY <2>3
  <2>5. T!MoveFor(c, "RUNNING", "WAITING_SEM", s)
    BY <1>1, <1>3, <2>2, <2>3, <2>4, SetStateMaps DEF Waiting
  <2> QED
    BY <1>3, <2>1, <2>2, <2>5 DEF T!AwaitUnit, T!Next
<1>9. CASE SemWake(k)
  <2>1. PICK u \in Tid : /\ u = tcb[k] /\ pc[k] = "sem_wake"
                        /\ Held(k, u, "WAITING_SEM")
    BY <1>1, <1>9, HoldsAt DEF SemWake, At
  <2>2. tcbs[u] = "live" /\ state[u] = "WAITING_SEM"
    BY <1>1, <2>1 DEF HeldSound, ThreadState
  <2>3. PICK r \in Sem : /\ HoldsSemLock(k, r)
                         /\ ctx[u] = [at |-> "sem_relock", arg |-> r]
    BY <1>1, <2>1 DEF HeldContext
  <2>4. r = arg[k]
    BY <2>1, <2>3 DEF HoldsSemLock, Handing
  <2>5. ctx[u].arg = r /\ counter[r] > 0
    BY <1>1, <2>1, <2>3, <2>4 DEF CounterAgrees
  <2>6. /\ tcbs' = tcbs /\ state' = [state EXCEPT ![u] = "READY"]
        /\ ctx' = ctx /\ counter' = counter
    BY <1>9, <2>1 DEF SemWake, SetState, semVars
  <2>7. T!MoveFor(u, "WAITING_SEM", "READY", NULL)
    BY <1>1, <2>1, <2>2, <2>6, SetStateMaps DEF Waiting
  <2>8. T!WakeWaiter(u)
    BY <2>1, <2>2, <2>5, <2>7 DEF T!WakeWaiter, Waiting
  <2> QED
    BY <2>1, <2>8 DEF T!Next
<1>10. CASE TeardownSwitch(k)
  <2>1. /\ tcbs' = tcbs /\ state' = state /\ counter' = counter
        /\ \A t \in Tid \ {c} : ctx'[t] = ctx[t]
    BY <1>1, <1>3, <1>10 DEF TeardownSwitch, SwitchToSched, semVars, TypeOK
  <2>2. \A t \in Tid : ctx'[t] = ctx[t] \/ state[t] = "RUNNING"
    BY <1>3, <2>1
  <2> QED
    BY <2>1, <2>2, StutterMaps, StayMaps
<1>11. CASE TeardownFinish(k)
  <2>1. /\ tcbs' = [t \in Tid |-> "null"] /\ counter' = counter
        /\ pc[k] = "torndown"
    BY <1>11 DEF TeardownFinish, At, semVars
  <2>2. c = MAIN /\ Tearing
    BY <1>1, <1>3, <2>1 DEF TearInv, Tearing
  <2>3. \A t \in Tid \ {MAIN} : tcbs[t] = "live" => state[t] = "FINISHED"
    BY <1>1, <2>2 DEF TearInv
  <2>4. \A t \in Tid : /\ t # MAIN => Phase(t) \in {"none", "FINISHED"}
                       /\ WaitsFor(t) = NULL
                       /\ Phase(t)' = "none" /\ WaitsFor(t)' = NULL
    BY <1>3, <2>1, <2>2, <2>3 DEF Phase, WaitsFor, Waiting
  <2>5. T!Shutdown
    BY <2>1, <2>4 DEF T!Shutdown, Phase, WaitsFor
  <2> QED
    BY <2>5 DEF T!Next
<1>12. CASE \/ CreateOverwrites(k) \/ CreateReady(k) \/ Trampoline(k)
            \/ Rejoin(k) \/ Reclaim(k) \/ ClearLoses(k) \/ SemRelock(k)
            \/ SemReady(k) \/ TeardownSignal(k)
  <2>1. tcbs' = tcbs /\ state' = state /\ ctx' = ctx /\ counter' = counter
    BY <1>12 DEF CreateOverwrites, CreateReady, Trampoline, Rejoin, Reclaim,
       ClearLoses, SemRelock, SemReady, TeardownSignal, Stop, tcbVars, semVars
  <2> QED
    BY <2>1, StutterMaps, StayMaps
<1> QED
  BY <1>4, <1>5, <1>6, <1>7, <1>8, <1>9, <1>10, <1>11, <1>12 DEF InCall


\* The scheduler: threads are resumed, and joiners woken.
LEMMA ScheduleRefines ==
  ASSUME WakeInv, NEW k \in KThread, Schedule(k)
  PROVE  T!Next \/ UNCHANGED T!vars
<1>1. /\ ThreadInv /\ TypeOK /\ HeldSound /\ JoinSound
  BY DEF WakeInv, ThreadInv, LockInv, PlaceInv
<1>2. CASE \/ SchedNone(k) \/ SchedYield(k) \/ SchedJoin(k) \/ SchedSemWait(k)
           \/ Dequeue(k) \/ DequeueExitAll(k) \/ Reap(k)
           \/ SchedExit(k) /\ join_queue[current_tid[k]] = <<>>
  <2>1. tcbs' = tcbs /\ state' = state /\ ctx' = ctx /\ counter' = counter
    BY <1>2 DEF SchedNone, SchedYield, SchedJoin, SchedSemWait, Dequeue,
       DequeueExitAll, Reap, SchedExit, WakeJoiner, tcbVars, semVars
  <2> QED
    BY <2>1, StutterMaps, StayMaps
<1>3. CASE SchedExit(k) /\ join_queue[current_tid[k]] # <<>>
  <2>1. PICK u \in Tid : u = current_tid[k] /\ Held(k, u, "FINISHED")
    BY <1>1, <1>3, HoldsAt DEF SchedExit, At
  <2>2. tcbs[u] = "live" /\ state[u] = "FINISHED"
    BY <1>1, <2>1 DEF HeldSound, ThreadState
  <2>3. PICK h \in Tid : h = Head(join_queue[u]) /\ In(join_queue[u], h)
    BY <1>1, <1>3, <2>1, InTail DEF TypeOK
  <2>4. /\ tcbs[h] = "live" /\ state[h] = "WAITING_JOIN"
        /\ ctx[h] = [at |-> "rejoin", arg |-> u]
    BY <1>1, <2>3 DEF JoinSound
  <2>5. ctx[h].arg = u
    BY <2>4
  <2>6. /\ tcbs' = tcbs /\ state' = [state EXCEPT ![h] = "READY"]
        /\ ctx' = ctx /\ counter' = counter
    BY <1>3, <2>1, <2>3 DEF SchedExit, WakeJoiner, SetState, semVars
  <2>7. T!MoveFor(h, "WAITING_JOIN", "READY", NULL)
    BY <1>1, <2>4, <2>6, SetStateMaps DEF Waiting
  <2>8. T!WakeJoiner(h)
    BY <2>2, <2>4, <2>5, <2>7 DEF T!WakeJoiner, Waiting
  <2> QED
    BY <2>8 DEF T!Next
<1>4. CASE SchedTeardown(k)
  <2>1. PICK u \in Tid : u = current_tid[k] /\ Held(k, u, "RUNNING")
    BY <1>1, <1>4, HoldsAt DEF SchedTeardown, At
  <2>2. tcbs[u] = "live" /\ state[u] = "RUNNING"
    BY <1>1, <2>1 DEF HeldSound, ThreadState
  <2>3. /\ tcbs' = tcbs /\ state' = [state EXCEPT ![u] = "READY"]
        /\ ctx' = ctx /\ counter' = counter
    BY <1>4, <2>1 DEF SchedTeardown, SetState, semVars
  <2>4. T!Yield(u)
    BY <1>1, <2>2, <2>3, SetStateMaps DEF Waiting, T!Yield
  <2> QED
    BY <2>4 DEF T!Next
<1>5. CASE Dispatch(k)
  <2>1. PICK u \in Tid : u = tcb[k] /\ Held(k, u, "READY") /\ pc[k] = "dispatch"
    BY <1>1, <1>5, HoldsAt DEF Dispatch, At
  <2>2. tcbs[u] = "live" /\ state[u] = "READY"
    BY <1>1, <2>1 DEF HeldSound, ThreadState
  <2>3. /\ tcbs' = tcbs /\ state' = [state EXCEPT ![u] = "RUNNING"]
        /\ ctx' = ctx /\ counter' = counter
    BY <1>5, <2>1 DEF Dispatch, SetState, semVars
  <2>4. T!MoveFor(u, "READY", "RUNNING", NULL)
    BY <1>1, <2>2, <2>3, SetStateMaps DEF Waiting
  <2>5. Cardinality(T!Running) < NumK
    BY <1>1, <2>1, RoomToRun
  <2>6. T!Run(u)
    BY <2>4, <2>5 DEF T!Run, T!Cardinality, Cardinality
  <2> QED
    BY <2>6 DEF T!Next
<1> QED
  BY <1>2, <1>3, <1>4, <1>5 DEF Schedule

\* Every step of the library is one of Threads, or none.
LEMMA StepImplements ==
  ASSUME WakeInv, [Next]_vars
  PROVE  T!Next \/ UNCHANGED T!vars
<1>1. ASSUME NEW k \in KThread, Step(k) PROVE T!Next \/ UNCHANGED T!vars
  BY <1>1, CallRefines, InCallRefines, ScheduleRefines DEF Step
<1>2. ASSUME UNCHANGED vars PROVE UNCHANGED T!vars
  BY <1>2 DEF vars, T!vars
<1> QED
  BY <1>1, <1>2 DEF Next, Ended

\* The library implements what module Threads promises the program, for any
\* number of kernel threads, threads and semaphores: threads go through
\* their lives in one order, no more of them run than there are kernel
\* threads, they wait only when they have to and are woken only when what
\* they wait for has happened, and no unit of a semaphore is taken twice.
THEOREM ImplementsThreads == Spec => ThreadsSpec
<1>1. Init => T!Init
  BY TidFacts DEF Init, T!Init, Waiting
<1>2. WakeInv /\ [Next]_vars => [T!Next]_T!vars
  BY StepImplements
<1> QED
  BY <1>1, <1>2, WakeInvariant, PTL DEF Spec, ThreadsSpec, T!Spec

\* A thread that has finished stays so until its TCB is freed, and no TCB is
\* freed before, but for main's at the end.
LifeOrder ==
  \A t \in Tid : tcbs[t] = "live" =>
     /\ state[t] = "FINISHED" => tcbs'[t] # "live" \/ state'[t] = "FINISHED"
     /\ tcbs'[t] # "live" => state[t] = "FINISHED" \/ t = MAIN

\* No step of any kernel thread revives a thread that has called uthread_exit
\* or frees one that has not: not a late wake-up by a joiner or by a post,
\* and not a join, a create or a teardown that runs beside it.
THEOREM LivesInOrder == Spec => [][LifeOrder]_vars
<1>1. WakeInv /\ WakeInv' /\ [Next]_vars => [LifeOrder]_vars
  <2> SUFFICES ASSUME WakeInv, WakeInv', [Next]_vars PROVE LifeOrder
    OBVIOUS
  <2> DEFINE Fits(t) == /\ Phase(t) = "FINISHED" => Phase(t)' \in {"FINISHED", "none"}
                        /\ Phase(t) # "none" /\ Phase(t)' = "none" =>
                              Phase(t) = "FINISHED" \/ t = MAIN
  <2>1. ASSUME NEW u \in Tid, NEW from, NEW to, T!Move(u, from, to),
               from = "FINISHED" => to = "none",
               to = "none" => from = "FINISHED"
        PROVE  \A t \in Tid : Fits(t)
    <3>1. Phase(u) = from /\ \A t \in Tid : Phase(t)' = IF t = u THEN to ELSE Phase(t)
      BY <2>1 DEF T!Move, Phase
    <3> QED
      BY <2>1, <3>1
  <2>2. ASSUME UNCHANGED T!vars \/ \E s \in Sem : T!InitSem(s) \/ T!Post(s) \/ T!Take(s)
        PROVE  \A t \in Tid : Fits(t)
    <3>1. \A t \in Tid : Phase(t)' = Phase(t)
      BY <2>2 DEF T!vars, T!InitSem, T!Post, T!Take, T!SetValue, Phase
    <3> QED
      BY <3>1
  <2>3. ASSUME T!Shutdown
        PROVE  \A t \in Tid : Fits(t)
    <3>1. \A t \in Tid : Phase(t)' = "none" /\ (t # MAIN => Phase(t) \in {"none", "FINISHED"})
      BY <2>3 DEF T!Shutdown, Phase
    <3> QED
      BY <3>1
  <2>4. ASSUME NEW u \in Tid,
               \/ T!Create(u) \/ T!Run(u) \/ T!Yield(u) \/ T!Exit(u)
               \/ T!Reap(u) \/ T!WakeJoiner(u) \/ T!WakeWaiter(u)
               \/ \E w \in Tid : T!AwaitThread(u, w)
               \/ \E s \in Sem : T!AwaitUnit(u, s)
        PROVE  \A t \in Tid : Fits(t)
    <3>1. \/ T!Move(u, "none", "READY") \/ T!Move(u, "READY", "RUNNING")
          \/ T!Move(u, "RUNNING", "READY") \/ T!Move(u, "RUNNING", "FINISHED")
          \/ T!Move(u, "FINISHED", "none") \/ T!Move(u, "RUNNING", "WAITING_JOIN")
          \/ T!Move(u, "RUNNING", "WAITING_SEM") \/ T!Move(u, "WAITING_JOIN", "READY")
          \/ T!Move(u, "WAITING_SEM", "READY")
      BY <2>4 DEF T!Create, T!Run, T!Yield, T!Exit, T!Reap, T!WakeJoiner, T!WakeWaiter,
         T!AwaitThread, T!AwaitUnit, T!MoveFor
    <3> HIDE DEF Fits
    <3> QED
      BY <2>1, <3>1
  <2>5. \A t \in Tid : Fits(t)
    BY <2>2, <2>3, <2>4, StepImplements DEF T!Next
  <2>6. \A t \in Tid : state[t] \in ThreadState /\ state'[t] \in ThreadState
    BY DEF WakeInv, ThreadInv, LockInv, TypeOK
  <2> QED
    BY <2>5, <2>6 DEF LifeOrder, ThreadState, Phase
<1> QED
  BY <1>1, WakeInvariant, PTL DEF Spec

-----------------------------------------------------------------------------
(* Locks, tids and slots: the inductive invariants.                        *)

\* A kernel thread that owns a lock is inside a critical section.
LocksInUse ==
  \A k \in KThread :
    /\ tcbs_lock = k => HoldsTcbsLock(k)
    /\ \A s \in Sem : sem_lock[s] = k => HoldsSemLock(k, s)

\* What the calls that create and join threads are made of.
Managing == {"create", "ready_new", "rejoin", "reclaim", "destroy", "clear"}

\* Between the first and the last step of a call, the tid and the slot that
\* the call is about differ.
Creating(t)   == \E k \in KThread : pc[k] = "create" /\ arg[k] = t
Destroying(t) == \E k \in KThread : pc[k] = "destroy" /\ arg[k] = t

\* The tids in use and the slots that are filled.
SlotsAgree ==
  /\ \A k \in KThread : pc[k] \in {"create", "clear"} => tcbs[arg[k]] # "live"
  /\ \A t \in Tid :
        t \in bitvec <=> (tcbs[t] = "live" \/ Creating(t)) /\ ~Destroying(t)

\* At most one thread of the program creates and joins threads ...
OneParent == \A p, q \in Parents : p = q

\* ... or it runs on one kernel thread: either way these calls follow each
\* other.
OneManager == OneParent \/ \A j, k \in KThread : j = k

\* Only Parents create and join.
ParentInv ==
  /\ \A k \in KThread : pc[k] \in Managing => current_tid[k] \in Parents
  /\ \A t \in Tid : ctx[t].at = "rejoin" => t \in Parents

\* Nobody waits to join a thread that itself joins others.
CallerInv ==
  /\ \A p \in Parents \cap Tid : join_queue[p] = <<>>
  /\ \A k \in KThread : task[k] = "JOIN" => queue[k] \notin Parents
  /\ JoinAssertHolds

-----------------------------------------------------------------------------
(* Locks.  Only a failed malloc leaves tcbs_lock behind in user code.      *)

\* A step of k takes and releases locks for k alone, and leaves none behind.
LockStep(k) ==
  /\ tcbs_lock' = tcbs_lock \/ tcbs_lock' = NULL
        \/ (tcbs_lock' = k /\ (MallocFails \/ HoldsTcbsLock(k)'))
  /\ HoldsTcbsLock(k) => HoldsTcbsLock(k)' \/ tcbs_lock' = NULL
  /\ \A s \in Sem : \/ sem_lock'[s] = sem_lock[s] \/ sem_lock'[s] = NULL
                    \/ sem_lock'[s] = k /\ HoldsSemLock(k, s)'
  /\ \A s \in Sem : HoldsSemLock(k, s) =>
        HoldsSemLock(k, s)' \/ sem_lock'[s] = NULL

\* In a call that begins ...
LEMMA CallLockStep ==
  ASSUME TypeOK, NEW k \in KThread, Call(k)
  PROVE  LockStep(k)
<1>1. pc[k] = "user"
  BY DEF Call, CreateTid, Yield, Exit, Teardown, JoinBlocks, JoinAborts,
     JoinFinished, MayJoin, InParent, InUser, SemInit, SemDestroy, SemWait,
     SemPost, SemPostWakes
<1>2. ~HoldsTcbsLock(k) /\ \A s \in Sem : ~HoldsSemLock(k, s)
  BY <1>1 DEF HoldsTcbsLock, HoldsSemLock, Handing
<1>3. \/ tcbs_lock' = tcbs_lock
      \/ tcbs_lock' = k /\ HoldsTcbsLock(k)'
  BY DEF Call, CreateTid, Yield, Exit, Teardown, JoinBlocks, JoinAborts,
     JoinFinished, SemInit, SemDestroy, SemWait, SemPost, SemPostWakes,
     SwitchToSched, LockTcbs, Goto, Stop, HoldsTcbsLock, Handing, TypeOK
<1>4. ASSUME NEW s \in Sem
      PROVE  \/ sem_lock'[s] = sem_lock[s] \/ sem_lock'[s] = NULL
             \/ sem_lock'[s] = k /\ HoldsSemLock(k, s)'
  <2>1. CASE \/ CreateTid(k) \/ Yield(k) \/ Exit(k) \/ Teardown(k)
             \/ \E t \in Tid : JoinBlocks(k, t) \/ JoinAborts(k, t)
                                                \/ JoinFinished(k, t)
    BY <2>1 DEF CreateTid, Yield, Exit, Teardown, JoinBlocks, JoinAborts,
       JoinFinished, Stop, semVars
  <2>2. ASSUME NEW r \in Sem,
               \/ \E v \in 0 .. MaxCount : SemInit(k, r, v)
               \/ SemDestroy(k, r) \/ SemPost(k, r)
        PROVE  sem_lock'[s] = sem_lock[s] \/ sem_lock'[s] = NULL
    BY <2>2 DEF SemInit, SemDestroy, SemPost, TypeOK
  <2>3. ASSUME NEW r \in Sem, SemWait(k, r) \/ SemPostWakes(k, r)
        PROVE  \/ sem_lock'[s] = sem_lock[s]
               \/ sem_lock'[s] = k /\ HoldsSemLock(k, s)'
    <3>1. /\ sem_lock' = [sem_lock EXCEPT ![r] = k] /\ arg'[k] = r
          /\ pc'[k] \in {"sem_wait", "sem_wake"}
      BY <2>3 DEF SemWait, SemPostWakes, LockSem, Goto, TypeOK
    <3> QED
      BY <3>1 DEF HoldsSemLock, TypeOK
  <2> QED
    BY <2>1, <2>2, <2>3 DEF Call
<1> QED
  BY <1>2, <1>3, <1>4 DEF LockStep

\* ... in one that goes on ...
LEMMA InCallLockStep ==
  ASSUME TypeOK, NEW k \in KThread, InCall(k)
  PROVE  LockStep(k)
<1>1. CASE \/ CreateTcb(k) \/ CreateOverwrites(k) \/ CreateFails(k)
           \/ CreateReady(k) \/ Trampoline(k)
  <2>1. /\ pc[k] \in {"create", "ready_new", "start"} /\ sem_lock' = sem_lock
        /\ pc[k] = "ready_new" => CreateReady(k)
    BY <1>1 DEF CreateTcb, CreateOverwrites, CreateFails, CreateReady,
       Trampoline, At, Stop, semVars
  <2>2. \A s \in Sem : ~HoldsSemLock(k, s)
    BY <2>1 DEF HoldsSemLock, Handing
  <2>3. HoldsTcbsLock(k) => tcbs_lock' = NULL
    BY <2>1 DEF HoldsTcbsLock, Handing, CreateReady, UnlockTcbs
  <2>4. \/ tcbs_lock' = tcbs_lock \/ tcbs_lock' = NULL
        \/ tcbs_lock' = k /\ (MallocFails \/ HoldsTcbsLock(k)')
    BY <1>1 DEF CreateTcb, CreateOverwrites, CreateFails, CreateReady,
       Trampoline, Stop, LockTcbs, UnlockTcbs, Goto, HoldsTcbsLock, TypeOK
  <2> QED
    BY <2>1, <2>2, <2>3, <2>4 DEF LockStep
<1>2. CASE \/ Rejoin(k) \/ Reclaim(k) \/ Destroy(k) \/ ClearSlot(k)
           \/ ClearLoses(k) \/ TeardownSignal(k) \/ TeardownFinish(k)
  <2>1. /\ pc[k] \in {"rejoin", "reclaim", "destroy", "clear", "teardown",
                      "torndown"}
        /\ sem_lock' = sem_lock /\ tcbs_lock' = tcbs_lock
    BY <1>2 DEF Rejoin, Reclaim, Destroy, ClearSlot, ClearLoses,
       TeardownSignal, TeardownFinish, At, Stop, semVars
  <2>2. ~HoldsTcbsLock(k) /\ \A s \in Sem : ~HoldsSemLock(k, s)
    BY <2>1 DEF HoldsTcbsLock, HoldsSemLock, Handing
  <2> QED
    BY <2>1, <2>2 DEF LockStep
<1>3. CASE TeardownSwitch(k)
  <2>1. /\ pc[k] = "teardown" /\ sem_lock' = sem_lock /\ tcbs_lock' = k
        /\ pc'[k] = "sched" /\ task'[k] = "TEARDOWN"
    BY <1>3 DEF TeardownSwitch, At, SwitchToSched, LockTcbs, Goto, semVars,
       TypeOK
  <2> QED
    BY <2>1 DEF LockStep, HoldsTcbsLock, HoldsSemLock, Handing
<1>4. CASE SemRelock(k)
  <2>1. /\ pc[k] = "sem_relock" /\ tcbs_lock' = tcbs_lock
        /\ sem_lock' = [sem_lock EXCEPT ![arg[k]] = k]
        /\ pc'[k] = "sem_wait" /\ arg'[k] = arg[k]
    BY <1>4 DEF SemRelock, At, LockSem, Goto, TypeOK
  <2> QED
    BY <2>1 DEF LockStep, HoldsTcbsLock, HoldsSemLock, Handing, TypeOK
<1>5. CASE SemDecrement(k) \/ SemReady(k)
  <2>1. /\ pc[k] \in {"sem_wait", "sem_ready"} /\ tcbs_lock' = tcbs_lock
        /\ sem_lock' = [sem_lock EXCEPT ![arg[k]] = NULL]
    BY <1>5 DEF SemDecrement, SemReady, At, UnlockSem
  <2> QED
    BY <2>1 DEF LockStep, HoldsTcbsLock, HoldsSemLock, Handing, TypeOK
<1>6. CASE SemBlock(k)
  <2>1. /\ pc[k] = "sem_wait" /\ tcbs_lock' = k /\ sem_lock' = sem_lock
        /\ pc'[k] = "sched" /\ task'[k] = "SEM_WAIT" /\ queue'[k] = arg[k]
    BY <1>6 DEF SemBlock, At, SwitchToSched, LockTcbs, Goto, semVars, TypeOK
  <2> QED
    BY <2>1 DEF LockStep, HoldsTcbsLock, HoldsSemLock, Handing
<1>7. CASE SemWake(k)
  <2>1. /\ pc[k] = "sem_wake" /\ tcbs_lock' = tcbs_lock /\ sem_lock' = sem_lock
        /\ pc'[k] = "sem_ready" /\ arg'[k] = arg[k]
    BY <1>7 DEF SemWake, At, Goto, semVars, TypeOK
  <2> QED
    BY <2>1 DEF LockStep, HoldsTcbsLock, HoldsSemLock, Handing
<1> QED
  BY <1>1, <1>2, <1>3, <1>4, <1>5, <1>6, <1>7 DEF InCall

\* ... and in the scheduler.
LEMMA ScheduleLockStep ==
  ASSUME TypeOK, NEW k \in KThread, Schedule(k)
  PROVE  LockStep(k)
<1>1. CASE \/ SchedYield(k) \/ SchedExit(k) \/ SchedJoin(k) \/ SchedTeardown(k)
  <2>1. /\ pc[k] = "sched" /\ task[k] # "SEM_WAIT" /\ tcbs_lock' = NULL
        /\ sem_lock' = sem_lock
    BY <1>1 DEF SchedYield, SchedExit, SchedJoin, SchedTeardown, At,
       UnlockTcbs, semVars
  <2> QED
    BY <2>1 DEF LockStep, HoldsTcbsLock, HoldsSemLock, Handing
<1>2. CASE SchedSemWait(k)
  <2>1. /\ pc[k] = "sched" /\ tcbs_lock' = NULL
        /\ sem_lock' = [sem_lock EXCEPT ![queue[k]] = NULL]
    BY <1>2 DEF SchedSemWait, At, UnlockTcbs, UnlockSem
  <2> QED
    BY <2>1 DEF LockStep, HoldsTcbsLock, HoldsSemLock, Handing, TypeOK
<1>3. CASE \/ SchedNone(k) \/ Dequeue(k) \/ DequeueExitAll(k) \/ Reap(k)
           \/ Dispatch(k)
  <2>1. /\ pc[k] \in {"sched", "dequeue", "reap", "dispatch"}
        /\ pc[k] = "sched" => task[k] = "NONE"
        /\ tcbs_lock' = tcbs_lock /\ sem_lock' = sem_lock
    BY <1>3 DEF SchedNone, Dequeue, DequeueExitAll, Reap, Dispatch, At, semVars
  <2> QED
    BY <2>1 DEF LockStep, HoldsTcbsLock, HoldsSemLock, Handing
<1> QED
  BY <1>1, <1>2, <1>3 DEF Schedule

\* Who owns a lock is inside a critical section, after every step.
LEMMA NextLocksInUse ==
  ASSUME ~MallocFails, ThreadInv, LocksInUse, [Next]_vars
  PROVE  LocksInUse'
<1>1. ASSUME NEW k \in KThread, Step(k) PROVE LocksInUse'
  <2>1. TypeOK /\ Others(k)
    BY <1>1, StepFrame DEF ThreadInv, LockInv
  <2>2. LockStep(k)
    BY <1>1, <2>1, CallLockStep, InCallLockStep, ScheduleLockStep DEF Step
  <2>3. NULL \notin KThread
    BY SentinelAssumption
  <2>4. ASSUME NEW j \in KThread
        PROVE  /\ tcbs_lock' = j => HoldsTcbsLock(j)'
               /\ \A s \in Sem : sem_lock'[s] = j => HoldsSemLock(j, s)'
    <3>1. CASE j = k
      BY <2>2, <2>3, <3>1 DEF LockStep, LocksInUse
    <3>2. CASE j # k
      <4>1. /\ HoldsTcbsLock(j)' <=> HoldsTcbsLock(j)
            /\ \A s \in Sem : HoldsSemLock(j, s)' <=> HoldsSemLock(j, s)
        BY <2>1, <3>2 DEF Others, HoldsTcbsLock, HoldsSemLock, Handing
      <4> QED
        BY <2>2, <2>3, <3>2, <4>1 DEF LockStep, LocksInUse
    <3> QED
      BY <3>1, <3>2
  <2> QED
    BY <2>4 DEF LocksInUse
<1>2. ASSUME UNCHANGED vars PROVE LocksInUse'
  BY <1>2 DEF LocksInUse, vars, HoldsTcbsLock, HoldsSemLock, Handing
<1> QED
  BY <1>1, <1>2 DEF Next, Ended

\* When malloc does not fail, a kernel thread that executes user code holds
\* neither tcbs_lock nor the lock of a semaphore: every path of every call
\* gives back what it took, also where the scheduler releases what the call
\* acquired.
THEOREM UserCodeHoldsNoLock ==
  ASSUME ~MallocFails
  PROVE  Spec => []NoLockInUserCode
<1>1. Init => LocksInUse
  BY SentinelAssumption DEF Init, LocksInUse
<1>2. ThreadInv /\ LocksInUse /\ [Next]_vars => LocksInUse'
  BY NextLocksInUse
<1>3. LocksInUse => NoLockInUserCode
  BY DEF LocksInUse, NoLockInUserCode, HoldsTcbsLock, HoldsSemLock, Handing
<1> QED
  BY <1>1, <1>2, <1>3, ThreadInvariant, PTL DEF Spec

-----------------------------------------------------------------------------
(* Tids and slots.                                                         *)

\* A thread is on one stack: nobody else creates or joins meanwhile.
LEMMA ManagesAlone ==
  ASSUME OneManager, ThreadInv, ParentInv, NEW k \in KThread, OnStack(k),
         current_tid[k] \in Parents, NEW j \in KThread \ {k}
  PROVE  pc[j] \notin Managing
<1>1. TypeOK /\ HeldSound
  BY DEF ThreadInv, LockInv, PlaceInv
<1> SUFFICES ASSUME pc[j] \in Managing PROVE FALSE
  OBVIOUS
<1>2. OnStack(j) /\ current_tid[j] \in Parents
  BY DEF ParentInv, Managing, OnStack, UserPc
<1>3. current_tid[j] = current_tid[k]
  BY <1>2 DEF OneManager, OneParent
<1>4. /\ Held(j, current_tid[k], "RUNNING") /\ Held(k, current_tid[k], "RUNNING")
      /\ current_tid[k] \in Tid
  BY <1>1, <1>2, <1>3, HoldsAt
<1> QED
  BY <1>1, <1>4 DEF HeldSound, ThreadState

\* What a step of k does to the calls that create and join.
ManageStep(k) ==
  /\ pc'[k] \in Managing =>
        \/ pc[k] \in Managing /\ current_tid' = current_tid
        \/ InParent(k) /\ current_tid' = current_tid
        \/ Dispatch(k) /\ ctx[tcb[k]].at = "rejoin"
  /\ \A t \in Tid : ctx'[t].at = "rejoin" =>
        ctx[t].at = "rejoin" \/ (InParent(k) /\ t = current_tid[k])
  /\ \A t \in Tid : \/ join_queue'[t] = <<>> \/ join_queue'[t] = join_queue[t]
                    \/ SchedJoin(k) /\ queue[k] = t
                    \/ SchedExit(k) /\ join_queue[t] # <<>>
  /\ task'[k] = "JOIN" => \E t \in Tid : JoinBlocks(k, t) /\ queue'[k] = t
  /\ fault' # fault =>
        CreateOverwrites(k) \/ ClearLoses(k) \/ \E t \in Tid : JoinAborts(k, t)

\* They are made by threads that may make them.
LEMMA StepManages ==
  ASSUME TypeOK, NEW k \in KThread, Step(k)
  PROVE  ManageStep(k)
<1>1. CASE Call(k)
  <2> USE <1>1 DEF Call, CreateTid, Yield, Exit, Teardown, JoinBlocks,
      JoinAborts, JoinFinished, MayJoin, InParent, InUser, SemInit,
      SemDestroy, SemWait, SemPost, SemPostWakes, Stop
  <2>1. pc'[k] \in Managing => InParent(k) /\ current_tid' = current_tid
    BY DEF Goto, SwitchToSched, Managing, TypeOK
  <2>2. \A t \in Tid : ctx'[t].at = "rejoin" =>
           ctx[t].at = "rejoin" \/ (InParent(k) /\ t = current_tid[k])
    BY DEF SwitchToSched, tcbVars, TypeOK
  <2>3. join_queue' = join_queue
    BY DEF tcbVars
  <2>4. task'[k] = "JOIN" => \E t \in Tid : JoinBlocks(k, t) /\ queue'[k] = t
    <3>1. task[k] # "JOIN"
      BY DEF TypeOK, LocalsOK
    <3>2. ASSUME NEW t \in Tid, JoinBlocks(k, t) PROVE queue'[k] = t
      BY <3>2 DEF SwitchToSched, TypeOK
    <3>3. (\E t \in Tid : JoinBlocks(k, t)) \/ task'[k] # "JOIN"
      BY <3>1 DEF SwitchToSched, schedVars, TypeOK
    <3> QED
      BY <3>2, <3>3
  <2>5. fault' # fault => \E t \in Tid : JoinAborts(k, t)
    OBVIOUS
  <2> QED
    BY <2>1, <2>2, <2>3, <2>4, <2>5 DEF ManageStep
<1>2. CASE InCall(k)
  <2> USE <1>2 DEF InCall, CreateTcb, CreateOverwrites, CreateFails,
      CreateReady, Trampoline, Rejoin, Reclaim, Destroy, ClearSlot,
      ClearLoses, SemRelock, SemDecrement, SemBlock, SemWake, SemReady,
      TeardownSignal, TeardownSwitch, TeardownFinish, At, Stop
  <2>1. pc'[k] \in Managing => pc[k] \in Managing /\ current_tid' = current_tid
    BY DEF Goto, Return, SwitchToSched, Managing, TypeOK
  <2>2. \A t \in Tid : ctx'[t].at = "rejoin" => ctx[t].at = "rejoin"
    BY DEF SwitchToSched, tcbVars, TypeOK
  <2>3. \A t \in Tid : join_queue'[t] = <<>> \/ join_queue'[t] = join_queue[t]
    BY DEF tcbVars, TypeOK
  <2>4. task'[k] # "JOIN"
    BY DEF SwitchToSched, schedVars, TypeOK, LocalsOK
  <2>5. fault' # fault => CreateOverwrites(k) \/ ClearLoses(k)
    OBVIOUS
  <2> QED
    BY <2>1, <2>2, <2>3, <2>4, <2>5 DEF ManageStep
<1>3. CASE Schedule(k)
  <2> USE <1>3 DEF Schedule, SchedNone, SchedYield, SchedExit, SchedJoin,
      SchedSemWait, SchedTeardown, Dequeue, DequeueExitAll, Reap, Dispatch, At
  <2>1. pc'[k] \in Managing => Dispatch(k) /\ ctx[tcb[k]].at = "rejoin"
    <3>1. CASE Dispatch(k)
      <4>1. ctx[tcb[k]].at \in ResumePc
        BY <3>1 DEF TypeOK, LocalsOK
      <4> QED
        BY <3>1, <4>1 DEF Goto, TypeOK, ResumePc, Managing
    <3> QED
      BY <3>1 DEF Goto, TaskDone, TypeOK, Managing
  <2>2. ctx' = ctx
    BY DEF tcbVars
  <2>3. \A t \in Tid : \/ join_queue'[t] = join_queue[t]
                       \/ SchedJoin(k) /\ queue[k] = t
                       \/ SchedExit(k) /\ join_queue[t] # <<>>
    <3>1. CASE SchedJoin(k)
      BY <3>1 DEF TypeOK
    <3>2. CASE SchedExit(k)
      BY <3>2 DEF WakeJoiner, TakeJoiner, TypeOK
    <3> QED
      BY <3>1, <3>2 DEF tcbVars
  <2>4. task'[k] # "JOIN"
    BY DEF TaskDone, schedVars, TypeOK, LocalsOK
  <2>5. fault' = fault
    OBVIOUS
  <2> QED
    BY <2>1, <2>2, <2>3, <2>4, <2>5 DEF ManageStep
<1> QED
  BY <1>1, <1>2, <1>3 DEF Step

\* A step changes slots and tids in these cases alone.
TidStep(k) ==
  \/ CreateTid(k) \/ CreateTcb(k) \/ CreateFails(k) \/ Reclaim(k)
  \/ Destroy(k) \/ ClearSlot(k) \/ TeardownFinish(k)
  \/ /\ tcbs' = tcbs /\ bitvec' = bitvec
     /\ \/ pc' = pc /\ arg' = arg
        \/ /\ pc'[k] \notin {"create", "destroy", "clear"}
           /\ pc[k] \notin {"create", "destroy", "clear"}

\* Those are the calls that create and join, and teardown.
LEMMA StepTidStep ==
  ASSUME TypeOK, NEW k \in KThread, Step(k)
  PROVE  TidStep(k)
<1>1. CASE Call(k)
  BY <1>1 DEF Call, CreateTid, Yield, Exit, Teardown, JoinBlocks, JoinAborts,
     JoinFinished, MayJoin, InParent, InUser, SemInit, SemDestroy, SemWait,
     SemPost, SemPostWakes, Stop, tidVars, Goto, SwitchToSched, TypeOK, TidStep
<1>2. CASE InCall(k)
  <2>1. CASE CreateOverwrites(k) \/ ClearLoses(k)
    BY <2>1 DEF CreateOverwrites, ClearLoses, Stop, TidStep
  <2>2. CASE \/ CreateReady(k) \/ Trampoline(k) \/ Rejoin(k) \/ TeardownSignal(k)
             \/ TeardownSwitch(k)
    BY <2>2 DEF CreateReady, Trampoline, Rejoin, TeardownSignal,
       TeardownSwitch, At, tidVars, Goto, Return, SwitchToSched, TypeOK, TidStep
  <2>3. CASE \/ SemRelock(k) \/ SemDecrement(k) \/ SemBlock(k) \/ SemWake(k)
             \/ SemReady(k)
    BY <2>3 DEF SemRelock, SemDecrement, SemBlock, SemWake, SemReady, At,
       tidVars, Goto, Return, SwitchToSched, TypeOK, TidStep
  <2> QED
    BY <1>2, <2>1, <2>2, <2>3 DEF InCall, TidStep
<1>3. CASE Dispatch(k)
  <2>1. ctx[tcb[k]].at \in ResumePc
    BY <1>3 DEF Dispatch, At, TypeOK, LocalsOK
  <2> QED
    BY <1>3, <2>1 DEF Dispatch, At, Goto, tidVars, ResumePc, TypeOK, TidStep
<1>4. CASE Schedule(k) /\ ~Dispatch(k)
  BY <1>4 DEF Schedule, SchedNone, SchedYield, SchedExit, SchedJoin,
     SchedSemWait, SchedTeardown, Dequeue, DequeueExitAll, Reap, At, tidVars,
     Goto, TaskDone, TypeOK, TidStep
<1> QED
  BY <1>1, <1>2, <1>3, <1>4 DEF Step

\* A tid that get_next_tid finds is free, while there are free ones.
LEMMA FreeTid ==
  ASSUME bitvec \in SUBSET Tid, bitvec # Tid
  PROVE  NextTid \in Tid \ bitvec
<1> DEFINE Free == Tid \ bitvec
<1>1. Free # {} /\ Free \subseteq Nat
  <2>1. \E t \in Tid : t \notin bitvec
    OBVIOUS
  <2> QED
    BY <2>1, TidFacts
<1>2. PICK x \in Free : \A y \in Free : ~(<<y, x>> \in LessThan)
  BY <1>1, LessThanWellFounded, WFMin
<1>3. \A y \in Free : x <= y
  <2> TAKE y \in Free
  <2>1. x \in Nat /\ y \in Nat
    BY <1>1
  <2>2. ~(y < x)
    BY <1>2, <2>1 DEF LessThan
  <2> QED
    BY <2>1, <2>2
<1>4. NextTid = CHOOSE t \in Tid \ bitvec : \A u \in Tid \ bitvec : t <= u
  BY DEF NextTid
<1> QED
  BY <1>3, <1>4

\* Only Parents go on creating and joining.
LEMMA StepParents ==
  ASSUME ThreadInv, ParentInv, NEW k \in KThread, Step(k)
  PROVE  ParentInv'
<1>1. TypeOK /\ Others(k) /\ ManageStep(k)
  BY StepFrame, StepManages DEF ThreadInv, LockInv
<1>2. InParent(k) => current_tid[k] \in Parents
  BY DEF InParent
<1>3. ASSUME NEW j \in KThread, pc'[j] \in Managing
      PROVE  current_tid'[j] \in Parents
  <2>1. CASE j # k
    BY <1>1, <1>3, <2>1 DEF Others, ParentInv
  <2>2. CASE j = k /\ Dispatch(k) /\ ctx[tcb[k]].at = "rejoin"
    <3>1. tcb[k] \in Tid
      BY <1>1, <2>2, HoldsAt DEF Dispatch, At
    <3>2. tcb[k] \in Parents
      BY <2>2, <3>1 DEF ParentInv
    <3> QED
      BY <1>1, <2>2, <3>2 DEF Dispatch, TypeOK
  <2> QED
    BY <1>1, <1>2, <1>3, <2>1, <2>2 DEF ManageStep, ParentInv
<1>4. \A t \in Tid : ctx'[t].at = "rejoin" => t \in Parents
  BY <1>1, <1>2 DEF ManageStep, ParentInv
<1> QED
  BY <1>3, <1>4 DEF ParentInv

\* The one thread that joins others is not joined itself: uthread_join does
\* not let it join itself.
LEMMA StepCallers ==
  ASSUME OneParent, ThreadInv, CallerInv, NEW k \in KThread, Step(k)
  PROVE  CallerInv'
<1>1. TypeOK /\ Others(k) /\ ManageStep(k)
  BY StepFrame, StepManages DEF ThreadInv, LockInv
<1>2. \A p \in Parents \cap Tid : join_queue'[p] = <<>>
  <2>1. \A p \in Parents : ~(SchedJoin(k) /\ queue[k] = p)
    BY DEF SchedJoin, CallerInv
  <2> QED
    BY <1>1, <2>1 DEF ManageStep, CallerInv
<1>3. \A j \in KThread : task'[j] = "JOIN" => queue'[j] \notin Parents
  <2>1. \A t \in Tid : JoinBlocks(k, t) => t \notin Parents
    BY DEF JoinBlocks, MayJoin, InParent, OneParent
  <2> QED
    BY <1>1, <2>1 DEF ManageStep, CallerInv, Others
<1>4. fault' # "join_assert"
  <2>1. ASSUME NEW t \in Tid, JoinAborts(k, t) PROVE FALSE
    <3>1. current_tid[k] \in Parents \cap Tid
      BY <1>1, <2>1, HoldsAt DEF JoinAborts, MayJoin, InParent, InUser, OnStack, UserPc
    <3> QED
      BY <2>1, <3>1 DEF JoinAborts, CallerInv
  <2>2. CreateOverwrites(k) \/ ClearLoses(k) => fault' \in {"overwrite", "lost"}
    BY DEF CreateOverwrites, ClearLoses, Stop
  <2> QED
    BY <1>1, <2>1, <2>2 DEF ManageStep, CallerInv, JoinAssertHolds
<1> QED
  BY <1>2, <1>3, <1>4 DEF CallerInv, JoinAssertHolds

\* While nobody but k creates and joins, the tid that is being created or
\* destroyed is the one of the call on k.
LEMMA ManagerStages ==
  ASSUME NEW k \in KThread, Others(k),
         \A j \in KThread \ {k} : pc[j] \notin Managing
  PROVE  /\ \A t \in Tid : Creating(t)' <=> pc'[k] = "create" /\ arg'[k] = t
         /\ \A t \in Tid : Destroying(t)' <=> pc'[k] = "destroy" /\ arg'[k] = t
         /\ \A t \in Tid : Creating(t) <=> pc[k] = "create" /\ arg[k] = t
         /\ \A t \in Tid : Destroying(t) <=> pc[k] = "destroy" /\ arg[k] = t
         /\ \A j \in KThread : pc'[j] \in {"create", "clear"} => j = k
BY DEF Creating, Destroying, Others, Managing

\* While no call is under way, fewer threads than slots leave a tid free.
LEMMA RoomLeft ==
  ASSUME TypeOK, Quota <= MaxThreads,
         Cardinality({t \in Tid : tcbs[t] = "live"}) < Quota,
         \A t \in Tid : t \in bitvec <=> tcbs[t] = "live"
  PROVE  bitvec # Tid
<1> DEFINE Live == {t \in Tid : tcbs[t] = "live"}
<1> SUFFICES ASSUME bitvec = Tid PROVE FALSE
  OBVIOUS
<1>1. Live = Tid
  OBVIOUS
<1>2. Cardinality(Tid) = MaxThreads
  <2>1. 0 \in Int /\ MaxThreads - 1 \in Int /\ MaxThreads \in Nat /\ MaxThreads >= 2
    BY ThreadsAssumption
  <2>2. Cardinality(0 .. MaxThreads - 1)
          = IF 0 > MaxThreads - 1 THEN 0 ELSE (MaxThreads - 1) - 0 + 1
    BY <2>1, FS_Interval
  <2> QED
    BY <2>1, <2>2 DEF Tid
<1>3. Cardinality(Tid) < Quota
  BY <1>1
<1> QED
  BY <1>2, <1>3, ThreadsAssumption, CountAssumption

\* A step keeps the bit vector and the slots in agreement.
LEMMA StepSlots ==
  ASSUME ~MallocFails, OneManager, Quota <= MaxThreads,
         ThreadInv, ParentInv, SlotsAgree, NEW k \in KThread, Step(k)
  PROVE  SlotsAgree'
<1>1. TypeOK /\ Others(k) /\ TidStep(k) /\ SlotsAgree
  BY StepFrame, StepTidStep DEF ThreadInv, LockInv
<1>2. CASE CreateTid(k)
  <2>1. /\ pc[k] = "user" /\ current_tid[k] \in Parents
        /\ Cardinality({t \in Tid : tcbs[t] = "live"}) < Quota
        /\ bitvec' = bitvec \cup {NextTid} /\ tcbs' = tcbs
        /\ pc'[k] = "create" /\ arg'[k] = NextTid
    BY <1>1, <1>2 DEF CreateTid, InParent, InUser, TakeTid, Goto, TypeOK
  <2>2. \A j \in KThread \ {k} : pc[j] \notin Managing
    BY <2>1, ManagesAlone DEF OnStack, UserPc
  <2>3. /\ \A t \in Tid : Creating(t)' <=> NextTid = t
        /\ \A t \in Tid : ~Destroying(t)'
        /\ \A t \in Tid : ~Creating(t) /\ ~Destroying(t)
        /\ \A j \in KThread : pc'[j] \in {"create", "clear"} => j = k
    BY <1>1, <2>1, <2>2, ManagerStages
  <2>4. \A t \in Tid : t \in bitvec <=> tcbs[t] = "live"
    BY <1>1, <2>3 DEF SlotsAgree
  <2>5. NextTid \in Tid \ bitvec
    BY <1>1, <2>1, <2>4, RoomLeft, FreeTid DEF TypeOK
  <2>6. tcbs[NextTid] # "live"
    BY <2>4, <2>5
  <2> QED
    BY <2>1, <2>3, <2>4, <2>5, <2>6 DEF SlotsAgree
<1>3. CASE CreateTcb(k) \/ Reclaim(k) \/ Destroy(k) \/ ClearSlot(k)
  <2>1. pc[k] \in Managing \ {"ready_new"} /\ arg[k] \in Tid
    BY <1>1, <1>3, ArgFacts DEF CreateTcb, Reclaim, Destroy, ClearSlot, At,
       Managing, TypeOK, LocalsOK
  <2>2. \A j \in KThread \ {k} : pc[j] \notin Managing
    BY <2>1, ManagesAlone DEF ParentInv, OnStack, UserPc, Managing
  <2>3. /\ \A t \in Tid : Creating(t)' <=> pc'[k] = "create" /\ arg'[k] = t
        /\ \A t \in Tid : Destroying(t)' <=> pc'[k] = "destroy" /\ arg'[k] = t
        /\ \A t \in Tid : Creating(t) <=> pc[k] = "create" /\ arg[k] = t
        /\ \A t \in Tid : Destroying(t) <=> pc[k] = "destroy" /\ arg[k] = t
        /\ \A j \in KThread : pc'[j] \in {"create", "clear"} => j = k
    BY <1>1, <2>2, ManagerStages
  <2>4. CASE CreateTcb(k)
    <3>1. /\ pc[k] = "create" /\ pc'[k] = "ready_new" /\ bitvec' = bitvec
          /\ tcbs' = [tcbs EXCEPT ![arg[k]] = "live"]
      BY <1>1, <2>4 DEF CreateTcb, At, Goto, tidVars, TypeOK
    <3> QED
      BY <1>1, <2>1, <2>3, <3>1 DEF SlotsAgree, TypeOK
  <2>5. CASE Reclaim(k)
    <3>1. /\ pc[k] = "reclaim" /\ pc'[k] = "destroy" /\ arg'[k] = arg[k]
          /\ bitvec' = bitvec \ {arg[k]} /\ tcbs' = tcbs
      BY <1>1, <2>5 DEF Reclaim, ReclaimTid, At, Goto, TypeOK
    <3> QED
      BY <1>1, <2>1, <2>3, <3>1 DEF SlotsAgree, TypeOK
  <2>6. CASE Destroy(k)
    <3>1. /\ pc[k] = "destroy" /\ pc'[k] = "clear" /\ arg'[k] = arg[k]
          /\ bitvec' = bitvec /\ tcbs' = [tcbs EXCEPT ![arg[k]] = "freed"]
      BY <1>1, <2>6 DEF Destroy, At, Goto, tidVars, TypeOK
    <3> QED
      BY <1>1, <2>1, <2>3, <3>1 DEF SlotsAgree, TypeOK
  <2>7. CASE ClearSlot(k)
    <3>1. /\ pc[k] = "clear" /\ pc'[k] = "user" /\ bitvec' = bitvec
          /\ tcbs' = [tcbs EXCEPT ![arg[k]] = "null"]
      BY <1>1, <2>7 DEF ClearSlot, At, Goto, Return, TypeOK
    <3> QED
      BY <1>1, <2>1, <2>3, <3>1 DEF SlotsAgree, TypeOK
  <2> QED
    BY <1>3, <2>4, <2>5, <2>6, <2>7
<1>4. CASE TeardownFinish(k)
  <2>1. /\ pc'[k] = "done" /\ bitvec' = {} /\ \A t \in Tid : tcbs'[t] = "null"
        /\ pc[k] = "torndown" /\ \A j \in KThread \ {MainK} : pc[j] = "exited"
    BY <1>1, <1>4 DEF TeardownFinish, At, Goto, TypeOK
  <2>2. \A j \in KThread : pc'[j] \in {"done", "exited"}
    BY <1>1, <2>1 DEF Others
  <2>3. \A t \in Tid : ~Creating(t)'
    BY <2>2 DEF Creating
  <2> QED
    BY <2>1, <2>2, <2>3 DEF SlotsAgree
<1>5. CASE /\ tcbs' = tcbs /\ bitvec' = bitvec
           /\ \/ pc' = pc /\ arg' = arg
              \/ /\ pc'[k] \notin {"create", "destroy", "clear"}
                 /\ pc[k] \notin {"create", "destroy", "clear"}
  <2>1. \A j \in KThread : pc'[j] \in {"create", "destroy", "clear"} =>
           pc[j] = pc'[j] /\ arg[j] = arg'[j]
    BY <1>1, <1>5 DEF Others
  <2>2. \A j \in KThread : pc[j] \in {"create", "destroy", "clear"} =>
           pc[j] = pc'[j] /\ arg[j] = arg'[j]
    BY <1>1, <1>5 DEF Others
  <2>3. \A t \in Tid : /\ Creating(t)' <=> Creating(t)
                       /\ Destroying(t)' <=> Destroying(t)
    BY <2>1, <2>2 DEF Creating, Destroying
  <2> QED
    BY <1>1, <1>5, <2>1, <2>3 DEF SlotsAgree
<1>6. ~CreateFails(k)
  BY DEF CreateFails
<1> QED
  BY <1>1, <1>2, <1>3, <1>4, <1>5, <1>6 DEF TidStep

\* Nobody but Parents creates or joins.
LEMMA ParentInvariant == Spec => []ParentInv
<1>1. Init => ParentInv
  BY DEF Init, ParentInv, Managing
<1>2. ThreadInv /\ ParentInv /\ [Next]_vars => ParentInv'
  <2> SUFFICES ASSUME ThreadInv, ParentInv, [Next]_vars PROVE ParentInv'
    OBVIOUS
  <2>1. ASSUME NEW k \in KThread, Step(k) PROVE ParentInv'
    BY <2>1, StepParents
  <2>2. ASSUME UNCHANGED vars PROVE ParentInv'
    BY <2>2 DEF ParentInv, vars
  <2> QED
    BY <2>1, <2>2 DEF Next, Ended
<1> QED
  BY <1>1, <1>2, ThreadInvariant, PTL DEF Spec

\* uthread_create never stores over the TCB of a thread, and uthread_join
\* never clears a slot that was filled again: in a program that never has
\* more threads than tcbs has room for, whose mallocs succeed, and which
\* creates and joins from one thread or runs on one kernel thread.
THEOREM TcbsAreKept ==
  ASSUME ~MallocFails, OneManager, Quota <= MaxThreads
  PROVE  Spec => []NoTcbLost
<1>1. Init => SlotsAgree /\ NoTcbLost
  <2> SUFFICES ASSUME Init PROVE SlotsAgree /\ NoTcbLost
    OBVIOUS
  <2> USE TidFacts DEF Init
  <2>1. \A t \in Tid : ~Creating(t) /\ ~Destroying(t)
    BY DEF Creating, Destroying
  <2> QED
    BY <2>1 DEF SlotsAgree, NoTcbLost
<1>2. ThreadInv /\ ParentInv /\ SlotsAgree /\ NoTcbLost /\ [Next]_vars
        => SlotsAgree' /\ NoTcbLost'
  <2> SUFFICES ASSUME ThreadInv, ParentInv, SlotsAgree, NoTcbLost, [Next]_vars
               PROVE  SlotsAgree' /\ NoTcbLost'
    OBVIOUS
  <2>1. ASSUME NEW k \in KThread, Step(k) PROVE SlotsAgree' /\ NoTcbLost'
    <3>1. SlotsAgree'
      BY <2>1, StepSlots
    <3>2. ManageStep(k)
      BY <2>1, StepManages DEF ThreadInv, LockInv
    <3>3. ~CreateOverwrites(k) /\ ~ClearLoses(k)
      BY DEF CreateOverwrites, ClearLoses, At, SlotsAgree
    <3>4. \A t \in Tid : JoinAborts(k, t) => fault' = "join_assert"
      BY DEF JoinAborts, Stop
    <3>5. NoTcbLost'
      BY <3>2, <3>3, <3>4 DEF ManageStep, NoTcbLost
    <3> QED
      BY <3>1, <3>5
  <2>2. ASSUME UNCHANGED vars PROVE SlotsAgree' /\ NoTcbLost'
    BY <2>2 DEF SlotsAgree, Creating, Destroying, NoTcbLost, vars
  <2> QED
    BY <2>1, <2>2 DEF Next, Ended
<1> QED
  BY <1>1, <1>2, ThreadInvariant, ParentInvariant, PTL DEF Spec

\* The assertion of uthread_join about the caller's own queue never fails in
\* a program in which at most one thread creates and joins, whatever the
\* number of kernel threads, also when tids run out or malloc fails.
THEOREM JoinAssertionHolds ==
  ASSUME OneParent
  PROVE  Spec => []JoinAssertHolds
<1>1. Init => CallerInv
  BY DEF Init, CallerInv, JoinAssertHolds
<1>2. ThreadInv /\ CallerInv /\ [Next]_vars => CallerInv'
  <2> SUFFICES ASSUME ThreadInv, CallerInv, [Next]_vars PROVE CallerInv'
    OBVIOUS
  <2>1. ASSUME NEW k \in KThread, Step(k) PROVE CallerInv'
    BY <2>1, StepCallers
  <2>2. ASSUME UNCHANGED vars PROVE CallerInv'
    BY <2>2 DEF CallerInv, JoinAssertHolds, vars
  <2> QED
    BY <2>1, <2>2 DEF Next, Ended
<1>3. CallerInv => JoinAssertHolds
  BY DEF CallerInv
<1> QED
  BY <1>1, <1>2, <1>3, ThreadInvariant, PTL DEF Spec

\* A program of which one thread creates and joins the others, never more
\* than tcbs has room for, and whose mallocs succeed: no TCB is lost and no
\* call aborts.
THEOREM FlatProgramsRun ==
  ASSUME ~MallocFails, OneParent, Quota <= MaxThreads
  PROVE  Spec => []NoFault
<1>1. Spec => []NoTcbLost
  BY TcbsAreKept DEF OneManager
<1>2. Spec => []JoinAssertHolds
  BY JoinAssertionHolds
<1>3. TypeOK /\ NoTcbLost /\ JoinAssertHolds => NoFault
  BY DEF TypeOK, NoTcbLost, JoinAssertHolds, NoFault
<1> QED
  BY <1>1, <1>2, <1>3, TypeCorrect, PTL
=============================================================================
