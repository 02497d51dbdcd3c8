--------------------------- MODULE UthreadProofs ----------------------------
(***************************************************************************)
(* Proofs about Uthread, for any number of kernel threads, threads and     *)
(* semaphores and whatever the program calls: types and locks, and that    *)
(* every thread is in exactly one place, which agrees with its state, its  *)
(* saved context and the locks that are held.                              *)
(*                                                                         *)
(* LockInv, the first inductive invariant, is the type invariant together  *)
(* with TcbsLockOwned.  The types are needed for ownership: a kernel thread *)
(* that resumes a context must not arrive inside a critical section, and   *)
(* one that comes back to schedule() without a task must not be taken for  *)
(* one that has still to release tcbs_lock.                                *)
(*                                                                         *)
(* ThreadInv, the second, adds PlaceInv, which says, of each of the five   *)
(* states, who may have a thread in that state: kernel threads (Held) and  *)
(* one kind of queue.  A thread has one state, so that only places of one  *)
(* kind have to be told apart.  Three things are needed besides: JoinInv   *)
(* gives every target of a join one joiner, which alone frees it; SemInv   *)
(* ties the saved contexts of semaphore waits to semaphores that exist;    *)
(* TearInv says that main is alone when it tears down.                     *)
(***************************************************************************)
EXTENDS UthreadInv, FiniteSetTheorems, SequenceTheorems, WellFoundedInduction,
        TLAPS

-----------------------------------------------------------------------------
(* Facts about the vocabulary.                                             *)

\* What a call's argument is at each location of the code.
LEMMA ArgFacts ==
  /\ \A at \in {"create", "ready_new", "rejoin", "reclaim", "destroy",
                "clear"} : ArgAt(at) = Tid
  /\ \A at \in {"sem_wait", "sem_relock", "sem_wake", "sem_ready"} :
        ArgAt(at) = Sem
  /\ ArgAt("teardown") = 0 .. NumK
  /\ \A at \in {"user", "start", "torndown"} \cup SchedPc : ArgAt(at) = {NULL}
BY DEF ArgAt, SchedPc

\* What the scheduler's queue is for each task.
LEMMA QueueFacts ==
  /\ QueueOf("JOIN") = Tid
  /\ QueueOf("SEM_WAIT") = Sem
  /\ \A t \in {"NONE", "YIELD", "EXIT", "TEARDOWN"} : QueueOf(t) = {NULL}
BY DEF QueueOf

\* The less-than relation on tids, as a set of pairs.
LessThan == {p \in Nat \X Nat : p[1] < p[2]}

\* It has no infinite descent: a least free one exists.
LEMMA LessThanWellFounded == IsWellFoundedOn(LessThan, Nat)
BY NatLessThanWellFounded DEF OpToRel, LessThan

\* get_next_tid returns a tid, also when none is free.
LEMMA NextTidType ==
  ASSUME bitvec \subseteq Tid
  PROVE  NextTid \in Tid
<1>1. 1 \in Tid
  BY ThreadsAssumption DEF Tid
<1>2. CASE bitvec # Tid
  <2> DEFINE Free == Tid \ bitvec
  <2>1. Free # {} /\ Free \subseteq Nat
    <3>1. \E t \in Tid : t \notin bitvec
      BY <1>2
    <3>2. Tid \subseteq Nat
      BY ThreadsAssumption DEF Tid
    <3> QED
      BY <3>1, <3>2
  <2>2. PICK x \in Free : \A y \in Free : ~(<<y, x>> \in LessThan)
    BY <2>1, LessThanWellFounded, WFMin
  <2>3. \A y \in Free : x <= y
    <3> TAKE y \in Free
    <3>1. x \in Nat /\ y \in Nat
      BY <2>1
    <3>2. ~(y < x)
      BY <2>2, <3>1 DEF LessThan
    <3> QED
      BY <3>1, <3>2
  <2>4. NextTid = CHOOSE t \in Tid \ bitvec : \A u \in Tid \ bitvec : t <= u
    BY <1>2 DEF NextTid
  <2> QED
    BY <2>3, <2>4
<1> QED
  BY <1>1, <1>2 DEF NextTid

\* The tids are numbers, main's among them, and no sentinel is a tid.
LEMMA TidFacts ==
  Tid \subseteq Nat /\ MAIN \in Tid /\ NULL \notin Tid /\ ExitAll \notin Tid
BY ThreadsAssumption, SentinelAssumption DEF Tid, MAIN

\* The number of kernel threads is a positive number.
LEMMA NumKType == NumK \in Nat /\ NumK >= 1
<1>1. Cardinality(KThread) \in Nat
  BY KThreadAssumption, FS_CardinalityType
<1>2. Cardinality(KThread) # 0
  BY KThreadAssumption, FS_EmptySet
<1> QED
  BY <1>1, <1>2 DEF NumK

-----------------------------------------------------------------------------
(* The type invariant.                                                     *)

\* The state that uthread_init leaves has the types.
LEMMA InitType == Init => TypeOK
<1> SUFFICES ASSUME Init PROVE TypeOK
  OBVIOUS
<1> USE SentinelAssumption, TidFacts DEF Init
<1>1. \A k \in KThread : LocalsOK(k)
  BY ArgFacts, QueueFacts DEF LocalsOK, OnStack, Handing, UserPc, SchedPc
<1>2. \A t \in Tid : ctx[t].arg \in ArgAt(ctx[t].at)
  BY ArgFacts
<1>3. counter \in [Sem -> 0 .. MaxCount]
  BY CountAssumption
<1>4. /\ join_queue \in [Tid -> Seq(Tid)] /\ sem_queue \in [Sem -> Seq(Tid)]
      /\ rqueue \in Seq(Tid \cup {ExitAll})
  OBVIOUS
<1>5. /\ bitvec \in SUBSET Tid /\ joining \in SUBSET Tid
      /\ tcbs \in [Tid -> {"null", "live", "freed"}]
      /\ state \in [Tid -> ThreadState]
      /\ ctx \in [Tid -> [at : ResumePc, arg : Tid \cup Sem \cup {NULL}]]
  BY DEF ThreadState, ResumePc
<1>6. /\ pc \in [KThread -> UserPc \cup SchedPc]
      /\ current_tid \in [KThread -> Tid \cup {NULL}]
      /\ task \in [KThread -> SchedTask]
  BY DEF UserPc, SchedPc, SchedTask
<1> QED
  BY <1>1, <1>2, <1>3, <1>4, <1>5, <1>6 DEF TypeOK

\* A library call begins: the step has the types.
LEMMA CallType ==
  ASSUME TypeOK, NEW k \in KThread, Call(k)
  PROVE  TypeOK'
<1> USE SentinelAssumption, ArgFacts, QueueFacts DEF TypeOK, LocalsOK, OnStack,
       Handing, UserPc, SchedPc, ThreadState, SchedTask, ResumePc,
       LockTcbs, UnlockTcbs, LockSem, UnlockSem, ReadyEnqueue
<1>1. CASE CreateTid(k)
  <2>1. NextTid \in Tid
    BY NextTidType
  <2> QED
    BY <1>1, <2>1, TidFacts
    DEF CreateTid, TakeTid, InParent, InUser, Goto, tcbVars, semVars, schedVars
<1>2. CASE Yield(k)
  BY <1>2 DEF Yield, InUser, SwitchToSched, Goto, SetState, tidVars, semVars
<1>3. CASE Exit(k)
  BY <1>3 DEF Exit, InUser, Goto, SetState, tidVars, semVars
<1>4. CASE Teardown(k)
  BY <1>4, NumKType
  DEF Teardown, InUser, Goto, tidVars, tcbVars, semVars, schedVars
<1>5. ASSUME NEW t \in Tid, JoinBlocks(k, t) PROVE TypeOK'
  BY <1>5, TidFacts
  DEF JoinBlocks, SwitchToSched, Goto, SetState, MayJoin, InParent, InUser,
      semVars
<1>6. ASSUME NEW t \in Tid, JoinAborts(k, t) PROVE TypeOK'
  BY <1>6 DEF JoinAborts, Stop, MayJoin, InParent, InUser
<1>7. ASSUME NEW t \in Tid, JoinFinished(k, t) PROVE TypeOK'
  BY <1>7, TidFacts
  DEF JoinFinished, Goto, MayJoin, InParent, InUser, tcbVars, semVars,
      schedVars
<1>8. ASSUME NEW s \in Sem, NEW v \in 0 .. MaxCount, SemInit(k, s, v)
      PROVE  TypeOK'
  BY <1>8, CountAssumption
  DEF SemInit, InParent, InUser, tidVars, tcbVars, schedVars
<1>9. ASSUME NEW s \in Sem, SemDestroy(k, s) PROVE TypeOK'
  BY <1>9 DEF SemDestroy, InParent, InUser, tidVars, tcbVars, schedVars
<1>10. ASSUME NEW s \in Sem, SemWait(k, s) PROVE TypeOK'
  BY <1>10 DEF SemWait, InUser, Goto, tidVars, tcbVars, schedVars
<1>11. ASSUME NEW s \in Sem, SemPost(k, s) PROVE TypeOK'
  BY <1>11, CountAssumption DEF SemPost, InUser, tidVars, tcbVars, schedVars
<1>12. ASSUME NEW s \in Sem, SemPostWakes(k, s) PROVE TypeOK'
  <2>1. sem_queue[s] \in Seq(Tid) /\ sem_queue[s] # <<>>
    BY <1>12 DEF SemPostWakes, HasWaiter
  <2>2. Head(sem_queue[s]) \in Tid /\ Tail(sem_queue[s]) \in Seq(Tid)
    BY <2>1, HeadTailProperties
  <2>3. counter' \in [Sem -> 0 .. MaxCount]
    BY <1>12, CountAssumption DEF SemPostWakes, HasWaiter
  <2> QED
    BY <1>12, <2>2, <2>3
    DEF SemPostWakes, InUser, Goto, tidVars, tcbVars, schedVars
<1> HIDE DEF TypeOK
<1> QED
  BY <1>1, <1>2, <1>3, <1>4, <1>5, <1>6, <1>7, <1>8, <1>9, <1>10, <1>11, <1>12
  DEF Call

\* A library call goes on.
LEMMA InCallType ==
  ASSUME TypeOK, NEW k \in KThread, InCall(k)
  PROVE  TypeOK'
<1> USE SentinelAssumption, ArgFacts, QueueFacts DEF TypeOK, LocalsOK, OnStack,
       Handing, UserPc, SchedPc, ThreadState, SchedTask, ResumePc,
       LockTcbs, UnlockTcbs, LockSem, UnlockSem, ReadyEnqueue
<1>1. CASE CreateTcb(k)
  BY <1>1 DEF CreateTcb, At, Goto, SetState, tidVars, semVars, schedVars
<1>2. CASE CreateOverwrites(k)
  BY <1>2 DEF CreateOverwrites, At, Stop
<1>3. CASE CreateFails(k)
  BY <1>3
  DEF CreateFails, At, Return, Goto, tidVars, tcbVars, semVars, schedVars
<1>4. CASE CreateReady(k)
  BY <1>4
  DEF CreateReady, At, Return, Goto, tidVars, tcbVars, semVars, schedVars
<1>5. CASE Trampoline(k)
  BY <1>5
  DEF Trampoline, At, Return, Goto, tidVars, tcbVars, semVars, schedVars
<1>6. CASE Rejoin(k)
  BY <1>6 DEF Rejoin, At, Goto, tidVars, tcbVars, semVars, schedVars
<1>7. CASE Reclaim(k)
  BY <1>7 DEF Reclaim, ReclaimTid, At, Goto, tcbVars, semVars, schedVars
<1>8. CASE Destroy(k)
  BY <1>8 DEF Destroy, At, Goto, tidVars, tcbVars, semVars, schedVars
<1>9. CASE ClearSlot(k)
  BY <1>9 DEF ClearSlot, At, Return, Goto, tcbVars, semVars, schedVars
<1>10. CASE ClearLoses(k)
  BY <1>10 DEF ClearLoses, At, Stop
<1>11. CASE SemRelock(k)
  BY <1>11 DEF SemRelock, At, Goto, tidVars, tcbVars, schedVars
<1>12. CASE SemDecrement(k)
  BY <1>12, CountAssumption
  DEF SemDecrement, CounterPositive, At, Return, Goto, tidVars, tcbVars, schedVars
<1>13. CASE SemBlock(k)
  BY <1>13 DEF SemBlock, At, SwitchToSched, Goto, SetState, tidVars, semVars
<1>14. CASE SemWake(k)
  BY <1>14 DEF SemWake, At, Goto, SetState, tidVars, semVars, schedVars
<1>15. CASE SemReady(k)
  BY <1>15, TidFacts
  DEF SemReady, At, Return, Goto, tidVars, tcbVars, schedVars
<1>16. CASE TeardownSignal(k)
  <2>1. arg[k] \in 0 .. NumK /\ arg[k] < NumK
    BY <1>16 DEF TeardownSignal, At
  <2>2. arg[k] + 1 \in Nat /\ arg[k] + 1 \in ArgAt("teardown")
    BY <2>1, NumKType
  <2> QED
    BY <1>16, <2>2
    DEF TeardownSignal, At, Goto, tidVars, tcbVars, semVars, schedVars
<1>17. CASE TeardownSwitch(k)
  BY <1>17 DEF TeardownSwitch, At, SwitchToSched, Goto, tidVars, semVars
<1>18. CASE TeardownFinish(k)
  BY <1>18 DEF TeardownFinish, At, Goto, tcbVars, semVars, schedVars
<1> HIDE DEF TypeOK
<1> QED
  BY <1>1, <1>2, <1>3, <1>4, <1>5, <1>6, <1>7, <1>8, <1>9, <1>10, <1>11,
     <1>12, <1>13, <1>14, <1>15, <1>16, <1>17, <1>18
  DEF InCall

\* The scheduler takes a step.
LEMMA ScheduleType ==
  ASSUME TypeOK, NEW k \in KThread, Schedule(k)
  PROVE  TypeOK'
<1> USE SentinelAssumption, ArgFacts, QueueFacts DEF TypeOK, LocalsOK, OnStack,
       Handing, UserPc, SchedPc, ThreadState, SchedTask, ResumePc,
       LockTcbs, UnlockTcbs, LockSem, UnlockSem, ReadyEnqueue
<1>1. CASE SchedNone(k)
  BY <1>1 DEF SchedNone, At, TaskDone, Goto, tidVars, tcbVars, semVars
<1>2. CASE SchedYield(k)
  BY <1>2 DEF SchedYield, At, TaskDone, Goto, tidVars, tcbVars, semVars
<1>3. CASE SchedExit(k)
  <2> DEFINE waiting == join_queue[current_tid[k]]
  <2>1. current_tid[k] \in Tid /\ waiting \in Seq(Tid)
    BY <1>3 DEF SchedExit, At
  <2>2. waiting # <<>> => Head(waiting) \in Tid /\ Tail(waiting) \in Seq(Tid)
    BY <2>1, HeadTailProperties
  <2>3. /\ state' \in [Tid -> ThreadState]
        /\ join_queue' \in [Tid -> Seq(Tid)]
        /\ rqueue' \in Seq(Tid \cup {ExitAll})
    <3>1. CASE waiting = <<>>
      BY <1>3, <3>1 DEF SchedExit, WakeJoiner
    <3>2. CASE waiting # <<>>
      <4>1. /\ join_queue' = [join_queue EXCEPT ![current_tid[k]] = Tail(@)]
            /\ state' = [state EXCEPT ![Head(waiting)] = "READY"]
            /\ rqueue' = Append(rqueue, Head(waiting))
        BY <1>3, <3>2 DEF SchedExit, WakeJoiner, TakeJoiner, SetState
      <4>2. join_queue' \in [Tid -> Seq(Tid)]
        BY <4>1, <2>1, <2>2, <3>2
      <4>3. rqueue' \in Seq(Tid \cup {ExitAll})
        BY <4>1, <2>2, <3>2
      <4> QED
        BY <4>1, <4>2, <4>3, <2>2, <3>2
    <3> QED
      BY <3>1, <3>2
  <2> QED
    BY <1>3, <2>3 DEF SchedExit, At, TaskDone, Goto, tidVars, semVars
<1>4. CASE SchedJoin(k)
  BY <1>4 DEF SchedJoin, At, TaskDone, Goto, tidVars, semVars
<1>5. CASE SchedSemWait(k)
  BY <1>5 DEF SchedSemWait, At, TaskDone, Goto, tidVars, tcbVars
<1>6. CASE SchedTeardown(k)
  BY <1>6 DEF SchedTeardown, At, SetState, TaskDone, Goto, tidVars, semVars
<1>7. CASE Dequeue(k)
  BY <1>7, HeadTailProperties
  DEF Dequeue, At, Goto, tidVars, tcbVars, semVars, schedVars
<1>8. CASE DequeueExitAll(k)
  <2>1. rqueue' \in Seq(Tid \cup {ExitAll})
    BY <1>8, HeadTailProperties DEF DequeueExitAll
  <2>2. exitall_sem' \in Nat
    BY <1>8 DEF DequeueExitAll
  <2>3. PICK to \in {"reap", "exited"} : Goto(k, to, NULL)
    BY <1>8 DEF DequeueExitAll
  <2>4. /\ pc[k] = "dequeue"
        /\ UNCHANGED <<tidVars, tcbs, tcbVars, tcbs_lock, semVars, current_tid,
                       schedVars, tcb, fault>>
    BY <1>8 DEF DequeueExitAll, At
  <2> QED
    BY <2>1, <2>2, <2>3, <2>4 DEF Goto, tidVars, tcbVars, semVars, schedVars
<1>9. CASE Reap(k)
  BY <1>9, NumKType DEF Reap, ReapCount, At, Goto, tidVars, tcbVars, semVars, schedVars
<1>10. CASE Dispatch(k)
  <2> DEFINE t == tcb[k]
  <2>1. t \in Tid /\ ctx[t].at \in ResumePc /\ ctx[t].arg \in ArgAt(ctx[t].at)
    BY <1>10 DEF Dispatch, At
  <2>2. ctx[t].arg \in Nat \cup Sem \cup {NULL}
    BY <2>1, TidFacts
  <2> QED
    BY <1>10, <2>1, <2>2, TidFacts
    DEF Dispatch, At, Goto, SetState, tidVars, semVars, schedVars
<1> HIDE DEF TypeOK
<1> QED
  BY <1>1, <1>2, <1>3, <1>4, <1>5, <1>6, <1>7, <1>8, <1>9, <1>10
  DEF Schedule

-----------------------------------------------------------------------------
(* Locks.                                                                  *)

\* The inductive invariant.
LockInv == TypeOK /\ TcbsLockOwned

\* A library call begins: what it locks it owns.
LEMMA CallLocks ==
  ASSUME LockInv, NEW k \in KThread, Call(k)
  PROVE  TcbsLockOwned'
<1> USE SentinelAssumption DEF LockInv, TypeOK, TcbsLockOwned,
       HoldsTcbsLock, Handing, LockTcbs, UnlockTcbs
<1>1. CASE CreateTid(k)
  BY <1>1 DEF CreateTid, TakeTid, InParent, InUser, Goto, tcbVars, semVars, schedVars
<1>2. CASE Yield(k)
  BY <1>2 DEF Yield, InUser, SwitchToSched, Goto, SetState, tidVars, semVars
<1>3. CASE Exit(k)
  BY <1>3 DEF Exit, InUser, Goto, SetState, tidVars, semVars
<1>4. CASE Teardown(k)
  BY <1>4 DEF Teardown, InUser, Goto, tidVars, tcbVars, semVars, schedVars
<1>5. ASSUME NEW t \in Tid, JoinBlocks(k, t) PROVE TcbsLockOwned'
  BY <1>5
  DEF JoinBlocks, SwitchToSched, Goto, SetState, MayJoin, InParent, InUser,
      semVars
<1>6. ASSUME NEW t \in Tid, JoinAborts(k, t) PROVE TcbsLockOwned'
  BY <1>6 DEF JoinAborts, Stop, MayJoin, InParent, InUser
<1>7. ASSUME NEW t \in Tid, JoinFinished(k, t) PROVE TcbsLockOwned'
  BY <1>7
  DEF JoinFinished, Goto, MayJoin, InParent, InUser, tcbVars, semVars,
      schedVars
<1>8. ASSUME NEW s \in Sem, NEW v \in 0 .. MaxCount, SemInit(k, s, v)
      PROVE  TcbsLockOwned'
  BY <1>8 DEF SemInit, InParent, InUser, tidVars, tcbVars, schedVars
<1>9. ASSUME NEW s \in Sem, SemDestroy(k, s) PROVE TcbsLockOwned'
  BY <1>9 DEF SemDestroy, InParent, InUser, tidVars, tcbVars, schedVars, InUse
<1>10. ASSUME NEW s \in Sem, SemWait(k, s) PROVE TcbsLockOwned'
  BY <1>10 DEF SemWait, InUser, Goto, tidVars, tcbVars, schedVars
<1>11. ASSUME NEW s \in Sem, SemPost(k, s) PROVE TcbsLockOwned'
  BY <1>11 DEF SemPost, InUser, tidVars, tcbVars, schedVars
<1>12. ASSUME NEW s \in Sem, SemPostWakes(k, s) PROVE TcbsLockOwned'
  BY <1>12 DEF SemPostWakes, InUser, Goto, tidVars, tcbVars, schedVars
<1> HIDE DEF TcbsLockOwned
<1> QED
  BY <1>1, <1>2, <1>3, <1>4, <1>5, <1>6, <1>7, <1>8, <1>9, <1>10, <1>11, <1>12
  DEF Call

\* A library call goes on.
LEMMA InCallLocks ==
  ASSUME LockInv, NEW k \in KThread, InCall(k)
  PROVE  TcbsLockOwned'
<1> USE SentinelAssumption DEF LockInv, TypeOK, TcbsLockOwned,
       HoldsTcbsLock, Handing, LockTcbs, UnlockTcbs
<1>1. CASE CreateTcb(k)
  BY <1>1 DEF CreateTcb, At, Goto, SetState, tidVars, semVars, schedVars
<1>2. CASE CreateOverwrites(k)
  BY <1>2 DEF CreateOverwrites, At, Stop
<1>3. CASE CreateFails(k)
  BY <1>3
  DEF CreateFails, At, Return, Goto, tidVars, tcbVars, semVars, schedVars
<1>4. CASE CreateReady(k)
  BY <1>4
  DEF CreateReady, At, Return, Goto, tidVars, tcbVars, semVars, schedVars
<1>5. CASE Trampoline(k)
  BY <1>5
  DEF Trampoline, At, Return, Goto, tidVars, tcbVars, semVars, schedVars
<1>6. CASE Rejoin(k)
  BY <1>6 DEF Rejoin, At, Goto, tidVars, tcbVars, semVars, schedVars
<1>7. CASE Reclaim(k)
  BY <1>7 DEF Reclaim, ReclaimTid, At, Goto, tcbVars, semVars, schedVars
<1>8. CASE Destroy(k)
  BY <1>8 DEF Destroy, At, Goto, tidVars, tcbVars, semVars, schedVars
<1>9. CASE ClearSlot(k)
  BY <1>9 DEF ClearSlot, At, Return, Goto, tcbVars, semVars, schedVars
<1>10. CASE ClearLoses(k)
  BY <1>10 DEF ClearLoses, At, Stop
<1>11. CASE SemRelock(k)
  BY <1>11 DEF SemRelock, At, Goto, tidVars, tcbVars, schedVars
<1>12. CASE SemDecrement(k)
  BY <1>12 DEF SemDecrement, CounterPositive, At, Return, Goto, tidVars, tcbVars, schedVars
<1>13. CASE SemBlock(k)
  BY <1>13 DEF SemBlock, At, SwitchToSched, Goto, SetState, tidVars, semVars
<1>14. CASE SemWake(k)
  BY <1>14 DEF SemWake, At, Goto, SetState, tidVars, semVars, schedVars
<1>15. CASE SemReady(k)
  BY <1>15 DEF SemReady, At, Return, Goto, tidVars, tcbVars, schedVars
<1>16. CASE TeardownSignal(k)
  BY <1>16 DEF TeardownSignal, At, Goto, tidVars, tcbVars, semVars, schedVars
<1>17. CASE TeardownSwitch(k)
  BY <1>17 DEF TeardownSwitch, At, SwitchToSched, Goto, tidVars, semVars
<1>18. CASE TeardownFinish(k)
  BY <1>18 DEF TeardownFinish, At, Goto, tcbVars, semVars, schedVars
<1> HIDE DEF TcbsLockOwned
<1> QED
  BY <1>1, <1>2, <1>3, <1>4, <1>5, <1>6, <1>7, <1>8, <1>9, <1>10, <1>11,
     <1>12, <1>13, <1>14, <1>15, <1>16, <1>17, <1>18
  DEF InCall

\* The scheduler releases what the call left to it, and only that.
LEMMA ScheduleLocks ==
  ASSUME LockInv, NEW k \in KThread, Schedule(k)
  PROVE  TcbsLockOwned'
<1> USE SentinelAssumption DEF LockInv, TypeOK, TcbsLockOwned,
       HoldsTcbsLock, Handing, LockTcbs, UnlockTcbs
<1>1. CASE SchedNone(k)
  BY <1>1 DEF SchedNone, At, TaskDone, Goto, tidVars, tcbVars, semVars
<1>2. CASE SchedYield(k)
  BY <1>2 DEF SchedYield, At, TaskDone, Goto, tidVars, tcbVars, semVars
<1>3. CASE SchedExit(k)
  BY <1>3 DEF SchedExit, At, TaskDone, Goto, tidVars, semVars
<1>4. CASE SchedJoin(k)
  BY <1>4 DEF SchedJoin, At, TaskDone, Goto, tidVars, semVars
<1>5. CASE SchedSemWait(k)
  BY <1>5 DEF SchedSemWait, At, TaskDone, Goto, tidVars, tcbVars
<1>6. CASE SchedTeardown(k)
  BY <1>6 DEF SchedTeardown, At, SetState, TaskDone, Goto, tidVars, semVars
<1>7. CASE Dequeue(k)
  BY <1>7 DEF Dequeue, At, Goto, tidVars, tcbVars, semVars, schedVars
<1>8. CASE DequeueExitAll(k)
  BY <1>8 DEF DequeueExitAll, At, Goto, tidVars, tcbVars, semVars, schedVars
<1>9. CASE Reap(k)
  BY <1>9 DEF Reap, ReapCount, At, Goto, LocalsOK, tidVars, tcbVars, semVars, schedVars
<1>10. CASE Dispatch(k)
  <2>1. tcb[k] \in Tid /\ ctx[tcb[k]].at \in ResumePc
    BY <1>10 DEF Dispatch, At, LocalsOK
  <2>2. ctx[tcb[k]].at \notin {"ready_new", "sched"}
    BY <2>1 DEF ResumePc
  <2> QED
    BY <1>10, <2>2
    DEF Dispatch, At, Goto, SetState, tidVars, semVars, schedVars
<1> HIDE DEF TcbsLockOwned
<1> QED
  BY <1>1, <1>2, <1>3, <1>4, <1>5, <1>6, <1>7, <1>8, <1>9, <1>10
  DEF Schedule

\* The invariant is preserved by every step.
LEMMA NextLocks == LockInv /\ [Next]_vars => LockInv'
<1> SUFFICES ASSUME LockInv, [Next]_vars PROVE LockInv'
  OBVIOUS
<1>1. ASSUME NEW k \in KThread, Step(k) PROVE LockInv'
  <2>1. TypeOK'
    BY <1>1, CallType, InCallType, ScheduleType DEF LockInv, Step
  <2>2. TcbsLockOwned'
    BY <1>1, CallLocks, InCallLocks, ScheduleLocks DEF Step
  <2> QED
    BY <2>1, <2>2 DEF LockInv
<1>2. CASE UNCHANGED vars
  <2>1. TypeOK'
    BY <1>2 DEF LockInv, TypeOK, LocalsOK, OnStack, Handing, vars
  <2>2. TcbsLockOwned'
    BY <1>2 DEF LockInv, TcbsLockOwned, HoldsTcbsLock, Handing, vars
  <2> QED
    BY <2>1, <2>2 DEF LockInv
<1> QED
  BY <1>1, <1>2 DEF Next, Ended

-----------------------------------------------------------------------------
(* Types and the lock of tcbs: the theorems.                               *)

\* LockInv holds in every reachable state.
THEOREM LockInvariant == Spec => []LockInv
<1>1. Init => LockInv
  BY InitType DEF Init, LockInv, TcbsLockOwned, HoldsTcbsLock, Handing
<1> QED
  BY <1>1, NextLocks, PTL DEF Spec

\* The state of uthread.c has its types, among them: a context is resumed
\* with the argument its call needs, a kernel thread that runs a call has a
\* current thread, and sched_info names a queue exactly when its task does.
THEOREM TypeCorrect == Spec => []TypeOK
BY LockInvariant, PTL DEF LockInv

\* Whoever is between lock_tcbs and unlock_tcbs, on either stack, owns the
\* lock.
THEOREM LockOwnership == Spec => []TcbsLockOwned
BY LockInvariant, PTL DEF LockInv

\* At most one kernel thread is in a critical section of tcbs_lock.
MutualExclusion ==
  \A j, k \in KThread : HoldsTcbsLock(j) /\ HoldsTcbsLock(k) => j = k

\* Two kernel threads are never between lock_tcbs and unlock_tcbs at a time.
THEOREM TcbsLockExcludes == Spec => []MutualExclusion
<1>1. LockInv => MutualExclusion
  BY DEF LockInv, TcbsLockOwned, MutualExclusion
<1> QED
  BY <1>1, LockInvariant, PTL

-----------------------------------------------------------------------------
(* Places: the inductive invariant.                                        *)

\* Thread t is in queue q, and no thread is in q twice (&exitall may be).
In(q, t) == \E i \in DOMAIN q : q[i] = t
Once(q)  == \A i, j \in DOMAIN q : q[i] = q[j] /\ q[i] \in Tid => i = j

\* Kernel thread k has charge of thread t, which is in state c: it runs it,
\* finishes a call it made, or has taken it from a queue or made it anew.
Held(k, t, c) ==
  \/ /\ c = "RUNNING" /\ current_tid[k] = t
     /\ OnStack(k) \/ (pc[k] = "sched" /\ task[k] = "TEARDOWN")
  \/ /\ c = "READY"
     /\ \/ pc[k] = "sched" /\ task[k] = "YIELD" /\ current_tid[k] = t
        \/ pc[k] \in {"dispatch", "sem_ready"} /\ tcb[k] = t
        \/ pc[k] = "ready_new" /\ arg[k] = t
  \/ /\ c = "WAITING_JOIN"
     /\ pc[k] = "sched" /\ task[k] = "JOIN" /\ current_tid[k] = t
  \/ /\ c = "WAITING_SEM"
     /\ \/ pc[k] = "sched" /\ task[k] = "SEM_WAIT" /\ current_tid[k] = t
        \/ pc[k] = "sem_wake" /\ tcb[k] = t
  \/ /\ c = "FINISHED"
     /\ pc[k] = "sched" /\ task[k] = "EXIT" /\ current_tid[k] = t

\* A thread that is held is allocated and in that state, and held once.
HeldSound ==
  /\ \A k \in KThread, t \in Tid, c \in ThreadState :
        Held(k, t, c) => tcbs[t] = "live" /\ state[t] = c
  /\ \A j, k \in KThread, t \in Tid, c \in ThreadState :
        Held(j, t, c) /\ Held(k, t, c) => j = k

\* The ready queue holds READY threads that nobody else has.
ReadySound ==
  /\ Once(rqueue)
  /\ \A t \in Tid : In(rqueue, t) =>
        /\ tcbs[t] = "live" /\ state[t] = "READY"
        /\ \A k \in KThread : ~Held(k, t, "READY")

\* A join queue holds waiting threads whose context goes on with that join.
JoinSound ==
  /\ \A u \in Tid : Once(join_queue[u])
  /\ \A t, u \in Tid : In(join_queue[u], t) =>
        /\ tcbs[t] = "live" /\ state[t] = "WAITING_JOIN"
        /\ ctx[t] = [at |-> "rejoin", arg |-> u]
        /\ \A k \in KThread : ~Held(k, t, "WAITING_JOIN")

\* The same for the queue of a semaphore.
SemSound ==
  /\ \A s \in Sem : Once(sem_queue[s])
  /\ \A s \in Sem, t \in Tid : In(sem_queue[s], t) =>
        /\ tcbs[t] = "live" /\ state[t] = "WAITING_SEM"
        /\ ctx[t] = [at |-> "sem_relock", arg |-> s]
        /\ \A k \in KThread : ~Held(k, t, "WAITING_SEM")

\* No thread that has not finished is nowhere; a thread that waits is in
\* the queue its context names.
Found ==
  \A t \in Tid : tcbs[t] = "live" /\ state[t] # "FINISHED" =>
    \/ \E k \in KThread, c \in ThreadState : Held(k, t, c)
    \/ state[t] = "READY" /\ In(rqueue, t)
    \/ /\ state[t] = "WAITING_JOIN"
       /\ \E u \in Tid : In(join_queue[u], t)
    \/ /\ state[t] = "WAITING_SEM"
       /\ \E s \in Sem : In(sem_queue[s], t)

\* A thread on its way into or out of a queue has the context of that queue,
\* and the semaphore's lock is held.
HeldContext ==
  \A k \in KThread, t \in Tid :
    /\ Held(k, t, "WAITING_JOIN") =>
          ctx[t] = [at |-> "rejoin", arg |-> queue[k]]
    /\ Held(k, t, "WAITING_SEM") =>
          \E s \in Sem : /\ HoldsSemLock(k, s)
                         /\ ctx[t] = [at |-> "sem_relock", arg |-> s]

PlaceInv ==
  HeldSound /\ ReadySound /\ JoinSound /\ SemSound /\ Found /\ HeldContext

\* Thread u has finished and its exit is complete.
Gone(u) == /\ tcbs[u] = "live" /\ state[u] = "FINISHED"
           /\ \A k \in KThread : ~Held(k, u, "FINISHED")

\* k is in the last part of uthread_join(u).
Claims(k, u) == /\ pc[k] \in {"rejoin", "reclaim", "destroy", "clear"}
                /\ arg[k] = u

\* Thread t will be there when it runs again.
Awaits(t, u) == /\ tcbs[t] = "live" /\ state[t] \in {"READY", "WAITING_JOIN"}
                /\ ctx[t] = [at |-> "rejoin", arg |-> u]

\* A target has one joiner; it stays allocated until that one frees it.
JoinInv ==
  /\ \A k \in KThread, u \in Tid : Claims(k, u) =>
        /\ u \in joining
        /\ \A j \in KThread : Claims(j, u) => j = k
        /\ \A t \in Tid : ~Awaits(t, u)
        /\ pc[k] # "clear" => Gone(u)
  /\ \A t, u \in Tid : Awaits(t, u) =>
        /\ u \in joining
        /\ \A v \in Tid : Awaits(v, u) => v = t
        /\ state[t] = "READY" => Gone(u)
        /\ state[t] = "WAITING_JOIN" => tcbs[u] = "live" /\ ~Gone(u)

\* A call on a semaphore is made, or goes on, while the semaphore exists.
SemInv ==
  /\ SemLockOwned
  /\ \A s \in Sem : s \notin sem_inited =>
        sem_lock[s] = NULL /\ sem_queue[s] = <<>>
  /\ \A k \in KThread : pc[k] = "sem_relock" => arg[k] \in sem_inited
  /\ \A t \in Tid :
        tcbs[t] = "live" /\ state[t] = "READY" /\ ctx[t].at = "sem_relock"
           => ctx[t].arg \in sem_inited

\* Main is tearing the library down, wherever it is.
Tearing ==
  \/ \E k \in KThread : pc[k] \in {"teardown", "torndown"} \/ task[k] = "TEARDOWN"
  \/ state[MAIN] = "READY" /\ ctx[MAIN].at = "torndown"

TearInv ==
  /\ \A k \in KThread :
        (pc[k] \in {"teardown", "torndown"} \/ task[k] = "TEARDOWN")
           => current_tid[k] = MAIN
  /\ \A k \in KThread : task[k] = "TEARDOWN" => ctx[MAIN].at = "torndown"
  /\ \A t \in Tid : ctx[t].at = "torndown" => t = MAIN
  /\ Tearing => \A t \in Tid \ {MAIN} :
                   tcbs[t] = "live" => state[t] = "FINISHED"

\* The inductive invariant.
ThreadInv == LockInv /\ PlaceInv /\ JoinInv /\ SemInv /\ TearInv

-----------------------------------------------------------------------------
(* Facts about queues.                                                     *)

\* Nobody is in an empty queue.
LEMMA EmptyQueue == Once(<<>>) /\ \A t : ~In(<<>>, t)
BY DEF Once, In

\* Who is in a queue after an append, and that nobody is in it twice.
LEMMA InAppend ==
  ASSUME NEW S, NEW q \in Seq(S), NEW e \in S
  PROVE  /\ \A t : In(Append(q, e), t) <=> In(q, t) \/ t = e
         /\ Once(q) /\ (e \in Tid => ~In(q, e)) => Once(Append(q, e))
<1> DEFINE r == Append(q, e)
<1>1. /\ Len(q) \in Nat
      /\ DOMAIN q = 1 .. Len(q) /\ DOMAIN r = 1 .. Len(q) + 1
      /\ \A i \in DOMAIN q : i \in DOMAIN r /\ r[i] = q[i]
      /\ Len(q) + 1 \in DOMAIN r /\ r[Len(q) + 1] = e
      /\ \A i \in DOMAIN r : i \in DOMAIN q \/ i = Len(q) + 1
  OBVIOUS
<1> HIDE DEF r
<1>2. \A t : In(r, t) <=> In(q, t) \/ t = e
  BY <1>1 DEF In
<1>3. Once(q) /\ (e \in Tid => ~In(q, e)) => Once(r)
  BY <1>1 DEF In, Once
<1> QED
  BY <1>2, <1>3 DEF r

\* Who is in a queue after its head is taken.
LEMMA InTail ==
  ASSUME NEW S, NEW q \in Seq(S), q # <<>>
  PROVE  /\ Head(q) \in S /\ Tail(q) \in Seq(S)
         /\ \A t : In(q, t) <=> t = Head(q) \/ In(Tail(q), t)
         /\ Once(q) => /\ Once(Tail(q))
                       /\ Head(q) \in Tid => ~In(Tail(q), Head(q))
<1> DEFINE r == Tail(q)
           h == Head(q)
<1>1. /\ Len(q) \in Nat /\ Len(q) >= 1
      /\ DOMAIN q = 1 .. Len(q) /\ DOMAIN r = 1 .. Len(q) - 1
      /\ \A i \in DOMAIN r : i \in Nat /\ i + 1 \in DOMAIN q /\ r[i] = q[i + 1]
      /\ 1 \in DOMAIN q /\ h = q[1]
      /\ \A i \in DOMAIN q : i = 1 \/ (i - 1 \in DOMAIN r /\ i = (i - 1) + 1)
  BY HeadTailProperties, EmptySeq, LenProperties
<1>2. h \in S /\ r \in Seq(S)
  BY HeadTailProperties
<1> HIDE DEF r, h
<1>3. \A t : In(q, t) <=> t = h \/ In(r, t)
  BY <1>1 DEF In
<1>4. Once(q) => Once(r) /\ (h \in Tid => ~In(r, h))
  BY <1>1 DEF In, Once
<1> QED
  BY <1>2, <1>3, <1>4 DEF r, h

-----------------------------------------------------------------------------
(* How a thread moves.  Every step of the library leaves the threads where *)
(* they are, or moves one in one of the ways that follow; the lemmas say   *)
(* that PlaceInv, but for HeldContext, survives the move.                  *)

Sound == HeldSound /\ ReadySound /\ JoinSound /\ SemSound /\ Found

\* What a step does to the threads that kernel threads hold: nothing, or ...
HeldSame == \A j \in KThread, t \in Tid, e \in ThreadState :
               Held(j, t, e)' <=> Held(j, t, e)

\* ... k holds u as before, now in state d ...
HeldAs(k, u, d) ==
  \A j \in KThread, t \in Tid, e \in ThreadState :
    Held(j, t, e)' <=> IF j = k /\ t = u THEN e = d ELSE Held(j, t, e)

\* ... k no longer holds u ...
HeldLess(k, u) ==
  \A j \in KThread, t \in Tid, e \in ThreadState :
    Held(j, t, e)' <=> Held(j, t, e) /\ ~(j = k /\ t = u)

\* ... k comes to hold u, in state c.
HeldMore(k, u, c) ==
  \A j \in KThread, t \in Tid, e \in ThreadState :
    Held(j, t, e)' <=> Held(j, t, e) \/ (j = k /\ t = u /\ e = c)

\* Nobody moves.  A slot of tcbs may change between NULL and dangling.
LEMMA StayPut ==
  ASSUME TypeOK, Sound,
         UNCHANGED <<state, join_queue, sem_queue, ctx>>,
         \A t \in Tid : tcbs'[t] = "live" <=> tcbs[t] = "live",
         Once(rqueue)',
         \A t \in Tid : In(rqueue, t)' <=> In(rqueue, t),
         HeldSame
  PROVE  Sound'
<1>1. \A t \in Tid : state[t] \in ThreadState
  BY DEF TypeOK
<1>2. {"READY", "WAITING_JOIN", "WAITING_SEM"} \subseteq ThreadState
  BY DEF ThreadState
<1> USE <1>1, <1>2 DEF Sound, HeldSame
<1>3. HeldSound'
  BY DEF HeldSound
<1>4. ReadySound'
  BY DEF ReadySound
<1>5. JoinSound'
  BY DEF JoinSound
<1>6. SemSound'
  BY DEF SemSound
<1>7. Found'
  BY DEF Found
<1> QED
  BY <1>3, <1>4, <1>5, <1>6, <1>7

\* A thread that is held has one holder and is in no queue.
LEMMA HeldNotQueued ==
  ASSUME Sound, NEW k \in KThread, NEW u \in Tid, NEW c \in ThreadState,
         Held(k, u, c)
  PROVE  /\ tcbs[u] = "live" /\ state[u] = c
         /\ \A j \in KThread, e \in ThreadState : Held(j, u, e) => j = k /\ e = c
         /\ ~In(rqueue, u)
         /\ \A v \in Tid : ~In(join_queue[v], u)
         /\ \A s \in Sem : ~In(sem_queue[s], u)
<1>1. /\ tcbs[u] = "live" /\ state[u] = c
      /\ \A j \in KThread, e \in ThreadState : Held(j, u, e) => j = k /\ e = c
  BY DEF Sound, HeldSound
<1>2. ~In(rqueue, u)
  BY <1>1 DEF Sound, ReadySound
<1>3. ASSUME NEW v \in Tid, In(join_queue[v], u) PROVE FALSE
  <2>1. state[u] = "WAITING_JOIN" /\ ~Held(k, u, "WAITING_JOIN")
    BY <1>3 DEF Sound, JoinSound
  <2> QED
    BY <1>1, <2>1
<1>4. ASSUME NEW s \in Sem, In(sem_queue[s], u) PROVE FALSE
  <2>1. state[u] = "WAITING_SEM" /\ ~Held(k, u, "WAITING_SEM")
    BY <1>4 DEF Sound, SemSound
  <2> QED
    BY <1>1, <2>1
<1> QED
  BY <1>1, <1>2, <1>3, <1>4

\* k keeps thread u and changes its state.
LEMMA MoveHeld ==
  ASSUME TypeOK, Sound,
         NEW k \in KThread, NEW u \in Tid, NEW c \in ThreadState,
         NEW d \in ThreadState, Held(k, u, c),
         state' = [state EXCEPT ![u] = d],
         UNCHANGED <<tcbs, rqueue, join_queue, sem_queue>>,
         \A t \in Tid \ {u} : ctx'[t] = ctx[t],
         HeldAs(k, u, d)
  PROVE  Sound'
<1>1. \A t \in Tid : /\ state[t] \in ThreadState
                     /\ state'[t] = IF t = u THEN d ELSE state[t]
  BY DEF TypeOK
<1>2. {"READY", "WAITING_JOIN", "WAITING_SEM"} \subseteq ThreadState
  BY DEF ThreadState
<1> USE <1>1, <1>2, HeldNotQueued DEF Sound, HeldAs
<1>5. HeldSound'
  BY DEF HeldSound
<1>6. ReadySound'
  BY DEF ReadySound
<1>7. JoinSound'
  BY DEF JoinSound
<1>8. SemSound'
  BY DEF SemSound
<1>9. Found'
  BY DEF Found
<1> QED
  BY <1>5, <1>6, <1>7, <1>8, <1>9

\* k gives u to the ready queue.
LEMMA MoveToReady ==
  ASSUME TypeOK, Sound,
         NEW k \in KThread, NEW u \in Tid, NEW c \in ThreadState, Held(k, u, c),
         state' = [state EXCEPT ![u] = "READY"],
         rqueue' = Append(rqueue, u),
         UNCHANGED <<tcbs, ctx, join_queue, sem_queue>>,
         HeldLess(k, u)
  PROVE  Sound'
<1>1. \A t \in Tid : /\ state[t] \in ThreadState
                     /\ state'[t] = IF t = u THEN "READY" ELSE state[t]
  BY DEF TypeOK
<1>2. {"READY", "WAITING_JOIN", "WAITING_SEM"} \subseteq ThreadState
  BY DEF ThreadState
<1>3. /\ tcbs[u] = "live" /\ state[u] = c
      /\ \A j \in KThread, e \in ThreadState : Held(j, u, e) => j = k /\ e = c
      /\ ~In(rqueue, u)
      /\ \A v \in Tid : ~In(join_queue[v], u)
      /\ \A s \in Sem : ~In(sem_queue[s], u)
  BY HeldNotQueued
<1>4. Once(rqueue)' /\ \A t : In(rqueue, t)' <=> In(rqueue, t) \/ t = u
  BY <1>3, InAppend DEF TypeOK, Sound, ReadySound
<1> USE <1>1, <1>2, <1>3, <1>4 DEF Sound, HeldLess
<1>5. HeldSound'
  BY DEF HeldSound
<1>6. ReadySound'
  BY DEF ReadySound
<1>7. JoinSound'
  BY DEF JoinSound
<1>8. SemSound'
  BY DEF SemSound
<1>9. Found'
  BY DEF Found
<1> QED
  BY <1>5, <1>6, <1>7, <1>8, <1>9

\* k puts u into the queue of the thread it waits for.
LEMMA MoveToJoin ==
  ASSUME TypeOK, Sound,
         NEW k \in KThread, NEW u \in Tid, NEW v \in Tid,
         Held(k, u, "WAITING_JOIN"),
         ctx[u] = [at |-> "rejoin", arg |-> v],
         join_queue' = [join_queue EXCEPT ![v] = Append(@, u)],
         UNCHANGED <<tcbs, state, ctx, rqueue, sem_queue>>,
         HeldLess(k, u)
  PROVE  Sound'
<1>1. {"READY", "WAITING_JOIN", "WAITING_SEM"} \subseteq ThreadState
  BY DEF ThreadState
<1>2. /\ tcbs[u] = "live" /\ state[u] = "WAITING_JOIN"
      /\ \A j \in KThread, e \in ThreadState :
            Held(j, u, e) => j = k /\ e = "WAITING_JOIN"
      /\ ~In(rqueue, u)
      /\ \A w \in Tid : ~In(join_queue[w], u)
      /\ \A s \in Sem : ~In(sem_queue[s], u)
  BY <1>1, HeldNotQueued
<1>3. ASSUME NEW w \in Tid
      PROVE  /\ Once(join_queue[w])'
             /\ \A t : In(join_queue[w], t)' <=>
                         In(join_queue[w], t) \/ (w = v /\ t = u)
  <2>1. /\ join_queue[w] \in Seq(Tid)
        /\ join_queue'[w] = IF w = v THEN Append(join_queue[w], u)
                                     ELSE join_queue[w]
    BY DEF TypeOK
  <2> QED
    BY <1>2, <2>1, InAppend DEF Sound, JoinSound
<1> USE <1>1, <1>2, <1>3 DEF Sound, HeldLess
<1>4. HeldSound'
  BY DEF HeldSound
<1>5. ReadySound'
  BY DEF ReadySound
<1>6. JoinSound'
  BY DEF JoinSound
<1>7. SemSound'
  BY DEF SemSound
<1>8. Found'
  BY DEF Found
<1> QED
  BY <1>4, <1>5, <1>6, <1>7, <1>8

\* k puts u into the queue of a semaphore.
LEMMA MoveToSem ==
  ASSUME TypeOK, Sound,
         NEW k \in KThread, NEW u \in Tid, NEW s \in Sem,
         Held(k, u, "WAITING_SEM"),
         ctx[u] = [at |-> "sem_relock", arg |-> s],
         sem_queue' = [sem_queue EXCEPT ![s] = Append(@, u)],
         UNCHANGED <<tcbs, state, ctx, rqueue, join_queue>>,
         HeldLess(k, u)
  PROVE  Sound'
<1>1. {"READY", "WAITING_JOIN", "WAITING_SEM"} \subseteq ThreadState
  BY DEF ThreadState
<1>2. /\ tcbs[u] = "live" /\ state[u] = "WAITING_SEM"
      /\ \A j \in KThread, e \in ThreadState :
            Held(j, u, e) => j = k /\ e = "WAITING_SEM"
      /\ ~In(rqueue, u)
      /\ \A w \in Tid : ~In(join_queue[w], u)
      /\ \A r \in Sem : ~In(sem_queue[r], u)
  BY <1>1, HeldNotQueued
<1>3. ASSUME NEW r \in Sem
      PROVE  /\ Once(sem_queue[r])'
             /\ \A t : In(sem_queue[r], t)' <=>
                         In(sem_queue[r], t) \/ (r = s /\ t = u)
  <2>1. /\ sem_queue[r] \in Seq(Tid)
        /\ sem_queue'[r] = IF r = s THEN Append(sem_queue[r], u)
                                    ELSE sem_queue[r]
    BY DEF TypeOK
  <2> QED
    BY <1>2, <2>1, InAppend DEF Sound, SemSound
<1> USE <1>1, <1>2, <1>3 DEF Sound, HeldLess
<1>4. HeldSound'
  BY DEF HeldSound
<1>5. ReadySound'
  BY DEF ReadySound
<1>6. JoinSound'
  BY DEF JoinSound
<1>7. SemSound'
  BY DEF SemSound
<1>8. Found'
  BY DEF Found
<1> QED
  BY <1>4, <1>5, <1>6, <1>7, <1>8

\* k takes a thread from the ready queue.
LEMMA TakeReady ==
  ASSUME TypeOK, Sound, NEW k \in KThread, NEW u \in Tid,
         rqueue # <<>>, Head(rqueue) = u,
         rqueue' = Tail(rqueue),
         UNCHANGED <<tcbs, state, ctx, join_queue, sem_queue>>,
         HeldMore(k, u, "READY")
  PROVE  Sound'
<1>1. {"READY", "WAITING_JOIN", "WAITING_SEM"} \subseteq ThreadState
  BY DEF ThreadState
<1>2. /\ Once(rqueue)'
      /\ \A t : In(rqueue, t) <=> In(rqueue, t)' \/ t = u
      /\ ~In(rqueue, u)'
  BY InTail DEF TypeOK, Sound, ReadySound
<1>3. /\ tcbs[u] = "live" /\ state[u] = "READY"
      /\ \A j \in KThread : ~Held(j, u, "READY")
  BY <1>2 DEF Sound, ReadySound
<1> USE <1>1, <1>2, <1>3 DEF Sound, HeldMore
<1>4. HeldSound'
  BY DEF HeldSound
<1>5. ReadySound'
  BY DEF ReadySound
<1>6. JoinSound'
  BY DEF JoinSound
<1>7. SemSound'
  BY DEF SemSound
<1>8. Found'
  <2>1. Held(k, u, "READY")'
    BY <1>1
  <2>2. ASSUME NEW t \in Tid, t # u PROVE In(rqueue, t)' <=> In(rqueue, t)
    BY <1>2, <2>2
  <2> QED
    BY <1>1, <2>1, <2>2 DEF Found
<1> QED
  BY <1>4, <1>5, <1>6, <1>7, <1>8

\* k takes a thread from the queue of a semaphore.
LEMMA TakeSem ==
  ASSUME TypeOK, Sound, NEW k \in KThread, NEW s \in Sem, NEW u \in Tid,
         sem_queue[s] # <<>>, Head(sem_queue[s]) = u,
         sem_queue' = [sem_queue EXCEPT ![s] = Tail(@)],
         UNCHANGED <<tcbs, state, ctx, rqueue, join_queue>>,
         HeldMore(k, u, "WAITING_SEM")
  PROVE  Sound'
<1>1. {"READY", "WAITING_JOIN", "WAITING_SEM"} \subseteq ThreadState
  BY DEF ThreadState
<1>2. ASSUME NEW r \in Sem
      PROVE  /\ Once(sem_queue[r])'
             /\ \A t : In(sem_queue[r], t) <=>
                         In(sem_queue[r], t)' \/ (r = s /\ t = u)
             /\ r = s => ~In(sem_queue[r], u)'
  <2>1. /\ sem_queue[r] \in Seq(Tid)
        /\ sem_queue'[r] = IF r = s THEN Tail(sem_queue[r]) ELSE sem_queue[r]
    BY DEF TypeOK
  <2> QED
    BY <2>1, InTail DEF Sound, SemSound
<1>3. /\ tcbs[u] = "live" /\ state[u] = "WAITING_SEM"
      /\ ctx[u] = [at |-> "sem_relock", arg |-> s]
      /\ \A j \in KThread : ~Held(j, u, "WAITING_SEM")
  <2>1. In(sem_queue[s], u)
    BY <1>2
  <2> QED
    BY <2>1 DEF Sound, SemSound
<1>4. ASSUME NEW r \in Sem, In(sem_queue[r], u) PROVE r = s
  <2>1. ctx[u] = [at |-> "sem_relock", arg |-> r]
    BY <1>4 DEF Sound, SemSound
  <2> QED
    BY <1>3, <2>1
<1> USE <1>1, <1>2, <1>3, <1>4 DEF Sound, HeldMore
<1>5. HeldSound'
  BY DEF HeldSound
<1>6. ReadySound'
  BY DEF ReadySound
<1>7. JoinSound'
  BY DEF JoinSound
<1>8. SemSound'
  <2>1. ASSUME NEW r \in Sem, NEW t \in Tid, In(sem_queue[r], t)'
        PROVE  t # u /\ In(sem_queue[r], t)
    <3>1. In(sem_queue[r], t)
      BY <1>2, <2>1
    <3>2. t = u => r = s
      BY <1>4, <3>1
    <3> QED
      BY <1>2, <2>1, <3>1, <3>2
  <2> QED
    BY <1>2, <2>1 DEF SemSound
<1>9. Found'
  <2>1. Held(k, u, "WAITING_SEM")'
    BY <1>1
  <2>2. ASSUME NEW r \in Sem, NEW t \in Tid, t # u, In(sem_queue[r], t)
        PROVE  In(sem_queue[r], t)'
    BY <1>2, <2>2
  <2> QED
    BY <1>1, <2>1, <2>2 DEF Found
<1> QED
  BY <1>5, <1>6, <1>7, <1>8, <1>9

\* A thread's exit is complete, and nobody was waiting for it.
LEMMA DropFinished ==
  ASSUME Sound, NEW k \in KThread, NEW v \in Tid, Held(k, v, "FINISHED"),
         UNCHANGED <<tcbs, state, ctx, rqueue, join_queue, sem_queue>>,
         HeldLess(k, v)
  PROVE  Sound'
<1>1. {"READY", "WAITING_JOIN", "WAITING_SEM", "FINISHED"} \subseteq ThreadState
  BY DEF ThreadState
<1>2. state[v] = "FINISHED"
  BY <1>1 DEF Sound, HeldSound
<1> USE <1>1, <1>2 DEF Sound, HeldLess
<1>3. HeldSound'
  BY DEF HeldSound
<1>4. ReadySound'
  BY DEF ReadySound
<1>5. JoinSound'
  BY DEF JoinSound
<1>6. SemSound'
  BY DEF SemSound
<1>7. Found'
  BY DEF Found
<1> QED
  BY <1>3, <1>4, <1>5, <1>6, <1>7

\* A thread's exit is complete, and the thread that waited to join it goes
\* to the ready queue.
LEMMA DropAndWake ==
  ASSUME TypeOK, Sound,
         NEW k \in KThread, NEW v \in Tid, Held(k, v, "FINISHED"),
         NEW u \in Tid, join_queue[v] # <<>>, Head(join_queue[v]) = u,
         join_queue' = [join_queue EXCEPT ![v] = Tail(@)],
         state' = [state EXCEPT ![u] = "READY"],
         rqueue' = Append(rqueue, u),
         UNCHANGED <<tcbs, ctx, sem_queue>>,
         HeldLess(k, v)
  PROVE  Sound'
<1>1. {"READY", "WAITING_JOIN", "WAITING_SEM", "FINISHED"} \subseteq ThreadState
  BY DEF ThreadState
<1>2. ASSUME NEW w \in Tid
      PROVE  /\ Once(join_queue[w])'
             /\ \A t : In(join_queue[w], t) <=>
                         In(join_queue[w], t)' \/ (w = v /\ t = u)
             /\ w = v => ~In(join_queue[w], u)'
  <2>1. /\ join_queue[w] \in Seq(Tid)
        /\ join_queue'[w] = IF w = v THEN Tail(join_queue[w])
                                     ELSE join_queue[w]
    BY DEF TypeOK
  <2> QED
    BY <2>1, InTail DEF Sound, JoinSound
<1>3. /\ tcbs[u] = "live" /\ state[u] = "WAITING_JOIN"
      /\ ctx[u] = [at |-> "rejoin", arg |-> v]
      /\ \A j \in KThread, e \in ThreadState : ~Held(j, u, e)
      /\ state[v] = "FINISHED" /\ u # v
  <2>1. /\ tcbs[u] = "live" /\ state[u] = "WAITING_JOIN"
        /\ ctx[u] = [at |-> "rejoin", arg |-> v]
        /\ \A j \in KThread : ~Held(j, u, "WAITING_JOIN")
    BY <1>2 DEF Sound, JoinSound
  <2> QED
    BY <1>1, <2>1 DEF Sound, HeldSound
<1>4. ASSUME NEW w \in Tid PROVE ~In(join_queue[w], u)'
  <2>1. In(join_queue[w], u) => ctx[u] = [at |-> "rejoin", arg |-> w]
    BY DEF Sound, JoinSound
  <2> QED
    BY <1>2, <1>3, <2>1
<1>5. ~In(rqueue, u)
  BY <1>3 DEF Sound, ReadySound
<1>6. Once(rqueue)' /\ \A t : In(rqueue, t)' <=> In(rqueue, t) \/ t = u
  BY <1>5, InAppend DEF TypeOK, Sound, ReadySound
<1>7. \A t \in Tid : /\ state[t] \in ThreadState
                     /\ state'[t] = IF t = u THEN "READY" ELSE state[t]
  BY DEF TypeOK
<1>8. \A r \in Sem : ~In(sem_queue[r], u)
  BY <1>3 DEF Sound, SemSound
<1> USE <1>1, <1>2, <1>3, <1>4, <1>5, <1>6, <1>7, <1>8 DEF Sound, HeldLess
<1>9. HeldSound'
  BY DEF HeldSound
<1>10. ReadySound'
  BY DEF ReadySound
<1>11. JoinSound'
  <2>1. ASSUME NEW w \in Tid, NEW t \in Tid, In(join_queue[w], t)'
        PROVE  t # u /\ In(join_queue[w], t)
    <3>1. In(join_queue[w], t)
      BY <1>2, <2>1
    <3>2. t # u
      BY <1>4, <2>1
    <3> QED
      BY <3>1, <3>2
  <2> QED
    BY <1>2, <1>7, <2>1 DEF JoinSound
<1>12. SemSound'
  BY DEF SemSound
<1>13. Found'
  BY DEF Found
<1> QED
  BY <1>9, <1>10, <1>11, <1>12, <1>13

\* k makes a new thread a, in a slot that held none.
LEMMA MakeThread ==
  ASSUME TypeOK, Sound, NEW k \in KThread, NEW a \in Tid, tcbs[a] # "live",
         \A t \in Tid : ~In(join_queue[a], t),
         tcbs' = [tcbs EXCEPT ![a] = "live"],
         state' = [state EXCEPT ![a] = "READY"],
         join_queue' = [join_queue EXCEPT ![a] = <<>>],
         \A t \in Tid \ {a} : ctx'[t] = ctx[t],
         UNCHANGED <<rqueue, sem_queue>>,
         HeldMore(k, a, "READY")
  PROVE  Sound'
<1>1. {"READY", "WAITING_JOIN", "WAITING_SEM"} \subseteq ThreadState
  BY DEF ThreadState
<1>2. \A t \in Tid : /\ state'[t] = IF t = a THEN "READY" ELSE state[t]
                     /\ tcbs'[t] = IF t = a THEN "live" ELSE tcbs[t]
  BY DEF TypeOK
<1>3. /\ \A j \in KThread, e \in ThreadState : ~Held(j, a, e)
      /\ ~In(rqueue, a)
      /\ \A w \in Tid : ~In(join_queue[w], a)
      /\ \A r \in Sem : ~In(sem_queue[r], a)
  <2>1. \A j \in KThread, e \in ThreadState : ~Held(j, a, e)
    BY DEF Sound, HeldSound
  <2>2. ~In(rqueue, a)
    BY DEF Sound, ReadySound
  <2>3. \A w \in Tid : ~In(join_queue[w], a)
    BY DEF Sound, JoinSound
  <2>4. \A r \in Sem : ~In(sem_queue[r], a)
    BY DEF Sound, SemSound
  <2> QED
    BY <2>1, <2>2, <2>3, <2>4
<1>4. ASSUME NEW w \in Tid
      PROVE  /\ Once(join_queue[w])'
             /\ \A t \in Tid : In(join_queue[w], t)' <=> In(join_queue[w], t)
  <2>1. join_queue'[w] = IF w = a THEN <<>> ELSE join_queue[w]
    BY DEF TypeOK
  <2> QED
    BY <2>1, EmptyQueue DEF Sound, JoinSound
<1> USE <1>1, <1>2, <1>3, <1>4 DEF Sound, HeldMore
<1>5. HeldSound'
  BY DEF HeldSound
<1>6. ReadySound'
  BY DEF ReadySound
<1>7. JoinSound'
  BY DEF JoinSound
<1>8. SemSound'
  BY DEF SemSound
<1>9. Found'
  BY DEF Found
<1> QED
  BY <1>5, <1>6, <1>7, <1>8, <1>9

\* A thread that has finished, and that nobody holds, is freed.
LEMMA FreeThread ==
  ASSUME TypeOK, Sound, NEW v \in Tid, Gone(v),
         tcbs' = [tcbs EXCEPT ![v] = "freed"],
         UNCHANGED <<state, ctx, rqueue, join_queue, sem_queue>>,
         HeldSame
  PROVE  Sound'
<1>1. {"READY", "WAITING_JOIN", "WAITING_SEM", "FINISHED"} \subseteq ThreadState
  BY DEF ThreadState
<1>2. \A t \in Tid : tcbs'[t] = IF t = v THEN "freed" ELSE tcbs[t]
  BY DEF TypeOK
<1>3. /\ state[v] = "FINISHED"
      /\ \A j \in KThread, e \in ThreadState : ~Held(j, v, e)
  BY DEF Gone, Sound, HeldSound
<1> USE <1>1, <1>2, <1>3 DEF Sound, HeldSame
<1>4. HeldSound'
  BY DEF HeldSound
<1>5. ReadySound'
  BY DEF ReadySound
<1>6. JoinSound'
  BY DEF JoinSound
<1>7. SemSound'
  BY DEF SemSound
<1>8. Found'
  BY DEF Found
<1> QED
  BY <1>4, <1>5, <1>6, <1>7, <1>8

\* Everything is freed when nobody is left in any place.
LEMMA FreeAll ==
  ASSUME Sound,
         \A t \in Tid : tcbs'[t] # "live",
         \A t \in Tid : ~In(rqueue, t),
         \A t, u \in Tid : ~In(join_queue[u], t),
         \A s \in Sem, t \in Tid : ~In(sem_queue[s], t),
         UNCHANGED <<state, ctx, rqueue, join_queue, sem_queue>>,
         \A j \in KThread, t \in Tid, e \in ThreadState : ~Held(j, t, e)'
  PROVE  Sound'
<1> USE DEF Sound
<1>1. HeldSound'
  BY DEF HeldSound
<1>2. ReadySound'
  BY DEF ReadySound
<1>3. JoinSound'
  BY DEF JoinSound
<1>4. SemSound'
  BY DEF SemSound
<1>5. Found'
  BY DEF Found
<1> QED
  BY <1>1, <1>2, <1>3, <1>4, <1>5

-----------------------------------------------------------------------------
(* What each step does to the threads that kernel threads hold.            *)

\* The beginning of a library call.
LEMMA CallHeld ==
  ASSUME TypeOK, NEW k \in KThread
  PROVE  /\ CreateTid(k) \/ Teardown(k) => HeldSame
         /\ Yield(k) => HeldAs(k, current_tid[k], "READY")
         /\ Exit(k)  => HeldAs(k, current_tid[k], "FINISHED")
         /\ \A t \in Tid :
              /\ JoinBlocks(k, t) => HeldAs(k, current_tid[k], "WAITING_JOIN")
              /\ JoinAborts(k, t) \/ JoinFinished(k, t) => HeldSame
         /\ \A s \in Sem :
              /\ \A v : SemInit(k, s, v) => HeldSame
              /\ SemDestroy(k, s) \/ SemWait(k, s) \/ SemPost(k, s) => HeldSame
              /\ SemPostWakes(k, s) =>
                   HeldMore(k, Head(sem_queue[s]), "WAITING_SEM")
<1> USE DEF TypeOK, Held, OnStack, UserPc
<1>1. ASSUME CreateTid(k) \/ Teardown(k) PROVE HeldSame
  BY <1>1
  DEF HeldSame, CreateTid, Teardown, InParent, InUser, Goto, schedVars
<1>2. ASSUME Yield(k) PROVE HeldAs(k, current_tid[k], "READY")
  BY <1>2 DEF HeldAs, Yield, InUser, SwitchToSched, Goto
<1>3. ASSUME Exit(k) PROVE HeldAs(k, current_tid[k], "FINISHED")
  BY <1>3 DEF HeldAs, Exit, InUser, Goto
<1>4. ASSUME NEW t \in Tid, JoinBlocks(k, t)
      PROVE  HeldAs(k, current_tid[k], "WAITING_JOIN")
  BY <1>4 DEF HeldAs, JoinBlocks, MayJoin, InParent, InUser, SwitchToSched, Goto
<1>5. ASSUME NEW t \in Tid, JoinAborts(k, t) PROVE HeldSame
  BY <1>5 DEF HeldSame, JoinAborts, Stop
<1>6. ASSUME NEW t \in Tid, JoinFinished(k, t) PROVE HeldSame
  BY <1>6
  DEF HeldSame, JoinFinished, MayJoin, InParent, InUser, Goto, schedVars
<1>7. ASSUME NEW s \in Sem, NEW v, SemInit(k, s, v) PROVE HeldSame
  BY <1>7 DEF HeldSame, SemInit, schedVars
<1>8. ASSUME NEW s \in Sem, SemDestroy(k, s) PROVE HeldSame
  BY <1>8 DEF HeldSame, SemDestroy, schedVars
<1>9. ASSUME NEW s \in Sem, SemWait(k, s) PROVE HeldSame
  BY <1>9 DEF HeldSame, SemWait, InUser, Goto, schedVars
<1>10. ASSUME NEW s \in Sem, SemPost(k, s) PROVE HeldSame
  BY <1>10 DEF HeldSame, SemPost, schedVars
<1>11. ASSUME NEW s \in Sem, SemPostWakes(k, s)
       PROVE  HeldMore(k, Head(sem_queue[s]), "WAITING_SEM")
  BY <1>11 DEF HeldMore, SemPostWakes, InUser, Goto, schedVars
<1> QED
  BY <1>1, <1>2, <1>3, <1>4, <1>5, <1>6, <1>7, <1>8, <1>9, <1>10, <1>11

\* A library call goes on.
LEMMA InCallHeld ==
  ASSUME TypeOK, HeldSound, NEW k \in KThread
  PROVE  /\ CreateTcb(k) => HeldMore(k, arg[k], "READY")
         /\ (\/ CreateOverwrites(k) \/ CreateFails(k) \/ Trampoline(k)
             \/ Rejoin(k) \/ Reclaim(k) \/ Destroy(k) \/ ClearSlot(k)
             \/ ClearLoses(k) \/ SemRelock(k) \/ SemDecrement(k)
             \/ TeardownSignal(k))
            => HeldSame
         /\ CreateReady(k) => HeldLess(k, arg[k])
         /\ SemBlock(k) => HeldAs(k, current_tid[k], "WAITING_SEM")
         /\ SemWake(k)  => HeldAs(k, tcb[k], "READY")
         /\ SemReady(k) => HeldLess(k, tcb[k])
         /\ TeardownSwitch(k) => HeldAs(k, current_tid[k], "RUNNING")
         /\ TeardownFinish(k) =>
              \A j \in KThread, t \in Tid, e \in ThreadState : ~Held(j, t, e)'
<1> USE DEF TypeOK, Held, OnStack, UserPc
<1>1. ASSUME CreateTcb(k) PROVE HeldMore(k, arg[k], "READY")
  BY <1>1 DEF HeldMore, CreateTcb, At, Goto, schedVars
<1>2. ASSUME CreateOverwrites(k) \/ ClearLoses(k) PROVE HeldSame
  BY <1>2 DEF HeldSame, CreateOverwrites, ClearLoses, Stop
<1>3. ASSUME CreateFails(k) \/ Trampoline(k) PROVE HeldSame
  BY <1>3 DEF HeldSame, CreateFails, Trampoline, At, Return, Goto, schedVars
<1>4. ASSUME Rejoin(k) \/ Reclaim(k) \/ Destroy(k) PROVE HeldSame
  BY <1>4 DEF HeldSame, Rejoin, Reclaim, Destroy, At, Goto, schedVars
<1>5. ASSUME ClearSlot(k) PROVE HeldSame
  BY <1>5 DEF HeldSame, ClearSlot, At, Return, Goto, schedVars
<1>6. ASSUME SemRelock(k) \/ SemDecrement(k) PROVE HeldSame
  BY <1>6 DEF HeldSame, SemRelock, SemDecrement, At, Return, Goto, schedVars
<1>7. ASSUME TeardownSignal(k) PROVE HeldSame
  BY <1>7 DEF HeldSame, TeardownSignal, At, Goto, schedVars
<1>8. ASSUME CreateReady(k) PROVE HeldLess(k, arg[k])
  <2>1. current_tid[k] # arg[k]
    <3>1. Held(k, current_tid[k], "RUNNING") /\ Held(k, arg[k], "READY")
      BY <1>8 DEF CreateReady, At
    <3>2. current_tid[k] \in Tid /\ arg[k] \in Tid
      BY <1>8, ArgFacts DEF CreateReady, At, LocalsOK
    <3> QED
      BY <3>1, <3>2 DEF HeldSound, ThreadState
  <2> QED
    BY <1>8, <2>1 DEF HeldLess, CreateReady, At, Return, Goto, schedVars
<1>9. ASSUME SemBlock(k) PROVE HeldAs(k, current_tid[k], "WAITING_SEM")
  BY <1>9 DEF HeldAs, SemBlock, At, SwitchToSched, Goto
<1>10. ASSUME At(k, "sem_wake") \/ At(k, "sem_ready")
       PROVE  current_tid[k] # tcb[k]
  <2>1. /\ Held(k, current_tid[k], "RUNNING")
        /\ Held(k, tcb[k], "WAITING_SEM") \/ Held(k, tcb[k], "READY")
    BY <1>10 DEF At
  <2>2. current_tid[k] \in Tid /\ tcb[k] \in Tid
    BY <1>10 DEF At, LocalsOK
  <2> QED
    BY <2>1, <2>2 DEF HeldSound, ThreadState
<1>11. ASSUME SemWake(k) PROVE HeldAs(k, tcb[k], "READY")
  BY <1>10, <1>11 DEF HeldAs, SemWake, At, Goto, schedVars
<1>12. ASSUME SemReady(k) PROVE HeldLess(k, tcb[k])
  BY <1>10, <1>12 DEF HeldLess, SemReady, At, Return, Goto, schedVars
<1>13. ASSUME TeardownSwitch(k) PROVE HeldAs(k, current_tid[k], "RUNNING")
  BY <1>13 DEF HeldAs, TeardownSwitch, At, SwitchToSched, Goto
<1>14. ASSUME TeardownFinish(k), NEW j \in KThread, NEW t \in Tid,
              NEW e \in ThreadState
       PROVE  ~Held(j, t, e)'
  <2>1. pc'[j] \in {"exited", "done"}
    BY <1>14 DEF TeardownFinish, At, Goto
  <2> QED
    BY <2>1
<1> QED
  BY <1>1, <1>2, <1>3, <1>4, <1>5, <1>6, <1>7, <1>8, <1>9, <1>11, <1>12,
     <1>13, <1>14

\* The scheduler takes a step.
LEMMA ScheduleHeld ==
  ASSUME TypeOK, NEW k \in KThread
  PROVE  /\ SchedNone(k) \/ DequeueExitAll(k) \/ Reap(k) => HeldSame
         /\ (\/ SchedYield(k) \/ SchedExit(k) \/ SchedJoin(k)
             \/ SchedSemWait(k) \/ SchedTeardown(k))
            => HeldLess(k, current_tid[k])
         /\ Dequeue(k)  => HeldMore(k, Head(rqueue), "READY")
         /\ Dispatch(k) => HeldAs(k, tcb[k], "RUNNING")
<1> USE DEF TypeOK, Held, OnStack, UserPc
<1>1. ASSUME SchedNone(k) PROVE HeldSame
  BY <1>1 DEF HeldSame, SchedNone, At, TaskDone, Goto
<1>2. ASSUME DequeueExitAll(k) PROVE HeldSame
  BY <1>2 DEF HeldSame, DequeueExitAll, At, Goto, schedVars
<1>3. ASSUME Reap(k) PROVE HeldSame
  BY <1>3 DEF HeldSame, Reap, At, Goto, schedVars, LocalsOK
<1>4. ASSUME \/ SchedYield(k) \/ SchedExit(k) \/ SchedJoin(k)
             \/ SchedSemWait(k) \/ SchedTeardown(k)
      PROVE  HeldLess(k, current_tid[k])
  <2>1. /\ pc[k] = "sched" /\ pc' = [pc EXCEPT ![k] = "dequeue"]
        /\ task' = [task EXCEPT ![k] = "NONE"]
        /\ arg' = [arg EXCEPT ![k] = NULL]
        /\ UNCHANGED <<current_tid, tcb>>
    BY <1>4 DEF SchedYield, SchedExit, SchedJoin, SchedSemWait, SchedTeardown,
                At, TaskDone, Goto
  <2> QED
    BY <2>1 DEF HeldLess
<1>5. ASSUME Dequeue(k) PROVE HeldMore(k, Head(rqueue), "READY")
  BY <1>5 DEF HeldMore, Dequeue, At, Goto, schedVars
<1>6. ASSUME Dispatch(k) PROVE HeldAs(k, tcb[k], "RUNNING")
  <2>1. tcb[k] \in Tid /\ ctx[tcb[k]].at \in ResumePc
    BY <1>6 DEF Dispatch, At, LocalsOK
  <2> QED
    BY <1>6, <2>1 DEF HeldAs, Dispatch, At, Goto, schedVars, ResumePc
<1> QED
  BY <1>1, <1>2, <1>3, <1>4, <1>5, <1>6

-----------------------------------------------------------------------------
(* Sound is preserved.                                                     *)

\* Who a kernel thread holds at each point, and that it is a thread.
LEMMA HoldsAt ==
  ASSUME TypeOK, NEW k \in KThread
  PROVE  /\ OnStack(k) => /\ current_tid[k] \in Tid
                          /\ Held(k, current_tid[k], "RUNNING")
         /\ pc[k] = "sched" /\ task[k] # "NONE" => current_tid[k] \in Tid
         /\ pc[k] = "sched" /\ task[k] = "YIELD" =>
               Held(k, current_tid[k], "READY")
         /\ pc[k] = "sched" /\ task[k] = "EXIT" =>
               Held(k, current_tid[k], "FINISHED")
         /\ pc[k] = "sched" /\ task[k] = "JOIN" =>
               Held(k, current_tid[k], "WAITING_JOIN") /\ queue[k] \in Tid
         /\ pc[k] = "sched" /\ task[k] = "SEM_WAIT" =>
               Held(k, current_tid[k], "WAITING_SEM") /\ queue[k] \in Sem
         /\ pc[k] = "sched" /\ task[k] = "TEARDOWN" =>
               Held(k, current_tid[k], "RUNNING")
         /\ pc[k] \in {"dispatch", "sem_ready"} =>
               tcb[k] \in Tid /\ Held(k, tcb[k], "READY")
         /\ pc[k] = "sem_wake" => tcb[k] \in Tid /\ Held(k, tcb[k], "WAITING_SEM")
         /\ pc[k] = "ready_new" => arg[k] \in Tid /\ Held(k, arg[k], "READY")
BY ArgFacts, QueueFacts DEF TypeOK, LocalsOK, Held, OnStack, Handing

\* A library call begins.
LEMMA CallSound ==
  ASSUME TypeOK, Sound, SemInv, NEW k \in KThread, Call(k)
  PROVE  Sound'
<1> DEFINE u == current_tid[k]
<1>1. InUser(k) => OnStack(k)
  BY DEF InUser, OnStack, UserPc
<1>2. InUser(k) => u \in Tid /\ Held(k, u, "RUNNING")
  BY <1>1, HoldsAt
<1>3. {"READY", "RUNNING", "WAITING_JOIN", "FINISHED"} \subseteq ThreadState
  BY DEF ThreadState
<1>4. Once(rqueue)
  BY DEF Sound, ReadySound
<1>5. CASE CreateTid(k) \/ Teardown(k)
  <2>1. HeldSame /\ UNCHANGED <<tcbs, state, join_queue, ctx, sem_queue, rqueue>>
    BY <1>5, CallHeld DEF CreateTid, Teardown, tcbVars, semVars
  <2> QED
    BY <1>4, <2>1, StayPut
<1>6. CASE Yield(k)
  <2>1. /\ InUser(k) /\ HeldAs(k, u, "READY")
        /\ state' = [state EXCEPT ![u] = "READY"]
        /\ \E x : ctx' = [ctx EXCEPT ![u] = x]
        /\ UNCHANGED <<tcbs, rqueue, join_queue, sem_queue>>
    BY <1>6, CallHeld DEF Yield, SetState, SwitchToSched, semVars
  <2>2. \A t \in Tid \ {u} : ctx'[t] = ctx[t]
    BY <2>1 DEF TypeOK
  <2> QED
    BY <1>2, <1>3, <2>1, <2>2, MoveHeld
<1>7. CASE Exit(k)
  <2>1. /\ InUser(k) /\ HeldAs(k, u, "FINISHED")
        /\ state' = [state EXCEPT ![u] = "FINISHED"]
        /\ UNCHANGED <<tcbs, ctx, rqueue, join_queue, sem_queue>>
    BY <1>7, CallHeld DEF Exit, SetState, semVars
  <2> QED
    BY <1>2, <1>3, <2>1, MoveHeld
<1>8. ASSUME NEW t \in Tid, JoinBlocks(k, t) PROVE Sound'
  <2>1. /\ InUser(k) /\ HeldAs(k, u, "WAITING_JOIN")
        /\ state' = [state EXCEPT ![u] = "WAITING_JOIN"]
        /\ \E x : ctx' = [ctx EXCEPT ![u] = x]
        /\ UNCHANGED <<tcbs, rqueue, join_queue, sem_queue>>
    BY <1>8, CallHeld
    DEF JoinBlocks, MayJoin, InParent, SetState, SwitchToSched, semVars
  <2>2. \A v \in Tid \ {u} : ctx'[v] = ctx[v]
    BY <2>1 DEF TypeOK
  <2> QED
    BY <1>2, <1>3, <2>1, <2>2, MoveHeld
<1>9. ASSUME NEW t \in Tid, JoinAborts(k, t) \/ JoinFinished(k, t) PROVE Sound'
  <2>1. HeldSame /\ UNCHANGED <<tcbs, state, join_queue, ctx, sem_queue, rqueue>>
    BY <1>9, CallHeld DEF JoinAborts, Stop, JoinFinished, tcbVars, semVars
  <2> QED
    BY <1>4, <2>1, StayPut
<1>10. ASSUME NEW s \in Sem, NEW v \in 0 .. MaxCount, SemInit(k, s, v)
       PROVE  Sound'
  <2>1. /\ HeldSame /\ UNCHANGED <<tcbs, state, join_queue, ctx, rqueue>>
        /\ sem_queue' = [sem_queue EXCEPT ![s] = <<>>] /\ s \notin sem_inited
    BY <1>10, CallHeld DEF SemInit, tcbVars
  <2>2. sem_queue' = sem_queue
    BY <2>1 DEF SemInv, TypeOK
  <2> QED
    BY <1>4, <2>1, <2>2, StayPut
<1>11. ASSUME NEW s \in Sem, SemDestroy(k, s) \/ SemWait(k, s) \/ SemPost(k, s)
       PROVE  Sound'
  <2>1. HeldSame /\ UNCHANGED <<tcbs, state, join_queue, ctx, sem_queue, rqueue>>
    BY <1>11, CallHeld DEF SemDestroy, SemWait, SemPost, tcbVars
  <2> QED
    BY <1>4, <2>1, StayPut
<1>12. ASSUME NEW s \in Sem, SemPostWakes(k, s) PROVE Sound'
  <2>1. /\ HeldMore(k, Head(sem_queue[s]), "WAITING_SEM")
        /\ sem_queue[s] # <<>>
        /\ sem_queue' = [sem_queue EXCEPT ![s] = Tail(@)]
        /\ UNCHANGED <<tcbs, state, ctx, rqueue, join_queue>>
    BY <1>12, CallHeld DEF SemPostWakes, HasWaiter, tcbVars
  <2>2. Head(sem_queue[s]) \in Tid
    BY <2>1, InTail DEF TypeOK
  <2> QED
    BY <2>1, <2>2, TakeSem
<1> QED
  BY <1>5, <1>6, <1>7, <1>8, <1>9, <1>10, <1>11, <1>12 DEF Call

\* A library call goes on.
LEMMA InCallSound ==
  ASSUME ThreadInv, NEW k \in KThread, InCall(k)
  PROVE  Sound'
<1> DEFINE u == current_tid[k]
<1>1. TypeOK /\ Sound
  BY DEF ThreadInv, LockInv, PlaceInv, Sound
<1>2. {"READY", "RUNNING", "WAITING_SEM"} \subseteq ThreadState
  BY DEF ThreadState
<1>3. Once(rqueue)
  BY <1>1 DEF Sound, ReadySound
<1>4. HeldSound
  BY <1>1 DEF Sound
<1>5. OnStack(k) /\ u \in Tid /\ Held(k, u, "RUNNING")
  <2>1. OnStack(k)
    BY DEF InCall, CreateTcb, CreateOverwrites, CreateFails, CreateReady,
           Trampoline, Rejoin, Reclaim, Destroy, ClearSlot, ClearLoses,
           SemRelock, SemDecrement, SemBlock, SemWake, SemReady,
           TeardownSignal, TeardownSwitch, TeardownFinish, At, OnStack, UserPc
  <2> QED
    BY <1>1, <2>1, HoldsAt
<1>6. CASE CreateTcb(k)
  <2> DEFINE a == arg[k]
  <2>1. /\ HeldMore(k, a, "READY") /\ tcbs[a] # "live"
        /\ tcbs' = [tcbs EXCEPT ![a] = "live"]
        /\ state' = [state EXCEPT ![a] = "READY"]
        /\ join_queue' = [join_queue EXCEPT ![a] = <<>>]
        /\ \E x : ctx' = [ctx EXCEPT ![a] = x]
        /\ UNCHANGED <<rqueue, sem_queue>>
    BY <1>1, <1>4, <1>6, InCallHeld DEF CreateTcb, SetState, semVars
  <2>2. a \in Tid
    BY <1>1, <1>6, ArgFacts DEF CreateTcb, At, TypeOK, LocalsOK
  <2>3. \A t \in Tid \ {a} : ctx'[t] = ctx[t]
    BY <1>1, <2>1 DEF TypeOK
  <2>4. ASSUME NEW t \in Tid, In(join_queue[a], t) PROVE FALSE
    <3>1. Awaits(t, a) /\ state[t] = "WAITING_JOIN"
      BY <1>1, <2>2, <2>4 DEF Sound, JoinSound, Awaits
    <3> QED
      BY <2>1, <2>2, <3>1 DEF ThreadInv, JoinInv
  <2> HIDE DEF a
  <2> QED
    BY <1>1, <2>1, <2>2, <2>3, <2>4, MakeThread
<1>7. CASE \/ CreateOverwrites(k) \/ ClearLoses(k) \/ Trampoline(k)
           \/ Rejoin(k) \/ Reclaim(k)
  <2>1. HeldSame /\ UNCHANGED <<tcbs, state, join_queue, ctx, sem_queue, rqueue>>
    BY <1>1, <1>4, <1>7, InCallHeld
    DEF CreateOverwrites, ClearLoses, Stop, Trampoline, Rejoin, Reclaim,
        tcbVars, semVars
  <2> QED
    BY <1>1, <1>3, <2>1, StayPut
<1>8. CASE SemRelock(k) \/ SemDecrement(k)
  <2>1. HeldSame /\ UNCHANGED <<tcbs, state, join_queue, ctx, sem_queue, rqueue>>
    BY <1>1, <1>4, <1>8, InCallHeld DEF SemRelock, SemDecrement, tcbVars
  <2> QED
    BY <1>1, <1>3, <2>1, StayPut
<1>9. CASE CreateFails(k) \/ ClearSlot(k)
  <2>1. /\ HeldSame /\ UNCHANGED <<state, join_queue, ctx, sem_queue, rqueue>>
        /\ tcbs[arg[k]] # "live"
        /\ \E x \in {"null", "freed"} : tcbs' = [tcbs EXCEPT ![arg[k]] = x]
    BY <1>1, <1>4, <1>9, InCallHeld DEF CreateFails, ClearSlot, tcbVars, semVars
  <2>2. \A t \in Tid : tcbs'[t] = "live" <=> tcbs[t] = "live"
    BY <1>1, <2>1 DEF TypeOK
  <2> QED
    BY <1>1, <1>3, <2>1, <2>2, StayPut
<1>10. CASE Destroy(k)
  <2>1. /\ HeldSame /\ tcbs' = [tcbs EXCEPT ![arg[k]] = "freed"]
        /\ UNCHANGED <<state, ctx, rqueue, join_queue, sem_queue>>
    BY <1>1, <1>4, <1>10, InCallHeld DEF Destroy, tcbVars, semVars
  <2>2. arg[k] \in Tid
    BY <1>1, <1>10, ArgFacts DEF Destroy, At, TypeOK, LocalsOK
  <2>3. Gone(arg[k])
    <3>1. Claims(k, arg[k]) /\ pc[k] # "clear"
      BY <1>10 DEF Destroy, At, Claims
    <3> QED
      BY <2>2, <3>1 DEF ThreadInv, JoinInv
  <2> QED
    BY <1>1, <2>1, <2>2, <2>3, FreeThread
<1>11. CASE CreateReady(k)
  <2>1. /\ HeldLess(k, arg[k]) /\ rqueue' = Append(rqueue, arg[k])
        /\ UNCHANGED <<tcbs, state, ctx, join_queue, sem_queue>>
    BY <1>1, <1>4, <1>11, InCallHeld DEF CreateReady, ReadyEnqueue, tcbVars, semVars
  <2>2. arg[k] \in Tid /\ Held(k, arg[k], "READY")
    BY <1>1, <1>11, HoldsAt DEF CreateReady, At
  <2>3. state' = [state EXCEPT ![arg[k]] = "READY"]
    BY <1>1, <1>2, <1>4, <2>1, <2>2 DEF HeldSound, TypeOK
  <2> QED
    BY <1>1, <1>2, <2>1, <2>2, <2>3, MoveToReady
<1>12. CASE SemBlock(k)
  <2>1. /\ HeldAs(k, u, "WAITING_SEM")
        /\ state' = [state EXCEPT ![u] = "WAITING_SEM"]
        /\ \E x : ctx' = [ctx EXCEPT ![u] = x]
        /\ UNCHANGED <<tcbs, rqueue, join_queue, sem_queue>>
    BY <1>1, <1>4, <1>12, InCallHeld DEF SemBlock, SetState, SwitchToSched, semVars
  <2>2. \A t \in Tid \ {u} : ctx'[t] = ctx[t]
    BY <1>1, <2>1 DEF TypeOK
  <2> QED
    BY <1>1, <1>2, <1>5, <2>1, <2>2, MoveHeld
<1>13. CASE SemWake(k)
  <2>1. /\ HeldAs(k, tcb[k], "READY")
        /\ state' = [state EXCEPT ![tcb[k]] = "READY"]
        /\ UNCHANGED <<tcbs, ctx, rqueue, join_queue, sem_queue>>
    BY <1>1, <1>4, <1>13, InCallHeld DEF SemWake, SetState, semVars
  <2>2. tcb[k] \in Tid /\ Held(k, tcb[k], "WAITING_SEM")
    BY <1>1, <1>13, HoldsAt DEF SemWake, At
  <2> QED
    BY <1>1, <1>2, <2>1, <2>2, MoveHeld
<1>14. CASE SemReady(k)
  <2>1. /\ HeldLess(k, tcb[k]) /\ rqueue' = Append(rqueue, tcb[k])
        /\ UNCHANGED <<tcbs, state, ctx, join_queue, sem_queue>>
    BY <1>1, <1>4, <1>14, InCallHeld DEF SemReady, ReadyEnqueue, tcbVars
  <2>2. tcb[k] \in Tid /\ Held(k, tcb[k], "READY")
    BY <1>1, <1>14, HoldsAt DEF SemReady, At
  <2>3. state' = [state EXCEPT ![tcb[k]] = "READY"]
    BY <1>1, <1>2, <1>4, <2>1, <2>2 DEF HeldSound, TypeOK
  <2> QED
    BY <1>1, <1>2, <2>1, <2>2, <2>3, MoveToReady
<1>15. CASE TeardownSignal(k)
  <2>1. /\ HeldSame /\ rqueue' = Append(rqueue, ExitAll)
        /\ UNCHANGED <<tcbs, state, ctx, join_queue, sem_queue>>
    BY <1>1, <1>4, <1>15, InCallHeld
    DEF TeardownSignal, ReadyEnqueue, tcbVars, semVars
  <2>2. /\ Once(rqueue)'
        /\ \A t : In(rqueue, t)' <=> In(rqueue, t) \/ t = ExitAll
    BY <1>1, <1>3, <2>1, InAppend, TidFacts DEF TypeOK
  <2>3. \A t \in Tid : In(rqueue, t)' <=> In(rqueue, t)
    BY <2>2, TidFacts
  <2> QED
    BY <1>1, <2>1, <2>2, <2>3, StayPut
<1>16. CASE TeardownSwitch(k)
  <2>1. /\ HeldAs(k, u, "RUNNING")
        /\ \E x : ctx' = [ctx EXCEPT ![u] = x]
        /\ UNCHANGED <<tcbs, state, rqueue, join_queue, sem_queue>>
    BY <1>1, <1>4, <1>16, InCallHeld DEF TeardownSwitch, SwitchToSched, semVars
  <2>2. \A t \in Tid \ {u} : ctx'[t] = ctx[t]
    BY <1>1, <2>1 DEF TypeOK
  <2>3. state' = [state EXCEPT ![u] = "RUNNING"]
    BY <1>1, <1>2, <1>4, <1>5, <2>1 DEF HeldSound, TypeOK
  <2> QED
    BY <1>1, <1>2, <1>5, <2>1, <2>2, <2>3, MoveHeld
<1>17. CASE TeardownFinish(k)
  <2>1. /\ \A j \in KThread, t \in Tid, e \in ThreadState : ~Held(j, t, e)'
        /\ \A t \in Tid : tcbs'[t] # "live"
        /\ UNCHANGED <<state, ctx, rqueue, join_queue, sem_queue>>
    BY <1>1, <1>4, <1>17, InCallHeld DEF TeardownFinish, tcbVars, semVars
  <2>2. Tearing /\ u = MAIN
    BY <1>17 DEF TeardownFinish, At, Tearing, ThreadInv, TearInv
  <2>3. \A t \in Tid : tcbs[t] = "live" => state[t] \in {"RUNNING", "FINISHED"}
    <3>1. state[MAIN] = "RUNNING"
      BY <1>2, <1>4, <1>5, <2>2 DEF HeldSound
    <3> QED
      BY <2>2, <3>1 DEF ThreadInv, TearInv
  <2>4. /\ \A t \in Tid : ~In(rqueue, t)
        /\ \A t, v \in Tid : ~In(join_queue[v], t)
        /\ \A s \in Sem, t \in Tid : ~In(sem_queue[s], t)
    <3>1. \A t \in Tid : ~In(rqueue, t)
      BY <1>1, <2>3 DEF Sound, ReadySound
    <3>2. \A t, v \in Tid : ~In(join_queue[v], t)
      BY <1>1, <2>3 DEF Sound, JoinSound
    <3>3. \A s \in Sem, t \in Tid : ~In(sem_queue[s], t)
      BY <1>1, <2>3 DEF Sound, SemSound
    <3> QED
      BY <3>1, <3>2, <3>3
  <2> QED
    BY <1>1, <2>1, <2>4, FreeAll
<1> QED
  BY <1>6, <1>7, <1>8, <1>9, <1>10, <1>11, <1>12, <1>13, <1>14, <1>15, <1>16,
     <1>17
  DEF InCall

\* The scheduler takes a step.
LEMMA ScheduleSound ==
  ASSUME ThreadInv, NEW k \in KThread, Schedule(k)
  PROVE  Sound'
<1> DEFINE u == current_tid[k]
<1>1. TypeOK /\ Sound
  BY DEF ThreadInv, LockInv, PlaceInv, Sound
<1>2. {"READY", "RUNNING", "WAITING_JOIN", "WAITING_SEM", "FINISHED"}
        \subseteq ThreadState
  BY DEF ThreadState
<1>3. Once(rqueue)
  BY <1>1 DEF Sound, ReadySound
<1>4. HeldSound
  BY <1>1 DEF Sound
<1>5. CASE SchedNone(k) \/ Reap(k)
  <2>1. HeldSame /\ UNCHANGED <<tcbs, state, join_queue, ctx, sem_queue, rqueue>>
    BY <1>1, <1>5, ScheduleHeld DEF SchedNone, Reap, tcbVars, semVars
  <2> QED
    BY <1>1, <1>3, <2>1, StayPut
<1>6. CASE SchedYield(k)
  <2>1. /\ HeldLess(k, u) /\ rqueue' = Append(rqueue, u)
        /\ UNCHANGED <<tcbs, state, ctx, join_queue, sem_queue>>
    BY <1>1, <1>6, ScheduleHeld DEF SchedYield, ReadyEnqueue, tcbVars, semVars
  <2>2. u \in Tid /\ Held(k, u, "READY")
    BY <1>1, <1>6, HoldsAt DEF SchedYield, At
  <2>3. state' = [state EXCEPT ![u] = "READY"]
    BY <1>1, <1>2, <1>4, <2>1, <2>2 DEF HeldSound, TypeOK
  <2> QED
    BY <1>1, <1>2, <2>1, <2>2, <2>3, MoveToReady
<1>7. CASE SchedExit(k)
  <2>1. u \in Tid /\ Held(k, u, "FINISHED")
    BY <1>1, <1>7, HoldsAt DEF SchedExit, At
  <2>2. HeldLess(k, u) /\ UNCHANGED <<tcbs, ctx, sem_queue>>
    BY <1>1, <1>7, ScheduleHeld DEF SchedExit, semVars
  <2>3. CASE join_queue[u] = <<>>
    <3>1. UNCHANGED <<state, join_queue, rqueue>>
      BY <1>7, <2>3 DEF SchedExit, WakeJoiner
    <3> QED
      BY <1>1, <2>1, <2>2, <3>1, DropFinished
  <2>4. CASE join_queue[u] # <<>>
    <3> DEFINE h == Head(join_queue[u])
    <3>1. /\ join_queue' = [join_queue EXCEPT ![u] = Tail(@)]
          /\ state' = [state EXCEPT ![h] = "READY"]
          /\ rqueue' = Append(rqueue, h)
      BY <1>7, <2>4 DEF SchedExit, WakeJoiner, TakeJoiner, SetState, ReadyEnqueue
    <3>2. h \in Tid
      BY <1>1, <2>1, <2>4, InTail DEF TypeOK
    <3> HIDE DEF h
    <3>3. \A x : Head(join_queue[u]) = x <=> h = x
      BY DEF h
    <3> QED
      BY <1>1, <2>1, <2>2, <2>4, <3>1, <3>2, <3>3, DropAndWake
  <2> QED
    BY <2>3, <2>4
<1>8. CASE SchedJoin(k)
  <2>1. /\ HeldLess(k, u)
        /\ join_queue' = [join_queue EXCEPT ![queue[k]] = Append(@, u)]
        /\ UNCHANGED <<tcbs, state, ctx, rqueue, sem_queue>>
    BY <1>1, <1>8, ScheduleHeld DEF SchedJoin, semVars
  <2>2. u \in Tid /\ Held(k, u, "WAITING_JOIN") /\ queue[k] \in Tid
    BY <1>1, <1>8, HoldsAt DEF SchedJoin, At
  <2>3. ctx[u] = [at |-> "rejoin", arg |-> queue[k]]
    BY <2>2 DEF ThreadInv, PlaceInv, HeldContext
  <2> QED
    BY <1>1, <2>1, <2>2, <2>3, MoveToJoin
<1>9. CASE SchedSemWait(k)
  <2>1. /\ HeldLess(k, u)
        /\ sem_queue' = [sem_queue EXCEPT ![queue[k]] = Append(@, u)]
        /\ UNCHANGED <<tcbs, state, ctx, rqueue, join_queue>>
    BY <1>1, <1>9, ScheduleHeld DEF SchedSemWait, tcbVars
  <2>2. u \in Tid /\ Held(k, u, "WAITING_SEM") /\ queue[k] \in Sem
    BY <1>1, <1>9, HoldsAt DEF SchedSemWait, At
  <2>3. ctx[u] = [at |-> "sem_relock", arg |-> queue[k]]
    <3>1. PICK s \in Sem : /\ HoldsSemLock(k, s)
                           /\ ctx[u] = [at |-> "sem_relock", arg |-> s]
      BY <2>2 DEF ThreadInv, PlaceInv, HeldContext
    <3>2. s = queue[k]
      BY <1>9, <3>1 DEF SchedSemWait, At, HoldsSemLock
    <3> QED
      BY <3>1, <3>2
  <2> QED
    BY <1>1, <2>1, <2>2, <2>3, MoveToSem
<1>10. CASE SchedTeardown(k)
  <2>1. /\ HeldLess(k, u) /\ rqueue' = Append(rqueue, u)
        /\ state' = [state EXCEPT ![u] = "READY"]
        /\ UNCHANGED <<tcbs, ctx, join_queue, sem_queue>>
    BY <1>1, <1>10, ScheduleHeld DEF SchedTeardown, ReadyEnqueue, SetState, semVars
  <2>2. u \in Tid /\ Held(k, u, "RUNNING")
    BY <1>1, <1>10, HoldsAt DEF SchedTeardown, At
  <2> QED
    BY <1>1, <1>2, <2>1, <2>2, MoveToReady
<1>11. CASE Dequeue(k)
  <2>1. /\ HeldMore(k, Head(rqueue), "READY") /\ rqueue # <<>>
        /\ rqueue' = Tail(rqueue) /\ Head(rqueue) # ExitAll
        /\ UNCHANGED <<tcbs, state, ctx, join_queue, sem_queue>>
    BY <1>1, <1>11, ScheduleHeld DEF Dequeue, tcbVars, semVars
  <2>2. Head(rqueue) \in Tid
    BY <1>1, <2>1, InTail DEF TypeOK
  <2> QED
    BY <1>1, <2>1, <2>2, TakeReady
<1>12. CASE DequeueExitAll(k)
  <2>1. /\ HeldSame /\ rqueue # <<>> /\ rqueue' = Tail(rqueue)
        /\ Head(rqueue) = ExitAll
        /\ UNCHANGED <<tcbs, state, ctx, join_queue, sem_queue>>
    BY <1>1, <1>12, ScheduleHeld DEF DequeueExitAll, tcbVars, semVars
  <2>2. /\ Once(rqueue)'
        /\ \A t : In(rqueue, t) <=> t = ExitAll \/ In(rqueue, t)'
    BY <1>1, <1>3, <2>1, InTail DEF TypeOK
  <2>3. \A t \in Tid : In(rqueue, t)' <=> In(rqueue, t)
    BY <2>2, TidFacts
  <2> QED
    BY <1>1, <2>1, <2>2, <2>3, StayPut
<1>13. CASE Dispatch(k)
  <2>1. /\ HeldAs(k, tcb[k], "RUNNING")
        /\ state' = [state EXCEPT ![tcb[k]] = "RUNNING"]
        /\ UNCHANGED <<tcbs, ctx, rqueue, join_queue, sem_queue>>
    BY <1>1, <1>13, ScheduleHeld DEF Dispatch, SetState, semVars
  <2>2. tcb[k] \in Tid /\ Held(k, tcb[k], "READY")
    BY <1>1, <1>13, HoldsAt DEF Dispatch, At
  <2> QED
    BY <1>1, <1>2, <2>1, <2>2, MoveHeld
<1> QED
  BY <1>5, <1>6, <1>7, <1>8, <1>9, <1>10, <1>11, <1>12, <1>13 DEF Schedule

-----------------------------------------------------------------------------
(* What a step leaves alone.                                               *)

\* A step of k changes no local of another kernel thread.
Others(k) ==
  \A j \in KThread \ {k} :
    /\ pc'[j] = pc[j] /\ arg'[j] = arg[j] /\ tcb'[j] = tcb[j]
    /\ task'[j] = task[j] /\ queue'[j] = queue[j]
    /\ current_tid'[j] = current_tid[j]

\* It changes the context of the thread that runs on k, or of a new one.
Contexts(k) ==
  \A t \in Tid : ctx'[t] # ctx[t] =>
     (OnStack(k) /\ t = current_tid[k]) \/ tcbs[t] # "live"

\* It puts k on its way into a queue, or takes a waiter, only in the calls
\* that are there for it, and goes on with a call only by resuming it.
Waits(k) ==
  /\ pc'[k] = "sched" /\ task'[k] = "JOIN" =>
        \E t \in Tid : JoinBlocks(k, t)
  /\ pc'[k] = "sched" /\ task'[k] = "SEM_WAIT" => SemBlock(k)
  /\ pc'[k] = "sem_wake" => \E s \in Sem : SemPostWakes(k, s)
  /\ pc'[k] \in {"rejoin", "sem_relock", "torndown"} => Dispatch(k)

\* Every step has the frame that the definitions above describe: it leaves
\* alone what other kernel threads hold, and it saves a context or arrives at
\* a resumed call only where the library does so.
LEMMA StepFrame ==
  ASSUME TypeOK, NEW k \in KThread, Step(k)
  PROVE  Others(k) /\ Contexts(k) /\ Waits(k)
<1> USE DEF TypeOK, Others, Contexts, Waits
<1>1. CASE Call(k)
  <2> USE <1>1 DEF Call, CreateTid, Yield, Exit, Teardown, JoinBlocks,
      JoinAborts, JoinFinished, MayJoin, InParent, InUser, SemInit,
      SemDestroy, SemWait, SemPost, SemPostWakes, Goto, SwitchToSched, Stop,
      schedVars
  <2>1. Others(k)
    OBVIOUS
  <2>2. Contexts(k)
    BY DEF OnStack, UserPc, tcbVars
  <2>3. pc'[k] \notin {"rejoin", "sem_relock", "torndown"}
    OBVIOUS
  <2>4. pc'[k] = "sem_wake" => \E s \in Sem : SemPostWakes(k, s)
    OBVIOUS
  <2>5. pc'[k] = "sched" /\ task'[k] = "JOIN" =>
           \E t \in Tid : JoinBlocks(k, t)
    OBVIOUS
  <2>6. ~(pc'[k] = "sched" /\ task'[k] = "SEM_WAIT")
    OBVIOUS
  <2> QED
    BY <2>1, <2>2, <2>3, <2>4, <2>5, <2>6
<1>2. CASE InCall(k)
  <2> USE <1>2 DEF InCall, CreateTcb, CreateOverwrites, CreateFails,
      CreateReady, Trampoline, Rejoin, Reclaim, Destroy, ClearSlot,
      ClearLoses, SemRelock, SemDecrement, SemBlock, SemWake, SemReady,
      TeardownSignal, TeardownSwitch, TeardownFinish, At, Return, Goto,
      SwitchToSched, Stop, schedVars
  <2>1. Others(k)
    OBVIOUS
  <2>2. Contexts(k)
    BY DEF OnStack, UserPc, tcbVars
  <2>3. pc'[k] \notin {"sem_wake", "rejoin", "sem_relock", "torndown"}
    OBVIOUS
  <2>4. pc'[k] = "sched" => SemBlock(k) \/ TeardownSwitch(k)
    OBVIOUS
  <2>5. pc'[k] = "sched" => task'[k] # "JOIN"
    OBVIOUS
  <2>6. TeardownSwitch(k) => task'[k] = "TEARDOWN"
    OBVIOUS
  <2> QED
    BY <2>1, <2>2, <2>3, <2>4, <2>5, <2>6
<1>3. CASE Schedule(k)
  <2>1. Others(k)
    BY <1>3 DEF Schedule, SchedNone, SchedYield, SchedExit, SchedJoin,
       SchedSemWait, SchedTeardown, Dequeue, DequeueExitAll, Reap, Dispatch,
       TaskDone, Goto, schedVars
  <2>2. Contexts(k)
    BY <1>3 DEF Schedule, SchedNone, SchedYield, SchedExit, SchedJoin,
       SchedSemWait, SchedTeardown, Dequeue, DequeueExitAll, Reap, Dispatch,
       tcbVars
  <2>3. pc'[k] = "sched" => task'[k] = "NONE"
    <3>1. CASE Dispatch(k)
      BY <3>1 DEF Dispatch, At, Goto, LocalsOK, ResumePc
    <3> QED
      BY <1>3, <3>1 DEF Schedule, SchedNone, SchedYield, SchedExit, SchedJoin,
         SchedSemWait, SchedTeardown, Dequeue, DequeueExitAll, Reap, At,
         TaskDone, Goto, schedVars, LocalsOK
  <2>4. pc'[k] # "sem_wake"
    <3>1. CASE Dispatch(k)
      BY <3>1 DEF Dispatch, At, Goto, LocalsOK, ResumePc
    <3> QED
      BY <1>3, <3>1 DEF Schedule, SchedNone, SchedYield, SchedExit, SchedJoin,
         SchedSemWait, SchedTeardown, Dequeue, DequeueExitAll, Reap, At,
         TaskDone, Goto
  <2>5. pc'[k] \in {"rejoin", "sem_relock", "torndown"} => Dispatch(k)
    BY <1>3 DEF Schedule, SchedNone, SchedYield, SchedExit, SchedJoin,
       SchedSemWait, SchedTeardown, Dequeue, DequeueExitAll, Reap, At,
       TaskDone, Goto
  <2> QED
    BY <2>1, <2>2, <2>3, <2>4, <2>5
<1> QED
  BY <1>1, <1>2, <1>3 DEF Step

\* The other kernel threads hold what they held.
LEMMA OthersHold ==
  ASSUME NEW k \in KThread, Others(k), NEW j \in KThread \ {k}
  PROVE  /\ \A t \in Tid, e \in ThreadState : Held(j, t, e)' <=> Held(j, t, e)
         /\ \A s \in Sem : HoldsSemLock(j, s)' <=> HoldsSemLock(j, s)
BY DEF Others, Held, OnStack, HoldsSemLock, Handing

-----------------------------------------------------------------------------
(* HeldContext is preserved.                                               *)

\* A thread that a kernel thread puts into a queue, or takes out of one,
\* keeps the context that goes on with the call.
LEMMA StepContext ==
  ASSUME ThreadInv, NEW k \in KThread, Step(k)
  PROVE  HeldContext'
<1>1. /\ TypeOK /\ HeldSound /\ SemSound /\ HeldContext
      /\ Others(k) /\ Contexts(k) /\ Waits(k)
  BY StepFrame DEF ThreadInv, LockInv, PlaceInv
<1>2. {"RUNNING", "WAITING_JOIN", "WAITING_SEM"} \subseteq ThreadState
  BY DEF ThreadState
<1>3. ASSUME NEW j \in KThread \ {k}, NEW t \in Tid,
             Held(j, t, "WAITING_JOIN") \/ Held(j, t, "WAITING_SEM")
      PROVE  ctx'[t] = ctx[t]
  <2>1. tcbs[t] = "live" /\ state[t] \in {"WAITING_JOIN", "WAITING_SEM"}
    BY <1>1, <1>2, <1>3 DEF HeldSound
  <2>2. OnStack(k) => Held(k, current_tid[k], "RUNNING") /\ current_tid[k] \in Tid
    BY <1>1, HoldsAt
  <2>3. OnStack(k) => state[current_tid[k]] = "RUNNING"
    BY <1>1, <1>2, <2>2 DEF HeldSound
  <2> QED
    BY <1>1, <2>1, <2>3 DEF Contexts
<1>4. ASSUME NEW t \in Tid, Held(k, t, "WAITING_JOIN")'
      PROVE  ctx'[t] = [at |-> "rejoin", arg |-> queue'[k]]
  <2>1. pc'[k] = "sched" /\ task'[k] = "JOIN" /\ current_tid'[k] = t
    BY <1>4 DEF Held
  <2>2. PICK v \in Tid : JoinBlocks(k, v)
    BY <1>1, <2>1 DEF Waits
  <2> QED
    BY <1>1, <2>1, <2>2 DEF JoinBlocks, SwitchToSched, TypeOK
<1>5. ASSUME NEW t \in Tid, Held(k, t, "WAITING_SEM")'
      PROVE  \E s \in Sem : /\ HoldsSemLock(k, s)'
                            /\ ctx'[t] = [at |-> "sem_relock", arg |-> s]
  <2>1. CASE pc'[k] = "sem_wake" /\ tcb'[k] = t
    <3>1. PICK s \in Sem : SemPostWakes(k, s)
      BY <1>1, <2>1 DEF Waits
    <3>2. t = Head(sem_queue[s]) /\ arg'[k] = s /\ ctx' = ctx
      BY <1>1, <2>1, <3>1 DEF SemPostWakes, Goto, TypeOK, tcbVars
    <3>3. In(sem_queue[s], t)
      BY <1>1, <3>1, <3>2, InTail DEF SemPostWakes, HasWaiter, TypeOK
    <3>4. ctx[t] = [at |-> "sem_relock", arg |-> s]
      BY <1>1, <3>3 DEF SemSound
    <3> QED
      BY <2>1, <3>2, <3>4 DEF HoldsSemLock
  <2>2. CASE pc'[k] = "sched" /\ task'[k] = "SEM_WAIT" /\ current_tid'[k] = t
    <3>1. SemBlock(k)
      BY <1>1, <2>2 DEF Waits
    <3>2. /\ queue'[k] = arg[k]
          /\ ctx'[t] = [at |-> "sem_relock", arg |-> arg[k]]
      BY <1>1, <2>2, <3>1 DEF SemBlock, SwitchToSched, TypeOK
    <3>3. arg[k] \in Sem
      BY <1>1, <3>1, ArgFacts DEF SemBlock, At, TypeOK, LocalsOK
    <3> QED
      BY <2>2, <3>2, <3>3 DEF HoldsSemLock, Handing
  <2> QED
    BY <1>5, <2>1, <2>2 DEF Held
<1>6. ASSUME NEW j \in KThread \ {k}, NEW t \in Tid
      PROVE  /\ Held(j, t, "WAITING_JOIN")' =>
                   ctx'[t] = [at |-> "rejoin", arg |-> queue'[j]]
             /\ Held(j, t, "WAITING_SEM")' =>
                   \E s \in Sem : /\ HoldsSemLock(j, s)'
                                  /\ ctx'[t] = [at |-> "sem_relock", arg |-> s]
  <2>1. /\ Held(j, t, "WAITING_JOIN")' <=> Held(j, t, "WAITING_JOIN")
        /\ Held(j, t, "WAITING_SEM")' <=> Held(j, t, "WAITING_SEM")
        /\ \A s \in Sem : HoldsSemLock(j, s)' <=> HoldsSemLock(j, s)
        /\ queue'[j] = queue[j]
    BY <1>1, <1>2, OthersHold DEF Others
  <2>2. CASE Held(j, t, "WAITING_JOIN")
    BY <1>1, <1>3, <2>1, <2>2 DEF HeldContext
  <2>3. CASE Held(j, t, "WAITING_SEM")
    BY <1>1, <1>3, <2>1, <2>3 DEF HeldContext
  <2> QED
    BY <1>1, <1>2, <2>1, <2>2, <2>3 DEF HeldSound
<1> QED
  BY <1>4, <1>5, <1>6 DEF HeldContext

-----------------------------------------------------------------------------
(* SemInv is preserved.                                                    *)

\* How a thread becomes READY: it is made, yields or tears down, it is woken
\* by a post, or the thread that it joins exits.
LEMMA NewlyReady ==
  ASSUME ThreadInv, NEW k \in KThread, Step(k), NEW t \in Tid,
         tcbs'[t] = "live", state'[t] = "READY"
  PROVE  \/ tcbs[t] = "live" /\ state[t] = "READY" /\ ctx'[t] = ctx[t]
         \/ ctx'[t].at \in {"start", "user", "torndown"}
         \/ SemWake(k) /\ t = tcb[k] /\ ctx'[t] = ctx[t]
         \/ /\ SchedExit(k) /\ In(join_queue[current_tid[k]], t)
            /\ ctx'[t] = ctx[t]
<1>1. TypeOK /\ Contexts(k) /\ HeldSound /\ TearInv
  BY StepFrame DEF ThreadInv, LockInv, PlaceInv
<1>2. CASE tcbs[t] = "live" /\ state[t] = "READY"
  <2>1. OnStack(k) => state[current_tid[k]] = "RUNNING"
    BY <1>1, HoldsAt DEF HeldSound, ThreadState
  <2> QED
    BY <1>1, <1>2, <2>1 DEF Contexts
<1>3. CASE Call(k) /\ ~(tcbs[t] = "live" /\ state[t] = "READY")
  <2>1. Yield(k) /\ t = current_tid[k]
    BY <1>1, <1>3
    DEF Call, CreateTid, Yield, Exit, Teardown, JoinBlocks, JoinAborts,
        JoinFinished, SemInit, SemDestroy, SemWait, SemPost, SemPostWakes,
        SetState, Stop, tcbVars, TypeOK
  <2> QED
    BY <1>1, <2>1 DEF Yield, SwitchToSched, TypeOK
<1>4. CASE InCall(k) /\ ~(tcbs[t] = "live" /\ state[t] = "READY")
  <2>1. (CreateTcb(k) /\ t = arg[k]) \/ (SemWake(k) /\ t = tcb[k])
    BY <1>1, <1>4
    DEF InCall, CreateTcb, CreateOverwrites, CreateFails, CreateReady,
        Trampoline, Rejoin, Reclaim, Destroy, ClearSlot, ClearLoses,
        SemRelock, SemDecrement, SemBlock, SemWake, SemReady, TeardownSignal,
        TeardownSwitch, TeardownFinish, SetState, Stop, tcbVars, TypeOK
  <2> QED
    BY <1>1, <2>1 DEF CreateTcb, SemWake, TypeOK
<1>5. CASE Schedule(k) /\ ~(tcbs[t] = "live" /\ state[t] = "READY")
  <2>1. \/ SchedTeardown(k) /\ t = current_tid[k]
        \/ /\ SchedExit(k) /\ join_queue[current_tid[k]] # <<>>
           /\ t = Head(join_queue[current_tid[k]])
    BY <1>1, <1>5
    DEF Schedule, SchedNone, SchedYield, SchedExit, SchedJoin, SchedSemWait,
        SchedTeardown, Dequeue, DequeueExitAll, Reap, Dispatch, WakeJoiner,
        SetState, tcbVars, TypeOK
  <2>2. CASE SchedTeardown(k) /\ t = current_tid[k]
    BY <1>1, <2>2 DEF SchedTeardown, TearInv
  <2>3. CASE /\ SchedExit(k) /\ join_queue[current_tid[k]] # <<>>
             /\ t = Head(join_queue[current_tid[k]])
    <3>1. current_tid[k] \in Tid
      BY <1>1, <2>3, HoldsAt DEF SchedExit, At
    <3>2. In(join_queue[current_tid[k]], t)
      BY <1>1, <2>3, <3>1, InTail DEF TypeOK
    <3> QED
      BY <2>3, <3>2 DEF SchedExit
  <2> QED
    BY <2>1, <2>2, <2>3
<1> QED
  BY <1>2, <1>3, <1>4, <1>5 DEF Step

\* What a step of k does to semaphore s.  Its lock is taken when it is free
\* and released by its holder; a semaphore that does not exist stays idle.
SemStep(k, s) ==
  /\ HoldsSemLock(k, s)' =>
        (HoldsSemLock(k, s) /\ sem_lock'[s] = sem_lock[s]) \/ sem_lock'[s] = k
  /\ \/ sem_lock'[s] = sem_lock[s]
     \/ sem_lock[s] = NULL /\ sem_lock'[s] = k /\ s \in sem_inited
     \/ HoldsSemLock(k, s) /\ sem_lock'[s] = NULL
     \/ s \notin sem_inited /\ sem_lock'[s] = NULL
  /\ \/ sem_queue'[s] = sem_queue[s] \/ sem_queue'[s] = <<>>
     \/ HasWaiter(s) \/ HoldsSemLock(k, s)
  /\ s \in sem_inited /\ s \notin sem_inited' => SemDestroy(k, s)

\* Every step treats a semaphore as SemStep says.
LEMMA StepSemStep ==
  ASSUME TypeOK, SemInv, NEW k \in KThread, Step(k), NEW s \in Sem
  PROVE  SemStep(k, s)
<1> USE DEF SemStep, HoldsSemLock, Handing, TypeOK
<1>1. CASE Call(k)
  <2>1. CASE \/ CreateTid(k) \/ Yield(k) \/ Exit(k) \/ Teardown(k)
             \/ \E t \in Tid : JoinBlocks(k, t) \/ JoinAborts(k, t)
                                                \/ JoinFinished(k, t)
    BY <2>1 DEF CreateTid, Yield, Exit, Teardown, JoinBlocks, JoinAborts,
       JoinFinished, MayJoin, InParent, InUser, SwitchToSched, Goto, Stop,
       semVars
  <2>2. ASSUME NEW r \in Sem, NEW v, SemInit(k, r, v) PROVE SemStep(k, s)
    BY <2>2 DEF SemInit, InParent, InUser
  <2>3. ASSUME NEW r \in Sem, SemDestroy(k, r) PROVE SemStep(k, s)
    BY <2>3 DEF SemDestroy, InParent, InUser
  <2>4. ASSUME NEW r \in Sem, SemWait(k, r) PROVE SemStep(k, s)
    BY <2>4 DEF SemWait, LockSem, InUser, Goto
  <2>5. ASSUME NEW r \in Sem, SemPost(k, r) PROVE SemStep(k, s)
    BY <2>5 DEF SemPost, InUser
  <2>6. ASSUME NEW r \in Sem, SemPostWakes(k, r) PROVE SemStep(k, s)
    BY <2>6 DEF SemPostWakes, HasWaiter, LockSem, InUser, Goto
  <2> QED
    BY <1>1, <2>1, <2>2, <2>3, <2>4, <2>5, <2>6 DEF Call
<1>2. CASE InCall(k)
  <2>1. CASE \/ CreateTcb(k) \/ CreateOverwrites(k) \/ CreateFails(k)
             \/ CreateReady(k) \/ Trampoline(k)
    BY <2>1 DEF CreateTcb, CreateOverwrites, CreateFails, CreateReady,
       Trampoline, At, Return, Goto, Stop, semVars
  <2>2. CASE \/ Rejoin(k) \/ Reclaim(k) \/ Destroy(k) \/ ClearSlot(k)
             \/ ClearLoses(k)
    BY <2>2 DEF Rejoin, Reclaim, Destroy, ClearSlot, ClearLoses, At, Return,
       Goto, Stop, semVars
  <2>3. CASE SemRelock(k)
    BY <2>3 DEF SemRelock, LockSem, At, Goto, SemInv
  <2>4. CASE SemDecrement(k)
    BY <2>4 DEF SemDecrement, UnlockSem, At, Return, Goto
  <2>5. CASE SemBlock(k) \/ SemWake(k)
    BY <2>5 DEF SemBlock, SemWake, SwitchToSched, At, Goto, semVars
  <2>6. CASE SemReady(k)
    BY <2>6 DEF SemReady, UnlockSem, At, Return, Goto
  <2>7. CASE TeardownSignal(k) \/ TeardownSwitch(k) \/ TeardownFinish(k)
    BY <2>7 DEF TeardownSignal, TeardownSwitch, TeardownFinish, SwitchToSched,
       At, Goto, semVars
  <2> QED
    BY <1>2, <2>1, <2>2, <2>3, <2>4, <2>5, <2>6, <2>7 DEF InCall
<1>3. CASE Schedule(k)
  <2>1. CASE \/ SchedNone(k) \/ SchedYield(k) \/ SchedExit(k) \/ SchedJoin(k)
             \/ SchedTeardown(k) \/ Dequeue(k) \/ DequeueExitAll(k)
    BY <2>1 DEF SchedNone, SchedYield, SchedExit, SchedJoin, SchedTeardown,
       Dequeue, DequeueExitAll, TaskDone, At, Goto, semVars
  <2>2. CASE SchedSemWait(k)
    BY <2>2 DEF SchedSemWait, UnlockSem, TaskDone, At, Goto
  <2>3. CASE Reap(k)
    BY <2>3 DEF Reap, At, Goto, semVars, schedVars, LocalsOK
  <2>4. CASE Dispatch(k)
    <3>1. ctx[tcb[k]].at \in ResumePc
      BY <2>4 DEF Dispatch, At, LocalsOK
    <3> QED
      BY <2>4, <3>1 DEF Dispatch, ResumePc, At, Goto, semVars
  <2> QED
    BY <1>3, <2>1, <2>2, <2>3, <2>4 DEF Schedule
<1> QED
  BY <1>1, <1>2, <1>3 DEF Step

\* Every step preserves SemInv: locks of semaphores are owned by whoever is
\* in a critical section, and no call goes on after a destroy.
LEMMA StepSem ==
  ASSUME ThreadInv, NEW k \in KThread, Step(k)
  PROVE  SemInv'
<1>1. /\ TypeOK /\ HeldSound /\ JoinSound /\ HeldContext /\ SemInv
      /\ Others(k) /\ Waits(k)
  BY StepFrame DEF ThreadInv, LockInv, PlaceInv
<1>2. \A s \in Sem : SemStep(k, s)
  BY <1>1, StepSemStep
<1>3. SemLockOwned'
  <2> SUFFICES ASSUME NEW j \in KThread, NEW s \in Sem, HoldsSemLock(j, s)'
               PROVE  sem_lock'[s] = j
    BY DEF SemLockOwned
  <2>1. CASE j = k
    BY <1>1, <1>2, <2>1 DEF SemStep, SemInv, SemLockOwned
  <2>2. CASE j # k
    <3>1. HoldsSemLock(j, s) /\ sem_lock[s] = j
      BY <1>1, <2>2, OthersHold DEF SemInv, SemLockOwned
    <3>2. ~HoldsSemLock(k, s) /\ sem_lock[s] # NULL /\ s \in sem_inited
      BY <1>1, <2>2, <3>1, SentinelAssumption DEF SemInv, SemLockOwned
    <3> QED
      BY <1>2, <3>1, <3>2 DEF SemStep
  <2> QED
    BY <2>1, <2>2
<1>4. ASSUME NEW s \in Sem, s \notin sem_inited'
      PROVE  sem_lock'[s] = NULL /\ sem_queue'[s] = <<>>
  <2>1. CASE s \in sem_inited
    BY <1>2, <1>4, <2>1 DEF SemStep, SemDestroy, InUse
  <2>2. CASE s \notin sem_inited
    <3>1. sem_lock[s] = NULL /\ sem_queue[s] = <<>>
      BY <1>1, <2>2 DEF SemInv
    <3>2. ~HoldsSemLock(k, s)
      BY <1>1, <3>1, SentinelAssumption DEF SemInv, SemLockOwned
    <3> QED
      BY <1>2, <2>2, <3>1, <3>2 DEF SemStep, HasWaiter
  <2> QED
    BY <2>1, <2>2
<1>5. ASSUME NEW s \in sem_inited, InUse(s) PROVE s \in sem_inited'
  <2>1. s \in Sem
    BY <1>1 DEF TypeOK
  <2> QED
    BY <1>2, <1>5, <2>1 DEF SemStep, SemDestroy
<1>6. ASSUME NEW t \in Tid, tcbs[t] = "live", state[t] = "READY",
             ctx[t].at = "sem_relock"
      PROVE  ctx[t].arg \in sem_inited'
  <2> DEFINE s == ctx[t].arg
  <2>1. s \in sem_inited
    BY <1>1, <1>6 DEF SemInv
  <2>2. ctx[t] = [at |-> "sem_relock", arg |-> s]
    BY <1>1, <1>6 DEF TypeOK
  <2>3. InUse(s)
    BY <1>6, <2>2 DEF InUse
  <2> QED
    BY <1>5, <2>1, <2>3
<1>7. ASSUME NEW t \in Tid, tcbs'[t] = "live", state'[t] = "READY",
             ctx'[t].at = "sem_relock"
      PROVE  ctx'[t].arg \in sem_inited'
  <2>1. CASE tcbs[t] = "live" /\ state[t] = "READY" /\ ctx'[t] = ctx[t]
    BY <1>6, <1>7, <2>1
  <2>2. CASE SemWake(k) /\ t = tcb[k] /\ ctx'[t] = ctx[t]
    <3>1. Held(k, t, "WAITING_SEM")
      BY <1>1, <2>2, HoldsAt DEF SemWake, At
    <3>2. PICK s \in Sem : /\ HoldsSemLock(k, s)
                           /\ ctx[t] = [at |-> "sem_relock", arg |-> s]
      BY <1>1, <3>1 DEF HeldContext
    <3>3. s \in sem_inited
      BY <1>1, <3>2, SentinelAssumption DEF SemInv, SemLockOwned
    <3> QED
      BY <2>2, <3>2, <3>3 DEF SemWake, semVars
  <2>3. CASE /\ SchedExit(k) /\ In(join_queue[current_tid[k]], t)
             /\ ctx'[t] = ctx[t]
    <3>1. current_tid[k] \in Tid
      BY <1>1, <2>3, HoldsAt DEF SchedExit, At
    <3>2. ctx[t] = [at |-> "rejoin", arg |-> current_tid[k]]
      BY <1>1, <2>3, <3>1 DEF JoinSound
    <3> QED
      BY <1>7, <2>3, <3>2
  <2> QED
    BY <1>7, <2>1, <2>2, <2>3, NewlyReady
<1>8. ASSUME NEW j \in KThread, pc[j] = "sem_relock"
      PROVE  arg[j] \in sem_inited'
  <2>1. arg[j] \in sem_inited /\ InUse(arg[j])
    BY <1>1, <1>8 DEF SemInv, InUse
  <2> QED
    BY <1>5, <2>1
<1>9. ASSUME NEW j \in KThread, pc'[j] = "sem_relock"
      PROVE  arg'[j] \in sem_inited'
  <2>1. CASE j = k /\ Dispatch(k)
    <3>1. /\ tcb[k] \in Tid /\ ctx[tcb[k]].at = "sem_relock"
          /\ arg'[k] = ctx[tcb[k]].arg
      BY <1>1, <1>9, <2>1 DEF Dispatch, At, Goto, TypeOK, LocalsOK
    <3>2. tcbs[tcb[k]] = "live" /\ state[tcb[k]] = "READY"
      BY <1>1, <2>1, HoldsAt DEF Dispatch, At, HeldSound, ThreadState
    <3> QED
      BY <1>6, <2>1, <3>1, <3>2
  <2>2. CASE j # k
    BY <1>1, <1>8, <1>9, <2>2 DEF Others
  <2> QED
    BY <1>1, <1>9, <2>1, <2>2 DEF Waits
<1> QED
  BY <1>3, <1>4, <1>7, <1>9 DEF SemInv

-----------------------------------------------------------------------------
(* JoinInv is preserved.                                                   *)

\* How a step of k ends a join, begins the last part of one, frees a TCB and
\* lets a thread wait or finish.
JoinStep(k) ==
  /\ \A u \in joining : u \notin joining' => ClearSlot(k) /\ u = arg[k]
  /\ \A u \in Tid : Claims(k, u)' =>
        \/ Claims(k, u) /\ (pc'[k] # "clear" => pc[k] # "clear")
        \/ JoinFinished(k, u)
        \/ Dispatch(k) /\ ctx[tcb[k]] = [at |-> "rejoin", arg |-> u]
  /\ \A u \in Tid : tcbs[u] = "live" /\ tcbs'[u] # "live" =>
        (Destroy(k) /\ u = arg[k]) \/ TeardownFinish(k)
  /\ \A t \in Tid : tcbs'[t] = "live" /\ state'[t] = "WAITING_JOIN" =>
        \/ tcbs[t] = "live" /\ state[t] = "WAITING_JOIN" /\ ctx'[t] = ctx[t]
        \/ \E u \in Tid : JoinBlocks(k, u) /\ t = current_tid[k]
  /\ \A t \in Tid : tcbs'[t] = "live" /\ state'[t] = "FINISHED" =>
        \/ tcbs[t] = "live" /\ state[t] = "FINISHED"
        \/ Exit(k) /\ t = current_tid[k]

\* Every step treats joins as JoinStep says.
LEMMA StepJoinStep ==
  ASSUME ThreadInv, NEW k \in KThread, Step(k)
  PROVE  JoinStep(k)
<1>1. TypeOK /\ Contexts(k) /\ HeldSound
  BY StepFrame DEF ThreadInv, LockInv, PlaceInv
<1>2. OnStack(k) => state[current_tid[k]] = "RUNNING"
  BY <1>1, HoldsAt DEF HeldSound, ThreadState
<1>3. ASSUME NEW t \in Tid, tcbs[t] = "live", state[t] = "WAITING_JOIN"
      PROVE  ctx'[t] = ctx[t]
  BY <1>1, <1>2, <1>3 DEF Contexts
<1>4. CASE Call(k)
  <2> USE <1>1, <1>4 DEF Call, CreateTid, Yield, Exit, Teardown, JoinBlocks,
      JoinAborts, JoinFinished, MayJoin, InParent, InUser, SemInit,
      SemDestroy, SemWait, SemPost, SemPostWakes, Stop, tidVars, tcbVars, TypeOK
  <2>1. \A u \in joining : u \in joining'
    OBVIOUS
  <2>2. \A u \in Tid : Claims(k, u)' => JoinFinished(k, u)
    BY DEF Claims, Goto, SwitchToSched
  <2>3. tcbs' = tcbs
    OBVIOUS
  <2>4. ASSUME NEW t \in Tid, state'[t] = "WAITING_JOIN",
               state[t] # "WAITING_JOIN"
        PROVE  \E u \in Tid : JoinBlocks(k, u) /\ t = current_tid[k]
    BY <2>4 DEF SetState
  <2>5. ASSUME NEW t \in Tid, state'[t] = "FINISHED", state[t] # "FINISHED"
        PROVE  Exit(k) /\ t = current_tid[k]
    BY <2>5 DEF SetState
  <2> HIDE <1>1, <1>4 DEF Call, CreateTid, Yield, Exit, Teardown, JoinBlocks,
      JoinAborts, JoinFinished, MayJoin, InParent, InUser, SemInit,
      SemDestroy, SemWait, SemPost, SemPostWakes, Stop, tidVars, tcbVars, TypeOK
  <2> QED
    BY <1>3, <2>1, <2>2, <2>3, <2>4, <2>5 DEF JoinStep
<1>5. CASE InCall(k)
  <2> USE <1>1, <1>5 DEF InCall, CreateTcb, CreateOverwrites, CreateFails,
      CreateReady, Trampoline, Rejoin, Reclaim, Destroy, ClearSlot,
      ClearLoses, SemRelock, SemDecrement, SemBlock, SemWake, SemReady,
      TeardownSignal, TeardownSwitch, TeardownFinish, At, Stop, tidVars,
      tcbVars, TypeOK
  <2>1. \A u \in joining : u \notin joining' => ClearSlot(k) /\ u = arg[k]
    OBVIOUS
  <2>2. \A u \in Tid : Claims(k, u)' =>
           Claims(k, u) /\ (pc'[k] # "clear" => pc[k] # "clear")
    BY DEF Claims, Goto, Return, SwitchToSched
  <2>3. \A u \in Tid : tcbs[u] = "live" /\ tcbs'[u] # "live" =>
        (Destroy(k) /\ u = arg[k]) \/ TeardownFinish(k)
    OBVIOUS
  <2>4. ASSUME NEW t \in Tid, tcbs'[t] = "live",
               state'[t] \in {"WAITING_JOIN", "FINISHED"}
        PROVE  tcbs[t] = "live" /\ state'[t] = state[t]
    BY <2>4 DEF SetState
  <2> HIDE <1>1, <1>5 DEF InCall, CreateTcb, CreateOverwrites, CreateFails,
      CreateReady, Trampoline, Rejoin, Reclaim, Destroy, ClearSlot,
      ClearLoses, SemRelock, SemDecrement, SemBlock, SemWake, SemReady,
      TeardownSignal, TeardownSwitch, TeardownFinish, At, Stop, tidVars,
      tcbVars, TypeOK
  <2> QED
    BY <1>3, <2>1, <2>2, <2>3, <2>4 DEF JoinStep
<1>6. CASE Schedule(k)
  <2> USE <1>1, <1>6 DEF Schedule, SchedNone, SchedYield, SchedExit,
      SchedJoin, SchedSemWait, SchedTeardown, Dequeue, DequeueExitAll, Reap,
      Dispatch, tidVars, tcbVars, TypeOK
  <2>1. joining' = joining /\ tcbs' = tcbs
    OBVIOUS
  <2>2. ASSUME NEW u \in Tid, Claims(k, u)'
        PROVE  Dispatch(k) /\ ctx[tcb[k]] = [at |-> "rejoin", arg |-> u]
    <3>1. Dispatch(k) /\ pc'[k] = ctx[tcb[k]].at /\ arg'[k] = ctx[tcb[k]].arg
      BY <2>2 DEF Claims, Goto, TaskDone
    <3>2. tcb[k] \in Tid /\ ctx[tcb[k]].at = "rejoin" /\ ctx[tcb[k]].arg = u
      BY <2>2, <3>1 DEF Claims, LocalsOK, At, ResumePc
    <3> QED
      BY <3>1, <3>2
  <2>3. ASSUME NEW t \in Tid, state'[t] \in {"WAITING_JOIN", "FINISHED"}
        PROVE  state'[t] = state[t]
    BY <2>3 DEF SetState, WakeJoiner
  <2> HIDE <1>1, <1>6 DEF Schedule, SchedNone, SchedYield, SchedExit,
      SchedJoin, SchedSemWait, SchedTeardown, Dequeue, DequeueExitAll, Reap,
      Dispatch, tidVars, tcbVars, TypeOK
  <2> QED
    BY <1>3, <2>1, <2>2, <2>3 DEF JoinStep
<1> QED
  BY <1>4, <1>5, <1>6 DEF Step

\* A thread that has finished does nothing more.
LEMMA FinishedStays ==
  ASSUME ThreadInv, NEW k \in KThread, Step(k), NEW u \in Tid,
         tcbs[u] = "live", state[u] = "FINISHED", tcbs'[u] = "live"
  PROVE  state'[u] = "FINISHED"
<1>1. TypeOK /\ HeldSound /\ JoinSound
  BY DEF ThreadInv, LockInv, PlaceInv
<1>2. tcbs[u] = "live" /\ state[u] = "FINISHED"
  OBVIOUS
<1>3. OnStack(k) => state[current_tid[k]] = "RUNNING"
  BY <1>1, HoldsAt DEF HeldSound, ThreadState
<1>4. /\ pc[k] = "dispatch" => state[tcb[k]] = "READY"
      /\ pc[k] = "sem_wake" => state[tcb[k]] = "WAITING_SEM"
      /\ pc[k] = "sched" /\ task[k] = "TEARDOWN" =>
            state[current_tid[k]] = "RUNNING"
  BY <1>1, HoldsAt DEF HeldSound, ThreadState
<1>5. CASE Call(k)
  BY <1>1, <1>2, <1>3, <1>5
  DEF Call, CreateTid, Yield, Exit, Teardown, JoinBlocks, JoinAborts,
      JoinFinished, MayJoin, InParent, InUser, SemInit, SemDestroy, SemWait,
      SemPost, SemPostWakes, SetState, Stop, tcbVars, TypeOK,
      OnStack, UserPc
<1>6. CASE InCall(k)
  BY <1>1, <1>2, <1>3, <1>4, <1>6
  DEF InCall, CreateTcb, CreateOverwrites, CreateFails, CreateReady,
      Trampoline, Rejoin, Reclaim, Destroy, ClearSlot, ClearLoses,
      SemRelock, SemDecrement, SemBlock, SemWake, SemReady, TeardownSignal,
      TeardownSwitch, TeardownFinish, SetState, Stop, At, tcbVars, TypeOK,
      OnStack, UserPc
<1>7. CASE SchedExit(k)
  <2>1. current_tid[k] \in Tid
    BY <1>1, <1>7, HoldsAt DEF SchedExit, At
  <2>2. join_queue[current_tid[k]] # <<>> =>
           state[Head(join_queue[current_tid[k]])] = "WAITING_JOIN"
    BY <1>1, <2>1, InTail DEF JoinSound, TypeOK
  <2> QED
    BY <1>1, <1>2, <1>7, <2>2 DEF SchedExit, WakeJoiner, SetState, TypeOK
<1>8. CASE Schedule(k) /\ ~SchedExit(k)
  BY <1>1, <1>2, <1>4, <1>8
  DEF Schedule, SchedNone, SchedYield, SchedJoin, SchedSemWait,
      SchedTeardown, Dequeue, DequeueExitAll, Reap, Dispatch, SetState, At,
      tcbVars, TypeOK
<1> QED
  BY <1>5, <1>6, <1>7, <1>8 DEF Step

\* A thread that is gone stays so until it is destroyed.
LEMMA GoneStays ==
  ASSUME ThreadInv, NEW k \in KThread, Step(k), NEW u \in Tid, Gone(u),
         tcbs'[u] = "live"
  PROVE  Gone(u)'
<1>1. /\ TypeOK /\ HeldSound /\ JoinSound /\ Others(k)
  BY StepFrame DEF ThreadInv, LockInv, PlaceInv
<1>2. tcbs[u] = "live" /\ state[u] = "FINISHED"
  BY DEF Gone
<1>3. state'[u] = "FINISHED"
  BY <1>2, FinishedStays
<1>4. ~Held(k, u, "FINISHED")'
  <2> SUFFICES ASSUME pc'[k] = "sched", task'[k] = "EXIT", current_tid'[k] = u
               PROVE  FALSE
    BY DEF Held
  <2>1. OnStack(k) => state[current_tid[k]] = "RUNNING"
    BY <1>1, HoldsAt DEF HeldSound, ThreadState
  <2>2. CASE Call(k)
    <3>1. Exit(k) /\ u = current_tid[k]
      BY <1>1, <2>2 DEF Call, CreateTid, Yield, Exit, Teardown, JoinBlocks,
         JoinAborts, JoinFinished, MayJoin, InParent, InUser, SemInit,
         SemDestroy, SemWait, SemPost, SemPostWakes, Goto, SwitchToSched, Stop,
         schedVars, TypeOK
    <3> QED
      BY <1>2, <2>1, <3>1 DEF Exit, InUser, OnStack, UserPc
  <2>3. CASE InCall(k)
    BY <1>1, <2>3
    DEF InCall, CreateTcb, CreateOverwrites, CreateFails, CreateReady,
        Trampoline, Rejoin, Reclaim, Destroy, ClearSlot, ClearLoses,
        SemRelock, SemDecrement, SemBlock, SemWake, SemReady, TeardownSignal,
        TeardownSwitch, TeardownFinish, At, Return, Goto, SwitchToSched, Stop,
        schedVars, TypeOK
  <2>4. CASE Schedule(k)
    BY <1>1, <2>4
    DEF Schedule, SchedNone, SchedYield, SchedExit, SchedJoin, SchedSemWait,
        SchedTeardown, Dequeue, DequeueExitAll, Reap, Dispatch, At, TaskDone,
        Goto, schedVars, TypeOK, LocalsOK, ResumePc
  <2> QED
    BY <2>2, <2>3, <2>4 DEF Step
<1>5. \A j \in KThread \ {k} : ~Held(j, u, "FINISHED")'
  BY <1>1, OthersHold DEF Gone, ThreadState
<1> QED
  BY <1>3, <1>4, <1>5 DEF Gone

\* A thread is gone when it was before, or by its own exit.
LEMMA GoneBy ==
  ASSUME ThreadInv, NEW k \in KThread, Step(k), NEW u \in Tid, Gone(u)'
  PROVE  Gone(u) \/ (SchedExit(k) /\ u = current_tid[k])
<1>1. /\ TypeOK /\ Others(k) /\ JoinStep(k)
  BY StepFrame, StepJoinStep DEF ThreadInv, LockInv
<1>2. /\ tcbs'[u] = "live" /\ state'[u] = "FINISHED"
      /\ \A j \in KThread : ~Held(j, u, "FINISHED")'
  BY DEF Gone
<1>3. ~(Exit(k) /\ u = current_tid[k])
  BY <1>1, <1>2 DEF Exit, Held, Goto, TypeOK
<1>4. tcbs[u] = "live" /\ state[u] = "FINISHED"
  BY <1>1, <1>2, <1>3 DEF JoinStep
<1>5. \A j \in KThread \ {k} : ~Held(j, u, "FINISHED")
  BY <1>1, <1>2, OthersHold DEF ThreadState
<1>6. CASE Held(k, u, "FINISHED")
  <2>1. pc[k] = "sched" /\ task[k] = "EXIT" /\ current_tid[k] = u
    BY <1>6 DEF Held
  <2>2. SchedExit(k)
    BY <2>1
    DEF Step, Call, CreateTid, Yield, Exit, Teardown, JoinBlocks, JoinAborts,
        JoinFinished, MayJoin, InParent, InUser, SemInit, SemDestroy, SemWait,
        SemPost, SemPostWakes, InCall, CreateTcb, CreateOverwrites,
        CreateFails, CreateReady, Trampoline, Rejoin, Reclaim, Destroy,
        ClearSlot, ClearLoses, SemRelock, SemDecrement, SemBlock, SemWake,
        SemReady, TeardownSignal, TeardownSwitch, TeardownFinish, At,
        Schedule, SchedNone, SchedYield, SchedExit, SchedJoin, SchedSemWait,
        SchedTeardown, Dequeue, DequeueExitAll, Reap, Dispatch
  <2> QED
    BY <2>1, <2>2
<1> QED
  BY <1>4, <1>5, <1>6 DEF Gone

\* Nobody waits to join a thread whose exit is complete: the exit found its
\* joiner in the queue and made it READY.
LEMMA ExitWakes ==
  ASSUME ThreadInv, NEW k \in KThread, SchedExit(k), NEW t \in Tid,
         Awaits(t, current_tid[k]), state[t] = "WAITING_JOIN"
  PROVE  state'[t] = "READY"
<1> DEFINE u == current_tid[k]
<1>1. /\ TypeOK /\ TcbsLockOwned /\ HeldSound /\ JoinSound /\ Found
      /\ HeldContext /\ JoinInv
  BY DEF ThreadInv, LockInv, PlaceInv
<1>2. /\ pc[k] = "sched" /\ task[k] = "EXIT" /\ u \in Tid /\ tcbs_lock = k
  BY <1>1, HoldsAt
  DEF SchedExit, At, TcbsLockOwned, HoldsTcbsLock, Handing
<1>3. ~\E j \in KThread, c \in ThreadState : Held(j, t, c)
  <2> SUFFICES ASSUME NEW j \in KThread, NEW c \in ThreadState, Held(j, t, c)
               PROVE  FALSE
    OBVIOUS
  <2>1. c = "WAITING_JOIN"
    BY <1>1 DEF HeldSound
  <2>2. pc[j] = "sched" /\ task[j] = "JOIN"
    BY <2>1 DEF Held
  <2>3. tcbs_lock = j
    BY <1>1, <2>2 DEF TcbsLockOwned, HoldsTcbsLock, Handing
  <2> QED
    BY <1>2, <2>2, <2>3
<1>4. tcbs[t] = "live" /\ ctx[t] = [at |-> "rejoin", arg |-> u]
  BY DEF Awaits
<1>5. PICK v \in Tid : In(join_queue[v], t)
  BY <1>1, <1>3, <1>4 DEF Found
<1>6. v = u
  <2>1. ctx[t] = [at |-> "rejoin", arg |-> v]
    BY <1>1, <1>5 DEF JoinSound
  <2>2. ctx[t].arg = v /\ ctx[t].arg = u
    BY <2>1, <1>4
  <2> QED
    BY <2>2
<1>7. join_queue[u] # <<>> /\ join_queue[u] \in Seq(Tid)
  BY <1>1, <1>2, <1>5, <1>6, EmptyQueue DEF TypeOK
<1> DEFINE h == Head(join_queue[u])
<1>8. h \in Tid /\ In(join_queue[u], h)
  BY <1>7, InTail
<1>9. /\ tcbs[h] = "live" /\ state[h] = "WAITING_JOIN"
      /\ ctx[h] = [at |-> "rejoin", arg |-> u]
  BY <1>1, <1>2, <1>8 DEF JoinSound
<1>10. h = t
  <2>1. Awaits(h, u)
    BY <1>9 DEF Awaits
  <2> HIDE DEF u, h
  <2>2. Awaits(t, u)
    BY DEF u
  <2> QED
    BY <1>1, <1>2, <1>8, <2>1, <2>2 DEF JoinInv
<1>11. state' = [state EXCEPT ![h] = "READY"]
  BY <1>7 DEF SchedExit, WakeJoiner, SetState
<1> QED
  BY <1>1, <1>10, <1>11 DEF TypeOK

\* What becomes of the joiners: a thread that awaits u did so before, or
\* calls uthread_join(u); it becomes READY when u exits.
LEMMA AwaitsBy ==
  ASSUME ThreadInv, NEW k \in KThread, Step(k), NEW t \in Tid, NEW u \in Tid,
         Awaits(t, u)'
  PROVE  \/ Awaits(t, u) /\ state'[t] = state[t]
         \/ /\ Awaits(t, u) /\ state'[t] = "READY"
            /\ SchedExit(k) /\ u = current_tid[k]
         \/ JoinBlocks(k, u) /\ t = current_tid[k] /\ state'[t] = "WAITING_JOIN"
<1>1. /\ TypeOK /\ HeldSound /\ JoinSound /\ HeldContext /\ JoinStep(k)
  BY StepJoinStep DEF ThreadInv, LockInv, PlaceInv
<1>2. /\ tcbs'[t] = "live" /\ state'[t] \in {"READY", "WAITING_JOIN"}
      /\ ctx'[t] = [at |-> "rejoin", arg |-> u]
  BY DEF Awaits
<1>3. CASE state'[t] = "WAITING_JOIN"
  <2>1. CASE tcbs[t] = "live" /\ state[t] = "WAITING_JOIN" /\ ctx'[t] = ctx[t]
    BY <1>2, <1>3, <2>1 DEF Awaits
  <2>2. ASSUME NEW v \in Tid, JoinBlocks(k, v), t = current_tid[k]
        PROVE  JoinBlocks(k, u)
    <3>1. ctx'[t] = [at |-> "rejoin", arg |-> v]
      BY <1>1, <2>2 DEF JoinBlocks, SwitchToSched, TypeOK
    <3>2. ctx'[t].arg = u /\ ctx'[t].arg = v
      BY <1>2, <3>1
    <3> QED
      BY <2>2, <3>2
  <2> QED
    BY <1>1, <1>2, <1>3, <2>1, <2>2 DEF JoinStep
<1>4. CASE state'[t] = "READY"
  <2>1. CASE tcbs[t] = "live" /\ state[t] = "READY" /\ ctx'[t] = ctx[t]
    BY <1>2, <1>4, <2>1 DEF Awaits
  <2>2. ctx'[t].at = "rejoin" /\ ctx'[t].arg = u
    BY <1>2
  <2>3. ~(SemWake(k) /\ t = tcb[k] /\ ctx'[t] = ctx[t])
    <3> SUFFICES ASSUME SemWake(k), t = tcb[k], ctx'[t] = ctx[t]
                 PROVE  FALSE
      OBVIOUS
    <3>1. Held(k, t, "WAITING_SEM")
      BY <1>1, HoldsAt DEF SemWake, At
    <3>2. PICK s \in Sem : ctx[t] = [at |-> "sem_relock", arg |-> s]
      BY <1>1, <3>1 DEF HeldContext
    <3>3. ctx[t].at = "sem_relock"
      BY <3>2
    <3> QED
      BY <2>2, <3>3
  <2>4. CASE /\ SchedExit(k) /\ In(join_queue[current_tid[k]], t)
             /\ ctx'[t] = ctx[t]
    <3>1. current_tid[k] \in Tid
      BY <1>1, <2>4, HoldsAt DEF SchedExit, At
    <3>2. /\ tcbs[t] = "live" /\ state[t] = "WAITING_JOIN"
          /\ ctx[t] = [at |-> "rejoin", arg |-> current_tid[k]]
      BY <1>1, <2>4, <3>1 DEF JoinSound
    <3>3. ctx[t].arg = u /\ ctx[t].arg = current_tid[k]
      BY <2>2, <2>4, <3>2
    <3> QED
      BY <1>4, <2>4, <3>2, <3>3 DEF Awaits
  <2> QED
    BY <1>2, <1>4, <2>1, <2>2, <2>3, <2>4, NewlyReady
<1> QED
  BY <1>2, <1>3, <1>4

\* A step on another kernel thread neither begins nor ends the last part of
\* a join.
LEMMA OthersClaim ==
  ASSUME NEW k \in KThread, Others(k), NEW j \in KThread \ {k}, NEW u
  PROVE  (Claims(j, u)' <=> Claims(j, u)) /\ pc'[j] = pc[j]
BY DEF Others, Claims

\* Every step preserves JoinInv: a target keeps its only joiner, and stays
\* allocated until that one frees it.
LEMMA StepJoin ==
  ASSUME ThreadInv, NEW k \in KThread, Step(k)
  PROVE  JoinInv'
<1>1. /\ TypeOK /\ TcbsLockOwned /\ HeldSound /\ JoinSound /\ JoinInv
      /\ Others(k) /\ JoinStep(k)
  BY StepFrame, StepJoinStep DEF ThreadInv, LockInv, PlaceInv
<1>2. CASE TeardownFinish(k)
  <2>1. \A t \in Tid : tcbs'[t] # "live"
    BY <1>2 DEF TeardownFinish
  <2>2. \A j \in KThread : pc'[j] \in {"exited", "done"}
    BY <1>1, <1>2 DEF TeardownFinish, At, Goto, TypeOK
  <2> QED
    BY <2>1, <2>2 DEF JoinInv, Claims, Awaits
<1>3. ASSUME ~TeardownFinish(k)
      PROVE  /\ \A u \in Tid : Gone(u) /\ ~(Destroy(k) /\ u = arg[k]) => Gone(u)'
             /\ \A u \in Tid : tcbs[u] = "live" /\ ~(Destroy(k) /\ u = arg[k])
                                  => tcbs'[u] = "live"
  BY <1>1, <1>3, GoneStays DEF JoinStep, Gone
<1>4. Destroy(k) \/ ClearSlot(k) => arg[k] \in Tid /\ Claims(k, arg[k])
  BY <1>1, ArgFacts DEF Destroy, ClearSlot, At, Claims, TypeOK, LocalsOK
<1>5. ClearSlot(k) => \A u \in Tid : ~Claims(k, u)'
  BY <1>1 DEF ClearSlot, Return, Goto, Claims, TypeOK
<1>6. Destroy(k) => pc'[k] = "clear" /\ arg'[k] = arg[k]
  BY <1>1 DEF Destroy, Goto, TypeOK
<1>7. ASSUME ~TeardownFinish(k), NEW j \in KThread, NEW u \in Tid, Claims(j, u)'
      PROVE  /\ u \in joining'
             /\ \A i \in KThread : Claims(i, u)' => i = j
             /\ \A t \in Tid : ~Awaits(t, u)'
             /\ pc'[j] # "clear" => Gone(u)'
  <2>1. CASE Claims(j, u) /\ (j = k => (pc'[j] # "clear" => pc[j] # "clear"))
    <3>1. /\ u \in joining /\ \A i \in KThread : Claims(i, u) => i = j
          /\ \A t \in Tid : ~Awaits(t, u)
          /\ pc[j] # "clear" => Gone(u)
      BY <1>1, <2>1 DEF JoinInv
    <3>2. u \in joining'
      BY <1>1, <1>4, <1>5, <1>7, <3>1 DEF JoinStep
    <3>3. ~JoinFinished(k, u) /\ ~JoinBlocks(k, u)
      BY <3>1 DEF JoinFinished, JoinBlocks, MayJoin
    <3>4. ~(Dispatch(k) /\ ctx[tcb[k]] = [at |-> "rejoin", arg |-> u])
      <4> SUFFICES ASSUME Dispatch(k), ctx[tcb[k]] = [at |-> "rejoin", arg |-> u]
                   PROVE  FALSE
        OBVIOUS
      <4>1. tcb[k] \in Tid /\ tcbs[tcb[k]] = "live" /\ state[tcb[k]] = "READY"
        BY <1>1, HoldsAt DEF Dispatch, At, HeldSound, ThreadState
      <4> QED
        BY <3>1, <4>1 DEF Awaits
    <3>5. ASSUME NEW i \in KThread, Claims(i, u)' PROVE i = j
      <4>1. Claims(i, u)
        BY <1>1, <3>3, <3>4, <3>5, OthersClaim DEF JoinStep
      <4> QED
        BY <3>1, <4>1
    <3>6. ASSUME NEW t \in Tid, Awaits(t, u)' PROVE FALSE
      BY <3>1, <3>3, <3>6, AwaitsBy
    <3>7. pc'[j] # "clear" => Gone(u)'
      <4> SUFFICES ASSUME pc'[j] # "clear" PROVE Gone(u)'
        OBVIOUS
      <4>1. pc[j] # "clear"
        BY <1>1, <2>1, OthersClaim
      <4>2. ~(Destroy(k) /\ u = arg[k])
        BY <1>4, <1>6, <3>1
      <4> QED
        BY <1>3, <1>7, <3>1, <4>1, <4>2
    <3> QED
      BY <3>2, <3>5, <3>6, <3>7
  <2>2. CASE j = k /\ JoinFinished(k, u)
    <3>1. /\ u \notin joining /\ u \in joining' /\ tcbs_lock = NULL
          /\ tcbs[u] = "live" /\ state[u] = "FINISHED" /\ pc[k] = "user"
      BY <2>2 DEF JoinFinished, MayJoin, TargetFinished, InParent, InUser
    <3>2. /\ \A i \in KThread : ~Claims(i, u)
          /\ \A t \in Tid : ~Awaits(t, u)
      BY <1>1, <3>1 DEF JoinInv
    <3>3. \A i \in KThread : Claims(i, u)' => i = k
      BY <1>1, <3>2, OthersClaim
    <3>4. ~JoinBlocks(k, u)
      BY <2>2 DEF JoinFinished, JoinBlocks
    <3>5. \A t \in Tid : ~Awaits(t, u)'
      BY <3>2, <3>4, AwaitsBy
    <3>6. Gone(u)
      BY <1>1, <3>1, SentinelAssumption
      DEF Gone, Held, TcbsLockOwned, HoldsTcbsLock, Handing
    <3>7. ~Destroy(k)
      BY <3>1 DEF Destroy, At
    <3> QED
      BY <1>3, <1>7, <2>2, <3>1, <3>3, <3>5, <3>6, <3>7
  <2>3. CASE /\ j = k /\ Dispatch(k)
             /\ ctx[tcb[k]] = [at |-> "rejoin", arg |-> u]
    <3> DEFINE v == tcb[k]
    <3>1. v \in Tid /\ tcbs[v] = "live" /\ state[v] = "READY"
      BY <1>1, <2>3, HoldsAt DEF Dispatch, At, HeldSound, ThreadState
    <3>2. Awaits(v, u)
      BY <2>3, <3>1 DEF Awaits
    <3>3. pc[k] = "dispatch" /\ state'[v] = "RUNNING"
      BY <1>1, <2>3, <3>1 DEF Dispatch, At, SetState, TypeOK
    <3> HIDE DEF v
    <3>4. u \in joining /\ Gone(u) /\ \A t \in Tid : Awaits(t, u) => t = v
      BY <1>1, <3>1, <3>2 DEF JoinInv
    <3>5. \A i \in KThread : ~Claims(i, u)
      BY <1>1, <3>1, <3>2 DEF JoinInv
    <3>6. /\ ~Destroy(k) /\ ~ClearSlot(k) /\ ~JoinBlocks(k, u)
      BY <3>3 DEF Destroy, ClearSlot, At, JoinBlocks, MayJoin, InParent, InUser
    <3>7. u \in joining'
      BY <1>1, <3>4, <3>6 DEF JoinStep
    <3>8. \A t \in Tid : ~Awaits(t, u)'
      <4> SUFFICES ASSUME NEW t \in Tid, Awaits(t, u)' PROVE FALSE
        OBVIOUS
      <4>1. Awaits(t, u)
        BY <3>6, AwaitsBy
      <4>2. t = v
        BY <3>4, <4>1
      <4> QED
        BY <3>3, <4>2 DEF Awaits
    <3> QED
      BY <1>1, <1>3, <1>7, <2>3, <3>4, <3>5, <3>6, <3>7, <3>8, OthersClaim
  <2> QED
    BY <1>1, <1>7, <2>1, <2>2, <2>3, OthersClaim DEF JoinStep
<1>8. ASSUME ~TeardownFinish(k), NEW t \in Tid, NEW u \in Tid, Awaits(t, u)'
      PROVE  /\ u \in joining'
             /\ \A v \in Tid : Awaits(v, u)' => v = t
             /\ state'[t] = "READY" => Gone(u)'
             /\ state'[t] = "WAITING_JOIN" => tcbs'[u] = "live" /\ ~Gone(u)'
  <2>1. CASE Awaits(t, u)
    <3>1. /\ u \in joining /\ \A v \in Tid : Awaits(v, u) => v = t
          /\ state[t] = "READY" => Gone(u)
          /\ state[t] = "WAITING_JOIN" => tcbs[u] = "live" /\ ~Gone(u)
      BY <1>1, <2>1 DEF JoinInv
    <3>2. \A j \in KThread : ~Claims(j, u)
      BY <1>1, <2>1 DEF JoinInv
    <3>3. ~(Destroy(k) /\ u = arg[k]) /\ ~(ClearSlot(k) /\ u = arg[k])
      BY <1>4, <3>2
    <3>4. ~JoinBlocks(k, u)
      BY <3>1 DEF JoinBlocks, MayJoin
    <3>5. u \in joining' /\ \A v \in Tid : Awaits(v, u)' => v = t
      BY <1>1, <3>1, <3>3, <3>4, AwaitsBy DEF JoinStep
    <3>6. CASE state'[t] = state[t]
      <4>1. state'[t] = "WAITING_JOIN" => ~Gone(u)'
        <5> SUFFICES ASSUME state'[t] = "WAITING_JOIN", Gone(u)' PROVE FALSE
          OBVIOUS
        <5>1. SchedExit(k) /\ u = current_tid[k]
          BY <3>1, <3>6, GoneBy
        <5>2. state'[t] = "READY"
          BY <2>1, <3>6, <5>1, ExitWakes
        <5> QED
          BY <5>2
      <4> QED
        BY <1>3, <1>8, <3>1, <3>3, <3>5, <3>6, <4>1
    <3>7. CASE SchedExit(k) /\ u = current_tid[k] /\ state'[t] = "READY"
      <4>1. Held(k, u, "FINISHED") /\ tcbs[u] = "live" /\ state[u] = "FINISHED"
        BY <1>1, <3>7, HoldsAt DEF SchedExit, At, HeldSound, ThreadState
      <4>2. \A j \in KThread \ {k} : ~Held(j, u, "FINISHED")'
        BY <1>1, <4>1, OthersHold DEF HeldSound, ThreadState
      <4>3. ~Held(k, u, "FINISHED")'
        BY <1>1, <3>7 DEF Held, SchedExit, TaskDone, Goto, TypeOK
      <4>4. join_queue[u] # <<>> =>
               state[Head(join_queue[u])] = "WAITING_JOIN"
        BY <1>1, InTail DEF JoinSound, TypeOK
      <4>5. tcbs'[u] = "live" /\ state'[u] = "FINISHED"
        BY <1>1, <3>7, <4>1, <4>4 DEF SchedExit, WakeJoiner, SetState, TypeOK
      <4> QED
        BY <3>5, <3>7, <4>2, <4>3, <4>5 DEF Gone
    <3> QED
      BY <1>8, <3>4, <3>6, <3>7, AwaitsBy
  <2>2. CASE /\ JoinBlocks(k, u) /\ t = current_tid[k]
             /\ state'[t] = "WAITING_JOIN"
    <3>1. /\ u \notin joining /\ u \in joining' /\ u # current_tid[k]
          /\ tcbs' = tcbs /\ tcbs[u] = "live" /\ state[u] # "FINISHED"
      BY <2>2 DEF JoinBlocks, MayJoin, TargetFinished
    <3>2. \A v \in Tid : ~Awaits(v, u)
      BY <1>1, <3>1 DEF JoinInv
    <3>3. \A v \in Tid : Awaits(v, u)' => v = t
      BY <2>2, <3>2, AwaitsBy
    <3>4. state'[u] # "FINISHED"
      BY <1>1, <2>2, <3>1 DEF JoinBlocks, SetState, TypeOK
    <3> QED
      BY <2>2, <3>1, <3>3, <3>4 DEF Gone
  <2> QED
    BY <1>8, <2>1, <2>2, AwaitsBy
<1>9. CASE ~TeardownFinish(k)
  BY <1>7, <1>8, <1>9 DEF JoinInv
<1> QED
  BY <1>2, <1>9

-----------------------------------------------------------------------------
(* TearInv is preserved.                                                   *)

\* How a step of k tears down, makes a thread READY and allocates one.
TearStep(k) ==
  /\ pc'[k] = "teardown" => Teardown(k) \/ TeardownSignal(k)
  /\ task'[k] = "TEARDOWN" => TeardownSwitch(k)
  /\ \A t \in Tid : ctx'[t].at = "torndown" =>
        ctx[t].at = "torndown" \/ (TeardownSwitch(k) /\ t = current_tid[k])
  /\ \A t \in Tid : state'[t] = "READY" =>
        \/ state[t] = "READY"
        \/ ctx'[t].at \in {"start", "user"}
        \/ SemWake(k) /\ t = tcb[k]
        \/ SchedExit(k) /\ In(join_queue[current_tid[k]], t)
        \/ SchedTeardown(k)
  /\ \A t \in Tid : tcbs[t] # "live" /\ tcbs'[t] = "live" =>
        CreateTcb(k) /\ t = arg[k]

\* Every step treats teardown as TearStep says.
LEMMA StepTearStep ==
  ASSUME ThreadInv, NEW k \in KThread, Step(k)
  PROVE  TearStep(k)
<1>1. TypeOK
  BY DEF ThreadInv, LockInv
<1>2. CASE Call(k)
  <2> USE <1>1, <1>2 DEF Call, CreateTid, Yield, Exit, Teardown, JoinBlocks,
      JoinAborts, JoinFinished, MayJoin, InParent, InUser, SemInit,
      SemDestroy, SemWait, SemPost, SemPostWakes, Stop, tcbVars, schedVars,
      SwitchToSched, TypeOK
  <2>1. (pc'[k] = "teardown" => Teardown(k)) /\ task'[k] # "TEARDOWN"
    BY DEF Goto, LocalsOK
  <2>2. \A t \in Tid : ctx'[t].at = "torndown" => ctx[t].at = "torndown"
    OBVIOUS
  <2>3. \A t \in Tid : state'[t] = "READY" =>
           state[t] = "READY" \/ ctx'[t].at \in {"start", "user"}
    BY DEF SetState
  <2>4. tcbs' = tcbs
    OBVIOUS
  <2> HIDE <1>1, <1>2 DEF Call, CreateTid, Yield, Exit, Teardown, JoinBlocks,
      JoinAborts, JoinFinished, MayJoin, InParent, InUser, SemInit,
      SemDestroy, SemWait, SemPost, SemPostWakes, Stop, tcbVars, schedVars,
      SwitchToSched, TypeOK
  <2> QED
    BY <2>1, <2>2, <2>3, <2>4 DEF TearStep
<1>3. CASE InCall(k)
  <2> USE <1>1, <1>3 DEF InCall, CreateTcb, CreateOverwrites, CreateFails,
      CreateReady, Trampoline, Rejoin, Reclaim, Destroy, ClearSlot,
      ClearLoses, SemRelock, SemDecrement, SemBlock, SemWake, SemReady,
      TeardownSignal, TeardownSwitch, TeardownFinish, At, Stop, tcbVars,
      schedVars, SwitchToSched, TypeOK
  <2>1. pc'[k] = "teardown" => TeardownSignal(k)
    BY DEF Goto, Return
  <2>2. task'[k] = "TEARDOWN" => TeardownSwitch(k)
    BY DEF LocalsOK
  <2>3. \A t \in Tid : ctx'[t].at = "torndown" =>
           ctx[t].at = "torndown" \/ (TeardownSwitch(k) /\ t = current_tid[k])
    OBVIOUS
  <2>4. \A t \in Tid : state'[t] = "READY" =>
           \/ state[t] = "READY" \/ ctx'[t].at \in {"start", "user"}
           \/ SemWake(k) /\ t = tcb[k]
    BY DEF SetState
  <2>5. \A t \in Tid : tcbs[t] # "live" /\ tcbs'[t] = "live" =>
           CreateTcb(k) /\ t = arg[k]
    OBVIOUS
  <2> HIDE <1>1, <1>3 DEF InCall, CreateTcb, CreateOverwrites, CreateFails,
      CreateReady, Trampoline, Rejoin, Reclaim, Destroy, ClearSlot,
      ClearLoses, SemRelock, SemDecrement, SemBlock, SemWake, SemReady,
      TeardownSignal, TeardownSwitch, TeardownFinish, At, Stop, tcbVars,
      schedVars, SwitchToSched, TypeOK
  <2> QED
    BY <2>1, <2>2, <2>3, <2>4, <2>5 DEF TearStep
<1>4. CASE Schedule(k)
  <2>1. tcbs' = tcbs /\ ctx' = ctx
    BY <1>4 DEF Schedule, SchedNone, SchedYield, SchedExit, SchedJoin,
       SchedSemWait, SchedTeardown, Dequeue, DequeueExitAll, Reap, Dispatch,
       tcbVars
  <2>2. pc'[k] # "teardown" /\ task'[k] # "TEARDOWN"
    <3>1. CASE Dispatch(k)
      <4>1. ctx[tcb[k]].at \in ResumePc
        BY <1>1, <3>1 DEF Dispatch, At, TypeOK, LocalsOK
      <4> QED
        BY <1>1, <3>1, <4>1
        DEF Dispatch, At, Goto, schedVars, TypeOK, LocalsOK, ResumePc
    <3> QED
      BY <1>1, <1>4, <3>1
      DEF Schedule, SchedNone, SchedYield, SchedExit, SchedJoin, SchedSemWait,
          SchedTeardown, Dequeue, DequeueExitAll, Reap, TaskDone, At, Goto,
          schedVars, TypeOK, LocalsOK
  <2>3. ASSUME NEW t \in Tid, state'[t] = "READY", state[t] # "READY",
               ~SchedTeardown(k)
        PROVE  SchedExit(k) /\ In(join_queue[current_tid[k]], t)
    <3>1. /\ SchedExit(k) /\ join_queue[current_tid[k]] # <<>>
          /\ t = Head(join_queue[current_tid[k]])
      BY <1>1, <1>4, <2>3
      DEF Schedule, SchedNone, SchedYield, SchedExit, SchedJoin, SchedSemWait,
          Dequeue, DequeueExitAll, Reap, Dispatch, WakeJoiner,
          SetState, tcbVars, TypeOK
    <3>2. current_tid[k] \in Tid
      BY <1>1, <3>1, HoldsAt DEF SchedExit, At
    <3> QED
      BY <1>1, <3>1, <3>2, InTail DEF TypeOK
  <2> QED
    BY <2>1, <2>2, <2>3 DEF TearStep
<1> QED
  BY <1>2, <1>3, <1>4 DEF Step

\* Main does one thing at a time.
LEMMA TearingAlone ==
  ASSUME ThreadInv, NEW k \in KThread, OnStack(k),
         pc[k] \notin {"teardown", "torndown"}, Tearing
  PROVE  FALSE
<1> DEFINE u == current_tid[k]
<1>1. TypeOK /\ HeldSound /\ TearInv
  BY DEF ThreadInv, LockInv, PlaceInv
<1>2. "RUNNING" \in ThreadState
  BY DEF ThreadState
<1>3. u \in Tid /\ Held(k, u, "RUNNING")
  BY <1>1, HoldsAt
<1>4. tcbs[u] = "live" /\ state[u] = "RUNNING"
  BY <1>1, <1>2, <1>3 DEF HeldSound
<1>5. u = MAIN
  BY <1>1, <1>3, <1>4 DEF TearInv
<1>6. CASE state[MAIN] = "READY"
  BY <1>4, <1>5, <1>6
<1>7. ASSUME NEW j \in KThread,
             pc[j] \in {"teardown", "torndown"} \/ task[j] = "TEARDOWN"
      PROVE  FALSE
  <2>1. current_tid[j] = MAIN
    BY <1>1, <1>7 DEF TearInv
  <2>2. OnStack(j) \/ (pc[j] = "sched" /\ task[j] = "TEARDOWN")
    BY <1>1, <1>7 DEF OnStack, UserPc, TypeOK, LocalsOK
  <2>3. Held(j, u, "RUNNING")
    BY <1>1, <1>5, <2>1, <2>2, HoldsAt
  <2>4. j = k
    BY <1>1, <1>2, <1>3, <2>3 DEF HeldSound
  <2> QED
    BY <1>1, <1>7, <2>4 DEF OnStack, UserPc, TypeOK, LocalsOK
<1> QED
  BY <1>6, <1>7 DEF Tearing

\* Teardown begins with uthread_teardown, by main.
LEMMA TearingBegins ==
  ASSUME ThreadInv, NEW k \in KThread, Step(k)
  PROVE  Tearing' => Tearing \/ Teardown(k)
<1>1. /\ TypeOK /\ HeldSound /\ JoinSound /\ HeldContext /\ TearInv
      /\ Others(k) /\ Contexts(k) /\ Waits(k) /\ TearStep(k)
  BY StepFrame, StepTearStep DEF ThreadInv, LockInv, PlaceInv
<1>2. MAIN \in Tid
  BY TidFacts
<1>3. {"RUNNING", "READY", "WAITING_SEM"} \subseteq ThreadState
  BY DEF ThreadState
<1>4. Teardown(k) => current_tid[k] = MAIN /\ current_tid'[k] = MAIN
  BY DEF Teardown
<1>5. TeardownSignal(k) \/ TeardownSwitch(k) =>
         current_tid[k] = MAIN /\ current_tid'[k] = MAIN /\ Tearing
  BY <1>1 DEF TeardownSignal, TeardownSwitch, At, TearInv, Tearing
<1>6. pc'[k] = "torndown" =>
         current_tid'[k] = MAIN /\ Tearing
  <2> SUFFICES ASSUME pc'[k] = "torndown"
               PROVE  current_tid'[k] = MAIN /\ Tearing
    OBVIOUS
  <2>1. Dispatch(k)
    BY <1>1 DEF Waits
  <2>2. tcb[k] \in Tid /\ Held(k, tcb[k], "READY")
    BY <1>1, <2>1, HoldsAt DEF Dispatch, At
  <2>3. ctx[tcb[k]].at = "torndown" /\ current_tid'[k] = tcb[k]
    BY <1>1, <2>1, <2>2 DEF Dispatch, Goto, TypeOK
  <2>4. tcb[k] = MAIN
    BY <1>1, <2>2, <2>3 DEF TearInv
  <2>5. state[MAIN] = "READY"
    BY <1>1, <1>3, <2>2, <2>4 DEF HeldSound
  <2> QED
    BY <2>3, <2>4, <2>5 DEF Tearing
<1> SUFFICES ASSUME Tearing', ~Teardown(k) PROVE Tearing
  OBVIOUS
<1>7. ASSUME NEW j \in KThread,
             pc'[j] \in {"teardown", "torndown"} \/ task'[j] = "TEARDOWN"
      PROVE  Tearing
  <2>1. CASE j = k
    BY <1>1, <1>5, <1>6, <1>7, <2>1 DEF TearStep
  <2>2. CASE j # k
    BY <1>1, <1>7, <2>2 DEF Others, Tearing
  <2> QED
    BY <2>1, <2>2
<1>8. CASE state'[MAIN] = "READY" /\ ctx'[MAIN].at = "torndown"
  <2>1. CASE state[MAIN] = "READY"
    BY <1>1, <1>2, <1>5, <1>8, <2>1 DEF TearStep, Tearing
  <2>2. CASE SemWake(k) /\ MAIN = tcb[k]
    <3>1. Held(k, MAIN, "WAITING_SEM") /\ ctx' = ctx
      BY <1>1, <2>2, HoldsAt DEF SemWake, At
    <3>2. PICK s \in Sem : ctx[MAIN] = [at |-> "sem_relock", arg |-> s]
      BY <1>1, <1>2, <3>1 DEF HeldContext
    <3>3. ctx[MAIN].at = "sem_relock"
      BY <3>2
    <3> QED
      BY <1>8, <3>1, <3>3
  <2>3. CASE SchedExit(k) /\ In(join_queue[current_tid[k]], MAIN)
    <3>1. current_tid[k] \in Tid /\ ctx' = ctx
      BY <1>1, <2>3, HoldsAt DEF SchedExit, At
    <3>2. ctx[MAIN] = [at |-> "rejoin", arg |-> current_tid[k]]
      BY <1>1, <1>2, <2>3, <3>1 DEF JoinSound
    <3>3. ctx[MAIN].at = "rejoin"
      BY <3>2
    <3> QED
      BY <1>8, <3>1, <3>3
  <2>4. CASE SchedTeardown(k)
    BY <2>4 DEF SchedTeardown, Tearing
  <2> QED
    BY <1>1, <1>2, <1>8, <2>1, <2>2, <2>3, <2>4 DEF TearStep
<1> QED
  BY <1>7, <1>8 DEF Tearing

\* Every step preserves TearInv: once main tears the library down, every
\* other thread has finished.
LEMMA StepTear ==
  ASSUME ThreadInv, NEW k \in KThread, Step(k)
  PROVE  TearInv'
<1>1. /\ TypeOK /\ HeldSound /\ JoinSound /\ HeldContext /\ TearInv
      /\ Others(k) /\ Contexts(k) /\ Waits(k) /\ TearStep(k)
  BY StepFrame, StepTearStep DEF ThreadInv, LockInv, PlaceInv
<1>2. MAIN \in Tid
  BY TidFacts
<1>3. {"RUNNING", "READY", "WAITING_SEM"} \subseteq ThreadState
  BY DEF ThreadState
<1>4. Teardown(k) => current_tid[k] = MAIN /\ current_tid'[k] = MAIN
  BY DEF Teardown
<1>5. TeardownSignal(k) \/ TeardownSwitch(k) =>
         current_tid[k] = MAIN /\ current_tid'[k] = MAIN /\ Tearing
  BY <1>1 DEF TeardownSignal, TeardownSwitch, At, TearInv, Tearing
<1>6. pc'[k] = "torndown" =>
         current_tid'[k] = MAIN /\ Tearing
  <2> SUFFICES ASSUME pc'[k] = "torndown"
               PROVE  current_tid'[k] = MAIN /\ Tearing
    OBVIOUS
  <2>1. Dispatch(k)
    BY <1>1 DEF Waits
  <2>2. tcb[k] \in Tid /\ Held(k, tcb[k], "READY")
    BY <1>1, <2>1, HoldsAt DEF Dispatch, At
  <2>3. ctx[tcb[k]].at = "torndown" /\ current_tid'[k] = tcb[k]
    BY <1>1, <2>1, <2>2 DEF Dispatch, Goto, TypeOK
  <2>4. tcb[k] = MAIN
    BY <1>1, <2>2, <2>3 DEF TearInv
  <2>5. state[MAIN] = "READY"
    BY <1>1, <1>3, <2>2, <2>4 DEF HeldSound
  <2> QED
    BY <2>3, <2>4, <2>5 DEF Tearing
<1>7. ASSUME NEW j \in KThread,
             pc'[j] \in {"teardown", "torndown"} \/ task'[j] = "TEARDOWN"
      PROVE  current_tid'[j] = MAIN
  <2>1. CASE j = k
    BY <1>1, <1>4, <1>5, <1>6, <1>7, <2>1 DEF TearStep
  <2>2. CASE j # k
    BY <1>1, <1>7, <2>2 DEF Others, TearInv
  <2> QED
    BY <2>1, <2>2
<1>8. ASSUME NEW j \in KThread, task'[j] = "TEARDOWN"
      PROVE  ctx'[MAIN].at = "torndown"
  <2>1. CASE j = k
    <3>1. TeardownSwitch(k) /\ current_tid[k] = MAIN
      BY <1>1, <1>5, <1>8, <2>1 DEF TearStep
    <3> QED
      BY <1>1, <1>2, <3>1 DEF TeardownSwitch, SwitchToSched, TypeOK
  <2>2. CASE j # k
    <3>1. task[j] = "TEARDOWN" /\ current_tid[j] = MAIN
      BY <1>1, <1>8, <2>2 DEF Others, TearInv
    <3>2. pc[j] = "sched"
      BY <1>1, <3>1 DEF TypeOK, LocalsOK
    <3>3. Held(j, MAIN, "RUNNING")
      BY <1>1, <3>1, <3>2, HoldsAt
    <3>4. tcbs[MAIN] = "live"
      BY <1>1, <1>2, <1>3, <3>3 DEF HeldSound
    <3>5. ~(OnStack(k) /\ current_tid[k] = MAIN)
      BY <1>1, <1>2, <1>3, <2>2, <3>3, HoldsAt DEF HeldSound
    <3>6. ctx'[MAIN] = ctx[MAIN]
      BY <1>1, <1>2, <3>4, <3>5 DEF Contexts
    <3> QED
      BY <1>1, <3>1, <3>6 DEF TearInv
  <2> QED
    BY <2>1, <2>2
<1>9. ASSUME NEW t \in Tid, ctx'[t].at = "torndown"
      PROVE  t = MAIN
  BY <1>1, <1>5, <1>9 DEF TearStep, TearInv
<1>10. Tearing' => Tearing \/ Teardown(k)
  BY TearingBegins
<1>11. ASSUME Tearing', NEW t \in Tid \ {MAIN}, tcbs'[t] = "live"
       PROVE  state'[t] = "FINISHED"
  <2>1. CASE Teardown(k)
    BY <1>11, <2>1 DEF Teardown, tcbVars
  <2>2. CASE Tearing /\ tcbs[t] = "live"
    BY <1>1, <1>11, <2>2, FinishedStays DEF TearInv
  <2>3. CASE Tearing /\ tcbs[t] # "live"
    <3>1. CreateTcb(k)
      BY <1>1, <1>11, <2>3 DEF TearStep
    <3>2. OnStack(k) /\ pc[k] \notin {"teardown", "torndown"}
      BY <3>1 DEF CreateTcb, At, OnStack, UserPc
    <3> QED
      BY <2>3, <3>2, TearingAlone
  <2> QED
    BY <1>10, <1>11, <2>1, <2>2, <2>3
<1> QED
  BY <1>7, <1>8, <1>9, <1>11 DEF TearInv

-----------------------------------------------------------------------------
(* The invariant holds.                                                    *)

\* At first main runs, and every queue is empty.
LEMMA InitThread == Init => ThreadInv
<1> SUFFICES ASSUME Init PROVE ThreadInv
  OBVIOUS
<1>1. LockInv
  BY InitType DEF Init, LockInv, TcbsLockOwned, HoldsTcbsLock, Handing
<1>2. MAIN \in Tid /\ KThread # {} /\ MainK \in KThread
  BY TidFacts, KThreadAssumption
<1>3. \A k \in KThread, t \in Tid, c \in ThreadState :
         Held(k, t, c) <=> k = MainK /\ t = MAIN /\ c = "RUNNING"
  BY <1>2, SentinelAssumption, TidFacts
  DEF Init, Held, OnStack, UserPc, ThreadState
<1>4. HeldSound
  BY <1>2, <1>3 DEF HeldSound, Init
<1>5. ReadySound /\ JoinSound /\ SemSound
  BY EmptyQueue DEF Init, ReadySound, JoinSound, SemSound
<1>6. Found
  BY <1>2, <1>3 DEF Found, Init, ThreadState
<1>7. HeldContext
  BY <1>3 DEF HeldContext, ThreadState
<1>8. JoinInv
  <2>1. \A t \in Tid : ctx[t].at = "start"
    BY DEF Init
  <2>2. \A t, u \in Tid : ~Awaits(t, u)
    BY <2>1 DEF Awaits
  <2> QED
    BY <2>2 DEF JoinInv, Claims, Init
<1>9. SemInv
  BY DEF Init, SemInv, SemLockOwned, HoldsSemLock, Handing
<1>10. TearInv
  BY DEF Init, TearInv, Tearing
<1> QED
  BY <1>1, <1>4, <1>5, <1>6, <1>7, <1>8, <1>9, <1>10 DEF ThreadInv, PlaceInv

\* Every step preserves it.
LEMMA NextThread == ThreadInv /\ [Next]_vars => ThreadInv'
<1> SUFFICES ASSUME ThreadInv, [Next]_vars PROVE ThreadInv'
  OBVIOUS
<1>1. LockInv'
  BY NextLocks DEF ThreadInv
<1>2. ASSUME NEW k \in KThread, Step(k) PROVE ThreadInv'
  <2>1. Sound'
    <3>1. TypeOK /\ Sound /\ SemInv
      BY DEF ThreadInv, LockInv, PlaceInv, Sound
    <3> QED
      BY <1>2, <3>1, CallSound, InCallSound, ScheduleSound DEF Step
  <2>2. HeldContext' /\ JoinInv' /\ SemInv' /\ TearInv'
    BY <1>2, StepContext, StepJoin, StepSem, StepTear
  <2> QED
    BY <1>1, <2>1, <2>2 DEF ThreadInv, PlaceInv, Sound
<1>3. CASE UNCHANGED vars
  <2> USE <1>3 DEF vars
  <2>1. PlaceInv'
    <3>1. HeldSound'
      BY DEF ThreadInv, PlaceInv, HeldSound, Held, OnStack
    <3>2. ReadySound'
      BY DEF ThreadInv, PlaceInv, ReadySound, Held, In, Once, OnStack
    <3>3. JoinSound'
      BY DEF ThreadInv, PlaceInv, JoinSound, Held, In, Once, OnStack
    <3>4. SemSound'
      BY DEF ThreadInv, PlaceInv, SemSound, Held, In, Once, OnStack
    <3>5. Found'
      BY DEF ThreadInv, PlaceInv, Found, Held, In, OnStack
    <3>6. HeldContext'
      BY DEF ThreadInv, PlaceInv, HeldContext, Held, OnStack, HoldsSemLock,
         Handing
    <3> QED
      BY <3>1, <3>2, <3>3, <3>4, <3>5, <3>6 DEF PlaceInv
  <2>2. JoinInv'
    BY DEF ThreadInv, JoinInv, Claims, Awaits, Gone, Held, OnStack
  <2>3. SemInv'
    BY DEF ThreadInv, SemInv, SemLockOwned, HoldsSemLock, Handing
  <2>4. TearInv'
    BY DEF ThreadInv, TearInv, Tearing
  <2> QED
    BY <1>1, <2>1, <2>2, <2>3, <2>4 DEF ThreadInv
<1> QED
  BY <1>2, <1>3 DEF Next, Ended

\* Every thread is in one place that agrees with its state, every target of
\* a join has one joiner, semaphores are used while they exist, and main
\* tears down alone: in every reachable state, whatever the program calls.
THEOREM ThreadInvariant == Spec => []ThreadInv
<1> QED
  BY InitThread, NextThread, PTL DEF Spec

-----------------------------------------------------------------------------
(* What follows for the properties of UthreadInv.                          *)

\* Whoever is in a critical section of a semaphore, on either stack, owns
\* its lock.
THEOREM SemLockOwnership == Spec => []SemLockOwned
BY ThreadInvariant, PTL DEF ThreadInv, SemInv

\* At most one kernel thread is in a critical section of a semaphore.
SemMutualExclusion ==
  \A s \in Sem : \A j, k \in KThread :
     HoldsSemLock(j, s) /\ HoldsSemLock(k, s) => j = k

\* Two kernel threads are never between the lock and the unlock of one
\* semaphore, although schedule() unlocks what uthread_sem_wait locked.
THEOREM SemLockExcludes == Spec => []SemMutualExclusion
<1>1. ThreadInv => SemMutualExclusion
  BY DEF ThreadInv, SemInv, SemLockOwned, SemMutualExclusion
<1> QED
  BY <1>1, ThreadInvariant, PTL

\* Every queue holds the threads whose state says so.
THEOREM StateAgrees == Spec => []StateMatchesPlace
<1>1. ThreadInv => StateMatchesPlace
  <2> SUFFICES ASSUME ThreadInv PROVE StateMatchesPlace
    OBVIOUS
  <2>1. TypeOK /\ ReadySound /\ JoinSound /\ SemSound
    BY DEF ThreadInv, LockInv, PlaceInv
  <2>2. ASSUME NEW i \in DOMAIN rqueue, rqueue[i] # ExitAll
        PROVE  state[rqueue[i]] = "READY"
    <3>1. rqueue[i] \in Tid
      BY <2>1, <2>2 DEF TypeOK
    <3>2. In(rqueue, rqueue[i])
      BY DEF In
    <3> QED
      BY <2>1, <3>1, <3>2 DEF ReadySound
  <2>3. ASSUME NEW t \in Tid, NEW i \in DOMAIN join_queue[t]
        PROVE  state[join_queue[t][i]] = "WAITING_JOIN"
    <3>1. join_queue[t][i] \in Tid
      BY <2>1, <2>3 DEF TypeOK
    <3>2. In(join_queue[t], join_queue[t][i])
      BY DEF In
    <3> QED
      BY <2>1, <3>1, <3>2 DEF JoinSound
  <2>4. ASSUME NEW s \in Sem, NEW i \in DOMAIN sem_queue[s]
        PROVE  state[sem_queue[s][i]] = "WAITING_SEM"
    <3>1. sem_queue[s][i] \in Tid
      BY <2>1, <2>4 DEF TypeOK
    <3>2. In(sem_queue[s], sem_queue[s][i])
      BY DEF In
    <3> QED
      BY <2>1, <3>1, <3>2 DEF SemSound
  <2> QED
    BY <2>2, <2>3, <2>4 DEF StateMatchesPlace
<1> QED
  BY <1>1, ThreadInvariant, PTL

\* The place in which kernel thread k holds a thread in state c.
HeldPlace(k, c) ==
  IF c # "RUNNING" /\ pc[k] \in {"dispatch", "sem_wake", "sem_ready"}
  THEN <<"tcb", k>>
  ELSE IF c # "RUNNING" /\ pc[k] = "ready_new" THEN <<"new", k>>
  ELSE <<"current", k>>

\* The places of a thread are those that the invariant speaks of.
LEMMA PlaceCases ==
  ASSUME TypeOK, NEW t \in Tid, NEW p
  PROVE  p \in Places(t) <=>
           \/ \E i \in DOMAIN rqueue : p = <<"rqueue", i>> /\ rqueue[i] = t
           \/ \E u \in Tid : \E i \in DOMAIN join_queue[u] :
                 p = <<"join", u, i>> /\ join_queue[u][i] = t
           \/ \E s \in Sem : \E i \in DOMAIN sem_queue[s] :
                 p = <<"sem", s, i>> /\ sem_queue[s][i] = t
           \/ \E k \in KThread, c \in ThreadState :
                 Held(k, t, c) /\ p = HeldPlace(k, c)
<1>1. ASSUME NEW k \in KThread
      PROVE  /\ OnStack(k) \/ Handing(k) => current_tid[k] \in Tid
             /\ Handing(k) => task[k] \in SchedTask \ {"NONE"}
             /\ tcb[k] \in Tid <=> pc[k] \in {"dispatch", "sem_wake", "sem_ready"}
             /\ tcb[k] = t => tcb[k] \in Tid
  BY DEF TypeOK, LocalsOK, Handing
<1>2. ASSUME NEW k \in KThread, OnStack(k), current_tid[k] = t
      PROVE  Held(k, t, "RUNNING") /\ HeldPlace(k, "RUNNING") = <<"current", k>>
  BY <1>2 DEF Held, HeldPlace
<1>3. ASSUME NEW k \in KThread, Handing(k), current_tid[k] = t
      PROVE  \E c \in ThreadState :
                Held(k, t, c) /\ HeldPlace(k, c) = <<"current", k>>
  <2>1. \E c \in ThreadState : Held(k, t, c)
    BY <1>1, <1>3 DEF Held, Handing, SchedTask, ThreadState
  <2> QED
    BY <1>3, <2>1 DEF Handing, HeldPlace
<1>4. ASSUME NEW k \in KThread, tcb[k] = t
      PROVE  \E c \in ThreadState :
                Held(k, t, c) /\ HeldPlace(k, c) = <<"tcb", k>>
  <2>1. CASE pc[k] \in {"dispatch", "sem_ready"}
    <3>1. Held(k, t, "READY") /\ HeldPlace(k, "READY") = <<"tcb", k>>
      BY <1>4, <2>1 DEF Held, HeldPlace
    <3> QED
      BY <3>1 DEF ThreadState
  <2>2. CASE pc[k] = "sem_wake"
    <3>1. /\ Held(k, t, "WAITING_SEM")
          /\ HeldPlace(k, "WAITING_SEM") = <<"tcb", k>>
      BY <1>4, <2>2 DEF Held, HeldPlace
    <3> QED
      BY <3>1 DEF ThreadState
  <2> QED
    BY <1>1, <1>4, <2>1, <2>2
<1>5. ASSUME NEW k \in KThread, pc[k] = "ready_new", arg[k] = t
      PROVE  Held(k, t, "READY") /\ HeldPlace(k, "READY") = <<"new", k>>
  BY <1>5 DEF Held, HeldPlace
<1>6. ASSUME NEW k \in KThread, NEW c \in ThreadState, Held(k, t, c)
      PROVE  \/ /\ HeldPlace(k, c) = <<"current", k>>
                /\ OnStack(k) \/ Handing(k)
                /\ current_tid[k] = t
             \/ HeldPlace(k, c) = <<"tcb", k>> /\ tcb[k] = t
             \/ /\ HeldPlace(k, c) = <<"new", k>>
                /\ pc[k] = "ready_new" /\ arg[k] = t
  BY <1>6 DEF Held, HeldPlace, Handing, OnStack
<1>7. {"RUNNING", "READY"} \subseteq ThreadState
  BY DEF ThreadState
<1>8. p \in Places(t) <=>
        \/ \E i \in DOMAIN rqueue : p = <<"rqueue", i>> /\ rqueue[i] = t
        \/ \E u \in Tid : \E i \in DOMAIN join_queue[u] :
              p = <<"join", u, i>> /\ join_queue[u][i] = t
        \/ \E s \in Sem : \E i \in DOMAIN sem_queue[s] :
              p = <<"sem", s, i>> /\ sem_queue[s][i] = t
        \/ \E k \in KThread : /\ p = <<"current", k>>
                              /\ OnStack(k) \/ Handing(k)
                              /\ current_tid[k] = t
        \/ \E k \in KThread : p = <<"tcb", k>> /\ tcb[k] = t
        \/ \E k \in KThread : /\ p = <<"new", k>>
                              /\ pc[k] = "ready_new" /\ arg[k] = t
  <2> DEFINE R == {<<"rqueue", i>> : i \in {j \in DOMAIN rqueue : rqueue[j] = t}}
             J(u) == {<<"join", u, i>> : i \in {j \in DOMAIN join_queue[u] :
                                                   join_queue[u][j] = t}}
             S(s) == {<<"sem", s, i>> : i \in {j \in DOMAIN sem_queue[s] :
                                                   sem_queue[s][j] = t}}
             C == {<<"current", k>> : k \in {j \in KThread :
                      (OnStack(j) \/ Handing(j)) /\ current_tid[j] = t}}
             B == {<<"tcb", k>> : k \in {j \in KThread : tcb[j] = t}}
             N == {<<"new", k>> : k \in {j \in KThread :
                      pc[j] = "ready_new" /\ arg[j] = t}}
  <2>1. p \in R <=> \E i \in DOMAIN rqueue : p = <<"rqueue", i>> /\ rqueue[i] = t
    OBVIOUS
  <2>2. p \in UNION {J(u) : u \in Tid} <=>
           \E u \in Tid : \E i \in DOMAIN join_queue[u] :
              p = <<"join", u, i>> /\ join_queue[u][i] = t
    <3>1. \A u \in Tid : p \in J(u) <=> \E i \in DOMAIN join_queue[u] :
                              p = <<"join", u, i>> /\ join_queue[u][i] = t
      OBVIOUS
    <3> HIDE DEF J
    <3> QED
      BY <3>1
  <2>3. p \in UNION {S(s) : s \in Sem} <=>
           \E s \in Sem : \E i \in DOMAIN sem_queue[s] :
              p = <<"sem", s, i>> /\ sem_queue[s][i] = t
    <3>1. \A s \in Sem : p \in S(s) <=> \E i \in DOMAIN sem_queue[s] :
                              p = <<"sem", s, i>> /\ sem_queue[s][i] = t
      OBVIOUS
    <3> HIDE DEF S
    <3> QED
      BY <3>1
  <2>4. p \in C <=> \E k \in KThread : /\ p = <<"current", k>>
                                       /\ OnStack(k) \/ Handing(k)
                                       /\ current_tid[k] = t
    OBVIOUS
  <2>5. p \in B <=> \E k \in KThread : p = <<"tcb", k>> /\ tcb[k] = t
    OBVIOUS
  <2>6. p \in N <=> \E k \in KThread : /\ p = <<"new", k>>
                                       /\ pc[k] = "ready_new" /\ arg[k] = t
    OBVIOUS
  <2> DEFINE JJ == UNION {J(u) : u \in Tid}
             SS == UNION {S(s) : s \in Sem}
  <2>7. Places(t) = R \cup JJ \cup SS \cup C \cup B \cup N
    BY DEF Places
  <2>8. (p \in JJ <=> p \in UNION {J(u) : u \in Tid})
        /\ (p \in SS <=> p \in UNION {S(s) : s \in Sem})
    OBVIOUS
  <2> HIDE DEF R, J, S, C, B, N, JJ, SS
  <2>9. p \in Places(t) <=> (\/ p \in R \/ p \in JJ \/ p \in SS
                            \/ p \in C \/ p \in B \/ p \in N)
    BY <2>7
  <2> QED
    BY <2>1, <2>2, <2>3, <2>4, <2>5, <2>6, <2>8, <2>9
<1>9. (\E k \in KThread, c \in ThreadState :
           Held(k, t, c) /\ p = HeldPlace(k, c)) <=>
        \/ \E k \in KThread : /\ p = <<"current", k>>
                              /\ OnStack(k) \/ Handing(k)
                              /\ current_tid[k] = t
        \/ \E k \in KThread : p = <<"tcb", k>> /\ tcb[k] = t
        \/ \E k \in KThread : /\ p = <<"new", k>>
                              /\ pc[k] = "ready_new" /\ arg[k] = t
  BY <1>2, <1>3, <1>4, <1>5, <1>6, <1>7
<1> QED
  BY <1>8, <1>9

\* What being in a place means for the thread.
LEMMA PlaceMeans ==
  ASSUME ThreadInv, NEW t \in Tid
  PROVE  /\ \A i \in DOMAIN rqueue : rqueue[i] = t =>
              /\ tcbs[t] = "live" /\ state[t] = "READY"
              /\ \A k \in KThread, c \in ThreadState : ~Held(k, t, c)
         /\ \A u \in Tid : \A i \in DOMAIN join_queue[u] : join_queue[u][i] = t =>
              /\ tcbs[t] = "live" /\ state[t] = "WAITING_JOIN" /\ ctx[t].arg = u
              /\ \A k \in KThread, c \in ThreadState : ~Held(k, t, c)
         /\ \A s \in Sem : \A i \in DOMAIN sem_queue[s] : sem_queue[s][i] = t =>
              /\ tcbs[t] = "live" /\ state[t] = "WAITING_SEM" /\ ctx[t].arg = s
              /\ \A k \in KThread, c \in ThreadState : ~Held(k, t, c)
         /\ \A k \in KThread, c \in ThreadState : Held(k, t, c) =>
              tcbs[t] = "live" /\ state[t] = c
<1>1. HeldSound /\ ReadySound /\ JoinSound /\ SemSound
  BY DEF ThreadInv, PlaceInv
<1>2. \A k \in KThread, c \in ThreadState : Held(k, t, c) =>
         tcbs[t] = "live" /\ state[t] = c
  BY <1>1 DEF HeldSound
<1>3. ASSUME NEW i \in DOMAIN rqueue, rqueue[i] = t
      PROVE  /\ tcbs[t] = "live" /\ state[t] = "READY"
             /\ \A k \in KThread, c \in ThreadState : ~Held(k, t, c)
  <2>1. In(rqueue, t)
    BY <1>3 DEF In
  <2> QED
    BY <1>1, <1>2, <2>1 DEF ReadySound
<1>4. ASSUME NEW u \in Tid, NEW i \in DOMAIN join_queue[u], join_queue[u][i] = t
      PROVE  /\ tcbs[t] = "live" /\ state[t] = "WAITING_JOIN" /\ ctx[t].arg = u
             /\ \A k \in KThread, c \in ThreadState : ~Held(k, t, c)
  <2>1. In(join_queue[u], t)
    BY <1>4 DEF In
  <2>2. ctx[t] = [at |-> "rejoin", arg |-> u]
    BY <1>1, <2>1 DEF JoinSound
  <2>3. ctx[t].arg = u
    BY <2>2
  <2>4. /\ tcbs[t] = "live" /\ state[t] = "WAITING_JOIN"
        /\ \A k \in KThread : ~Held(k, t, "WAITING_JOIN")
    BY <1>1, <2>1 DEF JoinSound
  <2>5. \A k \in KThread, c \in ThreadState : ~Held(k, t, c)
    BY <1>2, <2>4
  <2> QED
    BY <2>3, <2>4, <2>5
<1>5. ASSUME NEW s \in Sem, NEW i \in DOMAIN sem_queue[s], sem_queue[s][i] = t
      PROVE  /\ tcbs[t] = "live" /\ state[t] = "WAITING_SEM" /\ ctx[t].arg = s
             /\ \A k \in KThread, c \in ThreadState : ~Held(k, t, c)
  <2>1. In(sem_queue[s], t)
    BY <1>5 DEF In
  <2>2. ctx[t] = [at |-> "sem_relock", arg |-> s]
    BY <1>1, <2>1 DEF SemSound
  <2>3. ctx[t].arg = s
    BY <2>2
  <2>4. /\ tcbs[t] = "live" /\ state[t] = "WAITING_SEM"
        /\ \A k \in KThread : ~Held(k, t, "WAITING_SEM")
    BY <1>1, <2>1 DEF SemSound
  <2>5. \A k \in KThread, c \in ThreadState : ~Held(k, t, c)
    BY <1>2, <2>4
  <2> QED
    BY <2>3, <2>4, <2>5
<1> QED
  BY <1>2, <1>3, <1>4, <1>5

\* No thread is in two places, so that no two kernel threads ever run on
\* one stack, and a thread that runs or is queued is not queued again.
THEOREM OnePlace == Spec => []NotDuplicated
<1>1. ThreadInv => NotDuplicated
  <2> SUFFICES ASSUME ThreadInv, NEW t \in Tid, NEW p \in Places(t),
                      NEW q \in Places(t)
               PROVE  p = q
    BY DEF NotDuplicated
  <2>1. TypeOK /\ HeldSound /\ ReadySound /\ JoinSound /\ SemSound
    BY DEF ThreadInv, LockInv, PlaceInv
  <2>2. CASE \E i \in DOMAIN rqueue : p = <<"rqueue", i>> /\ rqueue[i] = t
    <3>1. \E j \in DOMAIN rqueue : q = <<"rqueue", j>> /\ rqueue[j] = t
      BY <2>1, <2>2, PlaceCases, PlaceMeans
    <3> QED
      BY <2>1, <2>2, <3>1 DEF ReadySound, Once
  <2>3. CASE \E u \in Tid : \E i \in DOMAIN join_queue[u] :
                p = <<"join", u, i>> /\ join_queue[u][i] = t
    <3>1. \E u \in Tid : \E i \in DOMAIN join_queue[u] :
                q = <<"join", u, i>> /\ join_queue[u][i] = t
      BY <2>1, <2>3, PlaceCases, PlaceMeans
    <3>2. PICK u \in Tid : \E i \in DOMAIN join_queue[u] :
                p = <<"join", u, i>> /\ join_queue[u][i] = t
      BY <2>3
    <3>3. PICK v \in Tid : \E j \in DOMAIN join_queue[v] :
                q = <<"join", v, j>> /\ join_queue[v][j] = t
      BY <3>1
    <3>4. u = v
      BY <3>2, <3>3, PlaceMeans
    <3> QED
      BY <2>1, <3>2, <3>3, <3>4 DEF JoinSound, Once
  <2>4. CASE \E s \in Sem : \E i \in DOMAIN sem_queue[s] :
                p = <<"sem", s, i>> /\ sem_queue[s][i] = t
    <3>1. \E s \in Sem : \E i \in DOMAIN sem_queue[s] :
                q = <<"sem", s, i>> /\ sem_queue[s][i] = t
      BY <2>1, <2>4, PlaceCases, PlaceMeans
    <3>2. PICK r \in Sem : \E i \in DOMAIN sem_queue[r] :
                p = <<"sem", r, i>> /\ sem_queue[r][i] = t
      BY <2>4
    <3>3. PICK s \in Sem : \E j \in DOMAIN sem_queue[s] :
                q = <<"sem", s, j>> /\ sem_queue[s][j] = t
      BY <3>1
    <3>4. r = s
      BY <3>2, <3>3, PlaceMeans
    <3> QED
      BY <2>1, <3>2, <3>3, <3>4 DEF SemSound, Once
  <2>5. CASE \E k \in KThread, c \in ThreadState :
                Held(k, t, c) /\ p = HeldPlace(k, c)
    <3>1. \E k \in KThread, c \in ThreadState :
                Held(k, t, c) /\ q = HeldPlace(k, c)
      BY <2>1, <2>5, PlaceCases, PlaceMeans
    <3> QED
      BY <2>1, <2>5, <3>1 DEF HeldSound
  <2> QED
    BY <2>1, <2>2, <2>3, <2>4, <2>5, PlaceCases
<1> QED
  BY <1>1, ThreadInvariant, PTL

\* A thread that has not finished is always somewhere from where it runs or
\* will be woken.
THEOREM NoThreadLost == Spec => []NotLost
<1>1. ThreadInv => NotLost
  <2> SUFFICES ASSUME ThreadInv, NEW t \in Tid, tcbs[t] = "live",
                      state[t] # "FINISHED"
               PROVE  \E p : p \in Places(t)
    BY DEF NotLost
  <2>1. TypeOK /\ Found
    BY DEF ThreadInv, LockInv, PlaceInv
  <2>2. CASE \E k \in KThread, c \in ThreadState : Held(k, t, c)
    BY <2>1, <2>2, PlaceCases
  <2>3. CASE In(rqueue, t)
    BY <2>1, <2>3, PlaceCases DEF In
  <2>4. CASE \E u \in Tid : In(join_queue[u], t)
    BY <2>1, <2>4, PlaceCases DEF In
  <2>5. CASE \E s \in Sem : In(sem_queue[s], t)
    BY <2>1, <2>5, PlaceCases DEF In
  <2> QED
    BY <2>1, <2>2, <2>3, <2>4, <2>5 DEF Found
<1> QED
  BY <1>1, ThreadInvariant, PTL

\* Nothing refers to a TCB that is not allocated: no queue, no kernel thread,
\* and no call of uthread_join that is about to wait.
THEOREM NoDanglingReference == Spec => []NoDanglingUse
<1>1. ThreadInv => NoDanglingUse
  <2> SUFFICES ASSUME ThreadInv, NEW t \in Tid, tcbs[t] # "live"
               PROVE  /\ Places(t) = {}
                      /\ \A k \in KThread : ~(task[k] = "JOIN" /\ queue[k] = t)
    BY DEF NoDanglingUse
  <2>1. TypeOK /\ HeldSound /\ HeldContext /\ JoinInv
    BY DEF ThreadInv, LockInv, PlaceInv
  <2>2. \A p : p \notin Places(t)
    BY <2>1, PlaceCases, PlaceMeans
  <2>3. ASSUME NEW k \in KThread, task[k] = "JOIN", queue[k] = t
        PROVE  FALSE
    <3> DEFINE u == current_tid[k]
    <3>1. pc[k] = "sched"
      BY <2>1, <2>3 DEF TypeOK, LocalsOK
    <3>2. u \in Tid /\ Held(k, u, "WAITING_JOIN")
      BY <2>1, <2>3, <3>1, HoldsAt
    <3>3. tcbs[u] = "live" /\ state[u] = "WAITING_JOIN"
      BY <2>1, <3>2 DEF HeldSound, ThreadState
    <3> HIDE DEF u
    <3>4. ctx[u] = [at |-> "rejoin", arg |-> t]
      BY <2>1, <2>3, <3>2 DEF HeldContext
    <3>5. Awaits(u, t)
      BY <3>3, <3>4 DEF Awaits
    <3> QED
      BY <2>1, <3>2, <3>3, <3>5 DEF JoinInv
  <2> QED
    BY <2>2, <2>3
<1> QED
  BY <1>1, ThreadInvariant, PTL

\* A thread waits to join only one that has not finished its exit, and no
\* two threads wait for the same one.
THEOREM JoinsJustified == Spec => []JoinJustified
<1>1. ThreadInv => JoinJustified
  <2> SUFFICES ASSUME ThreadInv, NEW u \in Tid
               PROVE  /\ Len(join_queue[u]) <= 1
                      /\ join_queue[u] # <<>> /\ tcbs[u] = "live" =>
                            state[u] # "FINISHED" \/ Exiting(u)
    BY DEF JoinJustified
  <2>1. TypeOK /\ JoinSound /\ JoinInv
    BY DEF ThreadInv, LockInv, PlaceInv
  <2> DEFINE q == join_queue[u]
  <2>2. /\ q \in Seq(Tid) /\ Len(q) \in Nat /\ DOMAIN q = 1 .. Len(q)
        /\ \A i \in DOMAIN q : q[i] \in Tid
        /\ q # <<>> => 1 \in DOMAIN q
    BY <2>1 DEF TypeOK
  <2>3. ASSUME NEW i \in DOMAIN q
        PROVE  Awaits(q[i], u) /\ state[q[i]] = "WAITING_JOIN"
    <3>1. In(q, q[i])
      BY DEF In
    <3> QED
      BY <2>1, <2>2, <3>1 DEF JoinSound, Awaits
  <2>4. Once(q)
    BY <2>1 DEF JoinSound
  <2> HIDE DEF q
  <2>5. \A i, j \in DOMAIN q : i = j
    <3> TAKE i, j \in DOMAIN q
    <3>1. Awaits(q[i], u) /\ Awaits(q[j], u) /\ q[i] \in Tid /\ q[j] \in Tid
      BY <2>2, <2>3
    <3>2. q[i] = q[j]
      BY <2>1, <3>1 DEF JoinInv
    <3> QED
      BY <2>4, <3>1, <3>2 DEF Once
  <2>6. Len(q) <= 1
    <3> SUFFICES ASSUME Len(q) > 1 PROVE FALSE
      BY <2>2
    <3>1. 1 \in DOMAIN q /\ 2 \in DOMAIN q
      BY <2>2
    <3>2. 1 = 2
      BY <2>5, <3>1
    <3> QED
      BY <3>2
  <2>7. ASSUME q # <<>>, tcbs[u] = "live", state[u] = "FINISHED"
        PROVE  Exiting(u)
    <3>1. Awaits(q[1], u) /\ state[q[1]] = "WAITING_JOIN" /\ q[1] \in Tid
      BY <2>2, <2>3, <2>7
    <3>2. ~Gone(u)
      BY <2>1, <3>1 DEF JoinInv
    <3>3. PICK k \in KThread : Held(k, u, "FINISHED")
      BY <2>7, <3>2 DEF Gone
    <3> QED
      BY <3>3 DEF Held, Exiting, Handing
  <2> QED
    BY <2>6, <2>7 DEF q
<1> QED
  BY <1>1, ThreadInvariant, PTL
=============================================================================
