-------------------------- MODULE UthreadTeardown --------------------------
(***************************************************************************)
(* Proofs about the end of Uthread: main, on whichever kernel thread, puts *)
(* one &exitall into the ready queue for each kernel thread and itself     *)
(* behind them, and comes out on the main kernel thread when all the       *)
(* others have ended.                                                      *)
(*                                                                         *)
(* SignalInv, the invariant that is inductive together with ThreadInv,     *)
(* balances what was sent against what is still queued and what was taken. *)
(* Two phases have to be told apart: before the main kernel thread has     *)
(* reaped the others, exitall_sem counts those that exited; afterwards it  *)
(* is 0 again and nothing is left to take.                                 *)
(***************************************************************************)
EXTENDS UthreadProofs

-----------------------------------------------------------------------------
(* The inductive invariant.                                                *)

OtherK == KThread \ {MainK}
Exited == {k \in OtherK : pc[k] = "exited"}
Reaping == IF pc[MainK] = "reap" THEN 1 ELSE 0

\* The main kernel thread has waited for all the others.
Reaped == Exited = OtherK /\ exitall_sem = 0 /\ pc[MainK] # "reap"

\* Of the &exitall that were sent, n are left.
Balance(sent, n) ==
  \/ exitall_sem = Cardinality(Exited) /\ sent = n + Cardinality(Exited) + Reaping
  \/ sent = NumK /\ n = 0 /\ Reaped

\* The first n entries of the ready queue are &exitall.
Signals(n) == \A i \in 1 .. n : rqueue[i] = ExitAll

MainLeaving == state[MAIN] = "READY" /\ ctx[MAIN].at = "torndown"

SignalInv ==
  /\ \A k \in KThread : task[k] = "YIELD" => ctx[current_tid[k]].at = "user"
  /\ \A k \in KThread : pc[k] = "reap" => k = MainK
  /\ pc[MainK] # "exited"
  /\ ~Tearing /\ pc[MainK] # "done" =>
        /\ Exited = {} /\ exitall_sem = 0 /\ pc[MainK] # "reap"
        /\ ~In(rqueue, ExitAll)
  /\ \A k \in KThread : pc[k] = "teardown" =>
        Signals(Len(rqueue)) /\ Balance(arg[k], Len(rqueue))
  /\ \A k \in KThread : task[k] = "TEARDOWN" =>
        Signals(Len(rqueue)) /\ Balance(NumK, Len(rqueue))
  /\ MainLeaving =>
        \/ /\ rqueue # <<>> /\ rqueue[Len(rqueue)] = MAIN
           /\ Signals(Len(rqueue) - 1) /\ Balance(NumK, Len(rqueue) - 1)
        \/ rqueue = <<>> /\ Reaped
  /\ \A k \in KThread : pc[k] = "torndown" => rqueue = <<>> /\ Reaped
  /\ pc[MainK] = "done" => rqueue = <<>> /\ Reaped


\* Where the threads are, and what teardown has sent and collected.
TeardownInv == ThreadInv /\ SignalInv

-----------------------------------------------------------------------------
(* Facts about teardown.                                                   *)

\* The sets and numbers of the balance.
LEMMA ExitedFacts ==
  /\ IsFiniteSet(OtherK) /\ Cardinality(OtherK) = NumK - 1
  /\ IsFiniteSet(Exited) /\ Cardinality(Exited) \in Nat
  /\ Cardinality(Exited) <= NumK - 1
  /\ Cardinality(Exited) = NumK - 1 => Exited = OtherK
<1>1. IsFiniteSet(OtherK) /\ Cardinality(OtherK) = NumK - 1
  BY KThreadAssumption, FS_RemoveElement DEF OtherK, NumK
<1>2. Exited \subseteq OtherK
  BY DEF Exited
<1>3. /\ IsFiniteSet(Exited) /\ Cardinality(Exited) <= Cardinality(OtherK)
      /\ Cardinality(Exited) = Cardinality(OtherK) => Exited = OtherK
  BY <1>1, <1>2, FS_Subset
<1>4. Cardinality(Exited) \in Nat
  BY <1>3, FS_CardinalityType
<1> QED
  BY <1>1, <1>3, <1>4

\* During teardown only main is unfinished, and it runs or is leaving.
LEMMA OnlyMainLeft ==
  ASSUME ThreadInv, Tearing, NEW t \in Tid, tcbs[t] = "live",
         state[t] # "FINISHED"
  PROVE  t = MAIN /\ (state[t] = "RUNNING" \/ MainLeaving)
<1>1. TypeOK /\ HeldSound /\ TearInv
  BY DEF ThreadInv, LockInv, PlaceInv
<1>2. t = MAIN
  BY <1>1 DEF TearInv
<1>3. ASSUME NEW j \in KThread,
             pc[j] \in {"teardown", "torndown"} \/ task[j] = "TEARDOWN"
      PROVE  state[MAIN] = "RUNNING"
  <2>1. current_tid[j] = MAIN
    BY <1>1, <1>3 DEF TearInv
  <2>2. OnStack(j) \/ (pc[j] = "sched" /\ task[j] = "TEARDOWN")
    BY <1>1, <1>3 DEF OnStack, UserPc, TypeOK, LocalsOK
  <2>3. Held(j, MAIN, "RUNNING")
    BY <1>1, <2>1, <2>2, HoldsAt
  <2> QED
    BY <1>1, <2>3, TidFacts DEF HeldSound, ThreadState
<1> QED
  BY <1>2, <1>3 DEF Tearing, MainLeaving

\* Main is at one point of uthread_teardown.
LEMMA TearingOnce ==
  ASSUME ThreadInv, NEW k \in KThread,
         pc[k] \in {"teardown", "torndown"} \/ task[k] = "TEARDOWN"
  PROVE  /\ Tearing /\ ~MainLeaving /\ current_tid[k] = MAIN
         /\ state[MAIN] = "RUNNING" /\ Held(k, MAIN, "RUNNING")
         /\ \A j \in KThread :
              (pc[j] \in {"teardown", "torndown"} \/ task[j] = "TEARDOWN")
                 => j = k
<1>1. TypeOK /\ HeldSound /\ TearInv
  BY DEF ThreadInv, LockInv, PlaceInv
<1>2. ASSUME NEW j \in KThread,
             pc[j] \in {"teardown", "torndown"} \/ task[j] = "TEARDOWN"
      PROVE  current_tid[j] = MAIN /\ Held(j, MAIN, "RUNNING")
  <2>1. current_tid[j] = MAIN
    BY <1>1, <1>2 DEF TearInv
  <2>2. OnStack(j) \/ (pc[j] = "sched" /\ task[j] = "TEARDOWN")
    BY <1>1, <1>2 DEF OnStack, UserPc, TypeOK, LocalsOK
  <2> QED
    BY <1>1, <2>1, <2>2, HoldsAt
<1>3. state[MAIN] = "RUNNING"
  BY <1>1, <1>2, TidFacts DEF HeldSound, ThreadState
<1>4. \A j \in KThread :
        (pc[j] \in {"teardown", "torndown"} \/ task[j] = "TEARDOWN") => j = k
  BY <1>1, <1>2, TidFacts DEF HeldSound, ThreadState
<1> QED
  BY <1>2, <1>3, <1>4 DEF Tearing, MainLeaving

\* The steps that are left during teardown.
LEMMA TearingSteps ==
  ASSUME TeardownInv, NEW k \in KThread, Step(k), Tearing
  PROVE  \/ TeardownSignal(k) \/ TeardownSwitch(k) \/ TeardownFinish(k)
         \/ SchedTeardown(k) \/ DequeueExitAll(k) \/ Reap(k) \/ SchedNone(k)
         \/ SchedExit(k) /\ join_queue[current_tid[k]] = <<>>
         \/ Dequeue(k) /\ Head(rqueue) = MAIN /\ MainLeaving
         \/ Dispatch(k) /\ tcb[k] = MAIN /\ MainLeaving
<1>1. TypeOK /\ HeldSound /\ ReadySound /\ JoinSound /\ ThreadInv /\ SignalInv
  BY DEF TeardownInv, ThreadInv, LockInv, PlaceInv
<1>2. ASSUME NEW t \in Tid, NEW c \in ThreadState \ {"FINISHED", "RUNNING"},
             Held(k, t, c)
      PROVE  t = MAIN /\ MainLeaving /\ c = "READY"
  <2>1. tcbs[t] = "live" /\ state[t] = c
    BY <1>1, <1>2 DEF HeldSound
  <2> QED
    BY <1>1, <2>1, OnlyMainLeft DEF MainLeaving
<1>3. {"READY", "WAITING_JOIN", "WAITING_SEM"}
         \subseteq ThreadState \ {"FINISHED", "RUNNING"}
  BY DEF ThreadState
<1>4. CASE Call(k)
  <2>1. pc[k] = "user"
    BY <1>4 DEF Call, CreateTid, Yield, Exit, Teardown, JoinBlocks, JoinAborts,
       JoinFinished, MayJoin, InParent, InUser, SemInit, SemDestroy, SemWait,
       SemPost, SemPostWakes
  <2> QED
    BY <1>1, <2>1, TearingAlone DEF OnStack, UserPc
<1>5. CASE InCall(k)
  <2>1. \/ pc[k] \in UserPc \ {"teardown", "torndown"}
        \/ TeardownSignal(k) \/ TeardownSwitch(k) \/ TeardownFinish(k)
    BY <1>5 DEF InCall, CreateTcb, CreateOverwrites, CreateFails, CreateReady,
       Trampoline, Rejoin, Reclaim, Destroy, ClearSlot, ClearLoses,
       SemRelock, SemDecrement, SemBlock, SemWake, SemReady, At, UserPc
  <2> QED
    BY <1>1, <2>1, TearingAlone DEF OnStack
<1>6. ~SchedYield(k)
  <2> SUFFICES ASSUME SchedYield(k) PROVE FALSE
    OBVIOUS
  <2>1. /\ current_tid[k] \in Tid /\ Held(k, current_tid[k], "READY")
        /\ task[k] = "YIELD"
    BY <1>1, HoldsAt DEF SchedYield, At
  <2>2. current_tid[k] = MAIN /\ MainLeaving
    BY <1>2, <1>3, <2>1
  <2> QED
    BY <1>1, <2>1, <2>2 DEF SignalInv, MainLeaving
<1>7. ~SchedJoin(k) /\ ~SchedSemWait(k)
  <2>1. SchedJoin(k) => /\ current_tid[k] \in Tid
                        /\ Held(k, current_tid[k], "WAITING_JOIN")
    BY <1>1, HoldsAt DEF SchedJoin, At
  <2>2. SchedSemWait(k) => /\ current_tid[k] \in Tid
                           /\ Held(k, current_tid[k], "WAITING_SEM")
    BY <1>1, HoldsAt DEF SchedSemWait, At
  <2> QED
    BY <1>2, <1>3, <2>1, <2>2
<1>8. SchedExit(k) => join_queue[current_tid[k]] = <<>>
  <2> SUFFICES ASSUME SchedExit(k), join_queue[current_tid[k]] # <<>>
               PROVE  FALSE
    OBVIOUS
  <2> DEFINE h == Head(join_queue[current_tid[k]])
  <2>1. current_tid[k] \in Tid
    BY <1>1, HoldsAt DEF SchedExit, At
  <2>2. h \in Tid /\ In(join_queue[current_tid[k]], h)
    BY <1>1, <2>1, InTail DEF TypeOK
  <2>3. tcbs[h] = "live" /\ state[h] = "WAITING_JOIN"
    BY <1>1, <2>1, <2>2 DEF JoinSound
  <2>4. h = MAIN /\ (state[h] = "RUNNING" \/ MainLeaving)
    BY <1>1, <2>2, <2>3, OnlyMainLeft
  <2> QED
    BY <2>3, <2>4 DEF MainLeaving
<1>9. Dequeue(k) => Head(rqueue) = MAIN /\ MainLeaving
  <2> SUFFICES ASSUME Dequeue(k) PROVE Head(rqueue) = MAIN /\ MainLeaving
    OBVIOUS
  <2> DEFINE h == Head(rqueue)
  <2>1. h \in Tid /\ In(rqueue, h)
    BY <1>1, InTail DEF Dequeue, TypeOK
  <2>2. tcbs[h] = "live" /\ state[h] = "READY"
    BY <1>1, <2>1 DEF ReadySound
  <2>3. h = MAIN /\ (state[h] = "RUNNING" \/ MainLeaving)
    BY <1>1, <2>1, <2>2, OnlyMainLeft
  <2> QED
    BY <2>2, <2>3
<1>10. Dispatch(k) => tcb[k] = MAIN /\ MainLeaving
  <2>1. Dispatch(k) => tcb[k] \in Tid /\ Held(k, tcb[k], "READY")
    BY <1>1, HoldsAt DEF Dispatch, At
  <2> QED
    BY <1>2, <1>3, <2>1
<1> QED
  BY <1>4, <1>5, <1>6, <1>7, <1>8, <1>9, <1>10 DEF Step, Schedule

-----------------------------------------------------------------------------
(* The invariant is preserved.                                             *)

\* What a step of k does to the signals of teardown.
SignalStep(k) ==
  /\ task'[k] = "YIELD" => Yield(k)
  /\ pc'[k] = "reap" => DequeueExitAll(k) /\ k = MainK
  /\ pc'[k] = "exited" => DequeueExitAll(k) /\ k # MainK
  /\ pc'[k] = "done" => TeardownFinish(k)
  /\ exitall_sem' # exitall_sem => DequeueExitAll(k) \/ Reap(k)
  /\ In(rqueue, ExitAll)' => In(rqueue, ExitAll) \/ TeardownSignal(k)

\* Only the steps of teardown send and take them.
LEMMA StepSignal ==
  ASSUME TypeOK, NEW k \in KThread, Step(k)
  PROVE  SignalStep(k)
<1>1. ~In(<<>>, ExitAll)
  BY EmptyQueue
<1>2. \A t \in Tid : t # ExitAll
  BY TidFacts
<1>3. \A t \in Tid : In(Append(rqueue, t), ExitAll) => In(rqueue, ExitAll)
  BY <1>2, InAppend DEF TypeOK
<1>4. rqueue # <<>> /\ In(Tail(rqueue), ExitAll) => In(rqueue, ExitAll)
  BY InTail DEF TypeOK
<1>5. ASSUME NEW q, rqueue' = q, In(q, ExitAll) => In(rqueue, ExitAll)
      PROVE  In(rqueue, ExitAll)' => In(rqueue, ExitAll)
  BY <1>5 DEF In
<1>6. CASE Call(k)
  <2> USE <1>6 DEF Call, CreateTid, Yield, Exit, Teardown, JoinBlocks,
      JoinAborts, JoinFinished, MayJoin, InParent, InUser, SemInit,
      SemDestroy, SemWait, SemPost, SemPostWakes, Stop
  <2>1. rqueue' = rqueue /\ exitall_sem' = exitall_sem
    OBVIOUS
  <2>2. pc'[k] \notin {"reap", "exited", "done"}
    BY DEF Goto, SwitchToSched, TypeOK
  <2>3. task'[k] = "YIELD" => Yield(k)
    BY DEF SwitchToSched, schedVars, TypeOK, LocalsOK
  <2> QED
    BY <1>5, <2>1, <2>2, <2>3 DEF SignalStep
<1>7. CASE InCall(k)
  <2> USE <1>7 DEF InCall, CreateTcb, CreateOverwrites, CreateFails,
      CreateReady, Trampoline, Rejoin, Reclaim, Destroy, ClearSlot,
      ClearLoses, SemRelock, SemDecrement, SemBlock, SemWake, SemReady,
      TeardownSignal, TeardownSwitch, TeardownFinish, At, Stop
  <2>1. exitall_sem' = exitall_sem
    OBVIOUS
  <2>2. pc'[k] \notin {"reap", "exited"} /\ (pc'[k] = "done" => TeardownFinish(k))
    BY DEF Goto, Return, SwitchToSched, TypeOK
  <2>3. task'[k] # "YIELD"
    BY DEF SwitchToSched, schedVars, TypeOK, LocalsOK
  <2>4. \/ TeardownSignal(k) \/ rqueue' = rqueue
        \/ \E t \in Tid : rqueue' = Append(rqueue, t)
    BY ArgFacts DEF ReadyEnqueue, TypeOK, LocalsOK
  <2>5. In(rqueue, ExitAll)' => In(rqueue, ExitAll) \/ TeardownSignal(k)
    <3> HIDE <1>7
    <3> QED
      BY <1>3, <1>5, <2>4
  <2> QED
    BY <2>1, <2>2, <2>3, <2>5 DEF SignalStep
<1>8. CASE Schedule(k)
  <2> USE <1>8 DEF Schedule, SchedNone, SchedYield, SchedExit, SchedJoin,
      SchedSemWait, SchedTeardown, Dequeue, DequeueExitAll, Reap, Dispatch, At
  <2>1. exitall_sem' # exitall_sem => DequeueExitAll(k) \/ Reap(k)
    OBVIOUS
  <2>2. /\ pc'[k] = "reap" => DequeueExitAll(k) /\ k = MainK
        /\ pc'[k] = "exited" => DequeueExitAll(k) /\ k # MainK
        /\ pc'[k] # "done"
    <3>1. CASE Dispatch(k)
      <4>1. ctx[tcb[k]].at \in ResumePc
        BY <3>1 DEF TypeOK, LocalsOK
      <4> QED
        BY <3>1, <4>1 DEF Goto, TypeOK, ResumePc
    <3> QED
      BY <3>1 DEF Goto, TaskDone, TypeOK
  <2>3. task'[k] # "YIELD"
    BY DEF TaskDone, schedVars, TypeOK, LocalsOK
  <2>4. CASE rqueue' = rqueue \/ (rqueue # <<>> /\ rqueue' = Tail(rqueue))
    <3> HIDE <1>8
    <3> QED
      BY <1>4, <1>5, <2>1, <2>2, <2>3, <2>4 DEF SignalStep
  <2>5. CASE \E t \in Tid : rqueue' = Append(rqueue, t)
    <3> HIDE <1>8
    <3> QED
      BY <1>3, <1>5, <2>1, <2>2, <2>3, <2>5 DEF SignalStep
  <2>6. CASE SchedExit(k)
    <3>1. current_tid[k] \in Tid
      BY <2>6, HoldsAt
    <3>2. join_queue[current_tid[k]] # <<>> =>
             Head(join_queue[current_tid[k]]) \in Tid
      BY <3>1, InTail DEF TypeOK
    <3> QED
      BY <2>4, <2>5, <2>6, <3>2 DEF WakeJoiner, ReadyEnqueue
  <2>7. CASE ~SchedExit(k)
    <3>1. SchedYield(k) \/ SchedTeardown(k) => current_tid[k] \in Tid
      BY HoldsAt
    <3> QED
      BY <2>4, <2>5, <2>7, <3>1 DEF ReadyEnqueue
  <2> QED
    BY <2>6, <2>7
<1> QED
  BY <1>6, <1>7, <1>8 DEF Step

\* The contexts of threads that yield, and who waits for the others.
LEMMA StepLocals ==
  ASSUME TeardownInv, NEW k \in KThread, Step(k)
  PROVE  /\ \A j \in KThread :
               task'[j] = "YIELD" => ctx'[current_tid'[j]].at = "user"
         /\ \A j \in KThread : pc'[j] = "reap" => j = MainK
         /\ pc'[MainK] # "exited"
<1>1. /\ TypeOK /\ HeldSound /\ SignalInv /\ Others(k) /\ Contexts(k)
      /\ SignalStep(k)
  BY StepFrame, StepSignal DEF TeardownInv, ThreadInv, LockInv, PlaceInv
<1>2. MainK \in KThread
  BY KThreadAssumption
<1>3. ASSUME NEW j \in KThread, task'[j] = "YIELD"
      PROVE  ctx'[current_tid'[j]].at = "user"
  <2>1. CASE j = k
    <3>1. Yield(k) /\ pc[k] = "user"
      BY <1>1, <1>3, <2>1 DEF SignalStep, Yield, InUser
    <3>2. current_tid[k] \in Tid /\ current_tid' = current_tid
      BY <1>1, <3>1, HoldsAt DEF Yield, OnStack, UserPc
    <3> QED
      BY <1>1, <2>1, <3>1, <3>2 DEF Yield, SwitchToSched, TypeOK
  <2>2. CASE j # k
    <3> DEFINE t == current_tid[j]
    <3>1. task[j] = "YIELD" /\ current_tid'[j] = t
      BY <1>1, <1>3, <2>2 DEF Others
    <3>2. pc[j] = "sched"
      BY <1>1, <3>1 DEF TypeOK, LocalsOK
    <3>3. t \in Tid /\ Held(j, t, "READY")
      BY <1>1, <3>1, <3>2, HoldsAt
    <3>4. tcbs[t] = "live" /\ state[t] = "READY"
      BY <1>1, <3>3 DEF HeldSound, ThreadState
    <3>5. OnStack(k) => state[current_tid[k]] = "RUNNING"
      BY <1>1, HoldsAt DEF HeldSound, ThreadState
    <3>6. ctx'[t] = ctx[t]
      BY <1>1, <3>3, <3>4, <3>5 DEF Contexts
    <3> QED
      BY <1>1, <3>1, <3>6 DEF SignalInv
  <2> QED
    BY <2>1, <2>2
<1>4. ASSUME NEW j \in KThread, pc'[j] = "reap" PROVE j = MainK
  BY <1>1, <1>4 DEF SignalStep, SignalInv, Others
<1>5. pc'[MainK] # "exited"
  BY <1>1, <1>2 DEF SignalStep, SignalInv, Others
<1> QED
  BY <1>3, <1>4, <1>5

\* Nothing happens after the end.
LEMMA DoneIsEnd ==
  ASSUME TeardownInv, pc[MainK] = "done", NEW k \in KThread
  PROVE  ~Step(k)
<1>1. pc[k] \in {"exited", "done"}
  BY DEF TeardownInv, SignalInv, Reaped, Exited, OtherK
<1> QED
  BY <1>1
  DEF Step, Call, CreateTid, Yield, Exit, Teardown, JoinBlocks, JoinAborts,
      JoinFinished, MayJoin, InParent, InUser, SemInit, SemDestroy, SemWait,
      SemPost, SemPostWakes, InCall, CreateTcb, CreateOverwrites,
      CreateFails, CreateReady, Trampoline, Rejoin, Reclaim, Destroy,
      ClearSlot, ClearLoses, SemRelock, SemDecrement, SemBlock, SemWake,
      SemReady, TeardownSignal, TeardownSwitch, TeardownFinish, At,
      Schedule, SchedNone, SchedYield, SchedExit, SchedJoin, SchedSemWait,
      SchedTeardown, Dequeue, DequeueExitAll, Reap, Dispatch

\* Before teardown no signal is sent or taken, and teardown begins with an
\* empty ready queue.
LEMMA BeforeTeardown ==
  ASSUME TeardownInv, NEW k \in KThread, Step(k), ~Tearing, pc[MainK] # "done"
  PROVE  SignalInv'
<1>1. /\ TypeOK /\ ReadySound /\ HeldSound /\ SignalInv /\ Others(k)
      /\ SignalStep(k)
  BY StepFrame, StepSignal DEF TeardownInv, ThreadInv, LockInv, PlaceInv
<1>2. MainK \in KThread /\ MAIN \in Tid
  BY KThreadAssumption, TidFacts
<1>3. /\ Exited = {} /\ exitall_sem = 0 /\ pc[MainK] # "reap"
      /\ ~In(rqueue, ExitAll)
  BY <1>1 DEF SignalInv
<1>4. ~TeardownSignal(k) /\ ~TeardownFinish(k) /\ ~DequeueExitAll(k) /\ ~Reap(k)
  <2>1. ~TeardownSignal(k) /\ ~TeardownFinish(k)
    BY DEF TeardownSignal, TeardownFinish, At, Tearing
  <2>2. ~Reap(k)
    BY <1>1, <1>3 DEF Reap, At, SignalInv
  <2>3. ~DequeueExitAll(k)
    BY <1>1, <1>3, InTail DEF DequeueExitAll, TypeOK
  <2> QED
    BY <2>1, <2>2, <2>3
<1>5. /\ exitall_sem' = 0 /\ ~In(rqueue, ExitAll)'
      /\ pc'[MainK] \notin {"reap", "done"}
  BY <1>1, <1>2, <1>3, <1>4 DEF SignalStep, Others
<1>6. Exited' = {}
  <2>1. \A j \in OtherK : pc'[j] # "exited"
    BY <1>1, <1>3, <1>4 DEF SignalStep, Others, Exited, OtherK
  <2> QED
    BY <2>1 DEF Exited
<1>7. CASE Teardown(k)
  <2>1. /\ pc' = [pc EXCEPT ![k] = "teardown"] /\ arg' = [arg EXCEPT ![k] = 0]
        /\ rqueue' = rqueue /\ task' = task /\ state' = state /\ ctx' = ctx
        /\ current_tid[k] = MAIN /\ pc[k] = "user"
        /\ \A t \in Tid \ {MAIN} : tcbs[t] = "live" => state[t] = "FINISHED"
    BY <1>7 DEF Teardown, Goto, InUser, schedVars, tcbVars
  <2>2. state[MAIN] = "RUNNING"
    BY <1>1, <2>1, HoldsAt DEF OnStack, UserPc, HeldSound, ThreadState
  <2>3. rqueue = <<>>
    <3> SUFFICES ASSUME rqueue # <<>> PROVE FALSE
      OBVIOUS
    <3>1. Head(rqueue) \in Tid \cup {ExitAll} /\ In(rqueue, Head(rqueue))
      BY <1>1, InTail DEF TypeOK
    <3>2. Head(rqueue) \in Tid
      BY <1>3, <3>1
    <3>3. tcbs[Head(rqueue)] = "live" /\ state[Head(rqueue)] = "READY"
      BY <1>1, <3>1, <3>2 DEF ReadySound
    <3> QED
      BY <2>1, <2>2, <3>2, <3>3
  <2>4. Len(rqueue') = 0 /\ arg'[k] = 0
    BY <1>1, <2>1, <2>3 DEF TypeOK
  <2>5. \A j \in KThread : task'[j] # "TEARDOWN" /\ pc'[j] # "torndown"
    BY <1>1, <2>1 DEF Tearing, TypeOK
  <2>6. \A j \in KThread : pc'[j] = "teardown" => j = k
    BY <1>1, <2>1 DEF Tearing, TypeOK
  <2>7. ~MainLeaving'
    BY <2>1, <2>2 DEF MainLeaving
  <2>8. Cardinality(Exited') = 0 /\ Reaping' = 0
    BY <1>5, <1>6, FS_EmptySet DEF Reaping
  <2>9. Signals(Len(rqueue))' /\ Balance(arg[k], Len(rqueue))'
    BY <1>5, <2>4, <2>8 DEF Signals, Balance
  <2>10. Tearing'
    BY <1>1, <2>1 DEF Tearing, TypeOK
  <2> QED
    BY <1>5, <2>5, <2>6, <2>7, <2>9, <2>10, StepLocals DEF SignalInv
<1>8. CASE ~Teardown(k)
  <2>1. ~Tearing'
    BY <1>8, TearingBegins DEF TeardownInv
  <2>2. /\ ~MainLeaving'
        /\ \A j \in KThread : /\ pc'[j] \notin {"teardown", "torndown"}
                              /\ task'[j] # "TEARDOWN"
    BY <2>1 DEF Tearing, MainLeaving
  <2> QED
    BY <1>5, <1>6, <2>2, StepLocals DEF SignalInv
<1> QED
  BY <1>7, <1>8

\* A step that leaves main where it is in uthread_teardown.
Bystander(k) ==
  /\ \A j \in KThread : /\ pc'[j] = "teardown" <=> pc[j] = "teardown"
                        /\ pc'[j] = "torndown" <=> pc[j] = "torndown"
                        /\ task'[j] = "TEARDOWN" <=> task[j] = "TEARDOWN"
                        /\ pc[j] = "teardown" => arg'[j] = arg[j]
  /\ MainLeaving' <=> MainLeaving
  /\ pc'[MainK] # "done"

\* The steps of the kernel threads that wait, exit and are waited for.
LEMMA Bystanders ==
  ASSUME TeardownInv, NEW k \in KThread, Tearing, pc[MainK] # "done",
         \/ DequeueExitAll(k) \/ Reap(k) \/ SchedNone(k)
         \/ SchedExit(k) /\ join_queue[current_tid[k]] = <<>>
  PROVE  Bystander(k) /\ Tearing'
<1>1. TypeOK /\ MainK \in KThread
  BY KThreadAssumption DEF TeardownInv, ThreadInv, LockInv
<1>2. /\ state' = state /\ ctx' = ctx
      /\ pc[k] \in {"dequeue", "reap", "sched"} /\ task[k] # "TEARDOWN"
      /\ pc'[k] \in {"dequeue", "reap", "sched", "exited"}
      /\ task'[k] # "TEARDOWN"
      /\ \A j \in KThread \ {k} : /\ pc'[j] = pc[j] /\ arg'[j] = arg[j]
                                  /\ task'[j] = task[j]
  BY <1>1 DEF DequeueExitAll, Reap, SchedNone, SchedExit, WakeJoiner, At,
     TaskDone, Goto, tcbVars, schedVars, TypeOK, LocalsOK
<1>3. Bystander(k)
  BY <1>1, <1>2 DEF Bystander, MainLeaving
<1> QED
  BY <1>2, <1>3 DEF Bystander, Tearing, MainLeaving

\* A kernel thread that takes &exitall exits, or the main one begins to wait.
LEMMA TakeSignal ==
  ASSUME TeardownInv, NEW k \in KThread, DequeueExitAll(k), Tearing,
         pc[MainK] # "done", Step(k)
  PROVE  SignalInv'
<1>1. TypeOK /\ SignalInv /\ Bystander(k) /\ Tearing'
  BY Bystanders DEF TeardownInv, ThreadInv, LockInv
<1>2. MainK \in KThread /\ NumK \in Nat /\ NumK' = NumK
  BY KThreadAssumption, NumKType DEF NumK
<1>3. /\ Cardinality(Exited) \in Nat /\ exitall_sem \in Nat
      /\ Reaping \in {0, 1}
  BY <1>1, ExitedFacts DEF TypeOK, Reaping
<1>4. \/ /\ Cardinality(Exited') = Cardinality(Exited) + 1
         /\ exitall_sem' = exitall_sem + 1 /\ Reaping' = Reaping
      \/ /\ Cardinality(Exited') = Cardinality(Exited)
         /\ exitall_sem' = exitall_sem /\ Reaping' = 1 /\ Reaping = 0
  <2>1. pc[k] = "dequeue" /\ k \notin Exited
    BY DEF DequeueExitAll, At, Exited
  <2>2. CASE k = MainK
    <3>1. pc' = [pc EXCEPT ![k] = "reap"] /\ exitall_sem' = exitall_sem
      BY <2>2 DEF DequeueExitAll, Goto
    <3>2. Exited' = Exited
      BY <1>1, <2>1, <2>2, <3>1 DEF Exited, OtherK, TypeOK
    <3> QED
      BY <1>1, <2>1, <2>2, <3>1, <3>2 DEF Reaping, TypeOK
  <2>3. CASE k # MainK
    <3>1. pc' = [pc EXCEPT ![k] = "exited"] /\ exitall_sem' = exitall_sem + 1
      BY <2>3 DEF DequeueExitAll, Goto
    <3>2. Exited' = Exited \cup {k}
      BY <1>1, <2>3, <3>1 DEF Exited, OtherK, TypeOK
    <3>3. Cardinality(Exited \cup {k}) = Cardinality(Exited) + 1
      BY <2>1, ExitedFacts, FS_AddElement
    <3>4. Reaping' = Reaping
      BY <1>1, <1>2, <2>3, <3>1 DEF Reaping, TypeOK
    <3> QED
      BY <3>1, <3>2, <3>3, <3>4
  <2> QED
    BY <2>2, <2>3
<1>5. /\ rqueue # <<>> /\ rqueue' = Tail(rqueue) /\ rqueue[1] = ExitAll
      /\ Len(rqueue) \in Nat /\ Len(rqueue) >= 1
      /\ Len(rqueue') = Len(rqueue) - 1
      /\ \A i \in 1 .. Len(rqueue) - 1 : rqueue'[i] = rqueue[i + 1]
  BY <1>1, EmptySeq, LenProperties, HeadTailProperties
  DEF DequeueExitAll, TypeOK
<1>6. ASSUME NEW j \in KThread, pc[j] = "teardown"
      PROVE  Signals(Len(rqueue))' /\ Balance(arg[j], Len(rqueue))'
  <2>1. arg'[j] = arg[j] /\ arg[j] \in Nat
    BY <1>1, <1>2, <1>6, ArgFacts DEF Bystander, TypeOK, LocalsOK
  <2>2. Signals(Len(rqueue)) /\ Balance(arg[j], Len(rqueue))
    BY <1>1, <1>6 DEF SignalInv
  <2>3. Signals(Len(rqueue))'
    BY <1>5, <2>2 DEF Signals
  <2>4. Balance(arg[j], Len(rqueue))'
    BY <1>2, <1>3, <1>4, <1>5, <2>1, <2>2 DEF Balance
  <2> QED
    BY <2>3, <2>4
<1>7. ASSUME NEW j \in KThread, task[j] = "TEARDOWN"
      PROVE  Signals(Len(rqueue))' /\ Balance(NumK, Len(rqueue))'
  <2>1. Signals(Len(rqueue)) /\ Balance(NumK, Len(rqueue))
    BY <1>1, <1>7 DEF SignalInv
  <2>2. Signals(Len(rqueue))'
    BY <1>5, <2>1 DEF Signals
  <2>3. /\ exitall_sem = Cardinality(Exited)
        /\ NumK = Len(rqueue) + Cardinality(Exited) + Reaping
    BY <1>5, <2>1 DEF Balance
  <2>4. /\ exitall_sem' = Cardinality(Exited')
        /\ NumK = Len(rqueue') + Cardinality(Exited') + Reaping'
    BY <1>2, <1>3, <1>4, <1>5, <2>3
  <2> QED
    BY <1>2, <2>2, <2>4 DEF Balance
<1>8. ASSUME MainLeaving
      PROVE  /\ rqueue' # <<>> /\ rqueue'[Len(rqueue')] = MAIN
             /\ Signals(Len(rqueue) - 1)' /\ Balance(NumK, Len(rqueue) - 1)'
  <2>1. /\ rqueue[Len(rqueue)] = MAIN
        /\ Signals(Len(rqueue) - 1) /\ Balance(NumK, Len(rqueue) - 1)
    BY <1>1, <1>5, <1>8 DEF SignalInv
  <2>2. Len(rqueue) >= 2
    BY <1>5, <2>1, TidFacts
  <2>3. rqueue' # <<>> /\ rqueue'[Len(rqueue')] = MAIN
    BY <1>5, <2>1, <2>2
  <2>4. Signals(Len(rqueue) - 1)'
    BY <1>5, <2>1 DEF Signals
  <2>5. Balance(NumK, Len(rqueue) - 1)'
    BY <1>2, <1>3, <1>4, <1>5, <2>1, <2>2 DEF Balance
  <2> QED
    BY <2>3, <2>4, <2>5
<1>9. \A j \in KThread : pc[j] # "torndown"
  BY <1>1, <1>5 DEF SignalInv
<1> QED
  BY <1>1, <1>6, <1>7, <1>8, <1>9, StepLocals DEF SignalInv, Bystander

\* The main kernel thread goes on when all the others have exited, and then
\* nothing is left to take.
LEMMA ReapOthers ==
  ASSUME TeardownInv, NEW k \in KThread, Reap(k), Tearing,
         pc[MainK] # "done", Step(k)
  PROVE  SignalInv'
<1>1. TypeOK /\ SignalInv /\ Bystander(k) /\ Tearing'
  BY Bystanders DEF TeardownInv, ThreadInv, LockInv
<1>2. MainK \in KThread /\ NumK \in Nat /\ NumK >= 1 /\ NumK' = NumK
  BY KThreadAssumption, NumKType DEF NumK
<1>3. /\ Cardinality(Exited) \in Nat /\ exitall_sem \in Nat
      /\ Cardinality(Exited) <= NumK - 1
      /\ Cardinality(Exited) = NumK - 1 => Exited = OtherK
      /\ Len(rqueue) \in Nat /\ (rqueue # <<>> => Len(rqueue) >= 1)
  BY <1>1, ExitedFacts DEF TypeOK
<1>4. /\ k = MainK /\ pc[MainK] = "reap" /\ Reaping = 1 /\ ~Reaped
      /\ rqueue' = rqueue
      /\ exitall_sem >= NumK - 1 /\ exitall_sem' = exitall_sem - (NumK - 1)
      /\ pc' = [pc EXCEPT ![MainK] = "sched"]
  BY <1>1 DEF Reap, ReapCount, At, Goto, SignalInv, Reaping, Reaped
<1>5. Exited' = Exited /\ pc'[MainK] # "reap" /\ Reaping' = 0
  BY <1>1, <1>2, <1>4 DEF Exited, OtherK, Reaping, TypeOK
<1>6. ASSUME NEW sent \in 0 .. NumK, NEW n \in Nat, Balance(sent, n)
      PROVE  n = 0 /\ sent = NumK /\ Reaped'
  <2>1. exitall_sem = Cardinality(Exited) /\ sent = n + Cardinality(Exited) + 1
    BY <1>4, <1>6 DEF Balance
  <2>2. Cardinality(Exited) = NumK - 1
    BY <1>2, <1>3, <1>4, <2>1
  <2>3. n = 0 /\ sent = NumK /\ exitall_sem' = 0 /\ Exited = OtherK
    BY <1>2, <1>3, <1>4, <2>1, <2>2
  <2> QED
    BY <1>5, <2>3 DEF Reaped, OtherK
<1>7. ASSUME NEW j \in KThread, pc[j] = "teardown"
      PROVE  Signals(Len(rqueue))' /\ Balance(arg[j], Len(rqueue))'
  <2>1. arg'[j] = arg[j] /\ arg[j] \in 0 .. NumK
    BY <1>1, <1>2, <1>7, ArgFacts DEF Bystander, TypeOK, LocalsOK
  <2>2. Signals(Len(rqueue)) /\ Balance(arg[j], Len(rqueue))
    BY <1>1, <1>7 DEF SignalInv
  <2>3. Len(rqueue) = 0 /\ arg[j] = NumK /\ Reaped'
    BY <1>3, <1>6, <2>1, <2>2
  <2> QED
    BY <1>2, <1>4, <2>1, <2>2, <2>3 DEF Signals, Balance
<1>8. ASSUME NEW j \in KThread, task[j] = "TEARDOWN"
      PROVE  Signals(Len(rqueue))' /\ Balance(NumK, Len(rqueue))'
  <2>1. Signals(Len(rqueue)) /\ Balance(NumK, Len(rqueue))
    BY <1>1, <1>8 DEF SignalInv
  <2>2. Len(rqueue) = 0 /\ Reaped'
    BY <1>2, <1>3, <1>6, <2>1
  <2> QED
    BY <1>2, <1>4, <2>1, <2>2 DEF Signals, Balance
<1>9. ASSUME MainLeaving
      PROVE  /\ rqueue' # <<>> /\ rqueue'[Len(rqueue')] = MAIN
             /\ Signals(Len(rqueue) - 1)' /\ Balance(NumK, Len(rqueue) - 1)'
  <2>1. /\ rqueue # <<>> /\ rqueue[Len(rqueue)] = MAIN
        /\ Signals(Len(rqueue) - 1) /\ Balance(NumK, Len(rqueue) - 1)
    BY <1>1, <1>4, <1>9 DEF SignalInv
  <2>2. Len(rqueue) - 1 \in Nat /\ NumK \in 0 .. NumK
    BY <1>2, <1>3, <2>1
  <2>3. Len(rqueue) - 1 = 0 /\ Reaped'
    BY <1>6, <2>1, <2>2
  <2> QED
    BY <1>2, <1>4, <2>1, <2>3 DEF Signals, Balance
<1>10. \A j \in KThread : pc[j] # "torndown"
  BY <1>1, <1>4 DEF SignalInv
<1> QED
  BY <1>1, <1>7, <1>8, <1>9, <1>10, StepLocals DEF SignalInv, Bystander

\* A kernel thread finishes an exit, or goes back to the ready queue.
LEMMA Quiet ==
  ASSUME TeardownInv, NEW k \in KThread, Tearing, pc[MainK] # "done", Step(k),
         \/ SchedNone(k)
         \/ SchedExit(k) /\ join_queue[current_tid[k]] = <<>>
  PROVE  SignalInv'
<1>1. TypeOK /\ SignalInv /\ Bystander(k) /\ Tearing'
  BY Bystanders DEF TeardownInv, ThreadInv, LockInv
<1>2. /\ rqueue' = rqueue /\ exitall_sem' = exitall_sem
      /\ pc[k] = "sched" /\ pc' = [pc EXCEPT ![k] = "dequeue"]
  BY DEF SchedNone, SchedExit, WakeJoiner, At, TaskDone, Goto
<1>3. Exited' = Exited /\ Reaping' = Reaping
  BY <1>1, <1>2 DEF Exited, OtherK, Reaping, TypeOK
<1>4. pc'[MainK] = "reap" <=> pc[MainK] = "reap"
  BY <1>1, <1>2, KThreadAssumption DEF TypeOK
<1>5. NumK' = NumK /\ OtherK' = OtherK /\ (Reaped' <=> Reaped)
  BY <1>2, <1>3, <1>4 DEF NumK, OtherK, Reaped
<1>6. ASSUME NEW j \in KThread, pc'[j] = "teardown"
      PROVE  Signals(Len(rqueue))' /\ Balance(arg[j], Len(rqueue))'
  <2>1. pc[j] = "teardown" /\ arg'[j] = arg[j]
    BY <1>1, <1>6 DEF Bystander
  <2>2. Signals(Len(rqueue)) /\ Balance(arg[j], Len(rqueue))
    BY <1>1, <2>1 DEF SignalInv
  <2> QED
    BY <1>2, <1>3, <1>5, <2>1, <2>2 DEF Signals, Balance
<1>7. ASSUME NEW j \in KThread, task'[j] = "TEARDOWN"
      PROVE  Signals(Len(rqueue))' /\ Balance(NumK, Len(rqueue))'
  <2>1. Signals(Len(rqueue)) /\ Balance(NumK, Len(rqueue))
    BY <1>1, <1>7 DEF SignalInv, Bystander
  <2> QED
    BY <1>2, <1>3, <1>5, <2>1 DEF Signals, Balance
<1>8. ASSUME MainLeaving'
      PROVE  \/ /\ rqueue' # <<>> /\ rqueue'[Len(rqueue')] = MAIN
                /\ Signals(Len(rqueue) - 1)' /\ Balance(NumK, Len(rqueue) - 1)'
             \/ rqueue' = <<>> /\ Reaped'
  <2>1. \/ /\ rqueue # <<>> /\ rqueue[Len(rqueue)] = MAIN
           /\ Signals(Len(rqueue) - 1) /\ Balance(NumK, Len(rqueue) - 1)
        \/ rqueue = <<>> /\ Reaped
    BY <1>1, <1>8 DEF SignalInv, Bystander
  <2> QED
    BY <1>2, <1>3, <1>5, <2>1 DEF Signals, Balance
<1>9. ASSUME NEW j \in KThread, pc'[j] = "torndown"
      PROVE  rqueue' = <<>> /\ Reaped'
  BY <1>1, <1>2, <1>5, <1>9 DEF SignalInv, Bystander
<1> QED
  BY <1>1, <1>6, <1>7, <1>8, <1>9, StepLocals DEF SignalInv, Bystander

\* After a step that takes main from one point of uthread_teardown to
\* another, it is there and nowhere else.
LEMMA MainOnly ==
  ASSUME TeardownInv, NEW k \in KThread, Others(k),
         \/ pc[k] \in {"teardown", "torndown"} \/ task[k] = "TEARDOWN"
         \/ MainLeaving
  PROVE  \A j \in KThread \ {k} :
            /\ pc'[j] \notin {"teardown", "torndown"}
            /\ task'[j] # "TEARDOWN"
BY TearingOnce DEF TeardownInv, Others

\* Main sends the signals, one after the other, and goes to the scheduler.
LEMMA SendSignals ==
  ASSUME TeardownInv, NEW k \in KThread, Tearing, pc[MainK] # "done", Step(k),
         TeardownSignal(k) \/ TeardownSwitch(k)
  PROVE  SignalInv'
<1>1. TypeOK /\ SignalInv /\ ThreadInv /\ Others(k)
  BY StepFrame DEF TeardownInv, ThreadInv, LockInv
<1>2. /\ pc[k] = "teardown" /\ exitall_sem' = exitall_sem /\ state' = state
  BY DEF TeardownSignal, TeardownSwitch, At, tcbVars
<1>3. \A j \in KThread \ {k} : /\ pc'[j] \notin {"teardown", "torndown"}
                               /\ task'[j] # "TEARDOWN"
  BY <1>1, <1>2, MainOnly
<1>4. ~MainLeaving'
  BY <1>1, <1>2, TearingOnce DEF MainLeaving
<1>5. /\ Signals(Len(rqueue)) /\ Balance(arg[k], Len(rqueue))
      /\ arg[k] \in Nat /\ Len(rqueue) \in Nat /\ rqueue \in Seq(Tid \cup {ExitAll})
  BY <1>1, <1>2, ArgFacts, NumKType DEF SignalInv, TypeOK, LocalsOK
<1>6. \/ pc' = [pc EXCEPT ![k] = "teardown"]
      \/ pc' = [pc EXCEPT ![k] = "sched"]
  BY DEF TeardownSignal, TeardownSwitch, SwitchToSched, Goto
<1>7. Exited' = Exited /\ Reaping' = Reaping
  <2>1. CASE pc' = [pc EXCEPT ![k] = "teardown"]
    BY <1>1, <1>2, <2>1 DEF Exited, OtherK, Reaping, TypeOK
  <2>2. CASE pc' = [pc EXCEPT ![k] = "sched"]
    BY <1>1, <1>2, <2>2 DEF Exited, OtherK, Reaping, TypeOK
  <2> QED
    BY <1>6, <2>1, <2>2
<1>8. pc'[MainK] # "done" /\ (pc'[MainK] = "reap" <=> pc[MainK] = "reap")
  BY <1>1, <1>2, <1>6, KThreadAssumption DEF TypeOK
<1>9. /\ NumK' = NumK /\ NumK \in Nat /\ (Reaped' <=> Reaped)
      /\ Cardinality(Exited) \in Nat /\ Reaping \in {0, 1}
  BY <1>2, <1>7, <1>8, NumKType, ExitedFacts DEF NumK, OtherK, Reaped, Reaping
<1>10. CASE TeardownSignal(k)
  <2>1. /\ rqueue' = Append(rqueue, ExitAll) /\ pc'[k] = "teardown"
        /\ arg'[k] = arg[k] + 1 /\ arg[k] < NumK /\ task' = task
    BY <1>1, <1>10 DEF TeardownSignal, ReadyEnqueue, Goto, schedVars, TypeOK
  <2>2. /\ Len(rqueue') = Len(rqueue) + 1
        /\ \A i \in 1 .. Len(rqueue) : rqueue'[i] = rqueue[i]
        /\ rqueue'[Len(rqueue) + 1] = ExitAll
    BY <1>5, <2>1
  <2>3. Signals(Len(rqueue))'
    BY <1>5, <2>2 DEF Signals
  <2>4. Balance(arg[k], Len(rqueue))'
    <3>1. /\ exitall_sem = Cardinality(Exited)
          /\ arg[k] = Len(rqueue) + Cardinality(Exited) + Reaping
      BY <1>5, <1>9, <2>1 DEF Balance
    <3>2. /\ exitall_sem' = Cardinality(Exited')
          /\ arg'[k] = Len(rqueue') + Cardinality(Exited') + Reaping'
      BY <1>2, <1>5, <1>7, <1>9, <2>1, <2>2, <3>1
    <3> QED
      BY <3>2 DEF Balance
  <2>5. task'[k] # "TEARDOWN"
    BY <1>1, <1>2, <2>1 DEF TypeOK, LocalsOK
  <2>6. Tearing'
    BY <2>1 DEF Tearing
  <2> QED
    BY <1>3, <1>4, <1>8, <2>1, <2>3, <2>4, <2>5, <2>6, StepLocals DEF SignalInv
<1>11. CASE TeardownSwitch(k)
  <2>1. /\ rqueue' = rqueue /\ pc'[k] = "sched" /\ arg[k] = NumK
        /\ task'[k] = "TEARDOWN"
    BY <1>1, <1>11 DEF TeardownSwitch, SwitchToSched, Goto, TypeOK
  <2>2. Signals(Len(rqueue))' /\ Balance(NumK, Len(rqueue))'
    BY <1>2, <1>5, <1>7, <1>9, <2>1 DEF Signals, Balance
  <2>3. Tearing'
    BY <2>1 DEF Tearing
  <2> QED
    BY <1>3, <1>4, <1>8, <2>1, <2>2, <2>3, StepLocals DEF SignalInv
<1> QED
  BY <1>10, <1>11

\* Main is put behind the signals.
LEMMA QueueMain ==
  ASSUME TeardownInv, NEW k \in KThread, Tearing, pc[MainK] # "done", Step(k),
         SchedTeardown(k)
  PROVE  SignalInv'
<1>1. TypeOK /\ SignalInv /\ ThreadInv /\ TearInv /\ Others(k) /\ MAIN \in Tid
  BY StepFrame, TidFacts DEF TeardownInv, ThreadInv, LockInv
<1>2. /\ pc[k] = "sched" /\ task[k] = "TEARDOWN" /\ exitall_sem' = exitall_sem
      /\ pc' = [pc EXCEPT ![k] = "dequeue"] /\ task'[k] = "NONE" /\ ctx' = ctx
  BY <1>1 DEF SchedTeardown, At, TaskDone, Goto, TypeOK
<1>3. current_tid[k] = MAIN /\ ctx[MAIN].at = "torndown"
  BY <1>1, <1>2 DEF TearInv
<1>4. rqueue' = Append(rqueue, MAIN) /\ MainLeaving'
  BY <1>1, <1>2, <1>3
  DEF SchedTeardown, ReadyEnqueue, SetState, MainLeaving, TypeOK
<1>5. \A j \in KThread : /\ pc'[j] \notin {"teardown", "torndown"}
                         /\ task'[j] # "TEARDOWN"
  BY <1>1, <1>2, MainOnly DEF TypeOK
<1>6. /\ Signals(Len(rqueue)) /\ Balance(NumK, Len(rqueue))
      /\ Len(rqueue) \in Nat /\ rqueue \in Seq(Tid \cup {ExitAll})
  BY <1>1, <1>2 DEF SignalInv, TypeOK
<1>7. Exited' = Exited /\ Reaping' = Reaping
  BY <1>1, <1>2 DEF Exited, OtherK, Reaping, TypeOK
<1>8. pc'[MainK] # "done" /\ (pc'[MainK] = "reap" <=> pc[MainK] = "reap")
  BY <1>1, <1>2, KThreadAssumption DEF TypeOK
<1>9. NumK' = NumK /\ (Reaped' <=> Reaped)
  BY <1>2, <1>7, <1>8 DEF NumK, OtherK, Reaped
<1>10. /\ Len(rqueue') = Len(rqueue) + 1 /\ rqueue' # <<>>
       /\ Len(rqueue') - 1 = Len(rqueue)
       /\ \A i \in 1 .. Len(rqueue) : rqueue'[i] = rqueue[i]
       /\ rqueue'[Len(rqueue')] = MAIN
  BY <1>1, <1>4, <1>6
<1>11. Signals(Len(rqueue) - 1)'
  BY <1>6, <1>10 DEF Signals
<1>12. Balance(NumK, Len(rqueue) - 1)'
  BY <1>2, <1>6, <1>7, <1>9, <1>10 DEF Balance
<1>13. Tearing'
  BY <1>4 DEF Tearing, MainLeaving
<1> QED
  BY <1>5, <1>8, <1>10, <1>11, <1>12, <1>13, StepLocals DEF SignalInv

\* Main is taken from the queue when all signals were taken, by the one
\* kernel thread that is left, and comes back from swapcontext there.
LEMMA ResumeMain ==
  ASSUME TeardownInv, NEW k \in KThread, Tearing, pc[MainK] # "done", Step(k),
         MainLeaving,
         (Dequeue(k) /\ Head(rqueue) = MAIN) \/ (Dispatch(k) /\ tcb[k] = MAIN)
  PROVE  SignalInv'
<1>1. /\ TypeOK /\ SignalInv /\ ThreadInv /\ ReadySound /\ Others(k)
      /\ MAIN \in Tid /\ MainK \in KThread
  BY StepFrame, TidFacts, KThreadAssumption
  DEF TeardownInv, ThreadInv, LockInv, PlaceInv
<1>2. \/ /\ rqueue # <<>> /\ rqueue[Len(rqueue)] = MAIN
         /\ Signals(Len(rqueue) - 1) /\ Balance(NumK, Len(rqueue) - 1)
      \/ rqueue = <<>> /\ Reaped
  BY <1>1 DEF SignalInv
<1>3. \A j \in KThread \ {k} : /\ pc'[j] \notin {"teardown", "torndown"}
                               /\ task'[j] # "TEARDOWN"
  BY <1>1, MainOnly
<1>4. /\ Cardinality(Exited) \in Nat /\ Cardinality(Exited) <= NumK - 1
      /\ Cardinality(Exited) = NumK - 1 => Exited = OtherK
      /\ NumK \in Nat /\ Reaping \in {0, 1}
      /\ Reaping = 1 => pc[MainK] = "reap"
  BY ExitedFacts, NumKType DEF Reaping
<1>5. CASE Dequeue(k) /\ Head(rqueue) = MAIN
  <2>1. /\ pc[k] = "dequeue" /\ rqueue # <<>> /\ rqueue' = Tail(rqueue)
        /\ exitall_sem' = exitall_sem /\ pc' = [pc EXCEPT ![k] = "dispatch"]
        /\ task' = task /\ state' = state /\ ctx' = ctx
    BY <1>5 DEF Dequeue, At, Goto, schedVars, tcbVars
  <2>2. /\ Len(rqueue) \in Nat /\ Len(rqueue) >= 1 /\ rqueue[1] = MAIN
        /\ Len(rqueue') = Len(rqueue) - 1
        /\ Len(rqueue') = 0 => rqueue' = <<>>
    BY <1>1, <1>5, <2>1, EmptySeq, LenProperties, HeadTailProperties DEF TypeOK
  <2>3. Len(rqueue) = 1
    BY <1>2, <2>1, <2>2, TidFacts DEF Signals
  <2>4. Balance(NumK, 0)
    BY <1>2, <2>1, <2>3
  <2>5. ~(Exited = OtherK /\ pc[MainK] = "reap")
    BY <2>1 DEF Exited, OtherK
  <2>6. Reaped
    BY <1>4, <2>4, <2>5 DEF Balance
  <2>7. k = MainK
    BY <2>1, <2>6 DEF Reaped, Exited, OtherK
  <2>8. Exited' = Exited
    BY <1>1, <2>1, <2>7 DEF Exited, OtherK, TypeOK
  <2>9. Reaped' /\ pc'[MainK] # "done"
    BY <1>1, <2>1, <2>6, <2>7, <2>8 DEF Reaped, OtherK, TypeOK
  <2>10. MainLeaving' /\ Tearing' /\ rqueue' = <<>>
    BY <2>1, <2>2, <2>3 DEF MainLeaving, Tearing
  <2>11. pc'[k] = "dispatch" /\ task'[k] # "TEARDOWN"
    BY <1>1, <2>1 DEF TypeOK, LocalsOK
  <2> QED
    BY <1>3, <2>9, <2>10, <2>11, StepLocals DEF SignalInv
<1>6. CASE Dispatch(k) /\ tcb[k] = MAIN
  <2>1. /\ pc[k] = "dispatch" /\ rqueue' = rqueue /\ exitall_sem' = exitall_sem
        /\ pc' = [pc EXCEPT ![k] = "torndown"] /\ task' = task
        /\ state' = [state EXCEPT ![MAIN] = "RUNNING"]
    BY <1>6 DEF Dispatch, At, Goto, SetState, schedVars, MainLeaving
  <2>2. Held(k, MAIN, "READY")
    BY <1>1, <1>6, <2>1, HoldsAt
  <2>3. ~In(rqueue, MAIN)
    BY <1>1, <2>2 DEF ReadySound
  <2>4. rqueue = <<>> /\ Reaped
    <3>1. rqueue # <<>> => Len(rqueue) \in DOMAIN rqueue
      BY <1>1, EmptySeq, LenProperties DEF TypeOK
    <3> QED
      BY <1>2, <2>3, <3>1 DEF In
  <2>5. k = MainK
    BY <2>1, <2>4 DEF Reaped, Exited, OtherK
  <2>6. Exited' = Exited
    BY <1>1, <2>1, <2>5 DEF Exited, OtherK, TypeOK
  <2>7. Reaped' /\ rqueue' = <<>> /\ pc'[MainK] = "torndown"
    BY <1>1, <2>1, <2>4, <2>5, <2>6 DEF Reaped, OtherK, TypeOK
  <2>8. ~MainLeaving' /\ Tearing'
    BY <1>1, <2>1, <2>7 DEF MainLeaving, Tearing, TypeOK
  <2>9. task'[k] # "TEARDOWN"
    BY <1>1, <2>1 DEF TypeOK, LocalsOK
  <2> QED
    BY <1>3, <2>5, <2>7, <2>8, <2>9, StepLocals DEF SignalInv
<1> QED
  BY <1>5, <1>6

\* Everything is destroyed.
LEMMA Finish ==
  ASSUME TeardownInv, NEW k \in KThread, TeardownFinish(k), Step(k)
  PROVE  SignalInv'
<1>1. TypeOK /\ SignalInv /\ ThreadInv /\ Others(k) /\ MainK \in KThread
  BY StepFrame, KThreadAssumption DEF TeardownInv, ThreadInv, LockInv
<1>2. /\ pc[k] = "torndown" /\ pc' = [pc EXCEPT ![k] = "done"] /\ task' = task
      /\ rqueue' = rqueue /\ exitall_sem' = exitall_sem /\ state' = state
  BY DEF TeardownFinish, At, Goto, schedVars, tcbVars
<1>3. rqueue = <<>> /\ Reaped
  BY <1>1, <1>2 DEF SignalInv
<1>4. k = MainK
  BY <1>2, <1>3 DEF Reaped, Exited, OtherK
<1>5. Exited' = Exited
  BY <1>1, <1>2, <1>4 DEF Exited, OtherK, TypeOK
<1>6. Reaped' /\ pc'[MainK] = "done" /\ rqueue' = <<>>
  BY <1>1, <1>2, <1>3, <1>4, <1>5 DEF Reaped, OtherK, TypeOK
<1>7. \A j \in KThread : /\ pc'[j] \notin {"teardown", "torndown"}
                         /\ task'[j] # "TEARDOWN"
  BY <1>1, <1>2, MainOnly DEF TypeOK, LocalsOK
<1>8. ~MainLeaving'
  BY <1>1, <1>2, TearingOnce DEF MainLeaving
<1> QED
  BY <1>6, <1>7, <1>8, StepLocals DEF SignalInv

-----------------------------------------------------------------------------
(* The theorems.                                                           *)

\* At first teardown has not begun.
LEMMA InitTeardown == Init => TeardownInv
<1> SUFFICES ASSUME Init PROVE TeardownInv
  OBVIOUS
<1>1. ThreadInv
  BY InitThread
<1>2. MainK \in KThread /\ MAIN \in Tid
  BY KThreadAssumption, TidFacts
<1>3. /\ \A k \in KThread : /\ pc[k] \in {"user", "sched"} /\ task[k] = "NONE"
      /\ state[MAIN] = "RUNNING" /\ rqueue = <<>> /\ exitall_sem = 0
  BY <1>2 DEF Init
<1>4. Exited = {} /\ ~MainLeaving /\ ~In(rqueue, ExitAll)
  BY <1>3, EmptyQueue DEF Exited, OtherK, MainLeaving
<1> QED
  BY <1>1, <1>2, <1>3, <1>4 DEF TeardownInv, SignalInv

\* Every step keeps the invariant.
LEMMA NextTeardown == TeardownInv /\ [Next]_vars => TeardownInv'
<1> SUFFICES ASSUME TeardownInv, [Next]_vars PROVE TeardownInv'
  OBVIOUS
<1>1. ThreadInv'
  BY NextThread DEF TeardownInv
<1>2. ASSUME NEW k \in KThread, Step(k) PROVE SignalInv'
  <2>1. pc[MainK] # "done"
    BY <1>2, DoneIsEnd
  <2>2. CASE ~Tearing
    BY <1>2, <2>1, <2>2, BeforeTeardown
  <2>3. CASE Tearing
    BY <1>2, <2>1, <2>3, TearingSteps, TakeSignal, ReapOthers, Quiet,
       SendSignals, QueueMain, ResumeMain, Finish
  <2> QED
    BY <2>2, <2>3
<1>3. ASSUME UNCHANGED vars PROVE SignalInv'
  BY <1>3
  DEF TeardownInv, vars, SignalInv, Exited, OtherK, Reaping, Reaped, Balance,
      Signals, MainLeaving, Tearing, In, NumK
<1> QED
  BY <1>1, <1>2, <1>3 DEF Next, Ended, TeardownInv

\* TeardownInv is an invariant: the &exitall that uthread_teardown sends are
\* balanced by the kernel threads that take them, in every behaviour of the
\* library, for any number of kernel threads.
THEOREM TeardownInvariant == Spec => []TeardownInv
<1>1. Init => TeardownInv
  BY InitTeardown
<1>2. TeardownInv /\ [Next]_vars => TeardownInv'
  BY NextTeardown
<1> QED
  BY <1>1, <1>2, PTL DEF Spec

\* When uthread_teardown has freed everything, the other kernel threads have
\* ended, exitall_sem is 0 and the ready queue is empty.
THEOREM TeardownIsClean == Spec => []TeardownClean
<1>1. TeardownInv => TeardownClean
  BY DEF TeardownInv, SignalInv, TeardownClean, Reaped, Exited, OtherK
<1> QED
  BY <1>1, TeardownInvariant, PTL

\* Every assertion of uthread.c except the one of line 834 holds when it is
\* reached: the states that trampoline, uthread_yield, uthread_exit,
\* uthread_join, uthread_sem_post and schedule() assert, and that main comes
\* out of teardown on the main kernel thread.
THEOREM AssertionsHold == Spec => []AssertsHold
<1>1. ASSUME TeardownInv PROVE AssertsHold
  <2>1. /\ TypeOK /\ HeldSound /\ JoinSound /\ JoinInv /\ SignalInv /\ Sound
    BY <1>1 DEF TeardownInv, ThreadInv, LockInv, PlaceInv, Sound
  <2> SUFFICES ASSUME NEW k \in KThread
               PROVE  /\ pc[k] \in {"start", "user"} =>
                           state[current_tid[k]] = "RUNNING"
                      /\ Handing(k) /\ task[k] = "EXIT"
                           /\ join_queue[current_tid[k]] # <<>> =>
                           /\ Head(join_queue[current_tid[k]]) # current_tid[k]
                           /\ state[Head(join_queue[current_tid[k]])]
                                = "WAITING_JOIN"
                      /\ pc[k] = "dispatch" => state[tcb[k]] = "READY"
                      /\ pc[k] = "torndown" => k = MainK
                      /\ pc[k] = "rejoin" => /\ tcbs[arg[k]] = "live"
                                             /\ state[arg[k]] = "FINISHED"
                      /\ pc[k] = "sem_wake" => state[tcb[k]] = "WAITING_SEM"
    BY DEF AssertsHold
  <2>2. ThreadState = {"READY", "RUNNING", "WAITING_JOIN", "WAITING_SEM",
                       "FINISHED"}
    BY DEF ThreadState
  <2>3. pc[k] \in {"start", "user"} => state[current_tid[k]] = "RUNNING"
    BY <2>1, <2>2, HoldsAt DEF HeldSound, OnStack, UserPc
  <2>4. ASSUME Handing(k), task[k] = "EXIT", join_queue[current_tid[k]] # <<>>
        PROVE  /\ Head(join_queue[current_tid[k]]) # current_tid[k]
               /\ state[Head(join_queue[current_tid[k]])] = "WAITING_JOIN"
    <3> DEFINE u == current_tid[k]
    <3>1. u \in Tid /\ Held(k, u, "FINISHED")
      BY <2>1, <2>4, HoldsAt DEF Handing
    <3>2. state[u] = "FINISHED"
      BY <2>1, <2>2, <3>1 DEF HeldSound
    <3>3. Head(join_queue[u]) \in Tid /\ In(join_queue[u], Head(join_queue[u]))
      BY <2>1, <2>4, <3>1, InTail DEF TypeOK
    <3>4. state[Head(join_queue[u])] = "WAITING_JOIN"
      BY <2>1, <3>1, <3>3 DEF JoinSound
    <3> QED
      BY <3>2, <3>4
  <2>5. pc[k] = "dispatch" => state[tcb[k]] = "READY"
    BY <2>1, <2>2, HoldsAt DEF HeldSound
  <2>6. pc[k] = "torndown" => k = MainK
    BY <2>1 DEF SignalInv, Reaped, Exited, OtherK
  <2>7. ASSUME pc[k] = "rejoin"
        PROVE  tcbs[arg[k]] = "live" /\ state[arg[k]] = "FINISHED"
    <3>1. arg[k] \in Tid /\ Claims(k, arg[k])
      BY <2>1, <2>7, ArgFacts DEF TypeOK, LocalsOK, Claims
    <3> QED
      BY <2>1, <2>7, <3>1 DEF JoinInv, Gone
  <2>8. pc[k] = "sem_wake" => state[tcb[k]] = "WAITING_SEM"
    BY <2>1, <2>2, HoldsAt DEF HeldSound
  <2> QED
    BY <2>3, <2>4, <2>5, <2>6, <2>7, <2>8
<1> QED
  BY <1>1, TeardownInvariant, PTL
=============================================================================
