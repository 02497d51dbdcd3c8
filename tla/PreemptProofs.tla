--------------------------- MODULE PreemptProofs ----------------------------
(***************************************************************************)
(* Proofs about Preempt, for any numbers of kernel threads, user threads   *)
(* and any quanta.                                                         *)
(*                                                                         *)
(* The inductive invariant has three parts.  MaskInv: types, how many      *)
(* timers and exits there can have been, and that a context that was saved *)
(* inside a call was saved with SIGRTMIN blocked, which is what keeps      *)
(* SignalHeldOff when it is resumed.  EndInv: at which point of teardown   *)
(* the timer of the main kernel thread is gone and its last signal has     *)
(* been delivered, which is what makes HandlerSafe hold.  OwedInv: where a *)
(* tick that has come for a thread is kept (pending, then the flag         *)
(* preempted), which is what makes PromptPreemption hold.                  *)
(***************************************************************************)
EXTENDS Preempt, FiniteSetTheorems, SequenceTheorems, TLAPS

Starting == {"init", "kthread_main"}
InCall   == {"check", "check_first", "check_yield", "yield", "body", "reblock",
             "leave"}
Sched    == {"sched", "reset", "unblock", "resume", "reap"}
Ending   == {"delete", "torndown", "unblock_last", "clear_inited", "done"}
Pc       == Starting \cup InCall \cup Sched \cup Ending
              \cup {"init_end", "user", "exited", "aborted"}

\* Where a context resumes.
ResumeAt == {"user", "body", "reblock", "torndown"}

\* The kernel threads that have set their timer, and that have ended.
Started == {k \in KThread : pc[k] \notin Starting}
Exited  == {k \in KThread \ {MainK} : pc[k] \in {"exited", "aborted"}}

\* A kernel thread has a user thread, except where it has none to run.
HasThread(k) ==
  pc[k] \in {"kthread_main", "sched", "reap", "exited", "aborted"}
    \/ current[k] \in Thread

MaskInv ==
  /\ TypeOK
  /\ \A k \in KThread : pc[k] \in Pc /\ HasThread(k)
  /\ ctx \in [Thread -> [at : ResumeAt, mask : BOOLEAN]]
  /\ quantum # 0 => \A t \in Thread :
                       ctx[t].at \in {"body", "torndown"} => ctx[t].mask
  /\ SignalHeldOff
  /\ created <= Cardinality(Started)
  /\ exitall_sem <= Cardinality(Exited)

\* Without a usable quantum there are no timers, and no signals.
NoTicks == quantum = 0 \/ quantum >= Second

\* Teardown has deleted the timers.
TimersDeleted == quantum = 0 \/ i = num_kthreads

EndInv ==
  /\ NoTicks => timers = {} /\ \A k \in KThread : ~pending[k] /\ owed[k] = NONE
  /\ \A k \in KThread : pc[k] = "init" => k = MainK
  /\ pc[MainK] # "kthread_main"
  /\ pc[MainK] \in {"init", "init_end"} =>
        /\ rqueue = <<>> /\ i = 0
        /\ \A k \in KThread \ {MainK} : pc[k] \in {"kthread_main", "sched"}
  /\ \A x \in timers : x.owner = MainK =>
        x.id = timer_id[MainK] /\ pc[MainK] # "init" /\ i = 0
  /\ \A k \in KThread : pc[k] = "delete" =>
        /\ rqueue = <<>>
        /\ \A j \in KThread \ {k} : pc[j] \in {"kthread_main", "sched"}
  /\ \A t \in Thread : ctx[t].at = "torndown" => TimersDeleted
  /\ \A k \in KThread : pc[k] \in Ending \ {"delete"} => TimersDeleted
  /\ i > 0 /\ pc[MainK] \in {"resume"} \cup (Ending \ {"delete"}) => ~pending[MainK]
  /\ \A k \in KThread : pc[k] \in {"unblock_last", "clear_inited", "done"} => freed
  /\ freed => /\ \A k \in KThread \ {MainK} : pc[k] = "exited"
              /\ pc[MainK] \in {"unblock_last", "clear_inited", "done"}
  /\ ~inited => freed /\ pc[MainK] = "done"

\* A tick that came for the thread on k is not forgotten.
OwedInv ==
  \A k \in KThread :
    /\ owed[k] # NONE => pc[k] \in InCall \cup {"user", "delete"}
    /\ owed[k] = 0 => pending[k] \/ preempted[k]
                        \/ pc[k] \in {"check_yield", "yield", "delete"}
    /\ owed[k] # NONE /\ owed[k] # 0 =>
          /\ owed[k] = 1
          /\ \/ pc[k] \in {"check_yield", "yield", "delete"}
             \/ pc[k] \in {"user", "check", "check_first"} /\ preempted[k]

PreInv == MaskInv /\ EndInv /\ OwedInv


-----------------------------------------------------------------------------
(* What a step of one kernel thread does.                                  *)

Act(k) == Step(k) \/ Tick(k) \/ (k = MainK /\ (InitTimer \/ InitEnd \/ Reap))

\* Kernel threads and user threads are numbers, which the sentinels are not.
LEMMA Numbers ==
  ASSUME TypeOK
  PROVE  /\ num_kthreads \in Nat /\ num_kthreads >= 1 /\ quantum \in Nat
         /\ MainK \in KThread /\ KThread \subseteq Nat
         /\ MAIN \in Thread /\ Thread \subseteq Nat
         /\ NONE \notin Thread /\ ExitAll \notin Thread /\ NONE # ExitAll
         /\ NONE \notin Nat
BY PreemptAssumption DEF TypeOK, KThread, MainK, MAIN, Thread

\* A second has some nanoseconds.
LEMMA SecondType == Second \in Nat /\ Second >= 1
BY SMT DEF Second

\* A step of k changes what belongs to k alone, unless it aborts.
Others(k) ==
  /\ quantum' = quantum /\ num_kthreads' = num_kthreads /\ KThread' = KThread
  /\ DOMAIN pc' = KThread
  /\ (\A j \in KThread \ {k} : pc'[j] = pc[j]) \/ SetTimerAborts(k)
  /\ \A j \in KThread \ {k} :
        /\ mask'[j] = mask[j] /\ pending'[j] = pending[j]
        /\ preempted'[j] = preempted[j] /\ owed'[j] = owed[j]
        /\ current'[j] = current[j] /\ timer_id'[j] = timer_id[j]

\* In each of the steps.
LEMMA ActOthers ==
  ASSUME TypeOK, NEW k \in KThread, Act(k)
  PROVE  Others(k)
<1> USE DEF TypeOK, Others, KThread, Goto, SetMask, UnblockSigrtmin,
        BlockSigrtmin, SwapContext, argVars, tearVars, kinfoVars
<1>1. CASE Tick(k)
  BY <1>1 DEF Tick
<1>2. CASE k = MainK /\ (InitTimer \/ InitEnd \/ Reap)
  BY <1>2 DEF InitTimer, InitEnd, Reap, StartKThread, SetTimer, timerVars
<1>3. CASE SetTimerAborts(k)
  BY <1>3 DEF SetTimerAborts
<1>4. CASE KthreadMain(k)
  BY <1>4 DEF KthreadMain, StartKThread, SetTimer, timerVars
<1>5. CASE \/ Enter(k) \/ EnterSemDestroy(k) \/ CheckPreempted(k)
           \/ Returns(k) \/ Reblock(k) \/ Exits(k) \/ Leave(k)
  <2>1. CASE Enter(k) \/ EnterSemDestroy(k) \/ Returns(k) \/ Reblock(k)
    BY <2>1 DEF Enter, EnterSemDestroy, Returns, Reblock
  <2>2. CASE CheckPreempted(k)
    BY <2>2 DEF CheckPreempted
  <2>3. CASE Exits(k)
    BY <2>3 DEF Exits
  <2>4. CASE Leave(k)
    BY <2>4 DEF Leave
  <2> QED
    BY <1>5, <2>1, <2>2, <2>3, <2>4
<1>6. CASE Yield(k) \/ Blocks(k) \/ SignalExit(k)
  BY <1>6 DEF Yield, Blocks, SignalExit
<1>7. CASE \/ Dequeue(k) \/ Reset(k) \/ UnblockInSchedule(k) \/ Resume(k)
           \/ TakeExitAll(k)
  BY <1>7 DEF Dequeue, Reset, UnblockInSchedule, Resume, TakeExitAll
<1>8. CASE \/ Teardown(k) \/ DeleteTimer(k) \/ Free(k) \/ UnblockLast(k)
           \/ ClearInited(k)
  BY <1>8 DEF Teardown, DeleteTimer, Free, UnblockLast, ClearInited
<1> QED
  BY <1>1, <1>2, <1>3, <1>4, <1>5, <1>6, <1>7, <1>8 DEF Act, Step

\* Where k goes from where, and what it does there.
Moves(k) ==
  \/ Tick(k) /\ pc'[k] = pc[k]
  \/ SetTimerAborts(k) /\ \A j \in KThread : pc'[j] = "aborted"
  \/ StartKThread(k, pc[k], pc'[k]) /\ pc[k] = "kthread_main" /\ pc'[k] = "sched"
  \/ StartKThread(k, pc[k], pc'[k]) /\ pc[k] = "init" /\ pc'[k] = "init_end" /\ k = MainK
  \/ InitEnd /\ pc[k] = "init_end" /\ pc'[k] = "user" /\ k = MainK
  \/ Reap /\ pc[k] = "reap" /\ pc'[k] = "sched" /\ k = MainK
  \/ Enter(k) /\ pc[k] = "user" /\ pc'[k] \in {"check", "yield"}
  \/ EnterSemDestroy(k) /\ pc[k] = "user" /\ pc'[k] = "check_first"
  \/ CheckPreempted(k) /\ pc[k] \in {"check", "check_first"}
                       /\ pc'[k] = IF FlagSet(k) THEN "check_yield" ELSE "body"
  \/ Yield(k) /\ pc[k] \in {"yield", "check_yield"} /\ pc'[k] = "sched"
  \/ Returns(k) /\ pc[k] = "body" /\ pc'[k] = "leave"
  \/ Blocks(k) /\ pc[k] = "body" /\ pc'[k] = "sched"
  \/ Reblock(k) /\ pc[k] = "reblock" /\ pc'[k] = "body"
  \/ Exits(k) /\ pc[k] = "body" /\ pc'[k] = "sched"
  \/ Leave(k) /\ pc[k] = "leave" /\ pc'[k] = "user"
  \/ Dequeue(k) /\ pc[k] = "sched" /\ pc'[k] = "reset"
  \/ Reset(k) /\ pc[k] = "reset" /\ pc'[k] = "unblock"
  \/ UnblockInSchedule(k) /\ pc[k] = "unblock" /\ pc'[k] = "resume"
  \/ Resume(k) /\ pc[k] = "resume" /\ pc'[k] = ctx[current[k]].at
  \/ TakeExitAll(k) /\ pc[k] = "sched" /\ pc'[k] = "reap" /\ k = MainK
  \/ TakeExitAll(k) /\ pc[k] = "sched" /\ pc'[k] = "exited" /\ k # MainK
  \/ Teardown(k) /\ pc[k] = "user" /\ pc'[k] = "delete"
  \/ DeleteTimer(k) /\ pc[k] = "delete" /\ pc'[k] = "delete"
  \/ SignalExit(k) /\ pc[k] = "delete" /\ pc'[k] = "sched"
  \/ Free(k) /\ pc[k] = "torndown" /\ pc'[k] = "unblock_last"
  \/ UnblockLast(k) /\ pc[k] = "unblock_last" /\ pc'[k] = "clear_inited"
  \/ ClearInited(k) /\ pc[k] = "clear_inited" /\ pc'[k] = "done"

\* These are all.
LEMMA ActMoves ==
  ASSUME TypeOK, NEW k \in KThread, Act(k)
  PROVE  Moves(k)
<1>1. DOMAIN pc = KThread
  BY DEF TypeOK
<1>2. CASE Tick(k) \/ SetTimerAborts(k) \/ Blocks(k) \/ SignalExit(k) \/ Yield(k)
  <2>1. CASE Tick(k)
    BY <2>1 DEF Tick, Moves
  <2>2. CASE SetTimerAborts(k)
    BY <2>2 DEF SetTimerAborts, Moves
  <2>3. CASE Blocks(k) \/ SignalExit(k) \/ Yield(k)
    BY <1>1, <2>3 DEF Blocks, SignalExit, Yield, SwapContext, Moves
  <2> QED
    BY <1>2, <2>1, <2>2, <2>3
<1>3. CASE k = MainK /\ (InitTimer \/ InitEnd \/ Reap)
  <2>1. CASE InitTimer
    <3>1. pc[k] = "init" /\ pc'[k] = "init_end"
      BY <1>1, <1>3, <2>1 DEF InitTimer, StartKThread, Goto
    <3> QED
      BY <1>3, <2>1, <3>1 DEF InitTimer, Moves
  <2> QED
    BY <1>1, <1>3, <2>1 DEF InitEnd, Reap, Goto, Moves
<1>4. CASE KthreadMain(k)
  <2>1. pc[k] = "kthread_main" /\ pc'[k] = "sched"
    BY <1>1, <1>4 DEF KthreadMain, StartKThread, Goto
  <2> QED
    BY <1>4, <2>1 DEF KthreadMain, Moves
<1>5. CASE \/ Enter(k) \/ EnterSemDestroy(k) \/ CheckPreempted(k)
           \/ Returns(k) \/ Reblock(k) \/ Exits(k) \/ Leave(k)
  BY <1>1, <1>5 DEF Enter, EnterSemDestroy, CheckPreempted, Returns, Reblock,
     Exits, Leave, Goto, Moves
<1>6. CASE \/ Dequeue(k) \/ Reset(k) \/ UnblockInSchedule(k) \/ Resume(k)
           \/ TakeExitAll(k)
  BY <1>1, <1>6 DEF Dequeue, Reset, UnblockInSchedule, Resume, TakeExitAll,
     Goto, Moves
<1>7. CASE \/ Teardown(k) \/ DeleteTimer(k) \/ Free(k) \/ UnblockLast(k)
           \/ ClearInited(k)
  BY <1>1, <1>7 DEF Teardown, DeleteTimer, Free, UnblockLast, ClearInited,
     Goto, Moves
<1> QED
  BY <1>2, <1>3, <1>4, <1>5, <1>6, <1>7 DEF Act, Step


-----------------------------------------------------------------------------
(* The counts of timers and exits.                                         *)

\* There are num_kthreads kernel threads.
LEMMA KThreadCount ==
  ASSUME TypeOK
  PROVE  /\ IsFiniteSet(KThread) /\ Cardinality(KThread) = num_kthreads
         /\ IsFiniteSet(KThread \ {MainK})
         /\ Cardinality(KThread \ {MainK}) = num_kthreads - 1
<1>1. num_kthreads \in Nat /\ num_kthreads >= 1 /\ MainK \in KThread
  BY Numbers
<1>2. 0 \in Int /\ num_kthreads - 1 \in Int
  BY <1>1
<1>3. /\ IsFiniteSet(0 .. num_kthreads - 1)
      /\ Cardinality(0 .. num_kthreads - 1) =
           IF 0 > num_kthreads - 1 THEN 0 ELSE (num_kthreads - 1) - 0 + 1
  BY <1>2, FS_Interval
<1>4. IsFiniteSet(KThread) /\ Cardinality(KThread) = num_kthreads
  BY <1>1, <1>3 DEF KThread
<1>5. /\ IsFiniteSet(KThread \ {MainK})
      /\ Cardinality(KThread \ {MainK}) = Cardinality(KThread) - 1
  BY <1>1, <1>4, FS_RemoveElement
<1> QED
  BY <1>4, <1>5

\* A kernel thread that has left its start does not come back, and one that
\* has ended does not either.
LEMMA CountsGrow ==
  ASSUME MaskInv, NEW k \in KThread, Act(k)
  PROVE  /\ Cardinality(Started) \in Nat /\ Cardinality(Started') \in Nat
         /\ Cardinality(Started) <= Cardinality(Started')
         /\ Cardinality(Started') <= num_kthreads
         /\ pc[k] \in Starting /\ pc'[k] \notin Starting =>
               Cardinality(Started) + 1 <= Cardinality(Started')
         /\ Cardinality(Exited) \in Nat /\ Cardinality(Exited') \in Nat
         /\ Cardinality(Exited) <= Cardinality(Exited')
         /\ Cardinality(Exited') <= num_kthreads - 1
         /\ pc[k] = "sched" /\ pc'[k] = "exited" /\ k # MainK =>
               Cardinality(Exited) + 1 <= Cardinality(Exited')
<1>1. TypeOK /\ Others(k) /\ Moves(k)
  BY ActOthers, ActMoves DEF MaskInv
<1>2. /\ IsFiniteSet(KThread) /\ Cardinality(KThread) = num_kthreads
      /\ IsFiniteSet(KThread \ {MainK})
      /\ Cardinality(KThread \ {MainK}) = num_kthreads - 1
      /\ num_kthreads \in Nat
  BY <1>1, KThreadCount, Numbers
<1>3. /\ pc[k] \notin Starting => pc'[k] \notin Starting
      /\ pc[k] \in {"exited", "aborted"} => pc'[k] \in {"exited", "aborted"}
  <2>1. CASE Resume(k)
    <3>1. ctx[current[k]].at \in ResumeAt /\ pc[k] = "resume"
      BY <2>1 DEF MaskInv, HasThread, Resume, Goto
    <3> QED
      BY <1>1, <2>1, <3>1 DEF Resume, Goto, ResumeAt, Starting, TypeOK
  <2>2. CASE ~Resume(k)
    BY <1>1, <2>2 DEF Moves, Starting, Tick
  <2> QED
    BY <2>1, <2>2
<1>4. ASSUME SetTimerAborts(k)
      PROVE  \A j \in KThread : pc'[j] = "aborted"
  BY <1>4 DEF SetTimerAborts
<1>5. Started \subseteq Started' /\ Exited \subseteq Exited'
  BY <1>1, <1>3, <1>4 DEF Started, Exited, Others, Starting
<1>6. /\ Started \subseteq KThread /\ Started' \subseteq KThread
      /\ Exited \subseteq KThread \ {MainK} /\ Exited' \subseteq KThread \ {MainK}
  BY <1>1 DEF Started, Exited, Others, MainK
<1>7. /\ IsFiniteSet(Started') /\ IsFiniteSet(Exited')
      /\ Cardinality(Started') <= num_kthreads
      /\ Cardinality(Exited') <= num_kthreads - 1
  BY <1>2, <1>6, FS_Subset
<1>8. /\ IsFiniteSet(Started) /\ Cardinality(Started) <= Cardinality(Started')
      /\ IsFiniteSet(Exited) /\ Cardinality(Exited) <= Cardinality(Exited')
  BY <1>5, <1>7, FS_Subset
<1>9. /\ Cardinality(Started) \in Nat /\ Cardinality(Started') \in Nat
      /\ Cardinality(Exited) \in Nat /\ Cardinality(Exited') \in Nat
  BY <1>7, <1>8, FS_CardinalityType
<1>10. ASSUME pc[k] \in Starting, pc'[k] \notin Starting
       PROVE  Cardinality(Started) + 1 <= Cardinality(Started')
  <2>1. k \notin Started /\ Started \cup {k} \subseteq Started'
    BY <1>1, <1>5, <1>10 DEF Started, Others
  <2>2. Cardinality(Started \cup {k}) = Cardinality(Started) + 1
    BY <1>8, <2>1, FS_AddElement
  <2>3. Cardinality(Started \cup {k}) <= Cardinality(Started')
    BY <1>7, <2>1, FS_Subset
  <2> QED
    BY <2>2, <2>3
<1>11. ASSUME pc[k] = "sched", pc'[k] = "exited", k # MainK
       PROVE  Cardinality(Exited) + 1 <= Cardinality(Exited')
  <2>1. k \notin Exited /\ Exited \cup {k} \subseteq Exited'
    BY <1>1, <1>5, <1>11 DEF Exited, Others, MainK
  <2>2. Cardinality(Exited \cup {k}) = Cardinality(Exited) + 1
    BY <1>8, <2>1, FS_AddElement
  <2>3. Cardinality(Exited \cup {k}) <= Cardinality(Exited')
    BY <1>7, <2>1, FS_Subset
  <2> QED
    BY <2>2, <2>3
<1> QED
  BY <1>7, <1>8, <1>9, <1>10, <1>11

\* Each kernel thread sets one timer, and exits once.
LEMMA ActCounts ==
  ASSUME MaskInv, NEW k \in KThread, Act(k)
  PROVE  /\ created' \in 0 .. num_kthreads /\ created' <= Cardinality(Started')
         /\ timer_id' \in [KThread -> 0 .. num_kthreads - 1]
         /\ timers' \subseteq [id : 0 .. num_kthreads - 1, owner : KThread,
                               nsec : 1 .. Second - 1]
         /\ exitall_sem' \in 0 .. num_kthreads - 1
         /\ exitall_sem' <= Cardinality(Exited')
<1>1. TypeOK /\ Others(k) /\ Moves(k) /\ num_kthreads \in Nat /\ quantum \in Nat
      /\ created \in Nat /\ exitall_sem \in Nat
  <2>1. TypeOK
    BY DEF MaskInv
  <2>2. created \in Nat /\ exitall_sem \in Nat
    BY <2>1 DEF TypeOK
  <2> QED
    BY <2>1, <2>2, ActOthers, ActMoves, Numbers
<1>2. /\ created <= Cardinality(Started) /\ exitall_sem <= Cardinality(Exited)
  BY DEF MaskInv
<1>3. ASSUME quantum # 0, StartKThread(k, pc[k], pc'[k]),
             pc[k] \in Starting, pc'[k] \notin Starting
      PROVE  /\ created' \in 0 .. num_kthreads /\ created' <= Cardinality(Started')
             /\ timer_id' \in [KThread -> 0 .. num_kthreads - 1]
             /\ timers' \subseteq [id : 0 .. num_kthreads - 1, owner : KThread,
                                   nsec : 1 .. Second - 1]
  <2>1. /\ created' = created + 1 /\ quantum < Second
        /\ timer_id' = [timer_id EXCEPT ![k] = created]
        /\ timers' = timers \cup {[id |-> created, owner |-> k, nsec |-> quantum]}
    BY <1>3 DEF StartKThread, SetTimer, CanSetTimer, Interval
  <2>2. created + 1 <= Cardinality(Started') /\ created + 1 <= num_kthreads
    BY <1>1, <1>2, <1>3, CountsGrow
  <2>3. created \in 0 .. num_kthreads - 1 /\ quantum \in 1 .. Second - 1
    BY <1>1, <1>3, <2>1, <2>2, SecondType
  <2> QED
    BY <1>1, <2>1, <2>2, <2>3 DEF TypeOK
<1>4. ASSUME created' = created, timer_id' = timer_id, timers' \subseteq timers
      PROVE  /\ created' \in 0 .. num_kthreads /\ created' <= Cardinality(Started')
             /\ timer_id' \in [KThread -> 0 .. num_kthreads - 1]
             /\ timers' \subseteq [id : 0 .. num_kthreads - 1, owner : KThread,
                                   nsec : 1 .. Second - 1]
  <2>1. created' <= Cardinality(Started')
    BY <1>1, <1>2, <1>4, CountsGrow
  <2> QED
    BY <1>1, <1>4, <2>1 DEF TypeOK
<1>5. \/ created' = created /\ timer_id' = timer_id /\ timers' \subseteq timers
      \/ /\ quantum # 0 /\ StartKThread(k, pc[k], pc'[k])
         /\ pc[k] \in Starting /\ pc'[k] \notin Starting
  <2>1. CASE StartKThread(k, pc[k], pc'[k]) /\ pc[k] \in Starting /\ pc'[k] \notin Starting
    BY <2>1 DEF StartKThread, timerVars
  <2>2. CASE ~(StartKThread(k, pc[k], pc'[k]) /\ pc[k] \in Starting /\ pc'[k] \notin Starting)
    BY <1>1, <2>2 DEF Moves, Starting, Tick, SetTimerAborts, InitEnd, Reap, Enter,
       EnterSemDestroy, CheckPreempted, Yield, Returns, Blocks, Reblock, Exits,
       Leave, Dequeue, Reset, UnblockInSchedule, Resume, TakeExitAll, Teardown,
       DeleteTimer, SignalExit, Free, UnblockLast, ClearInited, kinfoVars,
       timerVars
  <2> QED
    BY <2>1, <2>2
<1>6. exitall_sem' \in Nat /\ exitall_sem' <= Cardinality(Exited')
  <2>1. CASE TakeExitAll(k) /\ k # MainK /\ pc[k] = "sched" /\ pc'[k] = "exited"
    <3>1. exitall_sem' = exitall_sem + 1
      BY <2>1 DEF TakeExitAll
    <3> QED
      BY <1>1, <1>2, <2>1, <3>1, CountsGrow
  <2>2. CASE Reap
    <3>1. exitall_sem' = 0
      BY <2>2 DEF Reap
    <3> QED
      BY <3>1, CountsGrow
  <2>3. CASE exitall_sem' = exitall_sem
    BY <1>1, <1>2, <2>3, CountsGrow
  <2>4. \/ exitall_sem' = exitall_sem \/ Reap
        \/ TakeExitAll(k) /\ k # MainK /\ pc[k] = "sched" /\ pc'[k] = "exited"
    <3>1. CASE TakeExitAll(k)
      BY <1>1, <3>1 DEF TakeExitAll, Goto, TypeOK
    <3> QED
      BY <1>1, <3>1 DEF Moves, Tick, SetTimerAborts, StartKThread, InitEnd, Enter,
       EnterSemDestroy, CheckPreempted, Yield, Returns, Blocks, Reblock, Exits,
       Leave, Dequeue, Reset, UnblockInSchedule, Resume, Teardown,
       DeleteTimer, SignalExit, Free, UnblockLast, ClearInited, tearVars
  <2> QED
    BY <2>1, <2>2, <2>3, <2>4
<1>7. exitall_sem' \in 0 .. num_kthreads - 1
  BY <1>1, <1>6, CountsGrow
<1> QED
  BY <1>3, <1>4, <1>5, <1>6, <1>7


-----------------------------------------------------------------------------
(* Types, contexts and masks.                                              *)

\* The queue that teardown fills.
LEMMA ExitQueue ==
  ASSUME TypeOK
  PROVE  [j \in 1 .. num_kthreads |-> ExitAll] \o <<MAIN>> \in Seq(Thread \cup {ExitAll})
<1>1. num_kthreads \in Nat /\ MAIN \in Thread
  BY Numbers
<1>2. [j \in 1 .. num_kthreads |-> ExitAll] \in Seq(Thread \cup {ExitAll})
  BY <1>1
<1>3. <<MAIN>> \in Seq(Thread \cup {ExitAll})
  BY <1>1
<1> QED
  BY <1>2, <1>3, ConcatProperties

\* The types of the variables that are not counts.
LEMMA ActTypes ==
  ASSUME MaskInv, NEW k \in KThread, Act(k)
  PROVE  /\ inited' \in BOOLEAN /\ freed' \in BOOLEAN
         /\ preempted' \in [KThread -> BOOLEAN]
         /\ current' \in [KThread -> Thread \cup {NONE}]
         /\ mask' \in [KThread -> BOOLEAN] /\ pending' \in [KThread -> BOOLEAN]
         /\ rqueue' \in Seq(Thread \cup {ExitAll})
         /\ waiting' \in SUBSET Thread /\ unborn' \in SUBSET Thread
         /\ i' \in 0 .. num_kthreads
         /\ owed' \in [KThread -> 0 .. OwedCap \cup {NONE}]
         /\ ctx' \in [Thread -> [at : ResumeAt, mask : BOOLEAN]]
         /\ pc'[k] \in Pc
<1>1. TypeOK /\ Moves(k) /\ HasThread(k) /\ k \in Nat /\ NONE \notin Nat
  BY ActMoves, Numbers DEF MaskInv
<1>2. num_kthreads \in Nat /\ Thread \subseteq Nat /\ ExitAll \notin Thread
  BY <1>1, Numbers
<1>3. pc[k] \in Pc /\ ctx \in [Thread -> [at : ResumeAt, mask : BOOLEAN]]
  BY DEF MaskInv
<1> USE <1>1, <1>2, <1>3 DEF TypeOK, argVars, tearVars, kinfoVars, poolVars,
      timerVars, Goto, SetMask, UnblockSigrtmin, BlockSigrtmin
<1>4. CASE Tick(k)
  <2>1. owed' \in [KThread -> 0 .. OwedCap \cup {NONE}]
    BY <1>4 DEF Tick, OwedCap
  <2>2. preempted' \in [KThread -> BOOLEAN] /\ pending' \in [KThread -> BOOLEAN]
    BY <1>4 DEF Tick
  <2>3. UNCHANGED <<argVars, tearVars, current, mask, ctx, rqueue, poolVars, pc>>
    BY <1>4 DEF Tick
  <2> QED
    BY <2>1, <2>2, <2>3
<1>5. CASE SetTimerAborts(k)
  BY <1>5 DEF SetTimerAborts, Pc
<1>6. CASE \/ StartKThread(k, pc[k], pc'[k]) /\ pc[k] = "kthread_main" /\ pc'[k] = "sched"
           \/ StartKThread(k, pc[k], pc'[k]) /\ pc[k] = "init" /\ pc'[k] = "init_end"
  BY <1>6 DEF StartKThread, Pc, Sched
<1>7. CASE k = MainK /\ (InitEnd \/ Reap)
  BY <1>7 DEF InitEnd, Reap, Pc, Sched
<1>8. CASE Enter(k) \/ EnterSemDestroy(k) \/ Reblock(k)
  BY <1>8 DEF Enter, EnterSemDestroy, Reblock, Pc, InCall
<1>9. CASE CheckPreempted(k)
  BY <1>9 DEF CheckPreempted, Pc, InCall
<1>10. CASE Leave(k)
  <2>1. owed' \in [KThread -> 0 .. OwedCap \cup {NONE}]
    BY <1>10 DEF Leave, OwedCap
  <2> QED
    BY <1>10, <2>1 DEF Leave, Pc
<1>11. ASSUME NEW at \in ResumeAt, SwapContext(k, at), current[k] \in Thread
       PROVE  /\ ctx' \in [Thread -> [at : ResumeAt, mask : BOOLEAN]]
              /\ owed' \in [KThread -> 0 .. OwedCap \cup {NONE}]
              /\ mask' \in [KThread -> BOOLEAN] /\ pc'[k] \in Pc
  BY <1>11 DEF SwapContext, SavedMask, Pc, Sched
<1>12. CASE Yield(k)
  <2>1. current[k] \in Thread /\ ResumesIn(k) \in ResumeAt
    BY <1>12 DEF Yield, HasThread, ResumesIn, ResumeAt
  <2> QED
    BY <1>11, <1>12, <2>1 DEF Yield
<1>13. CASE Blocks(k)
  <2>1. current[k] \in Thread /\ "reblock" \in ResumeAt
    BY <1>13 DEF Blocks, HasThread, ResumeAt
  <2> QED
    BY <1>11, <1>13, <2>1 DEF Blocks
<1>14. CASE SignalExit(k)
  <2>1. current[k] \in Thread /\ "torndown" \in ResumeAt
    BY <1>14 DEF SignalExit, HasThread, ResumeAt
  <2> QED
    BY <1>11, <1>14, <2>1, ExitQueue DEF SignalExit
<1>15. CASE Returns(k)
  <2>1. /\ UNCHANGED <<argVars, tearVars, kinfoVars, timerVars, mask, pending, owed>>
        /\ pc'[k] \in Pc
    BY <1>15 DEF Returns, Pc, InCall
  <2>2. /\ rqueue' \in Seq(Thread \cup {ExitAll})
        /\ waiting' \in SUBSET Thread /\ unborn' \in SUBSET Thread
    <3>1. ASSUME NEW t \in Thread PROVE Append(rqueue, t) \in Seq(Thread \cup {ExitAll})
      BY <3>1
    <3>2. \/ rqueue' = rqueue \/ \E t \in Thread : rqueue' = Append(rqueue, t)
      BY <1>15 DEF Returns
    <3>3. rqueue' \in Seq(Thread \cup {ExitAll})
      BY <3>1, <3>2
    <3>4. waiting' \subseteq waiting /\ unborn' \subseteq unborn
      BY <1>15 DEF Returns
    <3> QED
      BY <3>3, <3>4
  <2>3. ctx' \in [Thread -> [at : ResumeAt, mask : BOOLEAN]]
    <3>1. ASSUME NEW t \in Thread,
                 ctx' = [ctx EXCEPT ![t] = [at |-> "user", mask |-> mask[k]]]
          PROVE  ctx' \in [Thread -> [at : ResumeAt, mask : BOOLEAN]]
      BY <3>1 DEF ResumeAt
    <3> QED
      BY <1>15, <3>1 DEF Returns
  <2> QED
    BY <2>1, <2>2, <2>3
<1>16. CASE Exits(k)
  BY <1>16 DEF Exits, Pc, Sched
<1>17. CASE Dequeue(k) \/ Reset(k) \/ UnblockInSchedule(k) \/ TakeExitAll(k)
  <2>1. CASE Dequeue(k) \/ TakeExitAll(k)
    <3>1. rqueue # <<>> /\ rqueue' = Tail(rqueue)
      BY <2>1 DEF Dequeue, TakeExitAll
    <3>2. Head(rqueue) \in Thread \cup {ExitAll} /\ rqueue' \in Seq(Thread \cup {ExitAll})
      BY <3>1
    <3>3. CASE Dequeue(k)
      BY <3>2, <3>3 DEF Dequeue, Pc, Sched
    <3>4. CASE TakeExitAll(k)
      BY <3>2, <3>4 DEF TakeExitAll, Pc, Sched
    <3> QED
      BY <2>1, <3>3, <3>4
  <2>2. CASE Reset(k) \/ UnblockInSchedule(k)
    BY <2>2 DEF Reset, UnblockInSchedule, Pc, Sched
  <2> QED
    BY <1>17, <2>1, <2>2
<1>18. CASE Resume(k)
  <2>1. current[k] \in Thread
    BY <1>18 DEF Resume, HasThread
  <2>2. ctx[current[k]].at \in ResumeAt /\ ctx[current[k]].mask \in BOOLEAN
    BY <2>1
  <2> QED
    BY <1>18, <2>1, <2>2 DEF Resume, Pc, ResumeAt, InCall, Ending
<1>19. CASE Teardown(k) \/ DeleteTimer(k) \/ Free(k) \/ UnblockLast(k) \/ ClearInited(k)
  <2>1. CASE Teardown(k) \/ Free(k) \/ ClearInited(k)
    BY <2>1 DEF Teardown, Free, ClearInited, Pc, Ending
  <2>2. CASE DeleteTimer(k)
    BY <2>2 DEF DeleteTimer, Pc, Ending
  <2>3. CASE UnblockLast(k)
    BY <2>3 DEF UnblockLast, Pc, Ending
  <2> QED
    BY <1>19, <2>1, <2>2, <2>3
<1> QED
  BY <1>4, <1>5, <1>6, <1>7, <1>8, <1>9, <1>10, <1>12, <1>13, <1>14, <1>15, <1>16,
     <1>17, <1>18, <1>19 DEF Moves


\* Where SIGRTMIN must be blocked.
HeldOff == {"body", "yield", "check_yield", "leave", "sched", "reset", "unblock",
            "reap", "delete", "torndown"}

\* A context that is saved inside a call is saved with the mask of the call.
LEMMA ActContexts ==
  ASSUME MaskInv, NEW k \in KThread, Act(k), quantum # 0,
         NEW t \in Thread, ctx'[t].at \in {"body", "torndown"}
  PROVE  ctx'[t].mask
<1>1. TypeOK /\ Moves(k) /\ HasThread(k)
  BY ActMoves DEF MaskInv
<1>2. /\ pc[k] \in HeldOff => mask[k]
      /\ ctx \in [Thread -> [at : ResumeAt, mask : BOOLEAN]]
      /\ ctx[t].at \in {"body", "torndown"} => ctx[t].mask
  BY DEF MaskInv, SignalHeldOff, HeldOff
<1>3. CASE ctx' = ctx
  BY <1>2, <1>3
<1>4. CASE Yield(k) \/ Blocks(k) \/ SignalExit(k)
  <2>1. /\ pc[k] \in HeldOff
        /\ \E at : ctx' = [ctx EXCEPT ![current[k]] = [at |-> at, mask |-> mask[k]]]
    BY <1>4 DEF Yield, Blocks, SignalExit, SwapContext, SavedMask, HeldOff
  <2> QED
    BY <1>2, <2>1
<1>5. CASE Returns(k)
  <2>1. ctx' = ctx \/ \E u \in Thread :
           ctx' = [ctx EXCEPT ![u] = [at |-> "user", mask |-> mask[k]]]
    BY <1>1, <1>5 DEF Returns, TypeOK
  <2> QED
    BY <1>2, <2>1
<1>6. ctx' = ctx \/ Yield(k) \/ Blocks(k) \/ SignalExit(k) \/ Returns(k)
  BY <1>1 DEF Moves, Tick, SetTimerAborts, StartKThread, InitEnd, Reap, Enter,
     EnterSemDestroy, CheckPreempted, Reblock, Exits, Leave, Dequeue, Reset,
     UnblockInSchedule, Resume, TakeExitAll, Teardown, DeleteTimer, Free,
     UnblockLast, ClearInited
<1> QED
  BY <1>3, <1>4, <1>5, <1>6

\* The scheduler and the bodies of calls run with the signal blocked.
LEMMA ActHeldOff ==
  ASSUME MaskInv, NEW k \in KThread, Act(k), quantum # 0, pc'[k] \in HeldOff
  PROVE  mask'[k]
<1>1. TypeOK /\ Moves(k) /\ HasThread(k)
  BY ActMoves DEF MaskInv
<1>2. /\ pc[k] \in HeldOff => mask[k]
      /\ mask \in [KThread -> BOOLEAN]
      /\ \A t \in Thread : ctx[t].at \in {"body", "torndown"} => ctx[t].mask
      /\ ctx \in [Thread -> [at : ResumeAt, mask : BOOLEAN]]
  BY <1>1 DEF MaskInv, SignalHeldOff, HeldOff, TypeOK
<1> USE <1>1, <1>2 DEF HeldOff
<1>3. CASE /\ mask' = mask
           /\ pc[k] \in HeldOff
  BY <1>3
<1>4. CASE \/ \E to : StartKThread(k, pc[k], to)
           \/ Enter(k) \/ CheckPreempted(k) \/ Reblock(k) \/ Teardown(k)
           \/ Yield(k) \/ Blocks(k) \/ Exits(k) \/ SignalExit(k)
  BY <1>4 DEF StartKThread, Enter, CheckPreempted, Reblock, Teardown, Yield,
     Blocks, Exits, SignalExit, SwapContext, BlockSigrtmin
<1>5. CASE Resume(k)
  <2>1. current[k] \in Thread /\ pc'[k] = ctx[current[k]].at
    BY <1>5 DEF Resume, HasThread, Goto, TypeOK
  <2>2. ctx[current[k]].at \in {"body", "torndown"}
    BY <2>1 DEF ResumeAt
  <2> QED
    BY <1>5, <2>1, <2>2 DEF Resume, SetMask
<1>6. \/ mask' = mask /\ pc[k] \in HeldOff
      \/ \E to : StartKThread(k, pc[k], to)
      \/ Enter(k) \/ CheckPreempted(k) \/ Reblock(k) \/ Teardown(k)
      \/ Yield(k) \/ Blocks(k) \/ Exits(k) \/ SignalExit(k) \/ Resume(k)
  BY DEF Moves, Tick, InitEnd, Reap, EnterSemDestroy, Returns, Leave, Dequeue,
     Reset, UnblockInSchedule, TakeExitAll, DeleteTimer, Free, UnblockLast,
     ClearInited
<1> QED
  BY <1>3, <1>4, <1>5, <1>6

\* A kernel thread that leaves the scheduler has a thread to run.
LEMMA ActHasThread ==
  ASSUME MaskInv, NEW k \in KThread, Act(k)
  PROVE  HasThread(k)'
<1>1. TypeOK /\ Moves(k) /\ HasThread(k) /\ MAIN \in Thread
  BY ActMoves, Numbers DEF MaskInv
<1> USE <1>1
<1>2. CASE Dequeue(k)
  <2>1. current'[k] = Head(rqueue) /\ rqueue # <<>> /\ Head(rqueue) # ExitAll
    BY <1>2 DEF Dequeue, TypeOK
  <2>2. rqueue \in Seq(Thread \cup {ExitAll})
    BY DEF TypeOK
  <2>3. current'[k] \in Thread
    BY <2>1, <2>2
  <2> QED
    BY <2>3 DEF HasThread
<1>3. CASE current' = current
  <2>1. \/ pc[k] \notin {"kthread_main", "sched", "reap", "exited", "aborted"}
        \/ pc'[k] \in {"kthread_main", "sched", "reap", "exited", "aborted"}
        \/ Dequeue(k)
    BY DEF Moves, Tick
  <2> QED
    BY <1>2, <1>3, <2>1 DEF HasThread
<1>4. current' = current \/ Dequeue(k)
  BY DEF Moves, Tick, SetTimerAborts, StartKThread, InitEnd, Reap, Enter, Yield,
     Blocks, SignalExit, Returns,
     EnterSemDestroy, CheckPreempted, Reblock, Exits, Leave, Reset,
     UnblockInSchedule, Resume, TakeExitAll, Teardown, DeleteTimer, Free,
     UnblockLast, ClearInited, kinfoVars
<1> QED
  BY <1>2, <1>3, <1>4

\* Every step preserves the first part of the invariant.
LEMMA ActMask ==
  ASSUME MaskInv, NEW k \in KThread, Act(k)
  PROVE  MaskInv'
<1>1. TypeOK /\ Others(k) /\ Moves(k)
  BY ActOthers, ActMoves DEF MaskInv
<1>2. KThread' = KThread /\ num_kthreads' = num_kthreads /\ quantum' = quantum
      /\ DOMAIN pc' = KThread
  BY <1>1 DEF Others
<1>3. TypeOK'
  <2>1. DOMAIN ctx' = Thread
    BY ActTypes
  <2>2. quantum' \in Quanta /\ num_kthreads' \in 1 .. MaxK
    BY <1>1, <1>2 DEF TypeOK
  <2> QED
    BY <1>2, <2>1, <2>2, ActTypes, ActCounts DEF TypeOK
<1>4. ASSUME NEW j \in KThread
      PROVE  /\ pc'[j] \in Pc /\ HasThread(j)'
             /\ quantum # 0 /\ pc'[j] \in HeldOff => mask'[j]
  <2>1. CASE j = k
    BY <2>1, ActTypes, ActHasThread, ActHeldOff
  <2>2. CASE j # k /\ SetTimerAborts(k)
    <3>1. pc'[j] = "aborted"
      BY <2>2 DEF SetTimerAborts
    <3> QED
      BY <3>1 DEF Pc, HasThread, HeldOff
  <2>3. CASE j # k /\ ~SetTimerAborts(k)
    <3>1. pc'[j] = pc[j] /\ current'[j] = current[j] /\ mask'[j] = mask[j]
      BY <1>1, <2>3 DEF Others
    <3>2. pc[j] \in Pc /\ HasThread(j) /\ (quantum # 0 /\ pc[j] \in HeldOff => mask[j])
      BY DEF MaskInv, SignalHeldOff, HeldOff
    <3> QED
      BY <3>1, <3>2 DEF HasThread
  <2> QED
    BY <2>1, <2>2, <2>3
<1>5. SignalHeldOff'
  BY <1>2, <1>4 DEF SignalHeldOff, HeldOff
<1>6. quantum # 0 => \A t \in Thread :
                        ctx'[t].at \in {"body", "torndown"} => ctx'[t].mask
  BY ActContexts
<1> QED
  BY <1>2, <1>3, <1>4, <1>5, <1>6, ActTypes, ActCounts DEF MaskInv


-----------------------------------------------------------------------------
(* Teardown.                                                               *)

\* Which steps set timers, leave signals pending and end things.
Changes(k) ==
  /\ \/ timers' \subseteq timers /\ timer_id' = timer_id
     \/ /\ quantum # 0 /\ quantum < Second
        /\ pc[k] \in Starting /\ pc'[k] \notin Starting
        /\ timers' = timers \cup {[id |-> created, owner |-> k, nsec |-> quantum]}
        /\ timer_id' = [timer_id EXCEPT ![k] = created]
  /\ pending'[k] => pending[k] \/ Tick(k)
  /\ owed'[k] # NONE => owed[k] # NONE \/ Tick(k)
  /\ i' = i \/ DeleteTimer(k)
  /\ freed' = freed \/ Free(k)
  /\ inited' = inited \/ ClearInited(k)
  /\ \/ rqueue' = rqueue
     \/ pc[k] \in {"yield", "check_yield", "body", "delete"}
     \/ pc[k] = "sched" /\ rqueue # <<>>
  /\ ctx' = ctx \/ SignalExit(k)
       \/ \A t \in Thread : ctx'[t].at = "torndown" => ctx[t].at = "torndown"

\* The steps do that and no more.
LEMMA ActChanges ==
  ASSUME MaskInv, NEW k \in KThread, Act(k)
  PROVE  Changes(k)
<1>1. TypeOK /\ Moves(k) /\ HasThread(k)
  BY ActMoves DEF MaskInv
<1> USE <1>1
<1>2. \/ timers' \subseteq timers /\ timer_id' = timer_id
      \/ /\ quantum # 0 /\ quantum < Second
         /\ pc[k] \in Starting /\ pc'[k] \notin Starting
         /\ timers' = timers \cup {[id |-> created, owner |-> k, nsec |-> quantum]}
         /\ timer_id' = [timer_id EXCEPT ![k] = created]
  <2>1. CASE StartKThread(k, pc[k], pc'[k]) /\ pc[k] \in Starting /\ pc'[k] \notin Starting
    BY <2>1 DEF StartKThread, timerVars, SetTimer, CanSetTimer, Interval
  <2>2. CASE ~(StartKThread(k, pc[k], pc'[k]) /\ pc[k] \in Starting /\ pc'[k] \notin Starting)
    BY <2>2 DEF Moves, Starting, Tick, SetTimerAborts, InitEnd, Reap, Enter,
       EnterSemDestroy, CheckPreempted, Yield, Returns, Blocks, Reblock, Exits,
       Leave, Dequeue, Reset, UnblockInSchedule, Resume, TakeExitAll, Teardown,
       DeleteTimer, SignalExit, Free, UnblockLast, ClearInited, kinfoVars,
       timerVars
  <2> QED
    BY <2>1, <2>2
<1>3. pending'[k] => pending[k] \/ Tick(k)
  <2>1. ASSUME NEW m, SetMask(k, m) PROVE pending'[k] => pending[k]
    BY <2>1 DEF SetMask, TypeOK
  <2> QED
    BY <2>1 DEF Moves, SetTimerAborts, StartKThread, InitEnd, Reap, Enter,
       EnterSemDestroy, CheckPreempted, Yield, Returns, Blocks, Reblock, Exits,
       Leave, Dequeue, Reset, UnblockInSchedule, Resume, TakeExitAll, Teardown,
       DeleteTimer, SignalExit, Free, UnblockLast, ClearInited, UnblockSigrtmin
<1>4. owed'[k] # NONE => owed[k] # NONE \/ Tick(k)
  <2>1. CASE Leave(k)
    BY <2>1 DEF Leave, TypeOK
  <2>2. CASE Yield(k) \/ Blocks(k) \/ Exits(k) \/ SignalExit(k)
    BY <2>2 DEF Yield, Blocks, Exits, SignalExit, SwapContext, TypeOK
  <2> QED
    BY <2>1, <2>2 DEF Moves, SetTimerAborts, StartKThread, InitEnd, Reap, Enter,
       EnterSemDestroy, CheckPreempted, Returns, Reblock, Dequeue, Reset,
       UnblockInSchedule, Resume, TakeExitAll, Teardown, DeleteTimer, Free,
       UnblockLast, ClearInited
<1>5. /\ i' = i \/ DeleteTimer(k)
      /\ freed' = freed \/ Free(k)
      /\ inited' = inited \/ ClearInited(k)
  BY DEF Moves, Tick, SetTimerAborts, StartKThread, InitEnd, Reap, Enter,
     EnterSemDestroy, CheckPreempted, Yield, Returns, Blocks, Reblock, Exits,
     Leave, Dequeue, Reset, UnblockInSchedule, Resume, TakeExitAll, Teardown,
     DeleteTimer, SignalExit, Free, UnblockLast, ClearInited, tearVars
<1>6. \/ rqueue' = rqueue
      \/ pc[k] \in {"yield", "check_yield", "body", "delete"}
      \/ pc[k] = "sched" /\ rqueue # <<>>
  BY DEF Moves, Tick, SetTimerAborts, StartKThread, InitEnd, Reap, Enter,
     EnterSemDestroy, CheckPreempted, Reblock, Exits, Leave, Dequeue, Reset,
     UnblockInSchedule, Resume, TakeExitAll, Teardown, DeleteTimer, Free,
     UnblockLast, ClearInited
<1>7. \/ ctx' = ctx \/ SignalExit(k)
      \/ \A t \in Thread : ctx'[t].at = "torndown" => ctx[t].at = "torndown"
  <2>1. ctx \in [Thread -> [at : ResumeAt, mask : BOOLEAN]]
    BY DEF MaskInv
  <2>2. ASSUME NEW u, NEW at \in {"user", "body", "reblock"}, NEW m,
               ctx' = [ctx EXCEPT ![u] = [at |-> at, mask |-> m]]
        PROVE  \A t \in Thread : ctx'[t].at = "torndown" => ctx[t].at = "torndown"
    BY <2>1, <2>2
  <2>3. CASE Yield(k) \/ Blocks(k)
    <3>1. \E at \in {"user", "body", "reblock"} :
             ctx' = [ctx EXCEPT ![current[k]] = [at |-> at, mask |-> mask[k]]]
      BY <2>3 DEF Yield, Blocks, SwapContext, SavedMask, ResumesIn
    <3> QED
      BY <2>2, <3>1
  <2>4. CASE Returns(k)
    <3>1. ctx' = ctx \/ \E u \in Thread :
             ctx' = [ctx EXCEPT ![u] = [at |-> "user", mask |-> mask[k]]]
      BY <2>4 DEF Returns, TypeOK
    <3> QED
      BY <2>2, <3>1
  <2> QED
    BY <2>3, <2>4 DEF Moves, Tick, SetTimerAborts, StartKThread, InitEnd, Reap, Enter,
     EnterSemDestroy, CheckPreempted, Reblock, Exits, Leave, Dequeue, Reset,
     UnblockInSchedule, Resume, TakeExitAll, Teardown, DeleteTimer, Free,
     UnblockLast, ClearInited
<1> QED
  BY <1>2, <1>3, <1>4, <1>5, <1>6, <1>7 DEF Changes

\* Where a kernel thread can come from.
Origins(k) ==
  /\ pc'[k] \notin Starting \/ pc'[k] = pc[k]
  /\ pc'[k] = "init_end" => pc[k] \in {"init", "init_end"}
  /\ pc'[k] = "delete" => pc[k] = "delete" \/ Teardown(k)
  /\ pc'[k] = "resume" => pc[k] = "resume" \/ UnblockInSchedule(k)
  /\ pc'[k] = "torndown" => \/ pc[k] = "torndown"
                            \/ /\ pc[k] = "resume" /\ current[k] \in Thread
                               /\ ctx[current[k]].at = "torndown"
  /\ pc'[k] = "unblock_last" => pc[k] = "unblock_last" \/ Free(k)
  /\ pc'[k] = "clear_inited" => pc[k] \in {"unblock_last", "clear_inited"}
  /\ pc'[k] = "done" => pc[k] \in {"clear_inited", "done"}
  /\ pc[k] = "kthread_main" => pc'[k] \in {"kthread_main", "sched", "aborted"}
  /\ pc[k] = "sched" => pc'[k] = "sched" \/ rqueue # <<>>
  /\ pc[k] \in {"exited", "done"} => pc'[k] = pc[k]
  /\ pc[k] = "clear_inited" => pc'[k] \in {"clear_inited", "done"}
  /\ pc[k] = "unblock_last" => pc'[k] \in {"unblock_last", "clear_inited"}

\* No step comes from elsewhere.
LEMMA ActOrigins ==
  ASSUME MaskInv, NEW k \in KThread, Act(k)
  PROVE  Origins(k)
<1>1. TypeOK /\ Moves(k) /\ HasThread(k)
  BY ActMoves DEF MaskInv
<1>2. CASE Resume(k)
  <2>1. /\ pc[k] = "resume" /\ pc'[k] = ctx[current[k]].at
        /\ current[k] \in Thread
    BY <1>1, <1>2 DEF Resume, Goto, HasThread, TypeOK
  <2>2. pc'[k] \in ResumeAt
    BY <2>1 DEF MaskInv
  <2> QED
    BY <2>1, <2>2 DEF Origins, ResumeAt, Starting
<1>3. CASE ~Resume(k)
  BY <1>1, <1>3 DEF Moves, Origins, Starting, Dequeue, TakeExitAll, SetTimerAborts
<1> QED
  BY <1>2, <1>3


\* Every step preserves the second part of the invariant.
LEMMA ActEnd ==
  ASSUME MaskInv, EndInv, NEW k \in KThread, Act(k)
  PROVE  EndInv'
<1>1. /\ TypeOK /\ Others(k) /\ Moves(k) /\ Changes(k) /\ Origins(k)
      /\ MainK \in KThread /\ num_kthreads \in Nat /\ num_kthreads >= 1
      /\ quantum \in Nat /\ i \in Nat
  <2>1. TypeOK
    BY DEF MaskInv
  <2>2. i \in Nat
    BY <2>1, Numbers DEF TypeOK
  <2> QED
    BY <2>1, <2>2, ActOthers, ActMoves, ActChanges, ActOrigins, Numbers
<1>2. /\ KThread' = KThread /\ num_kthreads' = num_kthreads /\ quantum' = quantum
      /\ MainK' = MainK
  BY <1>1 DEF Others, MainK
<1>3. \A j \in KThread \ {k} : pc'[j] = pc[j] \/ pc'[j] = "aborted"
  BY <1>1 DEF Others, SetTimerAborts
<1>4. SetTimerAborts(k) => pc[k] \in Starting /\ quantum # 0 /\ quantum >= Second
  BY <1>1, SecondType DEF SetTimerAborts, Starting, CanSetTimer, Interval
<1>5. NoTicks' => timers' = {} /\ \A j \in KThread : ~pending'[j] /\ owed'[j] = NONE
  <2> SUFFICES ASSUME NoTicks
               PROVE  timers' = {} /\ \A j \in KThread : ~pending'[j] /\ owed'[j] = NONE
    BY <1>2, SMT DEF NoTicks, Second
  <2>1. timers = {} /\ \A j \in KThread : ~pending[j] /\ owed[j] = NONE
    BY DEF EndInv
  <2>2. ~Tick(k)
    BY <2>1 DEF Tick
  <2>3. timers' \subseteq timers
    BY <1>1, SecondType DEF Changes, NoTicks
  <2> QED
    BY <1>1, <2>1, <2>2, <2>3 DEF Changes, Others
<1>6. /\ \A j \in KThread : pc'[j] = "init" => j = MainK
      /\ pc'[MainK] # "kthread_main"
  BY <1>1, <1>3 DEF EndInv, Origins, Starting
<1>7. pc'[MainK] \in {"init", "init_end"} =>
        /\ rqueue' = <<>> /\ i' = 0
        /\ \A j \in KThread \ {MainK} : pc'[j] \in {"kthread_main", "sched"}
  <2> SUFFICES ASSUME pc'[MainK] \in {"init", "init_end"}
               PROVE  /\ rqueue' = <<>> /\ i' = 0
                      /\ \A j \in KThread \ {MainK} : pc'[j] \in {"kthread_main", "sched"}
    OBVIOUS
  <2>1. pc[MainK] \in {"init", "init_end"} /\ ~SetTimerAborts(k)
    BY <1>1, <1>3 DEF Origins, Starting, SetTimerAborts
  <2>2. /\ rqueue = <<>> /\ i = 0
        /\ \A j \in KThread \ {MainK} : pc[j] \in {"kthread_main", "sched"}
    BY <2>1 DEF EndInv
  <2>3. rqueue' = <<>> /\ i' = 0
    BY <1>1, <2>1, <2>2 DEF Changes, DeleteTimer, Goto
  <2>4. \A j \in KThread \ {k} : pc'[j] = pc[j]
    BY <1>1, <2>1 DEF Others
  <2>5. k # MainK => pc'[k] \in {"kthread_main", "sched"}
    <3>1. CASE k # MainK /\ pc[k] = "kthread_main"
      BY <1>1, <2>1, <3>1 DEF Origins, Moves, Tick
    <3>2. CASE k # MainK /\ pc[k] = "sched"
      BY <1>1, <2>2, <3>2 DEF Origins
    <3> QED
      BY <2>2, <3>1, <3>2
  <2> QED
    BY <2>2, <2>3, <2>4, <2>5
<1>8. \A x \in timers' : x.owner = MainK =>
         x.id = timer_id'[MainK] /\ pc'[MainK] # "init" /\ i' = 0
  <2> SUFFICES ASSUME NEW x \in timers', x.owner = MainK
               PROVE  x.id = timer_id'[MainK] /\ pc'[MainK] # "init" /\ i' = 0
    OBVIOUS
  <2>1. CASE x \in timers /\ timer_id' = timer_id
    <3>1. x.id = timer_id[MainK] /\ pc[MainK] # "init" /\ i = 0
      BY <2>1 DEF EndInv
    <3>2. pc'[MainK] # "init"
      BY <1>1, <1>3, <3>1 DEF Origins, Starting
    <3>3. ~DeleteTimer(k)
      BY <3>1 DEF DeleteTimer, DeletedTimer, MainK
    <3> QED
      BY <1>1, <2>1, <3>1, <3>2, <3>3 DEF Changes
  <2>2. CASE /\ pc[k] \in Starting /\ pc'[k] \notin Starting
             /\ timers' = timers \cup {[id |-> created, owner |-> k, nsec |-> quantum]}
             /\ timer_id' = [timer_id EXCEPT ![k] = created]
    <3>1. CASE k = MainK
      <4>1. pc[MainK] = "init" /\ i = 0
        BY <2>2, <3>1 DEF Starting, EndInv
      <4>2. x \notin timers
        BY <4>1 DEF EndInv
      <4>3. x.id = created
        BY <2>2, <4>2
      <4>4. timer_id'[MainK] = created
        BY <1>1, <2>2, <3>1 DEF TypeOK
      <4>5. i' = i
        BY <1>1, <2>2 DEF Changes, DeleteTimer, Goto, Starting
      <4> QED
        BY <2>2, <3>1, <4>1, <4>3, <4>4, <4>5 DEF Starting
    <3>2. CASE k # MainK
      <4>1. x \in timers
        BY <2>2, <3>2
      <4>2. x.id = timer_id[MainK] /\ pc[MainK] # "init" /\ i = 0
        BY <4>1 DEF EndInv
      <4>3. timer_id'[MainK] = timer_id[MainK]
        BY <1>1, <3>2 DEF Others
      <4>4. i' = i
        BY <1>1, <2>2 DEF Changes, DeleteTimer, Goto, Starting
      <4> QED
        BY <1>1, <1>3, <3>2, <4>2, <4>3, <4>4
    <3> QED
      BY <3>1, <3>2
  <2> QED
    BY <1>1, <2>1, <2>2 DEF Changes
<1>9. \A h \in KThread : pc'[h] = "delete" =>
        /\ rqueue' = <<>>
        /\ \A j \in KThread \ {h} : pc'[j] \in {"kthread_main", "sched"}
  <2> SUFFICES ASSUME NEW h \in KThread, pc'[h] = "delete"
               PROVE  /\ rqueue' = <<>>
                      /\ \A j \in KThread \ {h} : pc'[j] \in {"kthread_main", "sched"}
    OBVIOUS
  <2>1. ~SetTimerAborts(k)
    BY DEF SetTimerAborts
  <2>2. \A j \in KThread \ {k} : pc'[j] = pc[j]
    BY <1>1, <2>1 DEF Others
  <2>3. CASE h = k /\ Teardown(k)
    BY <2>2, <2>3 DEF Teardown
  <2>4. CASE h = k /\ pc[k] = "delete"
    <3>1. DeleteTimer(k) \/ Tick(k)
      BY <1>1, <2>4 DEF Moves, SetTimerAborts
    <3>2. rqueue' = rqueue
      BY <3>1 DEF DeleteTimer, Tick
    <3> QED
      BY <2>2, <2>4, <3>2 DEF EndInv
  <2>5. CASE h # k
    <3>1. /\ pc[h] = "delete" /\ rqueue = <<>>
          /\ \A j \in KThread \ {h} : pc[j] \in {"kthread_main", "sched"}
      BY <2>2, <2>5 DEF EndInv
    <3>2. pc'[k] \in {"kthread_main", "sched"}
      <4>1. CASE pc[k] = "kthread_main"
        BY <1>1, <2>1, <4>1 DEF Moves
      <4>2. CASE pc[k] = "sched"
        BY <1>1, <3>1, <4>2 DEF Origins
      <4> QED
        BY <2>5, <3>1, <4>1, <4>2
    <3>3. rqueue' = rqueue
      BY <1>1, <2>5, <3>1 DEF Changes
    <3> QED
      BY <2>2, <3>1, <3>2, <3>3
  <2> QED
    BY <1>1, <2>3, <2>4, <2>5 DEF Origins
<1>10. TimersDeleted => TimersDeleted'
  BY <1>1, <1>2 DEF TimersDeleted, Changes, DeleteTimer
<1>11. \A t \in Thread : ctx'[t].at = "torndown" => TimersDeleted'
  <2>1. SignalExit(k) => TimersDeleted
    BY DEF SignalExit, TimersDeleted
  <2> QED
    BY <1>1, <1>10, <2>1 DEF Changes, EndInv
<1>12. \A j \in KThread : pc'[j] \in Ending \ {"delete"} => TimersDeleted'
  <2> SUFFICES ASSUME NEW j \in KThread, pc'[j] \in Ending \ {"delete"}
               PROVE  TimersDeleted
    BY <1>10
  <2>1. CASE pc[j] \in Ending \ {"delete"}
    BY <2>1 DEF EndInv
  <2>2. CASE pc[j] \notin Ending \ {"delete"}
    <3>1. j = k
      BY <1>3, <2>2 DEF Ending
    <3>2. pc'[k] = "torndown" /\ current[k] \in Thread /\ ctx[current[k]].at = "torndown"
      BY <1>1, <2>2, <3>1 DEF Origins, Ending, Free, Goto
    <3> QED
      BY <3>2 DEF EndInv
  <2> QED
    BY <2>1, <2>2
<1>13. i' > 0 /\ pc'[MainK] \in {"resume"} \cup (Ending \ {"delete"})
         => ~pending'[MainK]
  <2> DEFINE Late == {"resume"} \cup (Ending \ {"delete"})
  <2> SUFFICES ASSUME i' > 0, pc'[MainK] \in Late PROVE ~pending'[MainK]
    OBVIOUS
  <2>1. i > 0
    <3> SUFFICES ASSUME i = 0 PROVE FALSE
      BY <1>1
    <3>1. DeleteTimer(k) /\ pc[k] = "delete" /\ pc'[k] = "delete"
      BY <1>1 DEF Changes, DeleteTimer, Goto, TypeOK
    <3>2. pc'[MainK] \in {"delete", "kthread_main", "sched"}
      BY <1>9, <1>1, <3>1
    <3> QED
      BY <3>2 DEF Ending
  <2>2. ~Tick(MainK)
    BY <2>1 DEF Tick, EndInv
  <2>3. CASE pc[MainK] \in Late
    BY <1>1, <2>1, <2>2, <2>3 DEF EndInv, Changes, Others
  <2>4. CASE pc[MainK] \notin Late
    <3>1. k = MainK
      BY <1>1, <1>3, <2>4 DEF Ending
    <3>2. UnblockInSchedule(k)
      BY <1>1, <2>4, <3>1 DEF Origins, Ending, Free, Goto
    <3>3. CASE quantum # 0
      BY <1>1, <3>1, <3>2, <3>3 DEF UnblockInSchedule, UnblockSigrtmin, SetMask,
         TypeOK
    <3>4. CASE quantum = 0
      BY <1>1, <1>2, <1>5, <3>4 DEF NoTicks
    <3> QED
      BY <3>3, <3>4
  <2> QED
    BY <2>3, <2>4
<1>14. \A j \in KThread : pc'[j] \in {"unblock_last", "clear_inited", "done"} => freed'
  <2>1. freed => freed'
    BY <1>1 DEF Changes, Free
  <2>2. Free(k) => freed'
    BY DEF Free
  <2> QED
    BY <1>1, <1>3, <2>1, <2>2 DEF EndInv, Origins
<1>15. freed' => /\ \A j \in KThread \ {MainK} : pc'[j] = "exited"
                 /\ pc'[MainK] \in {"unblock_last", "clear_inited", "done"}
  <2>1. CASE freed
    <3>1. /\ \A j \in KThread \ {MainK} : pc[j] = "exited"
          /\ pc[MainK] \in {"unblock_last", "clear_inited", "done"}
      BY <2>1 DEF EndInv
    <3>2. ~SetTimerAborts(k)
      BY <1>1, <1>4, <3>1 DEF Starting
    <3> QED
      BY <1>1, <3>1, <3>2 DEF Others, Origins
  <2>2. CASE Free(k)
    <3>1. /\ pc[k] = "torndown" /\ \A j \in KThread \ {MainK} : pc[j] = "exited"
          /\ pc'[k] = "unblock_last"
      BY <1>1, <2>2 DEF Free, Goto, TypeOK
    <3>2. k = MainK /\ ~SetTimerAborts(k)
      BY <1>4, <3>1 DEF Starting
    <3> QED
      BY <1>1, <3>1, <3>2 DEF Others
  <2> QED
    BY <1>1, <2>1, <2>2 DEF Changes
<1>16. ~inited' => freed' /\ pc'[MainK] = "done"
  <2>1. CASE ~inited
    <3>1. freed /\ pc[MainK] = "done"
      BY <2>1 DEF EndInv
    <3>2. ~SetTimerAborts(k)
      BY <1>1, <1>4, <3>1 DEF Starting, EndInv
    <3>3. freed'
      BY <1>1, <3>1 DEF Changes, Free
    <3> QED
      BY <1>1, <3>1, <3>2, <3>3 DEF Others, Origins
  <2>2. CASE ClearInited(k)
    <3>1. pc[k] = "clear_inited" /\ pc'[k] = "done" /\ freed' = freed
      BY <1>1, <2>2 DEF ClearInited, Goto, TypeOK
    <3>2. freed /\ k = MainK
      BY <1>1, <3>1 DEF EndInv
    <3> QED
      BY <3>1, <3>2
  <2> QED
    BY <1>1, <2>1, <2>2 DEF Changes
<1> QED
  BY <1>2, <1>5, <1>6, <1>7, <1>8, <1>9, <1>11, <1>12, <1>13, <1>14, <1>15, <1>16
  DEF EndInv


-----------------------------------------------------------------------------
(* Ticks that are owed.                                                    *)

\* What OwedInv says of one kernel thread.
OwedAt(k) ==
  /\ owed[k] # NONE => pc[k] \in InCall \cup {"user", "delete"}
  /\ owed[k] = 0 => pending[k] \/ preempted[k]
                      \/ pc[k] \in {"check_yield", "yield", "delete"}
  /\ owed[k] # NONE /\ owed[k] # 0 =>
        /\ owed[k] = 1
        /\ \/ pc[k] \in {"check_yield", "yield", "delete"}
           \/ pc[k] \in {"user", "check", "check_first"} /\ preempted[k]

\* Every step preserves the third part of the invariant: a tick passes from
\* pending to the flag, and from the flag to a yield.
LEMMA ActOwed ==
  ASSUME MaskInv, EndInv, OwedInv, NEW k \in KThread, Act(k)
  PROVE  OwedInv'
<1>1. /\ TypeOK /\ Others(k) /\ Moves(k) /\ Changes(k) /\ NONE \notin Nat
      /\ quantum \in Nat
  BY ActOthers, ActMoves, ActChanges, Numbers DEF MaskInv
<1>2. /\ owed \in [KThread -> 0 .. OwedCap \cup {NONE}]
      /\ pending \in [KThread -> BOOLEAN] /\ preempted \in [KThread -> BOOLEAN]
      /\ mask \in [KThread -> BOOLEAN]
      /\ KThread' = KThread
  BY <1>1 DEF TypeOK, Others
<1>3. OwedAt(k)
  BY DEF OwedInv, OwedAt
<1>4. owed[k] # NONE => quantum # 0
  BY DEF EndInv, NoTicks
<1>5. pc[k] \in InCall \cup {"user"} => inited
  BY <1>1, Numbers DEF EndInv, InCall
<1>6. OwedAt(k)'
  <2>1. CASE Tick(k)
    <3>1. /\ pc'[k] = pc[k]
          /\ pending'[k] = (pending[k] \/ mask[k])
          /\ preempted'[k] = (preempted[k] \/ (~mask[k] /\ inited))
          /\ owed'[k] = IF OnUserStack(k) /\ owed[k] = NONE THEN 0 ELSE owed[k]
      BY <1>2, <2>1 DEF Tick
    <3>2. CASE OnUserStack(k) /\ owed[k] = NONE
      BY <1>1, <1>2, <1>5, <3>1, <3>2 DEF OnUserStack, OwedAt, InCall
    <3>3. CASE ~(OnUserStack(k) /\ owed[k] = NONE)
      BY <1>2, <1>3, <3>1, <3>3 DEF OwedAt
    <3> QED
      BY <3>2, <3>3
  <2>2. CASE Leave(k)
    <3>1. /\ pc[k] = "leave" /\ pc'[k] = "user"
          /\ owed'[k] = IF owed[k] = NONE THEN NONE
                        ELSE IF owed[k] < OwedCap THEN owed[k] + 1 ELSE owed[k]
      BY <1>1, <1>2, <2>2 DEF Leave, Goto, TypeOK
    <3>2. preempted'[k] = (preempted[k] \/ (pending[k] /\ ~(mask[k] /\ quantum = 0)
                                              /\ inited))
      BY <1>2, <2>2 DEF Leave, UnblockSigrtmin, SetMask
    <3>3. CASE owed[k] = NONE
      BY <1>1, <3>1, <3>3 DEF OwedAt
    <3>4. CASE owed[k] # NONE
      <4>1. owed[k] = 0 /\ (pending[k] \/ preempted[k])
        BY <1>3, <3>1, <3>4 DEF OwedAt
      <4>2. quantum # 0 /\ inited
        BY <1>4, <1>5, <3>1, <3>4 DEF InCall
      <4>3. preempted'[k]
        BY <3>2, <4>1, <4>2
      <4>4. owed'[k] = 1
        <5>1. 0 < OwedCap /\ 0 + 1 = 1
          BY DEF OwedCap
        <5> QED
          BY <3>1, <3>4, <4>1, <5>1
      <4> QED
        BY <1>1, <3>1, <4>3, <4>4 DEF OwedAt
    <3> QED
      BY <3>3, <3>4
  <2>3. CASE CheckPreempted(k)
    <3>1. /\ pc'[k] = IF FlagSet(k) THEN "check_yield" ELSE "body"
          /\ pc[k] \in {"check", "check_first"}
          /\ preempted'[k] = (preempted[k] /\ ~FlagSet(k))
          /\ pending'[k] = pending[k] /\ owed'[k] = owed[k]
      BY <1>1, <1>2, <2>3 DEF CheckPreempted, Goto, TypeOK
    <3>2. owed[k] # NONE /\ preempted[k] => FlagSet(k)
      BY <1>4 DEF FlagSet
    <3> QED
      BY <1>2, <1>3, <3>1, <3>2 DEF OwedAt, InCall
  <2>4. CASE Yield(k) \/ Blocks(k) \/ Exits(k) \/ SignalExit(k)
    <3>1. owed'[k] = NONE
      BY <1>2, <2>4 DEF Yield, Blocks, Exits, SignalExit, SwapContext
    <3> QED
      BY <1>1, <3>1 DEF OwedAt
  <2>5. CASE \/ Enter(k) \/ EnterSemDestroy(k) \/ Returns(k) \/ Reblock(k)
             \/ Teardown(k) \/ DeleteTimer(k)
    <3>1. /\ owed' = owed /\ pending' = pending /\ preempted' = preempted
          /\ \/ pc[k] = "user" /\ pc'[k] \in {"check", "yield", "check_first", "delete"}
             \/ pc[k] = "body" /\ pc'[k] = "leave"
             \/ pc[k] = "reblock" /\ pc'[k] = "body"
             \/ pc[k] = "delete" /\ pc'[k] = "delete"
      BY <1>1, <2>5 DEF Enter, EnterSemDestroy, Returns, Reblock, Teardown,
         DeleteTimer, Goto, kinfoVars, TypeOK
    <3> QED
      BY <1>3, <3>1 DEF OwedAt, InCall
  <2>6. CASE SetTimerAborts(k)
    <3>1. quantum >= Second
      BY <1>1, <2>6, SecondType DEF SetTimerAborts, CanSetTimer, Interval
    <3>2. owed'[k] = NONE
      BY <2>6, <3>1 DEF SetTimerAborts, EndInv, NoTicks
    <3> QED
      BY <1>1, <3>2 DEF OwedAt
  <2>7. CASE owed[k] = NONE /\ ~Tick(k)
    <3>1. owed'[k] = NONE
      BY <1>1, <2>7 DEF Changes
    <3> QED
      BY <1>1, <3>1 DEF OwedAt
  <2>8. CASE pc[k] \notin InCall \cup {"user", "delete"}
    BY <1>3, <2>1, <2>7, <2>8 DEF OwedAt
  <2>9. \/ Tick(k) \/ Leave(k) \/ CheckPreempted(k) \/ Yield(k) \/ Blocks(k)
        \/ Exits(k) \/ SignalExit(k) \/ Enter(k) \/ EnterSemDestroy(k)
        \/ Returns(k) \/ Reblock(k) \/ Teardown(k) \/ DeleteTimer(k)
        \/ SetTimerAborts(k) \/ pc[k] \notin InCall \cup {"user", "delete"}
    BY <1>1 DEF Moves, InCall
  <2> QED
    BY <2>1, <2>2, <2>3, <2>4, <2>5, <2>6, <2>8, <2>9
<1>7. ASSUME NEW j \in KThread \ {k} PROVE OwedAt(j)'
  <2>1. OwedAt(j)
    BY DEF OwedInv, OwedAt
  <2>2. CASE SetTimerAborts(k)
    <3>1. quantum >= Second
      BY <1>1, <2>2, SecondType DEF SetTimerAborts, CanSetTimer, Interval
    <3>2. owed'[j] = NONE
      BY <2>2, <3>1 DEF SetTimerAborts, EndInv, NoTicks
    <3> QED
      BY <1>1, <3>2 DEF OwedAt
  <2>3. CASE ~SetTimerAborts(k)
    BY <1>1, <2>1, <2>3 DEF Others, OwedAt
  <2> QED
    BY <2>2, <2>3
<1> QED
  BY <1>2, <1>6, <1>7 DEF OwedInv, OwedAt

-----------------------------------------------------------------------------
(* The theorems.                                                           *)

\* uthread_init leaves a state that satisfies the invariant.
LEMMA InitPre == Init => PreInv
<1> SUFFICES ASSUME Init PROVE PreInv
  OBVIOUS
<1>1. /\ num_kthreads \in Nat /\ num_kthreads >= 1 /\ MAIN \in Thread
      /\ NONE \notin Nat /\ Thread \subseteq Nat /\ MainK \in KThread
      /\ KThread = 0 .. num_kthreads - 1
  BY PreemptAssumption DEF Init, MAIN, Thread, MainK, KThread
<1>2. TypeOK
  <2>1. 0 \in 0 .. num_kthreads - 1 /\ 0 \in 0 .. num_kthreads
    BY <1>1
  <2>2. /\ quantum \in Quanta /\ num_kthreads \in 1 .. MaxK
        /\ inited \in BOOLEAN /\ freed \in BOOLEAN
    BY DEF Init
  <2>3. /\ timer_id \in [KThread -> 0 .. num_kthreads - 1]
        /\ created \in 0 .. num_kthreads
        /\ exitall_sem \in 0 .. num_kthreads - 1 /\ i \in 0 .. num_kthreads
    BY <2>1 DEF Init
  <2>4. preempted \in [KThread -> BOOLEAN] /\ pending \in [KThread -> BOOLEAN]
    BY DEF Init
  <2>5. mask \in [KThread -> BOOLEAN]
    BY Zenon DEF Init
  <2>6. current \in [KThread -> Thread \cup {NONE}]
    BY <1>1 DEF Init
  <2>7. owed \in [KThread -> 0 .. OwedCap \cup {NONE}]
    BY DEF Init
  <2>8. /\ timers \subseteq [id : 0 .. num_kthreads - 1, owner : KThread,
                              nsec : 1 .. Second - 1]
        /\ waiting \in SUBSET Thread /\ unborn \in SUBSET Thread
        /\ DOMAIN ctx = Thread /\ DOMAIN pc = KThread
    BY DEF Init
  <2>9. rqueue \in Seq(Thread \cup {ExitAll})
    BY DEF Init
  <2> QED
    BY <2>2, <2>3, <2>4, <2>5, <2>6, <2>7, <2>8, <2>9 DEF TypeOK
<1>3. /\ \A k \in KThread : pc[k] \in Pc /\ HasThread(k)
      /\ ctx \in [Thread -> [at : ResumeAt, mask : BOOLEAN]]
      /\ \A t \in Thread : ctx[t].mask /\ ctx[t].at = "user"
      /\ SignalHeldOff
  BY <1>1 DEF Init, Pc, Starting, HasThread, ResumeAt, SignalHeldOff
<1>4. created <= Cardinality(Started) /\ exitall_sem <= Cardinality(Exited)
  <2>1. /\ IsFiniteSet(KThread) /\ IsFiniteSet(KThread \ {MainK})
        /\ Started \subseteq KThread /\ Exited \subseteq KThread \ {MainK}
    BY <1>2, KThreadCount DEF Started, Exited
  <2>2. Cardinality(Started) \in Nat /\ Cardinality(Exited) \in Nat
    BY <2>1, FS_Subset, FS_CardinalityType
  <2> QED
    BY <2>2 DEF Init
<1>5. MaskInv
  BY <1>2, <1>3, <1>4 DEF MaskInv
<1>6. EndInv
  BY <1>1, <1>3 DEF Init, EndInv, Ending
<1>7. OwedInv
  <2>1. \A k \in KThread : owed[k] = NONE /\ owed[k] # 0
    BY <1>1 DEF Init
  <2> QED
    BY <2>1 DEF OwedInv
<1> QED
  BY <1>5, <1>6, <1>7 DEF PreInv

\* Masks, timers, pending signals and flags agree in every reachable state.
THEOREM PreemptInvariant == Spec => []PreInv
<1>1. PreInv /\ [Next]_vars => PreInv'
  <2> SUFFICES ASSUME PreInv, [Next]_vars PROVE PreInv'
    OBVIOUS
  <2>1. ASSUME NEW k \in KThread, Act(k) PROVE PreInv'
    BY <2>1, ActMask, ActEnd, ActOwed DEF PreInv
  <2>2. CASE Next
    <3>1. MainK \in KThread
      BY Numbers DEF PreInv, MaskInv
    <3>2. \E k \in KThread : Act(k)
      BY <2>2, <3>1 DEF Next, Act
    <3> QED
      BY <2>1, <3>2
  <2>3. CASE UNCHANGED vars
    <3>1. /\ UNCHANGED <<quantum, num_kthreads, inited, freed, timer_id, preempted,
                         current, timers, created, mask, pending, ctx, rqueue,
                         waiting, unborn, exitall_sem, i, pc, owed>>
          /\ KThread' = KThread
      BY <2>3 DEF vars, KThread
    <3>2. MaskInv'
      <4>1. TypeOK' /\ SignalHeldOff'
        BY <3>1 DEF PreInv, MaskInv, TypeOK, SignalHeldOff
      <4>2. Started' = Started /\ Exited' = Exited
        BY <3>1 DEF Started, Exited
      <4> QED
        BY <3>1, <4>1, <4>2 DEF PreInv, MaskInv, HasThread
    <3>3. EndInv'
      <4>1. NoTicks' <=> NoTicks
        BY <3>1, SMT DEF NoTicks, Second
      <4>2. TimersDeleted' <=> TimersDeleted
        BY <3>1 DEF TimersDeleted
      <4> QED
        BY <3>1, <4>1, <4>2 DEF PreInv, EndInv
    <3>4. OwedInv'
      BY <3>1 DEF PreInv, OwedInv
    <3> QED
      BY <3>2, <3>3, <3>4 DEF PreInv
  <2> QED
    BY <2>2, <2>3
<1> QED
  BY <1>1, InitPre, PTL DEF Spec

\* The variables have their types: no more timers than kernel threads are
\* created, and no more exits are counted than kthread_sem_wait waits for.
THEOREM TypeCorrect == Spec => []TypeOK
<1>1. PreInv => TypeOK
  BY DEF PreInv, MaskInv
<1> QED
  BY <1>1, PreemptInvariant, PTL

\* With preemption, SIGRTMIN is blocked in the scheduler and in the body of
\* every call, whichever kernel thread the rest of the call runs on.
THEOREM SignalsHeldOff == Spec => []SignalHeldOff
<1>1. PreInv => SignalHeldOff
  BY DEF PreInv, MaskInv
<1> QED
  BY <1>1, PreemptInvariant, PTL

\* When uthread_teardown unblocks SIGRTMIN after kthread_info is freed, no
\* kernel thread that is left has a signal pending or a timer to raise one.
THEOREM HandlerIsSafe == Spec => []HandlerSafe
<1>1. PreInv => HandlerSafe
  <2> SUFFICES ASSUME PreInv, freed, NEW k \in KThread, pc[k] # "exited"
               PROVE  ~pending[k] /\ \A x \in timers : x.owner # k
    BY DEF HandlerSafe
  <2>1. TypeOK /\ EndInv
    BY DEF PreInv, MaskInv
  <2>2. k = MainK /\ pc[MainK] \in {"unblock_last", "clear_inited", "done"}
    BY <2>1 DEF EndInv
  <2>3. TimersDeleted
    BY <2>1, <2>2 DEF EndInv, Ending
  <2>4. CASE quantum = 0
    BY <2>1, <2>4 DEF EndInv, NoTicks
  <2>5. CASE quantum # 0
    <3>1. i > 0
      BY <2>1, <2>3, <2>5, Numbers DEF TimersDeleted
    <3> QED
      BY <2>1, <2>2, <3>1 DEF EndInv, Ending
  <2> QED
    BY <2>4, <2>5
<1> QED
  BY <1>1, PreemptInvariant, PTL

\* A thread for which a tick has come completes at most one more library
\* call before it yields its kernel thread, whatever the mask was.
THEOREM PreemptsPromptly == Spec => []PromptPreemption
<1>1. PreInv => PromptPreemption
  BY DEF PreInv, OwedInv, PromptPreemption
<1> QED
  BY <1>1, PreemptInvariant, PTL
=============================================================================
