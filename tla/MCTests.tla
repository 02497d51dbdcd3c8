------------------------------- MODULE MCTests ------------------------------
(***************************************************************************)
(* The repository's tests for TLC: the program of ProducerConsumer, and    *)
(* the ten of TestPrograms on one kernel thread, as their INIT(1, 0) asks. *)
(* A behaviour runs one of them.                                           *)
(***************************************************************************)
EXTENDS ProducerConsumer

CONSTANTS k1, p1, p2, p3, c1, c2, KThread, MainK, MaxThreads, Parents, Quota, Sem,
          MaxCount, MallocFails, NULL, ExitAll

VARIABLES bitvec, tcbs, state, join_queue, ctx, tcbs_lock, rqueue, sem_inited,
          u_counter, sem_lock, sem_queue, exitall_sem, u_pc, current_tid, task,
          u_queue, arg, tcb, joining, fault,
          test, func, ip, tid_of, parent_first, test_counter,
          test_nope,  \* of TestPrograms
          many        \* whether the test is test-m2m-pc

T == INSTANCE TestPrograms WITH counter <- u_counter, pc <- u_pc, queue <- u_queue

testVars  == <<bitvec, tcbs, state, join_queue, ctx, tcbs_lock, rqueue, sem_inited,
               u_counter, sem_lock, sem_queue, exitall_sem, u_pc, current_tid, task,
               u_queue, arg, tcb, joining, fault, test, func, ip, tid_of,
               parent_first, test_counter, test_nope>>
testsVars == <<vars, testVars, many>>

TestsInit == /\ Init /\ T!TestInit /\ many \in BOOLEAN
             /\ many => test = T!TestCreate  \* which then does not run

One(k)    == ~many /\ T!TestStep(k) /\ UNCHANGED <<vars, many>>
Many(t)   == many /\ Step(t) /\ UNCHANGED <<testVars, many>>
ManyEnds  == many /\ Verify /\ UNCHANGED <<testVars, many>>

TestsNext == (\E k \in KThread : One(k)) \/ (\E t \in Thread : Many(t)) \/ ManyEnds

\* The operating system runs every kernel thread, and the library every
\* user thread that can go on (FairSpec of ProducerConsumer).
TestsSpec == /\ TestsInit /\ [][TestsNext]_testsVars
             /\ \A k \in KThread : WF_testsVars(One(k))
             /\ \A t \in Thread : WF_testsVars(Many(t))
             /\ WF_testsVars(ManyEnds)

-----------------------------------------------------------------------------

\* Every test comes to its end.  The ten on one kernel thread get to
\* "success!": each CHECKPOINT in its order, each VERIFY with its count.
\* test-m2m-pc, with one consumer fewer than producers as in its source, comes
\* to VERIFY(DONE) with at most one item missing.
TestsEnd == (~many => T!TestSuccess) /\ (many => Ends)
=============================================================================
