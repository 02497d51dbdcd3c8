---------------------------- MODULE TestPrograms ----------------------------
(***************************************************************************)
(* The single-kernel-thread tests of the repository (test-*.c, test.h), run *)
(* on the library of module Uthread.  A test is a record of functions, each *)
(* the sequence of the calls it makes; a thread's function ends with the   *)
(* uthread_exit of the trampoline, and main with VERIFY.  CHECKPOINT(n)    *)
(* expects to be the nth to be reached, so that a test states the order in *)
(* which the scheduler runs its threads.                                   *)
(*                                                                         *)
(* Some tests allow uthread_create to run the child or the parent first,   *)
(* and find out which with parent_first; what they do when it is not 0 is  *)
(* marked so.  Return values and stacks are left out.                      *)
(***************************************************************************)
EXTENDS Uthread

VARIABLES test,          \* the test that runs
          func,          \* func[t]: the function of thread t
          ip,            \* ip[t]: its next call
          tid_of,        \* tid_of[f]: what THREAD(f) returned last
          parent_first,  \* -1, 0 or 1
          test_counter,  \* _test_counter
          test_nope      \* _test_nope # 0

testVars == <<test, func, ip, tid_of, parent_first, test_counter, test_nope>>
allVars  == <<vars, testVars>>

Functions == {"main", "thread", "thread2", "thread3", "thread4"}

\* The calls; an operand that is not needed is 0.
Instr(o, a, b)   == [op |-> o, a |-> a, b |-> b]
Chk(n)           == Instr("checkpoint", n, n)
ChkIf(m, n)      == Instr("checkpoint", m, n)  \* parent_first ? m : n
SetFirst(n)      == Instr("set_first", n, 0)   \* if < 0, becomes n
YieldFirst       == Instr("yield_first", 0, 0) \* if parent_first
Yld              == Instr("yield", 0, 0)
Thr(f)           == Instr("create", f, 0)
Self             == Instr("self", 0, 0)
Join(f)          == Instr("join", f, 0)
Ret              == Instr("exit", 0, 0)
Ini(s, v)        == Instr("sem_init", s, v)
P(s)             == Instr("sem_wait", s, 0)
V(s)             == Instr("sem_post", s, 0)
Del(s)           == Instr("sem_destroy", s, 0)
VERIFY(n)        == Instr("verify", n, 0)

TestCreate ==
  [main    |-> <<Chk(0), Thr("thread"), SetFirst(1), YieldFirst, Yld, VERIFY(5)>>,
   thread  |-> <<SetFirst(0), Chk(1), Thr("thread2"), YieldFirst, Chk(4), Ret>>,
   thread2 |-> <<Chk(2), Chk(3), Ret>>]

TestExit ==
  [main    |-> <<Chk(0), Thr("thread"), Chk(1), Yld, Chk(4), Yld, Chk(6), Yld,
                 Chk(7), Yld, Chk(8), Yld, VERIFY(9)>>,
   thread  |-> <<Chk(2), Thr("thread2"), Chk(3), Ret>>,
   thread2 |-> <<Chk(5), Ret>>]

TestFcfs ==
  [main    |-> <<Chk(0), Thr("thread"), SetFirst(1), YieldFirst, YieldFirst,
                 Chk(3), Thr("thread2"), YieldFirst, YieldFirst, VERIFY(6)>>,
   thread  |-> <<Chk(1), Thr("thread3"), YieldFirst, YieldFirst, YieldFirst,
                 Chk(5), Ret>>,
   thread2 |-> <<Chk(4), Ret>>,
   thread3 |-> <<Chk(2), Ret>>]

TestJoin ==
  [main    |-> <<Chk(0), Thr("thread"), Yld, Chk(2), Join("thread"), Chk(5), Yld,
                 Chk(6), Thr("thread2"), Yld, Chk(8), Yld, Chk(10),
                 Join("thread2"), Thr("thread3"), Yld, Join("thread3"), Chk(12),
                 Thr("thread4"), Join("thread4"), VERIFY(14)>>,
   thread  |-> <<Chk(1), Yld, Chk(3), Yld, Chk(4), Yld, Ret>>,
   thread2 |-> <<Chk(7), Yld, Chk(9), Ret>>,
   thread3 |-> <<Chk(11), Ret>>,
   thread4 |-> <<Chk(13), Ret>>]

TestSelf ==
  [main    |-> <<Self, Chk(0), Thr("thread"), SetFirst(1), YieldFirst, Self, Yld,
                 VERIFY(5)>>,
   thread  |-> <<SetFirst(0), Self, Chk(1), Thr("thread2"), YieldFirst, Self,
                 Chk(4), Ret>>,
   thread2 |-> <<Chk(2), Self, Chk(3), Ret>>]

\* With two semaphores beside the one that is made again each time.
TestSem ==
  [main |-> <<Chk(0), Ini("spare", 0), V("spare"), Ini("sem", 0), V("sem"),
              P("spare"), Del("spare"), Ini("spare", 0), V("spare"),
              Ini("sem1", 1), V("sem1"), P("spare"), Del("spare"),
              P("sem"), Del("sem"), P("sem1"), P("sem1"), Del("sem1"), VERIFY(1)>>]

TestSem2 ==
  [main   |-> <<Ini("sem", 0), Chk(0), Thr("thread"), Chk(1), P("sem"), Chk(4),
                P("sem"), Chk(8), Join("thread"), Del("sem"), VERIFY(10)>>,
   thread |-> <<Chk(2), V("sem"), Chk(3), Yld, Chk(5), Yld, Chk(6), V("sem"),
                Chk(7), Yld, Chk(9), Ret>>]

TestSem3 ==
  [main   |-> <<Ini("sem", 1), Chk(0), Thr("thread"), Chk(1), Yld, P("sem"),
                Chk(5), P("sem"), Chk(9), Join("thread"), Del("sem"), VERIFY(11)>>,
   thread |-> <<Chk(2), P("sem"), Chk(3), V("sem"), Chk(4), Yld, Chk(6), Yld,
                Chk(7), V("sem"), Chk(8), Yld, Chk(10), Ret>>]

TestYield ==
  [main    |-> <<Chk(0), Thr("thread"), SetFirst(1), YieldFirst, Chk(3), Yld,
                 Chk(6), Yld, ChkIf(9, 8), Yld, Chk(10), Yld, VERIFY(11)>>,
   thread  |-> <<SetFirst(0), Chk(1), Thr("thread2"), ChkIf(2, 4), Yld,
                 ChkIf(5, 7), Yld, ChkIf(8, 9), Yld, Ret>>,
   thread2 |-> <<ChkIf(4, 2), Yld, ChkIf(7, 5), Ret>>]

TestYield2 ==
  [main    |-> <<Chk(0), Thr("thread"), Chk(1), Yld, Chk(4), Yld, Chk(7), Yld,
                 Chk(10), Yld, VERIFY(11)>>,
   thread  |-> <<Chk(2), Thr("thread2"), Chk(3), Yld, Chk(6), Yld, Chk(9), Yld,
                 Ret>>,
   thread2 |-> <<Chk(5), Yld, Chk(8), Ret>>]

Tests == {TestCreate, TestExit, TestFcfs, TestJoin, TestSelf, TestSem, TestSem2,
          TestSem3, TestYield, TestYield2}

TestInit ==
  /\ Init
  /\ test \in Tests
  /\ func = [t \in Tid |-> "main"]
  /\ ip = [t \in Tid |-> 1]
  /\ tid_of = [f \in Functions |-> MAIN]
  /\ parent_first = 0 - 1
  /\ test_counter = 0 /\ test_nope = FALSE

-----------------------------------------------------------------------------
(* A call by the user thread on k.                                         *)

Now(k)     == test[func[current_tid[k]]][ip[current_tid[k]]]
Op(k, o)   == InUser(k) /\ Now(k).op = o
Advance(k) == ip' = [ip EXCEPT ![current_tid[k]] = @ + 1]

\* A statement of the test's own, which calls nothing of the library.
Own(k) == Advance(k) /\ UNCHANGED <<vars, test, func, tid_of>>

CHECKPOINT(k) ==
  /\ Op(k, "checkpoint") /\ Own(k)
  /\ LET n == IF parent_first # 0 THEN Now(k).a ELSE Now(k).b
     IN  test_nope' = (test_nope \/ test_counter # n)
  /\ test_counter' = test_counter + 1
  /\ UNCHANGED parent_first

\* ASSERTs that uthread_self() is what THREAD returned for this function.
CheckSelf(k) ==
  /\ Op(k, "self") /\ Own(k)
  /\ test_nope' = (test_nope \/ current_tid[k] # tid_of[func[current_tid[k]]])
  /\ UNCHANGED <<parent_first, test_counter>>

AssignFirst(k) ==
  /\ Op(k, "set_first") /\ Own(k)
  /\ parent_first' = IF parent_first < 0 THEN Now(k).a ELSE parent_first
  /\ UNCHANGED <<test_counter, test_nope>>

\* THREAD(f)
Thread(k) ==
  /\ Op(k, "create") /\ CreateTid(k)
  /\ func' = [func EXCEPT ![NextTid] = Now(k).a]
  /\ ip' = [ip EXCEPT ![NextTid] = 1, ![current_tid[k]] = @ + 1]
  /\ tid_of' = [tid_of EXCEPT ![Now(k).a] = NextTid]
  /\ UNCHANGED <<test, parent_first, test_counter, test_nope>>

\* The other calls of the library.
Library(k) ==
  \/ Op(k, "yield") /\ Yield(k)
  \/ Op(k, "yield_first") /\ IF parent_first # 0 THEN Yield(k) ELSE UNCHANGED vars
  \/ Op(k, "exit") /\ Exit(k)
  \/ Op(k, "join") /\ LET t == tid_of[Now(k).a]
                      IN  JoinBlocks(k, t) \/ JoinFinished(k, t)
  \/ Op(k, "sem_init") /\ SemInit(k, Now(k).a, Now(k).b)
  \/ Op(k, "sem_wait") /\ SemWait(k, Now(k).a)
  \/ Op(k, "sem_post") /\ (SemPost(k, Now(k).a) \/ SemPostWakes(k, Now(k).a))
  \/ Op(k, "sem_destroy") /\ SemDestroy(k, Now(k).a)

CallLibrary(k) ==
  /\ Library(k) /\ Advance(k)
  /\ UNCHANGED <<test, func, tid_of, parent_first, test_counter, test_nope>>

\* VERIFY(n): uthread_teardown(), then the count is compared, which nobody
\* can change any more.
Verify(k) ==
  /\ Op(k, "verify") /\ Teardown(k) /\ Advance(k)
  /\ test_nope' = (test_nope \/ test_counter # Now(k).a)
  /\ UNCHANGED <<test, func, tid_of, parent_first, test_counter>>

-----------------------------------------------------------------------------

TestStep(k) == \/ CHECKPOINT(k) \/ CheckSelf(k) \/ AssignFirst(k) \/ Thread(k)
               \/ CallLibrary(k) \/ Verify(k)
               \/ (InCall(k) \/ Schedule(k)) /\ UNCHANGED testVars

TestNext == \E k \in KThread : TestStep(k)

\* The operating system runs the kernel thread.
TestSpec == TestInit /\ [][TestNext]_allVars
                     /\ \A k \in KThread : WF_allVars(TestStep(k))

-----------------------------------------------------------------------------
(* Properties.                                                             *)

\* Every test gets to "success!": no CHECKPOINT, ASSERT or VERIFY says
\* "nope", so that the threads run in the order, and as often, as the tests
\* expect of the scheduler, and main is not left waiting.
TestSuccess == <>[](pc[MainK] = "done" /\ ~test_nope)
=============================================================================
