------------------------------ MODULE Startup -------------------------------
(***************************************************************************)
(* How uthread_init starts the kernel threads and uthread_teardown collects *)
(* them: kthread_create with the handshake of its trampoline, the table of *)
(* kernel threads of kthread.c, the barrier inited_sem, and kthread_join.  *)
(*                                                                         *)
(* Kernel thread 0 is the caller of uthread_init.  Thread i is the one     *)
(* made for kthread_info[i], and its number stands for its kernel tid.     *)
(* What the threads do in between is module Uthread; here a worker that    *)
(* has reached schedule() ends once teardown has begun.                    *)
(***************************************************************************)
EXTENDS Naturals, FiniteSetsExt

CONSTANTS MaxKthreads,   \* MAX_KTHREADS: the size of the table
          Requests,      \* what uthread_init may be asked for
          PthreadFails,  \* whether pthread_create may fail
          NONE

ASSUME StartupAssumption == /\ MaxKthreads \in Nat \ {0}
                            /\ Requests \subseteq Nat \ {0}
                            /\ \E m \in Requests : \A r \in Requests : r <= m
                            /\ PthreadFails \in BOOLEAN
                            /\ NONE \notin Nat

KNumber == 0 .. Max(Requests) - 1
Worker  == KNumber \ {0}
Slot    == 1 .. MaxKthreads

VARIABLES num_kthreads,  \* the argument of uthread_init
          kthreads,      \* the table: a kernel tid, or NONE (0 in the code)
          info,          \* kthread_info[i]->ktid, NONE for -1; no entries
                         \* once it is freed
          inited,        \* inited of uthread.c
          inited_sem,    \* its value
          args,          \* the trampoline_args on the creator's stack: the
                         \* thread they are for, the semaphore, the error
          i,             \* the loop counter of the main kernel thread
          entry,         \* local of kthread_join: the slot it found
          at             \* where the main kernel thread (0) and worker w are

startVars ==
  <<num_kthreads, kthreads, info, inited, inited_sem, args, i, entry, at>>

NoArgs == [for |-> NONE, sem |-> 0, error |-> FALSE]

\* uthread_init has filled kthread_info.
StartInit ==
  /\ num_kthreads \in Requests
  /\ kthreads = [s \in Slot |-> NONE]
  /\ info = [k \in KNumber |-> IF k = 0 THEN 0 ELSE NONE]
  /\ inited = FALSE
  /\ inited_sem = 0
  /\ args = NoArgs
  /\ i = 1
  /\ entry = NONE
  /\ at = [k \in KNumber |-> IF k = 0 THEN "create" ELSE "unborn"]

Move(k, from, to) == at[k] = from /\ at' = [at EXCEPT ![k] = to]

\* tidmap_find_tid: the first slot that holds t; NONE if there is no such.
SlotsOf(t) == {s \in Slot : kthreads[s] = t}
FindTid(t) == IF SlotsOf(t) = {} THEN NONE ELSE Min(SlotsOf(t))

\* tidmap_add_self, under kthreads_lock; a full table is left alone.
AddSelf(k) == kthreads' = IF FindTid(NONE) = NONE THEN kthreads
                          ELSE [kthreads EXCEPT ![FindTid(NONE)] = k]

\* The assertion of get_kthread_info.
InfoFor(k) == \E j \in DOMAIN info : info[j] = k

-----------------------------------------------------------------------------
(* uthread_init on the main kernel thread.                                 *)

\* The first kthread_create adds its caller to the table.
AddMain ==
  /\ Move(0, "create", "create")
  /\ i < num_kthreads /\ SlotsOf(0) = {}
  /\ AddSelf(0)
  /\ UNCHANGED <<num_kthreads, info, inited, inited_sem, args, i, entry>>

\* kthread_create prepares args and starts the pthread ...
Spawn ==
  /\ at[0] = "create"
  /\ i < num_kthreads /\ SlotsOf(0) # {}
  /\ args' = [NoArgs EXCEPT !.for = i]
  /\ at' = [at EXCEPT ![0] = "handshake", ![i] = "trampoline"]
  /\ UNCHANGED <<num_kthreads, kthreads, info, inited, inited_sem, i, entry>>

\* ... which fails: uthread_init aborts.
SpawnFails ==
  /\ PthreadFails
  /\ Move(0, "create", "aborted")
  /\ i < num_kthreads /\ SlotsOf(0) # {}
  /\ UNCHANGED <<num_kthreads, kthreads, info, inited, inited_sem, args, i, entry>>

\* sem_wait(&args.sem); args dies when kthread_create returns, and
\* uthread_init aborts when it returns an error.
ThreadNotAwaited  == TRUE
ThreadPosted      == args.sem > 0
CreateErrorUnseen == FALSE
CreateFailed      == args.error

Handshake ==
  /\ Move(0, "handshake", IF CreateFailed THEN "aborted" ELSE "create")
  /\ ThreadPosted
  /\ args' = NoArgs
  /\ i' = i + 1
  /\ UNCHANGED <<num_kthreads, kthreads, info, inited, inited_sem, entry>>

\* inited = 1, then a post for each worker.
SetInited ==
  /\ Move(0, "create", "release")
  /\ i = num_kthreads
  /\ inited' = TRUE
  /\ i' = 1
  /\ UNCHANGED <<num_kthreads, kthreads, info, inited_sem, args, entry>>

OnePostTooMany == i <= num_kthreads
OnePostTooFew  == i < num_kthreads - 1
MorePosts      == i < num_kthreads

ReleaseWorker ==
  /\ Move(0, "release", "release")
  /\ MorePosts
  /\ inited_sem' = inited_sem + 1
  /\ i' = i + 1
  /\ UNCHANGED <<num_kthreads, kthreads, info, inited, args, entry>>

InitReturns ==
  /\ Move(0, "release", "program")
  /\ ~MorePosts
  /\ UNCHANGED <<num_kthreads, kthreads, info, inited, inited_sem, args, i, entry>>

-----------------------------------------------------------------------------
(* A worker: kthread_trampoline and kthread_main.                          *)

Register(w) ==
  /\ Move(w, "trampoline",
          IF FindTid(NONE) = NONE THEN "refused" ELSE "added")
  /\ AddSelf(w)
  /\ UNCHANGED <<num_kthreads, info, inited, inited_sem, args, i, entry>>

\* *args->ptid = id
Announce(w) ==
  /\ Move(w, "added", "post")
  /\ info' = [info EXCEPT ![w] = w]
  /\ UNCHANGED <<num_kthreads, kthreads, inited, inited_sem, args, i, entry>>

\* sem_post(&args->sem)
Post(w) ==
  /\ Move(w, "post", "barrier")
  /\ args' = [args EXCEPT !.sem = @ + 1]
  /\ UNCHANGED <<num_kthreads, kthreads, info, inited, inited_sem, i, entry>>

\* args->error = EAGAIN; sem_post(&args->sem); the pthread ends.
Refuse(w) ==
  /\ Move(w, "refused", "ended")
  /\ args' = [args EXCEPT !.sem = @ + 1, !.error = TRUE]
  /\ UNCHANGED <<num_kthreads, kthreads, info, inited, inited_sem, i, entry>>

\* kthread_sem_wait(&inited_sem)
PassBarrierUnguarded(w) ==
  /\ Move(w, "barrier", "enter")
  /\ UNCHANGED <<num_kthreads, kthreads, info, inited, inited_sem, args, i, entry>>
PassBarrier(w) ==
  /\ Move(w, "barrier", "enter")
  /\ inited_sem > 0
  /\ inited_sem' = inited_sem - 1
  /\ UNCHANGED <<num_kthreads, kthreads, info, inited, args, i, entry>>

\* assert(inited), then setcontext(get_sched_ctx()).
EnterSchedule(w) ==
  /\ Move(w, "enter", "schedule")
  /\ UNCHANGED <<num_kthreads, kthreads, info, inited, inited_sem, args, i, entry>>

\* schedule() has taken &exitall: kthread_exit.
Leave(w) ==
  /\ Move(w, "schedule", "ended")
  /\ at[0] \in {"join", "wait", "delete"}
  /\ UNCHANGED <<num_kthreads, kthreads, info, inited, inited_sem, args, i, entry>>

-----------------------------------------------------------------------------
(* uthread_teardown: kthread_join of every worker, then the frees.         *)

Teardown ==
  /\ Move(0, "program", "join")
  /\ i' = 1
  /\ UNCHANGED <<num_kthreads, kthreads, info, inited, inited_sem, args, entry>>

\* Under kthreads_lock; ESRCH when there is no entry, which teardown
\* ignores.
JoinFind ==
  /\ i < num_kthreads
  /\ entry' = FindTid(info[i])
  /\ IF entry' = NONE THEN Move(0, "join", "join") /\ i' = i + 1
     ELSE Move(0, "join", "wait") /\ UNCHANGED i
  /\ UNCHANGED <<num_kthreads, kthreads, info, inited, inited_sem, args>>

\* pthread_join, without the lock.
JoinWait ==
  /\ Move(0, "wait", "delete")
  /\ at[kthreads[entry]] = "ended"
  /\ UNCHANGED <<num_kthreads, kthreads, info, inited, inited_sem, args, i, entry>>

\* tidmap_del, under the lock again.
TidmapDelForgotten == kthreads' = kthreads
TidmapDel          == kthreads' = [kthreads EXCEPT ![entry] = NONE]

JoinDelete ==
  /\ Move(0, "delete", "join")
  /\ TidmapDel
  /\ entry' = NONE
  /\ i' = i + 1
  /\ UNCHANGED <<num_kthreads, info, inited, inited_sem, args>>

FreeInfo ==
  /\ Move(0, "join", "done")
  /\ i = num_kthreads
  /\ info' = [k \in {} |-> NONE]
  /\ inited' = FALSE
  /\ UNCHANGED <<num_kthreads, kthreads, inited_sem, args, i, entry>>

-----------------------------------------------------------------------------

Main == \/ AddMain \/ Spawn \/ SpawnFails \/ Handshake \/ SetInited
        \/ ReleaseWorker \/ InitReturns
        \/ Teardown \/ JoinFind \/ JoinWait \/ JoinDelete \/ FreeInfo

Work(w) == \/ Register(w) \/ Announce(w) \/ Post(w) \/ Refuse(w)
           \/ PassBarrier(w) \/ EnterSchedule(w) \/ Leave(w)

\* Nothing runs after abort().
StartNext == at[0] # "aborted" /\ (Main \/ \E w \in Worker : Work(w))

StartSpec == StartInit /\ [][StartNext]_startVars

\* The operating system runs every kernel thread, and the program ends with
\* uthread_teardown.
StartFairness ==
  /\ WF_startVars(at[0] # "aborted" /\ Main)
  /\ \A w \in Worker : WF_startVars(at[0] # "aborted" /\ Work(w))

-----------------------------------------------------------------------------
(* Properties.                                                             *)

\* The type invariant of start-up.
StartTypeOK ==
  /\ num_kthreads \in Requests
  /\ kthreads \in [Slot -> KNumber \cup {NONE}]
  /\ DOMAIN info \in {KNumber, {}}
  /\ \A k \in DOMAIN info : info[k] \in KNumber \cup {NONE}
  /\ inited \in BOOLEAN /\ inited_sem \in 0 .. num_kthreads - 1
  /\ args \in [for : Worker \cup {NONE}, sem : 0 .. 1, error : BOOLEAN]
  /\ i \in 1 .. Max(Requests) /\ entry \in Slot \cup {NONE}
  /\ DOMAIN at = KNumber

\* A worker that has passed the barrier finds inited set and its own entry
\* in kthread_info (the assertions of kthread_main and get_kthread_info),
\* and so does every worker that runs schedule(): it is not freed under it.
InfoFound == \A w \in Worker : at[w] \in {"enter", "schedule"} =>
                                  inited /\ InfoFor(w) /\ info[w] = w

\* trampoline_args is a local of kthread_create: a new thread uses it only
\* while that call waits for this thread.
ArgsAlive == \A w \in Worker :
   at[w] \in {"trampoline", "added", "post", "refused"} =>
      args.for = w /\ at[0] = "handshake"

\* Where a worker is registered: from tidmap_add_self to kthread_join.
Registered == {w \in Worker : SlotsOf(w) # {}}

\* uthread_init never goes on to the program with fewer kernel threads than
\* it was asked for, each of them in the table, once, and known to
\* kthread_info under the number that kthread_join will look up.
AllStarted ==
  at[0] \in {"release", "program"} =>
     \A w \in 1 .. num_kthreads - 1 :
        info[w] = w /\ Cardinality(SlotsOf(w)) = 1

\* When kthread_info is freed every worker has ended and has left the
\* table.
AllCollected ==
  at[0] = "done" => /\ Registered = {}
                    /\ \A w \in 1 .. num_kthreads - 1 : at[w] = "ended"

\* Every start ends: by abort, or with each worker in schedule() and, at the
\* program's end, collected.
StartEnds == <>(at[0] \in {"aborted", "done"})
=============================================================================
