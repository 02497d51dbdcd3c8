----------------------------- MODULE ReadyQueue -----------------------------
(***************************************************************************)
(* struct ready_queue: a queue, the mutex that protects it and the         *)
(* semaphore not_empty, as ready_enqueue and ready_dequeue use them, one   *)
(* step for each operation on the mutex, the semaphore or the queue.  The  *)
(* kernel threads call the two functions in any order.                     *)
(***************************************************************************)
EXTENDS Naturals, Sequences, FiniteSets

CONSTANTS KThread,  \* the kernel threads
          Tcb,      \* the TCBs, &exitall among them
          MaxLen,   \* bound on the length of the queue
          Nil       \* no lock owner, no TCB

ASSUME RQAssumption == /\ IsFiniteSet(KThread)
                       /\ MaxLen \in Nat
                       /\ Nil \notin KThread \cup Tcb

VARIABLES queue,      \* rqueue.queue
          lock,       \* rqueue.lock: its owner, or Nil
          not_empty,  \* the value of the semaphore rqueue.not_empty
          pc,         \* where kernel thread k is
          tcb         \* what it adds, or what it took

rqVars == <<queue, lock, not_empty, pc, tcb>>

Locked == {"append", "enq_unlock", "take", "deq_unlock"}
Pc     == Locked \cup {"idle", "post", "deq_lock"}

RQInit ==
  /\ queue = <<>>
  /\ lock = Nil
  /\ not_empty = 0
  /\ pc = [k \in KThread |-> "idle"]
  /\ tcb = [k \in KThread |-> Nil]

Goto(k, from, to) == pc[k] = from /\ pc' = [pc EXCEPT ![k] = to]

\* kthread_mutex_lock and kthread_mutex_unlock on rqueue.lock,
\* kthread_sem_wait and kthread_sem_post on rqueue.not_empty, with faulty
\* variants before them.
Acquire(k)          == lock = Nil /\ lock' = k

ReleaseForgotten(k) == lock' = lock
Release(k)          == lock' = Nil

SemWaitIgnored   == not_empty' = IF not_empty > 0 THEN not_empty - 1 ELSE 0
SemWait          == not_empty > 0 /\ not_empty' = not_empty - 1

SemPostForgotten == not_empty' = not_empty
SemPost          == not_empty' = not_empty + 1

-----------------------------------------------------------------------------
(* ready_enqueue                                                           *)

EnqueueLock(k) ==
  /\ Goto(k, "idle", "append")
  /\ Acquire(k)
  /\ Len(queue) < MaxLen
  /\ UNCHANGED <<queue, not_empty, tcb>>

\* queue_enqueue(&rqueue.queue, x)
EnqueueAppend(k, x) ==
  /\ Goto(k, "append", "enq_unlock")
  /\ queue' = Append(queue, x)
  /\ UNCHANGED <<lock, not_empty, tcb>>

EnqueueUnlock(k) ==
  /\ Goto(k, "enq_unlock", "post")
  /\ Release(k)
  /\ UNCHANGED <<queue, not_empty, tcb>>

EnqueuePost(k) ==
  /\ Goto(k, "post", "idle")
  /\ SemPost
  /\ UNCHANGED <<queue, lock, tcb>>

-----------------------------------------------------------------------------
(* ready_dequeue                                                           *)

DequeueWait(k) ==
  /\ Goto(k, "idle", "deq_lock")
  /\ SemWait
  /\ UNCHANGED <<queue, lock, tcb>>

DequeueLock(k) ==
  /\ Goto(k, "deq_lock", "take")
  /\ Acquire(k)
  /\ UNCHANGED <<queue, not_empty, tcb>>

\* Variant: the newest TCB is taken.
DequeueTakeLast(k) ==
  /\ Goto(k, "take", "deq_unlock")
  /\ IF queue = <<>>
     THEN tcb' = [tcb EXCEPT ![k] = Nil] /\ UNCHANGED queue
     ELSE /\ tcb' = [tcb EXCEPT ![k] = queue[Len(queue)]]
          /\ queue' = SubSeq(queue, 1, Len(queue) - 1)
  /\ UNCHANGED <<lock, not_empty>>

\* queue_dequeue returns NULL for an empty queue.
DequeueTake(k) ==
  /\ Goto(k, "take", "deq_unlock")
  /\ IF queue = <<>>
     THEN tcb' = [tcb EXCEPT ![k] = Nil] /\ UNCHANGED queue
     ELSE tcb' = [tcb EXCEPT ![k] = Head(queue)] /\ queue' = Tail(queue)
  /\ UNCHANGED <<lock, not_empty>>

DequeueUnlock(k) ==
  /\ Goto(k, "deq_unlock", "idle")
  /\ Release(k)
  /\ UNCHANGED <<queue, not_empty, tcb>>

-----------------------------------------------------------------------------

ReadyEnqueue(k) == \/ EnqueueLock(k)
                   \/ \E x \in Tcb : EnqueueAppend(k, x)
                   \/ EnqueueUnlock(k)
                   \/ EnqueuePost(k)

ReadyDequeue(k) == DequeueWait(k) \/ DequeueLock(k) \/ DequeueTake(k)
                                  \/ DequeueUnlock(k)

RQNext == \E k \in KThread : ReadyEnqueue(k) \/ ReadyDequeue(k)

RQSpec == RQInit /\ [][RQNext]_rqVars

-----------------------------------------------------------------------------
(* Properties.                                                             *)

\* The type invariant of the ready queue and of its callers' locals.
RQTypeOK ==
  /\ queue \in Seq(Tcb)
  /\ lock \in KThread \cup {Nil}
  /\ not_empty \in Nat
  /\ pc \in [KThread -> Pc]
  /\ tcb \in [KThread -> Tcb \cup {Nil}]

\* Threads that have appended and not yet posted ...
Owed    == {k \in KThread : pc[k] \in {"enq_unlock", "post"}}
\* ... and threads that have passed the semaphore and not yet taken.
Claimed == {k \in KThread : pc[k] \in {"deq_lock", "take"}}

\* Whoever is between lock and unlock owns the lock.
LockOwned == \A k \in KThread : pc[k] \in Locked => lock = k

\* The semaphore counts the queue: every TCB in it is announced by
\* not_empty, about to be announced, or claimed by a thread on its way to
\* take it.
NotEmptyCounts ==
  Len(queue) = not_empty + Cardinality(Owed) + Cardinality(Claimed)

\* assert(queue_size(&rqueue.queue) > 0) and assert(tcb) in ready_dequeue
\* never fail, although the semaphore and the queue change in different
\* steps.
DequeueFinds ==
  \A k \in KThread : /\ pc[k] = "take" => queue # <<>>
                     /\ pc[k] = "deq_unlock" => tcb[k] # Nil

\* The lock and the semaphore implement a queue whose operations are atomic.
F == INSTANCE Fifo WITH Item <- Tcb, NULL <- Nil, items <- queue, taken <- tcb
FifoSpec == F!Spec

\* A kernel thread inside either function goes on (weak fairness), and the
\* mutex does not starve a thread that waits for it (strong fairness for the
\* lock).  Whether a thread calls either function is left open.
RQFairness ==
  \A k \in KThread :
     /\ WF_rqVars(pc[k] # "idle" /\ (ReadyEnqueue(k) \/ ReadyDequeue(k)))
     /\ SF_rqVars(DequeueLock(k))

\* A thread that has passed the semaphore in ready_dequeue returns a TCB.
ClaimServed ==
  \A k \in KThread :
     (pc[k] = "deq_lock") ~> (pc[k] = "deq_unlock" /\ tcb[k] # Nil)
=============================================================================
