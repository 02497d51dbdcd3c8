-------------------------- MODULE ReadyQueueProofs --------------------------
(***************************************************************************)
(* Proofs about ReadyQueue, for any finite set of kernel threads, any set  *)
(* of TCBs and any bound on the queue.                                     *)
(*                                                                         *)
(* The inductive invariant is RQInv: types, ownership of the lock, the     *)
(* count that relates the queue to the semaphore, and what a thread has    *)
(* taken.  That a thread at "take" finds a TCB needs the count: the thread *)
(* itself is in Claimed, hence Len(queue) > 0.                             *)
(***************************************************************************)
EXTENDS ReadyQueue, FiniteSetTheorems, SequenceTheorems, TLAPS

\* What queue_dequeue returned is still in the local when ready_dequeue
\* asserts on it.
TookItem == \A k \in KThread : pc[k] = "deq_unlock" => tcb[k] # Nil

RQInv == RQTypeOK /\ LockOwned /\ NotEmptyCounts /\ TookItem

-----------------------------------------------------------------------------
(* Adding a thread to one of the counted sets, or removing one, changes    *)
(* its cardinality by one.                                                 *)

\* The counted sets are finite, and their cardinalities are numbers.
LEMMA CountsAreNat ==
  /\ IsFiniteSet(Owed) /\ Cardinality(Owed) \in Nat
  /\ IsFiniteSet(Claimed) /\ Cardinality(Claimed) \in Nat
<1>1. Owed \subseteq KThread /\ Claimed \subseteq KThread
  BY DEF Owed, Claimed
<1>2. IsFiniteSet(Owed) /\ IsFiniteSet(Claimed)
  BY <1>1, RQAssumption, FS_Subset
<1> QED
  BY <1>2, FS_CardinalityType

\* A set that gains one element.
LEMMA Gains ==
  ASSUME NEW S, NEW T, NEW x, IsFiniteSet(S), x \notin S, T = S \cup {x}
  PROVE  Cardinality(T) = Cardinality(S) + 1
BY FS_AddElement

\* A set that loses one element.
LEMMA Loses ==
  ASSUME NEW S, NEW T, NEW x, IsFiniteSet(S), x \in S, T = S \ {x}
  PROVE  Cardinality(T) = Cardinality(S) - 1
BY FS_RemoveElement

\* A set that holds an element counts at least one.
LEMMA Positive ==
  ASSUME NEW S, NEW x, IsFiniteSet(S), x \in S
  PROVE  Cardinality(S) > 0
<1>1. Cardinality(S) \in Nat
  BY FS_CardinalityType
<1>2. Cardinality(S) # 0
  BY FS_EmptySet
<1> QED
  BY <1>1, <1>2

\* A thread about to take makes the queue nonempty.
LEMMA TakeFinds ==
  ASSUME RQInv, NEW k \in KThread, pc[k] = "take"
  PROVE  queue # <<>>
<1>1. k \in Claimed
  BY DEF Claimed
<1>2. Cardinality(Claimed) > 0
  BY <1>1, CountsAreNat, Positive
<1>3. Len(queue) > 0
  BY <1>2, CountsAreNat DEF RQInv, RQTypeOK, NotEmptyCounts
<1> QED
  BY <1>3

-----------------------------------------------------------------------------
(* The invariant is inductive.                                             *)

\* The ready queue that uthread_init makes is consistent.
LEMMA InitInv == RQInit => RQInv
<1> SUFFICES ASSUME RQInit PROVE RQInv
  OBVIOUS
<1>1. Owed = {} /\ Claimed = {}
  BY DEF RQInit, Owed, Claimed
<1>2. Cardinality({}) = 0
  BY FS_EmptySet
<1>3. NotEmptyCounts
  BY <1>1, <1>2 DEF RQInit, NotEmptyCounts
<1>4. RQTypeOK /\ LockOwned /\ TookItem
  BY RQAssumption DEF RQInit, RQTypeOK, LockOwned, TookItem, Pc, Locked
<1> QED
  BY <1>3, <1>4 DEF RQInv

\* Each step moves its thread between the counted sets and the uncounted
\* locations, and leaves the other threads where they were.
LEMMA NextInv == RQInv /\ [RQNext]_rqVars => RQInv'
<1> SUFFICES ASSUME RQInv, [RQNext]_rqVars PROVE RQInv'
  OBVIOUS
<1> USE DEF RQInv
<1>t. RQTypeOK /\ pc \in [KThread -> Pc] /\ not_empty \in Nat /\ Len(queue) \in Nat
  BY DEF RQTypeOK
<1>n. Nil \notin KThread /\ Nil \notin Tcb
  BY RQAssumption
<1>c. /\ IsFiniteSet(Owed) /\ Cardinality(Owed) \in Nat
      /\ IsFiniteSet(Claimed) /\ Cardinality(Claimed) \in Nat
  BY CountsAreNat
<1>1. ASSUME NEW k \in KThread, EnqueueLock(k) PROVE RQInv'
  <2> USE <1>1 DEF EnqueueLock, Goto, Acquire
  <2>1. RQTypeOK' /\ LockOwned' /\ TookItem'
    BY <1>n DEF RQTypeOK, LockOwned, TookItem, Pc, Locked
  <2>2. Owed' = Owed /\ Claimed' = Claimed
    BY <1>t DEF Owed, Claimed
  <2> QED
    BY <2>1, <2>2 DEF NotEmptyCounts
<1>2. ASSUME NEW k \in KThread, NEW x \in Tcb, EnqueueAppend(k, x) PROVE RQInv'
  <2> USE <1>2 DEF EnqueueAppend, Goto
  <2>1. RQTypeOK' /\ LockOwned' /\ TookItem'
    BY DEF RQTypeOK, LockOwned, TookItem, Pc, Locked
  <2>2. k \notin Owed /\ Owed' = Owed \cup {k} /\ Claimed' = Claimed
    BY <1>t DEF Owed, Claimed
  <2>3. Cardinality(Owed') = Cardinality(Owed) + 1
    BY <2>2, <1>c, Gains
  <2>4. Len(queue') = Len(queue) + 1
    BY DEF RQTypeOK
  <2> QED
    BY <2>1, <2>2, <2>3, <2>4, <1>c, <1>t DEF NotEmptyCounts
<1>3. ASSUME NEW k \in KThread, EnqueueUnlock(k) PROVE RQInv'
  <2> USE <1>3 DEF EnqueueUnlock, Goto, Release
  <2>1. RQTypeOK' /\ TookItem'
    BY DEF RQTypeOK, TookItem, Pc, Locked
  <2>2. LockOwned'
    BY <1>n, <1>t DEF LockOwned, Locked
  <2>3. Owed' = Owed /\ Claimed' = Claimed
    BY <1>t DEF Owed, Claimed
  <2> QED
    BY <2>1, <2>2, <2>3 DEF NotEmptyCounts
<1>4. ASSUME NEW k \in KThread, EnqueuePost(k) PROVE RQInv'
  <2> USE <1>4 DEF EnqueuePost, SemPost, Goto
  <2>1. RQTypeOK' /\ LockOwned' /\ TookItem'
    BY DEF RQTypeOK, LockOwned, TookItem, Pc, Locked
  <2>2. k \in Owed /\ Owed' = Owed \ {k} /\ Claimed' = Claimed
    BY <1>t DEF Owed, Claimed
  <2>3. Cardinality(Owed') = Cardinality(Owed) - 1
    BY <2>2, <1>c, Loses
  <2> QED
    BY <2>1, <2>2, <2>3, <1>c, <1>t DEF NotEmptyCounts
<1>5. ASSUME NEW k \in KThread, DequeueWait(k) PROVE RQInv'
  <2> USE <1>5 DEF DequeueWait, SemWait, Goto
  <2>1. RQTypeOK' /\ LockOwned' /\ TookItem'
    BY DEF RQTypeOK, LockOwned, TookItem, Pc, Locked
  <2>2. k \notin Claimed /\ Claimed' = Claimed \cup {k} /\ Owed' = Owed
    BY <1>t DEF Owed, Claimed
  <2>3. Cardinality(Claimed') = Cardinality(Claimed) + 1
    BY <2>2, <1>c, Gains
  <2> QED
    BY <2>1, <2>2, <2>3, <1>c, <1>t DEF NotEmptyCounts
<1>6. ASSUME NEW k \in KThread, DequeueLock(k) PROVE RQInv'
  <2> USE <1>6 DEF DequeueLock, Goto, Acquire
  <2>1. RQTypeOK' /\ LockOwned' /\ TookItem'
    BY <1>n DEF RQTypeOK, LockOwned, TookItem, Pc, Locked
  <2>2. Owed' = Owed /\ Claimed' = Claimed
    BY <1>t DEF Owed, Claimed
  <2> QED
    BY <2>1, <2>2 DEF NotEmptyCounts
<1>7. ASSUME NEW k \in KThread, DequeueTake(k) PROVE RQInv'
  <2> USE <1>7 DEF DequeueTake, Goto
  <2>1. queue # <<>>
    BY TakeFinds
  <2>2. /\ Head(queue) \in Tcb /\ queue' \in Seq(Tcb)
        /\ Len(queue') = Len(queue) - 1
    <3>1. queue \in Seq(Tcb) /\ queue' = Tail(queue)
      BY <2>1 DEF RQTypeOK
    <3> QED
      BY <2>1, <3>1, HeadTailProperties
  <2>3. RQTypeOK' /\ LockOwned' /\ TookItem'
    BY <1>n, <2>1, <2>2 DEF RQTypeOK, LockOwned, TookItem, Pc, Locked
  <2>4. k \in Claimed /\ Claimed' = Claimed \ {k} /\ Owed' = Owed
    BY <1>t DEF Owed, Claimed
  <2>5. Cardinality(Claimed') = Cardinality(Claimed) - 1
    BY <2>4, <1>c, Loses
  <2> QED
    BY <2>2, <2>3, <2>4, <2>5, <1>c, <1>t DEF NotEmptyCounts
<1>8. ASSUME NEW k \in KThread, DequeueUnlock(k) PROVE RQInv'
  <2> USE <1>8 DEF DequeueUnlock, Goto, Release
  <2>1. RQTypeOK' /\ TookItem'
    BY DEF RQTypeOK, TookItem, Pc, Locked
  <2>2. LockOwned'
    BY <1>n, <1>t DEF LockOwned, Locked
  <2>3. Owed' = Owed /\ Claimed' = Claimed
    BY <1>t DEF Owed, Claimed
  <2> QED
    BY <2>1, <2>2, <2>3 DEF NotEmptyCounts
<1>9. CASE UNCHANGED rqVars
  BY <1>9 DEF rqVars, RQTypeOK, LockOwned, NotEmptyCounts, TookItem, Owed, Claimed
<1> QED
  BY <1>1, <1>2, <1>3, <1>4, <1>5, <1>6, <1>7, <1>8, <1>9
  DEF RQNext, ReadyEnqueue, ReadyDequeue

-----------------------------------------------------------------------------
(* The theorems.                                                           *)

\* Whatever the kernel threads do, the lock, the semaphore and the queue
\* of rqueue stay consistent.
THEOREM RQInvariant == RQSpec => []RQInv
<1>1. RQInit => RQInv
  BY InitInv
<1>2. RQInv /\ [RQNext]_rqVars => RQInv'
  BY NextInv
<1> QED
  BY <1>1, <1>2, PTL DEF RQSpec

\* The type invariant.
THEOREM TypeCorrect == RQSpec => []RQTypeOK
BY RQInvariant, PTL DEF RQInv

\* not_empty always announces exactly the TCBs of the queue that are
\* neither about to be announced nor claimed: no post is lost, and none is
\* made twice.
THEOREM CountsAgree == RQSpec => []NotEmptyCounts
BY RQInvariant, PTL DEF RQInv

\* The two assertions of ready_dequeue never fail.
THEOREM AssertionsHold == RQSpec => []DequeueFinds
<1>1. RQInv => DequeueFinds
  BY TakeFinds DEF DequeueFinds, RQInv, TookItem
<1> QED
  BY <1>1, RQInvariant, PTL

\* ready_enqueue and ready_dequeue implement an atomic first-in first-out
\* queue: the append is the Put, the removal of the head the Take, every
\* other step stutters.
THEOREM ImplementsFifo == RQSpec => FifoSpec
<1>1. RQInit => F!Init
  BY DEF RQInit, F!Init
<1>2. RQInv /\ [RQNext]_rqVars => [F!Next]_<<queue, tcb>>
  <2> SUFFICES ASSUME RQInv, [RQNext]_rqVars, ~ UNCHANGED <<queue, tcb>>
               PROVE  F!Next
    OBVIOUS
  <2>1. CASE \E k \in KThread, x \in Tcb : EnqueueAppend(k, x)
    BY <2>1 DEF EnqueueAppend, F!Next, F!Put
  <2>2. CASE \E k \in KThread : DequeueTake(k)
    <3>1. PICK k \in KThread : DequeueTake(k)
      BY <2>2
    <3>2. queue # <<>>
      BY <3>1, TakeFinds DEF DequeueTake, Goto
    <3>3. F!Take(k)
      BY <3>1, <3>2 DEF DequeueTake, F!Take
    <3> QED
      BY <3>3 DEF F!Next
  <2> QED
    BY <2>1, <2>2 DEF RQNext, ReadyEnqueue, ReadyDequeue, EnqueueLock, EnqueueUnlock,
       EnqueuePost, SemPost, DequeueWait, SemWait, DequeueLock,
       DequeueUnlock, rqVars
<1> QED
  BY <1>1, <1>2, RQInvariant, PTL DEF RQSpec, FifoSpec, F!Spec
=============================================================================
