-------------------------- MODULE ProducerConsumer --------------------------
(***************************************************************************)
(* The many-to-many test program test-m2m-pc.c: producers and consumers    *)
(* that share a ring buffer under three of the library's semaphores.  Each *)
(* producer ends by putting -1 into the buffer, each consumer when it takes *)
(* one.  The semaphores are those of module Threads, which the library     *)
(* implements: a wait takes effect at once when the value is positive.     *)
(* The threads are joined in turn, so that main goes on when all have      *)
(* ended.                                                                  *)
(***************************************************************************)
EXTENDS Integers, FiniteSets

CONSTANTS Producers, Consumers,  \* the threads
          Slots,                 \* SLOTS
          Done                   \* DONE: how many items are made

ASSUME BufferAssumption == /\ IsFiniteSet(Producers) /\ IsFiniteSet(Consumers)
                           /\ Producers \cap Consumers = {}
                           /\ Slots \in Nat \ {0} /\ Done \in Nat

VARIABLES mutex, full, empty,  \* the values of the semaphores
          queue, head, tail,   \* the ring buffer
          next,                \* static of produce()
          item,                \* local of producer() and consumer()
          pc,                  \* where each thread is
          consumed,            \* auxiliary: the items passed to consume()
          counter,             \* _test_counter
          nope                 \* _test_nope # 0, once main has verified

vars == <<mutex, full, empty, queue, head, tail, next, item, pc, consumed,
          counter, nope>>

Thread == Producers \cup Consumers

Init ==
  /\ mutex = 1 /\ full = 0 /\ empty = Slots
  /\ queue = [s \in 0 .. Slots - 1 |-> 0] /\ head = 0 /\ tail = 0
  /\ next = 0
  /\ item = [t \in Thread |-> -1]
  /\ pc = [t \in Thread |-> IF t \in Producers THEN "produce" ELSE "full"]
  /\ consumed = {} /\ counter = 0 /\ nope = FALSE

Goto(t, from, to) == pc[t] = from /\ pc' = [pc EXCEPT ![t] = to]

\* uthread_sem_wait returns, having decremented s; uthread_sem_post.
SemWait(s) == s > 0 /\ s' = s - 1

SemPost(s) == s' = s + 1

\* head and tail go round the buffer.
Wrap(n) == n % Slots

-----------------------------------------------------------------------------
(* producer()                                                              *)

\* produce(), under numlock.
ItemsLeft == next < Done
NextItemForgotten == next
NextItem          == next + 1

Produce(p) ==
  /\ Goto(p, "produce", "empty")
  /\ item' = [item EXCEPT ![p] = IF ItemsLeft THEN next ELSE -1]
  /\ next' = IF ItemsLeft THEN NextItem ELSE next
  /\ UNCHANGED <<mutex, full, empty, queue, head, tail, consumed, counter, nope>>

WaitEmpty(p) ==
  /\ Goto(p, "empty", "lock")
  /\ SemWait(empty)
  /\ UNCHANGED <<mutex, full, queue, head, tail, next, item, consumed, counter, nope>>

\* uthread_sem_wait(&mutex), of both.
Lock(t) ==
  /\ Goto(t, "lock", IF t \in Producers THEN "put" ELSE "take")
  /\ SemWait(mutex)
  /\ UNCHANGED <<full, empty, queue, head, tail, next, item, consumed, counter, nope>>

\* queue[tail++] = item, then tail %= SLOTS.
Put(p) ==
  /\ Goto(p, "put", "wrap")
  /\ queue' = [queue EXCEPT ![tail] = item[p]]
  /\ tail' = tail + 1
  /\ UNCHANGED <<mutex, full, empty, head, next, item, consumed, counter, nope>>

WrapTail(p) ==
  /\ Goto(p, "wrap", "unlock")
  /\ p \in Producers
  /\ tail' = Wrap(tail)
  /\ UNCHANGED <<mutex, full, empty, queue, head, next, item, consumed, counter, nope>>

Unlock(t) ==
  /\ Goto(t, "unlock", "post")
  /\ SemPost(mutex)
  /\ UNCHANGED <<full, empty, queue, head, tail, next, item, consumed, counter, nope>>

PostFull(p) ==
  /\ p \in Producers
  /\ Goto(p, "post", IF item[p] < 0 THEN "ended" ELSE "produce")
  /\ SemPost(full)
  /\ UNCHANGED <<mutex, empty, queue, head, tail, next, item, consumed, counter, nope>>

-----------------------------------------------------------------------------
(* consumer()                                                              *)

WaitFull(c) ==
  /\ Goto(c, "full", "lock")
  /\ SemWait(full)
  /\ UNCHANGED <<mutex, empty, queue, head, tail, next, item, consumed, counter, nope>>

Take(c) ==
  /\ Goto(c, "take", "wrap")
  /\ item' = [item EXCEPT ![c] = queue[head]]
  /\ head' = head + 1
  /\ UNCHANGED <<mutex, full, empty, queue, tail, next, consumed, counter, nope>>

WrapHead(c) ==
  /\ Goto(c, "wrap", "unlock")
  /\ c \in Consumers
  /\ head' = Wrap(head)
  /\ UNCHANGED <<mutex, full, empty, queue, tail, next, item, consumed, counter, nope>>

PostEmpty(c) ==
  /\ c \in Consumers
  /\ Goto(c, "post", IF item[c] < 0 THEN "ended" ELSE "consume")
  /\ SemPost(empty)
  /\ UNCHANGED <<mutex, full, queue, head, tail, next, item, consumed, counter, nope>>

\* CHECKPOINT_UNORDERED(item)
Consume(c) ==
  /\ Goto(c, "consume", "full")
  /\ counter' = counter + 1
  /\ consumed' = consumed \cup {item[c]}
  /\ UNCHANGED <<mutex, full, empty, queue, head, tail, next, item, nope>>

\* main has joined every thread: VERIFY(DONE).
AllEnded == \A t \in Thread : pc[t] = "ended"

Verify ==
  /\ AllEnded
  /\ nope' = (counter # Done)
  /\ UNCHANGED <<mutex, full, empty, queue, head, tail, next, item, pc, consumed,
                 counter>>

-----------------------------------------------------------------------------

Step(t) == \/ Produce(t) \/ WaitEmpty(t) \/ Put(t) \/ WrapTail(t) \/ PostFull(t)
           \/ WaitFull(t) \/ Take(t) \/ WrapHead(t) \/ PostEmpty(t) \/ Consume(t)
           \/ Lock(t) \/ Unlock(t)

Next == Verify \/ \E t \in Thread : Step(t)

Spec == Init /\ [][Next]_vars

\* Every thread that can go on does: nothing is assumed of who gets a
\* semaphore for which several wait, since a woken thread competes for it.
FairSpec == Spec /\ WF_vars(Verify) /\ \A t \in Thread : WF_vars(Step(t))

-----------------------------------------------------------------------------
(* Properties.                                                             *)

Carrying == {"empty", "lock", "put"}
Taken    == {"wrap", "unlock", "post", "consume"}

\* Between critical sections: the items in the buffer are those counted by
\* full, those whose producer has yet to post it, and those a consumer has
\* reserved.
InBuffer == full + Cardinality({p \in Producers : pc[p] = "post"})
                 + Cardinality({c \in Consumers : pc[c] = "lock"})
Held     == {(head + d) % Slots : d \in 0 .. InBuffer - 1}

\* Whatever the interleaving, the semaphores agree with the indices of the
\* buffer, and every item that was made is in one place: with its producer,
\* in a slot from head up to tail, with the consumer that took it, or
\* consumed; and none is consumed twice.
NothingLost ==
  /\ counter = Cardinality(consumed)
  /\ mutex = 1 =>
       /\ InBuffer <= Slots /\ (head + InBuffer) % Slots = tail
       /\ \A x \in 0 .. next - 1 :
            Cardinality({p \in Producers : item[p] = x /\ pc[p] \in Carrying})
            + Cardinality({c \in Consumers : item[c] = x /\ pc[c] \in Taken})
            + Cardinality({s \in Held : queue[s] = x})
            + Cardinality({x} \cap consumed) = 1

\* Each consumer ends with the -1 of one producer, so that the items that are
\* put behind those -1s stay in the buffer: at most one of each producer that
\* has no consumer.  test-m2m-pc.c has one such producer.
FewMissing == Done - counter \in 0 .. Cardinality(Producers) - Cardinality(Consumers)

\* The program comes to its end, whatever the interleaving: no thread is left
\* waiting for a semaphore, and VERIFY(DONE) counts no more items missing
\* than that.
Ends == <>[](AllEnded /\ FewMissing /\ nope = (counter # Done))

\* VERIFY(DONE) says "success!".
VerifySucceeds == ~nope
=============================================================================
