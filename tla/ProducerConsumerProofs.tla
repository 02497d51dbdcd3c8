----------------------- MODULE ProducerConsumerProofs -----------------------
(***************************************************************************)
(* Proofs about the producer-consumer program, for any numbers of          *)
(* producers, consumers, slots and items: no item is lost or consumed      *)
(* twice; when all the threads have ended no more items are left over than *)
(* there are producers without a consumer, so that VERIFY(DONE) fails only *)
(* if there are such; and the threads never all wait for each other, if    *)
(* there is a producer for each consumer and room for what the producers   *)
(* that are left over put into the buffer.                                 *)
(*                                                                         *)
(* NothingLost speaks of the states between critical sections only.  The   *)
(* inductive invariant ProgramInv follows the items through the critical   *)
(* sections as well.  Its center is Filled, the slots that hold an item,   *)
(* given by head and by Count, the number of items that the semaphores and *)
(* the locations of the threads account for; Room accounts for the rest of *)
(* the slots, and what makes Put and Take safe is that the thread which is *)
(* about to do so is itself counted in Room or in Count.  CrowdInv bounds  *)
(* what comes to be in the buffer behind the first -1, which nobody may be *)
(* left to take.                                                           *)
(***************************************************************************)
EXTENDS ProducerConsumer, FiniteSetTheorems, WellFoundedInduction, TLAPS

-----------------------------------------------------------------------------
(* The inductive invariant.                                                *)

ProducerPc == {"produce", "empty", "lock", "put", "wrap", "unlock", "post", "ended"}
ConsumerPc == {"full", "lock", "take", "wrap", "unlock", "post", "consume", "ended"}
Critical   == {"put", "take", "wrap", "unlock"}
Behind     == {"wrap", "unlock", "post"}

At(S, L) == {t \in S : pc[t] \in L}

\* The items in the buffer, and the free slots.
Count == full + Cardinality(At(Producers, Behind))
              + Cardinality(At(Consumers, {"lock", "take"}))
Room  == empty + Cardinality(At(Producers, {"lock", "put"}))
               + Cardinality(At(Consumers, Behind))

\* head and tail as they are after the pending % SLOTS; how far a slot is
\* from head; the slots that hold an item.
Around(h) == IF h = Slots THEN 0 ELSE h
Slot      == 0 .. Slots - 1
Offset(s) == IF s >= Around(head) THEN s - Around(head)
             ELSE s - Around(head) + Slots
Filled    == {s \in Slot : Offset(s) < Count}

\* Where item x is.
Carriers(x) == {p \in Producers : item[p] = x /\ pc[p] \in Carrying}
Takers(x)   == {c \in Consumers : item[c] = x /\ pc[c] \in Taken}
Holding(x)  == {s \in Filled : queue[s] = x}
Eaten(x)    == {x} \cap consumed

TypeOK ==
  /\ mutex \in {0, 1} /\ full \in Nat /\ empty \in Nat
  /\ queue \in [Slot -> Int] /\ head \in 0 .. Slots /\ tail \in 0 .. Slots
  /\ next \in 0 .. Done
  /\ item \in [Thread -> Int] /\ pc \in [Thread -> ProducerPc \cup ConsumerPc]
  /\ \A p \in Producers : pc[p] \in ProducerPc
  /\ \A c \in Consumers : pc[c] \in ConsumerPc
  /\ consumed \subseteq 0 .. next - 1

\* The semaphore mutex excludes: no two threads use the buffer at once.
MutexInv ==
  /\ mutex = 1 <=> At(Thread, Critical) = {}
  /\ \A t, u \in At(Thread, Critical) : t = u

\* The semaphores agree with the indices.
BufferInv ==
  /\ head = Slots => \E c \in Consumers : pc[c] = "wrap"
  /\ tail = Slots => \E p \in Producers : pc[p] = "wrap"
  /\ Count + Room = Slots
  /\ Around(tail) = IF Around(head) + Count < Slots THEN Around(head) + Count
                    ELSE Around(head) + Count - Slots

\* Every item that was made is in one place, and nothing else is.
ItemInv ==
  /\ \A t \in Thread : item[t] \in -1 .. next - 1
  /\ \A s \in Filled : queue[s] \in -1 .. next - 1
  /\ \A c \in Consumers : pc[c] = "consume" => item[c] >= 0
  /\ \A x \in 0 .. next - 1 : Cardinality(Carriers(x)) + Cardinality(Takers(x))
                              + Cardinality(Holding(x)) + Cardinality(Eaten(x)) = 1
  /\ counter = Cardinality(consumed)

\* Each producer makes one -1, after all the items and as its last, and each
\* consumer that has ended took one.
Pills(S)   == {t \in S : item[t] = -1 /\ pc[t] \in Behind \cup {"ended"}}
PutsMore(p) == \/ pc[p] \in {"produce", "empty", "lock", "put"}
               \/ pc[p] \in Behind /\ item[p] # -1

PillInv ==
  /\ \A t \in Thread : pc[t] = "ended" => item[t] = -1
  /\ \A p \in Producers : pc[p] # "produce" /\ item[p] = -1 => next = Done
  /\ Cardinality(Pills(Producers)) =
       Cardinality(Pills(Consumers)) + Cardinality(Holding(-1))
  /\ \A s \in Slot : Offset(s) = Count - 1 /\ queue[s] # -1 =>
                        \E p \in Producers : PutsMore(p)

ProgramInv == TypeOK /\ MutexInv /\ BufferInv /\ ItemInv /\ PillInv

\* If there are producers and consumers, main finds when it has joined all the
\* threads that at most one item is missing for each producer that has no
\* consumer, and VERIFY(DONE) says "nope" only if there are such producers.
\* The test has 8 producers and 7 consumers: one item may be missing.
FewLeftOver ==
  (Producers # {} /\ Consumers # {}) =>
     /\ AllEnded => FewMissing
     /\ nope => Cardinality(Producers) > Cardinality(Consumers)

\* The conditions of the threads' actions: a thread waits for nothing but a
\* semaphore whose value is 0.
CanGo(t) == /\ pc[t] # "ended"
            /\ pc[t] = "empty" => empty > 0
            /\ pc[t] = "full"  => full > 0
            /\ pc[t] = "lock"  => mutex > 0

\* A producer for each consumer, and for each producer that is left over room
\* for its -1 and for the item that it may still carry: so it is in
\* test-m2m-pc.c, with 8 producers, 7 consumers and 10 slots.
EnoughRoom ==
  /\ Cardinality(Consumers) <= Cardinality(Producers)
  /\ Cardinality(Consumers) > 0
  /\ 2 * (Cardinality(Producers) - Cardinality(Consumers)) <= Slots

\* Then the threads never all wait for each other: until all have ended, one
\* of them can go on.
NeverStuck == EnoughRoom => AllEnded \/ \E t \in Thread : CanGo(t)

\* What bounds the buffer once -1s are in it: the slots from s on that hold
\* items and those that hold -1; the producers that have no item left and
\* have yet to put their -1.
ItemsFrom(s) == {r \in Filled : queue[r] # -1 /\ Offset(r) >= Offset(s)}
PillsFrom(s) == {r \in Filled : queue[r] = -1 /\ Offset(r) >= Offset(s)}
Finishing    == {p \in Producers : \/ pc[p] = "produce"
                                   \/ pc[p] \in Carrying /\ item[p] = -1
                                   \/ pc[p] \in Behind /\ item[p] # -1}

\* An item that was put after a -1.
Late(s) == /\ s \in Filled /\ queue[s] # -1
           /\ \/ Pills(Consumers) # {}
              \/ \E r \in Filled : queue[r] = -1 /\ Offset(r) < Offset(s)

\* It is the last of its producer, whose -1 comes behind it or is to come.
LateInv == \A s \in Slot : Late(s) =>
             Cardinality(ItemsFrom(s)) <= Cardinality(PillsFrom(s))
                                          + Cardinality(Finishing)

-----------------------------------------------------------------------------
(* Counting.                                                               *)

\* A set that gains one element.
LEMMA Gains ==
  ASSUME NEW S, NEW T, NEW x, IsFiniteSet(S), x \notin S, T = S \cup {x}
  PROVE  IsFiniteSet(T) /\ Cardinality(T) = Cardinality(S) + 1
BY FS_AddElement

\* A set that loses one element.
LEMMA Loses ==
  ASSUME NEW S, NEW T, NEW x, IsFiniteSet(S), x \in S, T = S \ {x}
  PROVE  IsFiniteSet(T) /\ Cardinality(T) = Cardinality(S) - 1
BY FS_RemoveElement

\* A part of a finite set has a number of elements, 0 if it is empty.
LEMMA Counted ==
  ASSUME NEW S, NEW T, IsFiniteSet(S), T \subseteq S
  PROVE  /\ IsFiniteSet(T) /\ Cardinality(T) \in Nat
         /\ Cardinality(T) = 0 <=> T = {}
BY FS_Subset, FS_CardinalityType, FS_EmptySet

\* A part that is not the whole has fewer elements.
LEMMA Fewer ==
  ASSUME NEW S, NEW T, IsFiniteSet(S), T \subseteq S
  PROVE  /\ Cardinality(T) <= Cardinality(S)
         /\ T # S => Cardinality(T) < Cardinality(S)
<1>1. Cardinality(T) \in Nat /\ Cardinality(S) \in Nat
  BY FS_Subset, FS_CardinalityType
<1>2. Cardinality(T) <= Cardinality(S) /\ (Cardinality(S) = Cardinality(T) => S = T)
  BY FS_Subset
<1> QED
  BY <1>1, <1>2

\* The threads at some locations can be counted.
LEMMA AtCounted ==
  \A L : /\ IsFiniteSet(At(Producers, L)) /\ Cardinality(At(Producers, L)) \in Nat
         /\ IsFiniteSet(At(Consumers, L)) /\ Cardinality(At(Consumers, L)) \in Nat
<1>1. \A L : At(Producers, L) \subseteq Producers /\ At(Consumers, L) \subseteq Consumers
  BY DEF At
<1> QED
  BY <1>1, BufferAssumption, Counted

\* So can the items in the buffer, and the free slots.
LEMMA CountNat ==
  ASSUME TypeOK
  PROVE  Count \in Nat /\ Room \in Nat
<1>1. /\ Cardinality(At(Producers, Behind)) \in Nat
      /\ Cardinality(At(Consumers, {"lock", "take"})) \in Nat
      /\ Cardinality(At(Producers, {"lock", "put"})) \in Nat
      /\ Cardinality(At(Consumers, Behind)) \in Nat
  BY AtCounted
<1> QED
  BY <1>1 DEF Count, Room, TypeOK

\* What a producer and what a consumer does.
LEMMA StepKinds ==
  ASSUME TypeOK, NEW t \in Thread, Step(t)
  PROVE  \/ /\ t \in Producers /\ t \notin Consumers
            /\ \/ Produce(t) \/ WaitEmpty(t) \/ Lock(t) \/ Put(t)
               \/ WrapTail(t) \/ Unlock(t) \/ PostFull(t)
         \/ /\ t \in Consumers /\ t \notin Producers
            /\ \/ WaitFull(t) \/ Lock(t) \/ Take(t) \/ WrapHead(t)
               \/ Unlock(t) \/ PostEmpty(t) \/ Consume(t)
<1>1. CASE t \in Producers
  <2>1. t \notin Consumers /\ pc[t] \in ProducerPc
    BY <1>1, BufferAssumption DEF TypeOK
  <2>2. ~(WaitFull(t) \/ Take(t) \/ WrapHead(t) \/ PostEmpty(t) \/ Consume(t))
    BY <2>1 DEF ProducerPc, WaitFull, Take, WrapHead, PostEmpty, Consume, Goto
  <2> QED
    BY <1>1, <2>1, <2>2 DEF Step
<1>2. CASE t \in Consumers
  <2>1. t \notin Producers /\ pc[t] \in ConsumerPc
    BY <1>2, BufferAssumption DEF TypeOK
  <2>2. ~(Produce(t) \/ WaitEmpty(t) \/ Put(t) \/ WrapTail(t) \/ PostFull(t))
    BY <2>1 DEF ConsumerPc, Produce, WaitEmpty, Put, WrapTail, PostFull, Goto
  <2> QED
    BY <1>2, <2>1, <2>2 DEF Step
<1> QED
  BY <1>1, <1>2 DEF Thread

\* The threads at the locations L, when only t moves.
LEMMA AtMoves ==
  ASSUME TypeOK, NEW t \in Thread, NEW from, NEW to, Goto(t, from, to),
         NEW S \in {Producers, Consumers, Thread}, NEW L
  PROVE  At(S, L)' = IF t \in S /\ from \notin L /\ to \in L THEN At(S, L) \cup {t}
                     ELSE IF t \in S /\ from \in L /\ to \notin L THEN At(S, L) \ {t}
                     ELSE At(S, L)
<1>1. S \subseteq Thread
  BY DEF Thread
<1>2. \A u \in S : pc'[u] = IF u = t THEN to ELSE pc[u]
  BY <1>1 DEF Goto, TypeOK
<1> QED
  BY <1>2 DEF At, Goto

\* How the number of such threads changes then.
LEMMA AtCounts ==
  ASSUME TypeOK, NEW t \in Thread, NEW from, NEW to, Goto(t, from, to),
         NEW S \in {Producers, Consumers}, NEW L
  PROVE  Cardinality(At(S, L))' =
           IF t \in S /\ from \notin L /\ to \in L THEN Cardinality(At(S, L)) + 1
           ELSE IF t \in S /\ from \in L /\ to \notin L THEN Cardinality(At(S, L)) - 1
           ELSE Cardinality(At(S, L))
<1>1. /\ IsFiniteSet(At(S, L))
      /\ (t \in S /\ from \notin L) => t \notin At(S, L)
      /\ (t \in S /\ from \in L) => t \in At(S, L)
  BY AtCounted DEF At, Goto
<1>2. At(S, L)' = IF t \in S /\ from \notin L /\ to \in L THEN At(S, L) \cup {t}
                  ELSE IF t \in S /\ from \in L /\ to \notin L THEN At(S, L) \ {t}
                  ELSE At(S, L)
  BY AtMoves
<1>3. CASE t \in S /\ from \notin L /\ to \in L
  BY <1>1, <1>2, <1>3, Gains
<1>4. CASE t \in S /\ from \in L /\ to \notin L
  BY <1>1, <1>2, <1>4, Loses
<1>5. CASE ~(t \in S /\ from \notin L /\ to \in L) /\ ~(t \in S /\ from \in L /\ to \notin L)
  BY <1>2, <1>5
<1> QED
  BY <1>3, <1>4, <1>5


\* Only Put and Take change what is in the buffer: a semaphore and the
\* locations of the threads change together everywhere else.
LEMMA CountStep ==
  ASSUME TypeOK, NEW t \in Thread, Step(t)
  PROVE  /\ Put(t) => Count' = Count + 1 /\ Room' = Room - 1
         /\ Take(t) => Count' = Count - 1 /\ Room' = Room + 1
         /\ ~Put(t) /\ ~Take(t) => Count' = Count /\ Room' = Room
<1> DEFINE a == Cardinality(At(Producers, Behind))
           b == Cardinality(At(Consumers, {"lock", "take"}))
           c == Cardinality(At(Producers, {"lock", "put"}))
           d == Cardinality(At(Consumers, Behind))
<1>1. a \in Nat /\ b \in Nat /\ c \in Nat /\ d \in Nat
  BY AtCounted
<1>2. ASSUME NEW from, NEW to, Goto(t, from, to)
      PROVE  /\ a' = IF t \in Producers /\ from \notin Behind /\ to \in Behind THEN a + 1
                     ELSE IF t \in Producers /\ from \in Behind /\ to \notin Behind THEN a - 1
                     ELSE a
             /\ d' = IF t \in Consumers /\ from \notin Behind /\ to \in Behind THEN d + 1
                     ELSE IF t \in Consumers /\ from \in Behind /\ to \notin Behind THEN d - 1
                     ELSE d
             /\ b' = IF t \in Consumers /\ from \notin {"lock", "take"} /\ to \in {"lock", "take"}
                     THEN b + 1
                     ELSE IF t \in Consumers /\ from \in {"lock", "take"}
                             /\ to \notin {"lock", "take"} THEN b - 1 ELSE b
             /\ c' = IF t \in Producers /\ from \notin {"lock", "put"} /\ to \in {"lock", "put"}
                     THEN c + 1
                     ELSE IF t \in Producers /\ from \in {"lock", "put"}
                             /\ to \notin {"lock", "put"} THEN c - 1 ELSE c
  BY <1>2, AtCounts
<1>3. /\ Count = full + a + b /\ Room = empty + c + d
      /\ Count' = full' + a' + b' /\ Room' = empty' + c' + d'
  BY DEF Count, Room
<1>4. full \in Nat /\ empty \in Nat
  BY DEF TypeOK
<1> HIDE DEF a, b, c, d
<1>5. CASE t \in Producers /\ t \notin Consumers
  <2>1. CASE Produce(t)
    <3>1. Goto(t, "produce", "empty") /\ full' = full /\ empty' = empty
      BY <1>5, <2>1 DEF Produce
    <3>2. a' = a /\ b' = b /\ c' = c /\ d' = d
      BY <1>2, <1>5, <3>1 DEF Behind
    <3>3. ~Put(t) /\ ~Take(t)
      BY <3>1 DEF Put, Take, Goto
    <3> QED
      BY <1>1, <1>3, <1>4, <2>1, <3>1, <3>2, <3>3
  <2>2. CASE WaitEmpty(t)
    <3>1. Goto(t, "empty", "lock") /\ full' = full /\ empty' = empty - 1
      BY <1>5, <2>2 DEF WaitEmpty, SemWait
    <3>2. a' = a /\ b' = b /\ c' = c + 1 /\ d' = d
      BY <1>2, <1>5, <3>1 DEF Behind
    <3>3. ~Put(t) /\ ~Take(t)
      BY <3>1 DEF Put, Take, Goto
    <3> QED
      BY <1>1, <1>3, <1>4, <2>2, <3>1, <3>2, <3>3
  <2>3. CASE Lock(t)
    <3>1. Goto(t, "lock", "put") /\ full' = full /\ empty' = empty
      BY <1>5, <2>3 DEF Lock
    <3>2. a' = a /\ b' = b /\ c' = c /\ d' = d
      BY <1>2, <1>5, <3>1 DEF Behind
    <3>3. ~Put(t) /\ ~Take(t)
      BY <3>1 DEF Put, Take, Goto
    <3> QED
      BY <1>1, <1>3, <1>4, <2>3, <3>1, <3>2, <3>3
  <2>4. CASE Put(t)
    <3>1. Goto(t, "put", "wrap") /\ full' = full /\ empty' = empty
      BY <1>5, <2>4 DEF Put
    <3>2. a' = a + 1 /\ b' = b /\ c' = c - 1 /\ d' = d
      BY <1>2, <1>5, <3>1 DEF Behind
    <3>3. ~Take(t)
      BY <3>1 DEF Put, Take, Goto
    <3> QED
      BY <1>1, <1>3, <1>4, <2>4, <3>1, <3>2, <3>3
  <2>5. CASE WrapTail(t) \/ Unlock(t)
    <3>1. (Goto(t, "wrap", "unlock") \/ Goto(t, "unlock", "post")) /\ full' = full /\ empty' = empty
      BY <1>5, <2>5 DEF WrapTail, Unlock
    <3>2. a' = a /\ b' = b /\ c' = c /\ d' = d
      BY <1>2, <1>5, <3>1 DEF Behind
    <3>3. ~Put(t) /\ ~Take(t)
      BY <3>1 DEF Put, Take, Goto
    <3> QED
      BY <1>1, <1>3, <1>4, <2>5, <3>1, <3>2, <3>3
  <2>6. CASE PostFull(t)
    <3>1. (\E to \in {"ended", "produce"} : Goto(t, "post", to)) /\ full' = full + 1 /\ empty' = empty
      BY <1>5, <2>6 DEF PostFull, SemPost
    <3>2. a' = a - 1 /\ b' = b /\ c' = c /\ d' = d
      BY <1>2, <1>5, <3>1 DEF Behind
    <3>3. ~Put(t) /\ ~Take(t)
      BY <3>1 DEF Put, Take, Goto
    <3> QED
      BY <1>1, <1>3, <1>4, <2>6, <3>1, <3>2, <3>3
  <2> QED
    BY <1>5, <2>1, <2>2, <2>3, <2>4, <2>5, <2>6, StepKinds
<1>6. CASE t \in Consumers /\ t \notin Producers
  <2>1. CASE WaitFull(t)
    <3>1. Goto(t, "full", "lock") /\ full' = full - 1 /\ empty' = empty
      BY <1>6, <2>1 DEF WaitFull, SemWait
    <3>2. a' = a /\ b' = b + 1 /\ c' = c /\ d' = d
      BY <1>2, <1>6, <3>1 DEF Behind
    <3>3. ~Put(t) /\ ~Take(t)
      BY <3>1 DEF Put, Take, Goto
    <3> QED
      BY <1>1, <1>3, <1>4, <2>1, <3>1, <3>2, <3>3
  <2>2. CASE Lock(t)
    <3>1. Goto(t, "lock", "take") /\ full' = full /\ empty' = empty
      BY <1>6, <2>2 DEF Lock
    <3>2. a' = a /\ b' = b /\ c' = c /\ d' = d
      BY <1>2, <1>6, <3>1 DEF Behind
    <3>3. ~Put(t) /\ ~Take(t)
      BY <3>1 DEF Put, Take, Goto
    <3> QED
      BY <1>1, <1>3, <1>4, <2>2, <3>1, <3>2, <3>3
  <2>3. CASE Take(t)
    <3>1. Goto(t, "take", "wrap") /\ full' = full /\ empty' = empty
      BY <1>6, <2>3 DEF Take
    <3>2. a' = a /\ b' = b - 1 /\ c' = c /\ d' = d + 1
      BY <1>2, <1>6, <3>1 DEF Behind
    <3>3. ~Put(t)
      BY <3>1 DEF Put, Take, Goto
    <3> QED
      BY <1>1, <1>3, <1>4, <2>3, <3>1, <3>2, <3>3
  <2>4. CASE WrapHead(t) \/ Unlock(t)
    <3>1. (Goto(t, "wrap", "unlock") \/ Goto(t, "unlock", "post")) /\ full' = full /\ empty' = empty
      BY <1>6, <2>4 DEF WrapHead, Unlock
    <3>2. a' = a /\ b' = b /\ c' = c /\ d' = d
      BY <1>2, <1>6, <3>1 DEF Behind
    <3>3. ~Put(t) /\ ~Take(t)
      BY <3>1 DEF Put, Take, Goto
    <3> QED
      BY <1>1, <1>3, <1>4, <2>4, <3>1, <3>2, <3>3
  <2>5. CASE PostEmpty(t)
    <3>1. (\E to \in {"ended", "consume"} : Goto(t, "post", to)) /\ full' = full /\ empty' = empty + 1
      BY <1>6, <2>5 DEF PostEmpty, SemPost
    <3>2. a' = a /\ b' = b /\ c' = c /\ d' = d - 1
      BY <1>2, <1>6, <3>1 DEF Behind
    <3>3. ~Put(t) /\ ~Take(t)
      BY <3>1 DEF Put, Take, Goto
    <3> QED
      BY <1>1, <1>3, <1>4, <2>5, <3>1, <3>2, <3>3
  <2>6. CASE Consume(t)
    <3>1. Goto(t, "consume", "full") /\ full' = full /\ empty' = empty
      BY <1>6, <2>6 DEF Consume
    <3>2. a' = a /\ b' = b /\ c' = c /\ d' = d
      BY <1>2, <1>6, <3>1 DEF Behind
    <3>3. ~Put(t) /\ ~Take(t)
      BY <3>1 DEF Put, Take, Goto
    <3> QED
      BY <1>1, <1>3, <1>4, <2>6, <3>1, <3>2, <3>3
  <2> QED
    BY <1>6, <2>1, <2>2, <2>3, <2>4, <2>5, <2>6, StepKinds
<1> QED
  BY <1>5, <1>6, StepKinds

-----------------------------------------------------------------------------
(* Types and the mutex.                                                    *)

\* tail % SLOTS and head % SLOTS, which are at most SLOTS.
LEMMA WrapIs ==
  ASSUME NEW h \in 0 .. Slots
  PROVE  Wrap(h) = Around(h) /\ Around(h) \in Slot
<1>1. Slots \in Nat /\ Slots > 0
  BY BufferAssumption
<1>2. CASE h = Slots
  BY <1>1, <1>2 DEF Wrap, Around, Slot
<1>3. CASE h < Slots
  BY <1>1, <1>3 DEF Wrap, Around, Slot
<1> QED
  BY <1>1, <1>2, <1>3

\* Whoever puts or takes, or wraps, is alone in the buffer, so that no other
\* index is waiting for its % SLOTS.
LEMMA Alone ==
  ASSUME TypeOK, MutexInv, BufferInv, NEW t \in Thread, pc[t] \in Critical
  PROVE  /\ mutex = 0
         /\ \A u \in Thread \ {t} : pc[u] \notin Critical
         /\ pc[t] # "wrap" => head \in Slot /\ tail \in Slot
         /\ pc[t] = "wrap" /\ t \in Producers => head \in Slot
         /\ pc[t] = "wrap" /\ t \in Consumers => tail \in Slot
<1>1. mutex = 0 /\ \A u \in Thread \ {t} : pc[u] \notin Critical
  BY DEF MutexInv, TypeOK, At
<1>2. head \notin Slot => \E c \in Consumers : pc[c] = "wrap"
  BY BufferAssumption DEF BufferInv, TypeOK, Slot
<1>3. tail \notin Slot => \E p \in Producers : pc[p] = "wrap"
  BY BufferAssumption DEF BufferInv, TypeOK, Slot
<1> QED
  BY <1>1, <1>2, <1>3, BufferAssumption DEF Thread, Critical

\* The types.
LEMMA TypeStep ==
  ASSUME ProgramInv, NEW t \in Thread, Step(t)
  PROVE  TypeOK'
<1>1. TypeOK /\ MutexInv /\ BufferInv /\ ItemInv
  BY DEF ProgramInv
<1>2. Slots \in Nat \ {0} /\ Done \in Nat
  BY BufferAssumption
<1>3. ASSUME NEW from, NEW to, Goto(t, from, to),
             \/ t \in Producers /\ t \notin Consumers /\ to \in ProducerPc
             \/ t \in Consumers /\ t \notin Producers /\ to \in ConsumerPc
      PROVE  /\ pc' \in [Thread -> ProducerPc \cup ConsumerPc]
             /\ \A p \in Producers : pc'[p] \in ProducerPc
             /\ \A c \in Consumers : pc'[c] \in ConsumerPc
  BY <1>1, <1>3 DEF TypeOK, Goto, Thread
<1>4. /\ pc' \in [Thread -> ProducerPc \cup ConsumerPc]
      /\ \A p \in Producers : pc'[p] \in ProducerPc
      /\ \A c \in Consumers : pc'[c] \in ConsumerPc
  BY <1>1, <1>3, StepKinds DEF Produce, WaitEmpty, Lock, Put, WrapTail, Unlock,
     PostFull, WaitFull, Take, WrapHead, PostEmpty, Consume, ProducerPc, ConsumerPc
<1>5. mutex' \in {0, 1} /\ full' \in Nat /\ empty' \in Nat
  <2>1. CASE Unlock(t)
    <3>1. mutex = 0
      BY <1>1, <2>1, Alone DEF Unlock, Goto, Critical
    <3> QED
      BY <1>1, <2>1, <3>1 DEF Unlock, SemPost, TypeOK
  <2>2. CASE ~Unlock(t)
    BY <1>1, <2>2 DEF TypeOK, Step, Produce, WaitEmpty, Lock, Put, WrapTail,
       PostFull, WaitFull, Take, WrapHead, PostEmpty, Consume, SemWait, SemPost
  <2> QED
    BY <2>1, <2>2
<1>6. queue' \in [Slot -> Int] /\ item' \in [Thread -> Int] /\ next' \in 0 .. Done
  <2>1. CASE Produce(t)
    BY <1>1, <1>2, <2>1 DEF Produce, TypeOK, ItemsLeft, NextItem
  <2>2. CASE Put(t)
    BY <1>1, <2>2 DEF Put, TypeOK
  <2>3. CASE Take(t)
    <3>1. queue[head] \in Int
      BY <1>1, <2>3, Alone DEF Take, Goto, Critical, TypeOK
    <3> QED
      BY <1>1, <2>3, <3>1 DEF Take, TypeOK
  <2>4. CASE ~Produce(t) /\ ~Put(t) /\ ~Take(t)
    BY <1>1, <2>4 DEF TypeOK, Step, WaitEmpty, Lock, WrapTail, Unlock,
       PostFull, WaitFull, WrapHead, PostEmpty, Consume
  <2> QED
    BY <2>1, <2>2, <2>3, <2>4
<1>7. head' \in 0 .. Slots /\ tail' \in 0 .. Slots
  <2>1. CASE Put(t) \/ Take(t)
    <3>1. head \in Slot /\ tail \in Slot
      BY <1>1, <2>1, Alone DEF Put, Take, Goto, Critical
    <3>2. head' \in {head, head + 1} /\ tail' \in {tail, tail + 1}
      BY <2>1 DEF Put, Take
    <3> QED
      BY <1>2, <3>1, <3>2 DEF Slot
  <2>2. CASE WrapTail(t) \/ WrapHead(t)
    <3>1. Wrap(head) \in Slot /\ Wrap(tail) \in Slot
      BY <1>1, WrapIs DEF TypeOK
    <3> QED
      BY <1>1, <1>2, <2>2, <3>1 DEF WrapTail, WrapHead, Slot, TypeOK
  <2>3. CASE ~Put(t) /\ ~Take(t) /\ ~WrapTail(t) /\ ~WrapHead(t)
    BY <1>1, <2>3 DEF TypeOK, Step, Produce, WaitEmpty, Lock, Unlock,
       PostFull, WaitFull, PostEmpty, Consume
  <2> QED
    BY <2>1, <2>2, <2>3
<1>8. consumed' \subseteq 0 .. next' - 1
  <2>1. CASE Consume(t)
    <3>1. item[t] \in 0 .. next - 1
      <4>1. t \in Consumers /\ item[t] >= 0
        BY <1>1, <2>1, StepKinds DEF Consume, Goto, ItemInv, TypeOK, ProducerPc
      <4> QED
        BY <1>1, <4>1 DEF ItemInv, TypeOK
    <3> QED
      BY <1>1, <2>1, <3>1 DEF Consume, TypeOK
  <2>2. CASE ~Consume(t)
    <3>1. consumed' = consumed
      BY <2>2 DEF Step, Produce, WaitEmpty, Lock, Put, WrapTail, Unlock,
         PostFull, WaitFull, Take, WrapHead, PostEmpty
    <3>2. next' = next \/ next' = next + 1
      BY DEF Step, Produce, WaitEmpty, Lock, Put, WrapTail, Unlock, NextItem,
         PostFull, WaitFull, Take, WrapHead, PostEmpty, Consume
    <3> QED
      BY <1>1, <3>1, <3>2 DEF TypeOK
  <2> QED
    BY <2>1, <2>2
<1> QED
  BY <1>4, <1>5, <1>6, <1>7, <1>8 DEF TypeOK


\* Lock and Unlock alone enter and leave the critical sections.
LEMMA MutexStep ==
  ASSUME ProgramInv, NEW t \in Thread, Step(t)
  PROVE  MutexInv'
<1>1. TypeOK /\ MutexInv /\ BufferInv
  BY DEF ProgramInv
<1> DEFINE C == At(Thread, Critical)
<1>2. ASSUME NEW from, NEW to, Goto(t, from, to)
      PROVE  C' = IF from \notin Critical /\ to \in Critical THEN C \cup {t}
                  ELSE IF from \in Critical /\ to \notin Critical THEN C \ {t} ELSE C
  BY <1>1, <1>2, AtMoves
<1>3. (mutex = 1 <=> C = {}) /\ \A u, v \in C : u = v
  BY <1>1 DEF MutexInv
<1>4. (mutex' = 1 <=> C' = {}) /\ (\A u, v \in C' : u = v) => MutexInv'
  BY DEF MutexInv
<1>5. pc[t] \in Critical => C = {t}
  BY <1>1 DEF MutexInv, At
<1> HIDE DEF C
<1>6. CASE Lock(t)
  <2>1. /\ mutex = 1 /\ mutex' = 0
        /\ \E to \in {"put", "take"} : Goto(t, "lock", to)
    BY <1>1, <1>6 DEF Lock, SemWait, TypeOK
  <2>2. C' = C \cup {t}
    BY <1>2, <2>1 DEF Critical
  <2>3. C' = {t} /\ mutex' # 1
    BY <1>3, <2>1, <2>2
  <2> QED
    BY <1>4, <2>3
<1>7. CASE Unlock(t)
  <2>1. Goto(t, "unlock", "post") /\ pc[t] \in Critical
    BY <1>7 DEF Unlock, Goto, Critical
  <2>2. mutex = 0 /\ mutex' = 1
    BY <1>1, <1>7, <2>1, Alone DEF Unlock, SemPost
  <2>3. C' = {}
    BY <1>2, <1>5, <2>1 DEF Critical
  <2> QED
    BY <1>4, <2>2, <2>3
<1>8. CASE ~Lock(t) /\ ~Unlock(t)
  <2>1. /\ mutex' = mutex
        /\ \/ Goto(t, "produce", "empty") \/ Goto(t, "empty", "lock")
           \/ Goto(t, "put", "wrap") \/ Goto(t, "wrap", "unlock")
           \/ (\E to \in {"ended", "produce", "consume"} : Goto(t, "post", to))
           \/ Goto(t, "full", "lock") \/ Goto(t, "take", "wrap")
           \/ Goto(t, "consume", "full")
    BY <1>8 DEF Step, Produce, WaitEmpty, Put, WrapTail, PostFull, WaitFull, Take,
       WrapHead, PostEmpty, Consume
  <2>2. C' = C
    BY <1>2, <2>1 DEF Critical
  <2> QED
    BY <1>1, <1>3, <1>4, <2>1, <2>2
<1> QED
  BY <1>6, <1>7, <1>8

-----------------------------------------------------------------------------
(* The ring buffer.                                                        *)

\* There is room for the item of a producer that puts, and an item for a
\* consumer that takes: the thread itself is counted.
LEMMA NeverOverrun ==
  ASSUME TypeOK, BufferInv, NEW t \in Thread
  PROVE  /\ Count \in 0 .. Slots
         /\ t \in Producers /\ pc[t] = "put" => Count < Slots
         /\ t \in Consumers /\ pc[t] = "take" => Count > 0
<1> DEFINE a == Cardinality(At(Producers, Behind))
           b == Cardinality(At(Consumers, {"lock", "take"}))
           c == Cardinality(At(Producers, {"lock", "put"}))
           d == Cardinality(At(Consumers, Behind))
<1>1. a \in Nat /\ b \in Nat /\ c \in Nat /\ d \in Nat
  BY AtCounted
<1>2. t \in Producers /\ pc[t] = "put" => c # 0
  <2>1. t \in Producers /\ pc[t] = "put" => At(Producers, {"lock", "put"}) # {}
    BY DEF At
  <2> QED
    BY <2>1, AtCounted, FS_EmptySet
<1>3. t \in Consumers /\ pc[t] = "take" => b # 0
  <2>1. t \in Consumers /\ pc[t] = "take" => At(Consumers, {"lock", "take"}) # {}
    BY DEF At
  <2> QED
    BY <2>1, AtCounted, FS_EmptySet
<1>4. Count = full + a + b /\ Room = empty + c + d /\ full \in Nat /\ empty \in Nat
  BY DEF Count, Room, TypeOK
<1>5. Count + Room = Slots /\ Slots \in Nat
  BY BufferAssumption DEF BufferInv
<1> HIDE DEF a, b, c, d
<1> QED
  BY <1>1, <1>2, <1>3, <1>4, <1>5

\* What each step does to the buffer and its indices.
LEMMA BufferMoves ==
  ASSUME TypeOK, MutexInv, BufferInv, NEW t \in Thread, Step(t)
  PROVE  \/ /\ Put(t) /\ t \in Producers /\ t \notin Consumers /\ head \in Slot
            /\ tail \in Slot /\ head' = head /\ tail' = tail + 1
            /\ Count < Slots /\ Count' = Count + 1
         \/ /\ Take(t) /\ t \in Consumers /\ t \notin Producers /\ head \in Slot
            /\ tail \in Slot /\ head' = head + 1 /\ tail' = tail /\ queue' = queue
            /\ Count > 0 /\ Count' = Count - 1
         \/ /\ ~Put(t) /\ ~Take(t) /\ queue' = queue /\ Count' = Count
            /\ Around(head') = Around(head) /\ Around(tail') = Around(tail)
<1>1. Put(t) => t \in Producers /\ t \notin Consumers /\ ~Take(t)
  BY StepKinds DEF Put, Take, WaitFull, Lock, WrapHead, Unlock, PostEmpty, Consume, Goto
<1>2. Take(t) => t \in Consumers /\ t \notin Producers
  BY StepKinds DEF Take, Produce, WaitEmpty, Lock, Put, WrapTail, Unlock, PostFull, Goto
<1>3. CASE Put(t)
  <2>1. pc[t] = "put" /\ pc[t] \in Critical
    BY <1>3 DEF Put, Goto, Critical
  <2>2. head \in Slot /\ tail \in Slot /\ Count < Slots /\ Count' = Count + 1
    BY <1>1, <1>3, <2>1, Alone, NeverOverrun, CountStep
  <2> QED
    BY <1>1, <1>3, <2>2 DEF Put
<1>4. CASE Take(t)
  <2>1. pc[t] = "take" /\ pc[t] \in Critical
    BY <1>4 DEF Take, Goto, Critical
  <2>2. head \in Slot /\ tail \in Slot /\ Count > 0 /\ Count' = Count - 1
    BY <1>2, <1>4, <2>1, Alone, NeverOverrun, CountStep
  <2> QED
    BY <1>2, <1>4, <2>2 DEF Take
<1>5. CASE ~Put(t) /\ ~Take(t)
  <2>1. Count' = Count
    BY <1>5, CountStep
  <2>2. Around(Wrap(head)) = Around(head) /\ Around(Wrap(tail)) = Around(tail)
    <3>1. /\ Wrap(head) = Around(head) /\ Around(head) \in Slot
          /\ Wrap(tail) = Around(tail) /\ Around(tail) \in Slot
      BY WrapIs DEF TypeOK
    <3> QED
      BY <3>1, BufferAssumption DEF Around, Slot
  <2>3. /\ queue' = queue
        /\ head' = head \/ head' = Wrap(head)
        /\ tail' = tail \/ tail' = Wrap(tail)
    BY <1>5 DEF Step, Produce, WaitEmpty, Lock, WrapTail, Unlock, PostFull,
       WaitFull, WrapHead, PostEmpty, Consume
  <2> QED
    BY <1>5, <2>1, <2>2, <2>3
<1> QED
  BY <1>3, <1>4, <1>5

\* The semaphores go on agreeing with the indices.
LEMMA BufferStep ==
  ASSUME ProgramInv, NEW t \in Thread, Step(t)
  PROVE  BufferInv'
<1>1. TypeOK /\ MutexInv /\ BufferInv
  BY DEF ProgramInv
<1>2. Slots \in Nat \ {0}
  BY BufferAssumption
<1>3. \A u \in Thread \ {t} : pc'[u] = pc[u]
  BY <1>1 DEF TypeOK, Step, Produce, WaitEmpty, Lock, Put, WrapTail, Unlock, PostFull,
     WaitFull, Take, WrapHead, PostEmpty, Consume, Goto
<1>4. head' = Slots => \E c \in Consumers : pc'[c] = "wrap"
  <2> SUFFICES ASSUME head' = Slots PROVE \E c \in Consumers : pc'[c] = "wrap"
    OBVIOUS
  <2>1. CASE Take(t)
    <3>1. t \in Consumers
      BY <1>1, <2>1, BufferMoves DEF Take, Put, Goto
    <3> QED
      BY <1>1, <2>1, <3>1 DEF Take, Goto, TypeOK
  <2>2. CASE WrapHead(t)
    <3>1. head' \in Slot
      BY <1>1, <2>2, WrapIs DEF WrapHead, TypeOK
    <3> QED
      BY <1>2, <3>1 DEF Slot
  <2>3. CASE ~Take(t) /\ ~WrapHead(t)
    <3>1. head = Slots
      BY <2>3 DEF Step, Produce, WaitEmpty, Lock, Put, WrapTail, Unlock, PostFull,
         WaitFull, PostEmpty, Consume
    <3>2. PICK c \in Consumers : pc[c] = "wrap"
      BY <1>1, <3>1 DEF BufferInv
    <3>3. c # t
      BY <1>1, <2>3, <3>2, StepKinds DEF WaitFull, Lock, Take, Unlock, PostEmpty,
         Consume, Goto
    <3> QED
      BY <1>3, <3>2, <3>3 DEF Thread
  <2> QED
    BY <2>1, <2>2, <2>3
<1>5. tail' = Slots => \E p \in Producers : pc'[p] = "wrap"
  <2> SUFFICES ASSUME tail' = Slots PROVE \E p \in Producers : pc'[p] = "wrap"
    OBVIOUS
  <2>1. CASE Put(t)
    <3>1. t \in Producers
      BY <1>1, <2>1, BufferMoves DEF Take, Put, Goto
    <3> QED
      BY <1>1, <2>1, <3>1 DEF Put, Goto, TypeOK
  <2>2. CASE WrapTail(t)
    <3>1. tail' \in Slot
      BY <1>1, <2>2, WrapIs DEF WrapTail, TypeOK
    <3> QED
      BY <1>2, <3>1 DEF Slot
  <2>3. CASE ~Put(t) /\ ~WrapTail(t)
    <3>1. tail = Slots
      BY <2>3 DEF Step, Produce, WaitEmpty, Lock, Take, WrapHead, Unlock, PostFull,
         WaitFull, PostEmpty, Consume
    <3>2. PICK p \in Producers : pc[p] = "wrap"
      BY <1>1, <3>1 DEF BufferInv
    <3>3. p # t
      BY <1>1, <2>3, <3>2, StepKinds DEF Produce, WaitEmpty, Lock, Put, Unlock,
         PostFull, Goto
    <3> QED
      BY <1>3, <3>2, <3>3 DEF Thread
  <2> QED
    BY <2>1, <2>2, <2>3
<1>6. Count' + Room' = Slots
  BY <1>1, <1>2, CountStep, CountNat DEF BufferInv
<1>7. Around(tail') = IF Around(head') + Count' < Slots THEN Around(head') + Count'
                      ELSE Around(head') + Count' - Slots
  <2>1. /\ Count \in Nat /\ Count <= Slots
        /\ Around(tail) = IF Around(head) + Count < Slots THEN Around(head) + Count
                          ELSE Around(head) + Count - Slots
    BY <1>1, <1>2, NeverOverrun DEF BufferInv
  <2>2. CASE /\ head \in Slot /\ tail \in Slot /\ head' = head /\ tail' = tail + 1
             /\ Count < Slots /\ Count' = Count + 1
    BY <1>2, <2>1, <2>2 DEF Around, Slot
  <2>3. CASE /\ head \in Slot /\ tail \in Slot /\ head' = head + 1 /\ tail' = tail
             /\ Count > 0 /\ Count' = Count - 1
    BY <1>2, <2>1, <2>3 DEF Around, Slot
  <2>4. CASE /\ Count' = Count /\ Around(head') = Around(head)
             /\ Around(tail') = Around(tail)
    BY <2>1, <2>4
  <2> QED
    BY <1>1, <2>2, <2>3, <2>4, BufferMoves
<1> QED
  BY <1>4, <1>5, <1>6, <1>7 DEF BufferInv, Around


\* Put fills the slot at tail, Take empties the one at head, and no other
\* slot changes.
LEMMA FilledStep ==
  ASSUME TypeOK, MutexInv, BufferInv, NEW t \in Thread, Step(t)
  PROVE  /\ Put(t) => /\ tail \in Slot \ Filled /\ Filled' = Filled \cup {tail}
                      /\ \A s \in Slot : Offset(s)' = Count' - 1 => s = tail
         /\ Take(t) => /\ head \in Filled /\ Filled' = Filled \ {head}
                       /\ \A s \in Slot : Offset(s)' = Count' - 1 => Offset(s) = Count - 1
         /\ ~Put(t) /\ ~Take(t) => /\ Filled' = Filled
                                   /\ \A s \in Slot : Offset(s)' = Offset(s)
<1>1. Slots \in Nat \ {0} /\ Count \in 0 .. Slots
  BY BufferAssumption, NeverOverrun
<1>2. Around(tail) = IF Around(head) + Count < Slots THEN Around(head) + Count
                     ELSE Around(head) + Count - Slots
  BY DEF BufferInv
<1>3. \A s : Offset(s)' = IF s >= Around(head') THEN s - Around(head')
                          ELSE s - Around(head') + Slots
  BY DEF Offset, Around
<1>4. Filled' = {s \in Slot : Offset(s)' < Count'}
  BY DEF Filled, Slot
<1>5. ASSUME Put(t)
      PROVE  /\ tail \in Slot \ Filled /\ Filled' = Filled \cup {tail}
             /\ \A s \in Slot : Offset(s)' = Count' - 1 => s = tail
  <2>1. /\ head \in Slot /\ tail \in Slot /\ head' = head
        /\ Count < Slots /\ Count' = Count + 1
    BY <1>5, BufferMoves DEF Put, Take, Goto
  <2>2. Around(tail) = tail /\ Around(head) = head /\ Around(head') = head
    BY <1>1, <2>1 DEF Around, Slot
  <2>3. \A s \in Slot : Offset(s)' = Offset(s)
    BY <1>3, <2>2 DEF Offset
  <2>4. \A s \in Slot : Offset(s) \in Nat /\ (Offset(s) = Count <=> s = tail)
    BY <1>1, <1>2, <2>1, <2>2 DEF Offset, Slot
  <2>5. Filled' = Filled \cup {tail} /\ tail \notin Filled
    <3>1. \A s \in Slot : Offset(s)' < Count' <=> Offset(s) < Count \/ s = tail
      BY <1>1, <2>1, <2>3, <2>4
    <3>2. \A s : s \in Filled' <=> s \in Slot /\ (Offset(s) < Count \/ s = tail)
      BY <1>4, <3>1
    <3>3. \A s : s \in Filled <=> s \in Slot /\ Offset(s) < Count
      BY DEF Filled
    <3>4. ~(Offset(tail) < Count)
      BY <1>1, <2>1, <2>4
    <3>5. \A s : s \in Filled' <=> s \in Filled \cup {tail}
      BY <2>1, <3>2, <3>3
    <3>6. Filled' = Filled \cup {tail}
      BY <3>5, SetExtensionality
    <3> QED
      BY <3>3, <3>4, <3>6
  <2>6. \A s \in Slot : Offset(s)' = Count' - 1 => s = tail
    BY <1>1, <2>1, <2>3, <2>4
  <2> QED
    BY <2>1, <2>5, <2>6
<1>6. ASSUME Take(t)
      PROVE  /\ head \in Filled /\ Filled' = Filled \ {head}
             /\ \A s \in Slot : Offset(s)' = Count' - 1 => Offset(s) = Count - 1
  <2>1. /\ head \in Slot /\ head' = head + 1 /\ Count > 0 /\ Count' = Count - 1
    BY <1>6, BufferMoves DEF Put, Take, Goto
  <2>2. Around(head) = head /\ Around(head') = IF head + 1 = Slots THEN 0 ELSE head + 1
    BY <1>1, <2>1 DEF Around, Slot
  <2>3. \A s \in Slot : Offset(s)' = IF s = head THEN Slots - 1 ELSE Offset(s) - 1
    BY <1>1, <1>3, <2>1, <2>2 DEF Offset, Slot
  <2>4. \A s \in Slot : Offset(s) \in Nat /\ (Offset(s) = 0 <=> s = head)
    BY <1>1, <2>1, <2>2 DEF Offset, Slot
  <2>5. Filled' = Filled \ {head} /\ head \in Filled
    BY <1>1, <1>4, <2>1, <2>3, <2>4 DEF Filled
  <2>6. \A s \in Slot : Offset(s)' = Count' - 1 => Offset(s) = Count - 1
    BY <1>1, <2>1, <2>3, <2>4
  <2> QED
    BY <2>5, <2>6
<1>7. ASSUME ~Put(t), ~Take(t)
      PROVE  Filled' = Filled /\ \A s \in Slot : Offset(s)' = Offset(s)
  <2>1. Count' = Count /\ Around(head') = Around(head)
    BY <1>7, BufferMoves
  <2>2. \A s \in Slot : Offset(s)' = Offset(s)
    BY <1>3, <2>1 DEF Offset
  <2> QED
    BY <1>4, <2>1, <2>2 DEF Filled
<1> QED
  BY <1>5, <1>6, <1>7

-----------------------------------------------------------------------------
(* The items.                                                              *)

\* The slots that hold v, an item or -1.
LEMMA HoldingStep ==
  ASSUME TypeOK, MutexInv, BufferInv, NEW t \in Thread, Step(t), NEW v
  PROVE  /\ Put(t) => Holding(v)' = IF item[t] = v THEN Holding(v) \cup {tail}
                                    ELSE Holding(v)
         /\ Put(t) => tail \notin Holding(v)
         /\ Take(t) => Holding(v)' = IF queue[head] = v THEN Holding(v) \ {head}
                                     ELSE Holding(v)
         /\ Take(t) => (head \in Holding(v) <=> queue[head] = v)
         /\ ~Put(t) /\ ~Take(t) => Holding(v)' = Holding(v)
<1>1. Holding(v)' = {s \in Filled' : queue'[s] = v}
  BY DEF Holding
<1>2. Filled \subseteq Slot
  BY DEF Filled
<1>3. ASSUME Put(t)
      PROVE  /\ Holding(v)' = IF item[t] = v THEN Holding(v) \cup {tail} ELSE Holding(v)
             /\ tail \notin Holding(v)
  <2>1. tail \in Slot \ Filled /\ Filled' = Filled \cup {tail}
    BY <1>3, FilledStep
  <2>2. \A s \in Slot : queue'[s] = IF s = tail THEN item[t] ELSE queue[s]
    BY <1>3 DEF Put, TypeOK
  <2> QED
    BY <1>1, <1>2, <2>1, <2>2 DEF Holding
<1>4. ASSUME Take(t)
      PROVE  /\ Holding(v)' = IF queue[head] = v THEN Holding(v) \ {head} ELSE Holding(v)
             /\ head \in Holding(v) <=> queue[head] = v
  <2>1. head \in Filled /\ Filled' = Filled \ {head} /\ queue' = queue
    BY <1>4, FilledStep DEF Take
  <2> QED
    BY <1>1, <2>1 DEF Holding
<1>5. ASSUME ~Put(t), ~Take(t)
      PROVE  Holding(v)' = Holding(v)
  <2>1. Filled' = Filled /\ queue' = queue
    BY <1>5, FilledStep, BufferMoves
  <2> QED
    BY <1>1, <2>1 DEF Holding
<1> QED
  BY <1>3, <1>4, <1>5

\* The slots, and the threads, that have v can be counted.
LEMMA PlacesCounted ==
  \A v : /\ IsFiniteSet(Holding(v)) /\ Cardinality(Holding(v)) \in Nat
         /\ IsFiniteSet(Carriers(v)) /\ Cardinality(Carriers(v)) \in Nat
         /\ IsFiniteSet(Takers(v)) /\ Cardinality(Takers(v)) \in Nat
         /\ IsFiniteSet(Eaten(v)) /\ Cardinality(Eaten(v)) \in Nat
<1>1. IsFiniteSet(Slot)
  BY BufferAssumption, FS_Interval DEF Slot
<1>2. \A v : /\ Holding(v) \subseteq Slot /\ Carriers(v) \subseteq Producers
             /\ Takers(v) \subseteq Consumers /\ Eaten(v) \subseteq {v}
  BY DEF Holding, Filled, Carriers, Takers, Eaten
<1>3. \A v : IsFiniteSet({v})
  BY FS_Singleton
<1> QED
  BY <1>1, <1>2, <1>3, BufferAssumption, Counted

\* Which threads carry item x to the buffer or from it.
LEMMA CarriersStep ==
  ASSUME TypeOK, NEW t \in Thread, Step(t), NEW x \in Nat
  PROVE  /\ Carriers(x)' = IF Produce(t) /\ item'[t] = x THEN Carriers(x) \cup {t}
                           ELSE IF Put(t) /\ item[t] = x THEN Carriers(x) \ {t}
                           ELSE Carriers(x)
         /\ Takers(x)' = IF Take(t) /\ item'[t] = x THEN Takers(x) \cup {t}
                         ELSE IF Consume(t) /\ item[t] = x THEN Takers(x) \ {t}
                         ELSE Takers(x)
         /\ Produce(t) => t \notin Carriers(x)
         /\ Put(t) => (t \in Carriers(x) <=> item[t] = x)
         /\ Take(t) => t \notin Takers(x)
         /\ Consume(t) => (t \in Takers(x) <=> item[t] = x)
<1>1. /\ Carriers(x)' = {p \in Producers : item'[p] = x /\ pc'[p] \in Carrying}
      /\ Takers(x)' = {c \in Consumers : item'[c] = x /\ pc'[c] \in Taken}
  BY DEF Carriers, Takers
<1>2. Producers \subseteq Thread /\ Consumers \subseteq Thread
  BY DEF Thread
<1>3. CASE t \in Producers /\ t \notin Consumers
  <2>1. Takers(x)' = Takers(x)
    <3>1. \A c \in Consumers : item'[c] = item[c] /\ pc'[c] = pc[c]
      BY <1>2, <1>3, StepKinds DEF TypeOK, Produce, WaitEmpty, Lock, Put, WrapTail,
         Unlock, PostFull, Goto
    <3> QED
      BY <1>1, <3>1 DEF Takers
  <2>2. \A p \in Producers \ {t} : item'[p] = item[p] /\ pc'[p] = pc[p]
    BY <1>2, <1>3, StepKinds DEF TypeOK, Produce, WaitEmpty, Lock, Put, WrapTail,
       Unlock, PostFull, Goto
  <2>3. ~Take(t) /\ ~Consume(t)
    BY <1>3, StepKinds DEF TypeOK, ProducerPc, Take, Consume, Goto
  <2>4. CASE Produce(t)
    <3>1. pc[t] = "produce" /\ pc'[t] = "empty" /\ ~Put(t)
      BY <2>4 DEF Produce, Put, Goto, TypeOK
    <3> QED
      BY <1>1, <1>3, <2>1, <2>2, <2>3, <2>4, <3>1 DEF Carriers, Carrying
  <2>5. CASE Put(t)
    <3>1. pc[t] = "put" /\ pc'[t] = "wrap" /\ ~Produce(t)
      BY <2>5 DEF Produce, Put, Goto, TypeOK
    <3> QED
      BY <1>1, <1>3, <2>1, <2>2, <2>3, <2>5, <3>1 DEF Carriers, Carrying
  <2>6. CASE ~Produce(t) /\ ~Put(t)
    <3>1. item'[t] = item[t] /\ (pc'[t] \in Carrying <=> pc[t] \in Carrying)
      BY <1>3, <2>6, StepKinds DEF TypeOK, WaitEmpty, Lock, WrapTail, Unlock, PostFull,
         Goto, Carrying
    <3> QED
      BY <1>1, <1>3, <2>1, <2>2, <2>3, <2>6, <3>1 DEF Carriers
  <2> QED
    BY <2>4, <2>5, <2>6
<1>4. CASE t \in Consumers /\ t \notin Producers
  <2>1. Carriers(x)' = Carriers(x)
    <3>1. \A p \in Producers : item'[p] = item[p] /\ pc'[p] = pc[p]
      BY <1>2, <1>4, StepKinds DEF TypeOK, WaitFull, Lock, Take, WrapHead, Unlock,
         PostEmpty, Consume, Goto
    <3> QED
      BY <1>1, <3>1 DEF Carriers
  <2>2. \A c \in Consumers \ {t} : item'[c] = item[c] /\ pc'[c] = pc[c]
    BY <1>2, <1>4, StepKinds DEF TypeOK, WaitFull, Lock, Take, WrapHead, Unlock,
       PostEmpty, Consume, Goto
  <2>3. ~Produce(t) /\ ~Put(t)
    BY <1>4, StepKinds DEF TypeOK, ConsumerPc, Produce, Put, Goto
  <2>4. CASE Take(t)
    <3>1. pc[t] = "take" /\ pc'[t] = "wrap" /\ ~Consume(t)
      BY <2>4 DEF Take, Consume, Goto, TypeOK
    <3> QED
      BY <1>1, <1>4, <2>1, <2>2, <2>3, <2>4, <3>1 DEF Takers, Taken
  <2>5. CASE Consume(t)
    <3>1. pc[t] = "consume" /\ pc'[t] = "full" /\ ~Take(t)
      BY <2>5 DEF Take, Consume, Goto, TypeOK
    <3> QED
      BY <1>1, <1>4, <2>1, <2>2, <2>3, <2>5, <3>1 DEF Takers, Taken
  <2>6. CASE ~Take(t) /\ ~Consume(t)
    <3>1. item'[t] = item[t] /\ (item[t] = x => (pc'[t] \in Taken <=> pc[t] \in Taken))
      BY <1>4, <2>6, StepKinds DEF TypeOK, WaitFull, Lock, WrapHead, Unlock, PostEmpty,
         Goto, Taken
    <3> QED
      BY <1>1, <1>4, <2>1, <2>2, <2>3, <2>6, <3>1 DEF Takers
  <2> QED
    BY <2>4, <2>5, <2>6
<1> QED
  BY <1>3, <1>4, StepKinds


\* How the numbers of threads and slots that have item x change.
LEMMA PlacesStep ==
  ASSUME TypeOK, MutexInv, BufferInv, NEW t \in Thread, Step(t), NEW x \in Nat
  PROVE  /\ Cardinality(Carriers(x))' =
              IF Produce(t) /\ item'[t] = x THEN Cardinality(Carriers(x)) + 1
              ELSE IF Put(t) /\ item[t] = x THEN Cardinality(Carriers(x)) - 1
              ELSE Cardinality(Carriers(x))
         /\ Cardinality(Takers(x))' =
              IF Take(t) /\ queue[head] = x THEN Cardinality(Takers(x)) + 1
              ELSE IF Consume(t) /\ item[t] = x THEN Cardinality(Takers(x)) - 1
              ELSE Cardinality(Takers(x))
         /\ Cardinality(Holding(x))' =
              IF Put(t) /\ item[t] = x THEN Cardinality(Holding(x)) + 1
              ELSE IF Take(t) /\ queue[head] = x THEN Cardinality(Holding(x)) - 1
              ELSE Cardinality(Holding(x))
<1>1. IsFiniteSet(Carriers(x)) /\ IsFiniteSet(Takers(x)) /\ IsFiniteSet(Holding(x))
  BY PlacesCounted
<1>2. Take(t) => item'[t] = queue[head]
  BY DEF Take, TypeOK
<1>3. Cardinality(Carriers(x))' =
              IF Produce(t) /\ item'[t] = x THEN Cardinality(Carriers(x)) + 1
              ELSE IF Put(t) /\ item[t] = x THEN Cardinality(Carriers(x)) - 1
              ELSE Cardinality(Carriers(x))
  <2>1. /\ Carriers(x)' = IF Produce(t) /\ item'[t] = x THEN Carriers(x) \cup {t}
                          ELSE IF Put(t) /\ item[t] = x THEN Carriers(x) \ {t}
                          ELSE Carriers(x)
        /\ Produce(t) => t \notin Carriers(x)
        /\ Put(t) => (t \in Carriers(x) <=> item[t] = x)
    BY CarriersStep
  <2>2. CASE Produce(t) /\ item'[t] = x
    BY <1>1, <2>1, <2>2, Gains
  <2>3. CASE ~(Produce(t) /\ item'[t] = x) /\ Put(t) /\ item[t] = x
    BY <1>1, <2>1, <2>3, Loses
  <2> QED
    BY <2>1, <2>2, <2>3
<1>4. Cardinality(Takers(x))' =
              IF Take(t) /\ queue[head] = x THEN Cardinality(Takers(x)) + 1
              ELSE IF Consume(t) /\ item[t] = x THEN Cardinality(Takers(x)) - 1
              ELSE Cardinality(Takers(x))
  <2>1. /\ Takers(x)' = IF Take(t) /\ queue[head] = x THEN Takers(x) \cup {t}
                        ELSE IF Consume(t) /\ item[t] = x THEN Takers(x) \ {t}
                        ELSE Takers(x)
        /\ Take(t) => t \notin Takers(x)
        /\ Consume(t) => (t \in Takers(x) <=> item[t] = x)
    BY <1>2, CarriersStep
  <2>2. CASE Take(t) /\ queue[head] = x
    BY <1>1, <2>1, <2>2, Gains
  <2>3. CASE ~(Take(t) /\ queue[head] = x) /\ Consume(t) /\ item[t] = x
    BY <1>1, <2>1, <2>3, Loses
  <2> QED
    BY <2>1, <2>2, <2>3
<1>5. Cardinality(Holding(x))' =
              IF Put(t) /\ item[t] = x THEN Cardinality(Holding(x)) + 1
              ELSE IF Take(t) /\ queue[head] = x THEN Cardinality(Holding(x)) - 1
              ELSE Cardinality(Holding(x))
  <2>1. Put(t) => ~Take(t)
    BY DEF Put, Take, Goto
  <2>2. CASE Put(t) /\ item[t] = x
    BY <1>1, <2>2, HoldingStep, Gains
  <2>3. CASE Take(t) /\ queue[head] = x
    BY <1>1, <2>1, <2>3, HoldingStep, Loses
  <2>4. CASE ~(Put(t) /\ item[t] = x) /\ ~(Take(t) /\ queue[head] = x)
    <3>1. Holding(x)' = Holding(x)
      BY <2>4, HoldingStep
    <3> QED
      BY <2>4, <3>1
  <2> QED
    BY <2>1, <2>2, <2>3, <2>4
<1> QED
  BY <1>3, <1>4, <1>5


\* What is in the slots and with the threads goes on being an item that was
\* made, or -1.
LEMMA ItemValues ==
  ASSUME ProgramInv, NEW t \in Thread, Step(t)
  PROVE  /\ next' \in Nat /\ next \in Nat /\ next' >= next
         /\ \A u \in Thread : item'[u] \in -1 .. next' - 1
         /\ \A s \in Filled' : queue'[s] \in -1 .. next' - 1
         /\ \A c \in Consumers : pc'[c] = "consume" => item'[c] >= 0
<1>1. TypeOK /\ MutexInv /\ BufferInv /\ ItemInv
  BY DEF ProgramInv
<1>2. next \in Nat /\ \A u \in Thread : item[u] \in Int
  BY <1>1, BufferAssumption DEF TypeOK
<1>3. next' \in Nat /\ next' >= next /\ (~Produce(t) => next' = next)
  BY <1>2 DEF Step, Produce, WaitEmpty, Lock, Put, WrapTail, Unlock, PostFull,
     WaitFull, Take, WrapHead, PostEmpty, Consume, NextItem
<1>4. \A u \in Thread \ {t} : item'[u] = item[u] /\ pc'[u] = pc[u]
  BY <1>1 DEF TypeOK, Step, Produce, WaitEmpty, Lock, Put, WrapTail, Unlock, PostFull,
     WaitFull, Take, WrapHead, PostEmpty, Consume, Goto
<1>5. item'[t] \in -1 .. next' - 1
  <2>1. CASE Produce(t)
    BY <1>1, <1>2, <2>1 DEF Produce, ItemsLeft, NextItem, TypeOK
  <2>2. CASE Take(t)
    <3>1. head \in Filled /\ item'[t] = queue[head]
      BY <1>1, <2>2, FilledStep DEF Take, TypeOK
    <3>2. ~Produce(t)
      BY <2>2 DEF Produce, Take, Goto
    <3> QED
      BY <1>1, <1>3, <3>1, <3>2 DEF ItemInv
  <2>3. CASE ~Produce(t) /\ ~Take(t)
    <3>1. item'[t] = item[t]
      BY <2>3 DEF Step, WaitEmpty, Lock, Put, WrapTail, Unlock, PostFull, WaitFull,
         WrapHead, PostEmpty, Consume
    <3> QED
      BY <1>1, <1>3, <2>3, <3>1 DEF ItemInv
  <2> QED
    BY <2>1, <2>2, <2>3
<1>6. \A u \in Thread : item'[u] \in -1 .. next' - 1
  <2>1. \A u \in Thread \ {t} : item'[u] \in -1 .. next - 1
    BY <1>1, <1>4 DEF ItemInv
  <2> QED
    BY <1>2, <1>3, <1>5, <2>1
<1>7. \A s \in Filled' : queue'[s] \in -1 .. next' - 1
  <2>1. CASE Put(t)
    <3>1. Filled' = Filled \cup {tail} /\ tail \in Slot /\ Filled \subseteq Slot
      BY <1>1, <2>1, FilledStep DEF Filled
    <3>2. \A s \in Slot : queue'[s] = IF s = tail THEN item[t] ELSE queue[s]
      BY <1>1, <2>1 DEF Put, TypeOK
    <3>3. next' = next
      BY <2>1 DEF Put
    <3> QED
      BY <1>1, <3>1, <3>2, <3>3 DEF ItemInv
  <2>2. CASE ~Put(t)
    <3>1. Filled' \subseteq Filled /\ queue' = queue
      BY <1>1, <2>2, FilledStep, BufferMoves
    <3>2. \A s \in Filled' : queue'[s] \in -1 .. next - 1
      BY <1>1, <3>1 DEF ItemInv
    <3> QED
      BY <1>2, <1>3, <3>2
  <2> QED
    BY <2>1, <2>2
<1>8. \A c \in Consumers : pc'[c] = "consume" => item'[c] >= 0
  <2>1. ASSUME t \in Consumers, pc'[t] = "consume"
        PROVE  item'[t] >= 0
    <3>1. t \notin Producers
      BY <2>1, BufferAssumption
    <3>2. PostEmpty(t) /\ ~(item[t] < 0)
      BY <1>1, <2>1, <3>1, StepKinds DEF TypeOK, WaitFull, Lock, Take, WrapHead, Unlock,
         PostEmpty, Consume, Goto
    <3> QED
      BY <1>2, <3>2 DEF PostEmpty
  <2> QED
    BY <1>1, <1>4, <2>1 DEF ItemInv, Thread
<1> QED
  BY <1>2, <1>3, <1>6, <1>7, <1>8

\* An item consumed is counted, and is counted once.
LEMMA ConsumedStep ==
  ASSUME ProgramInv, NEW t \in Thread, Step(t)
  PROVE  /\ Consume(t) => /\ item[t] \in 0 .. next - 1 /\ item[t] \notin consumed
                          /\ consumed' = consumed \cup {item[t]}
         /\ ~Consume(t) => consumed' = consumed
         /\ counter' = Cardinality(consumed)'
<1>1. TypeOK /\ ItemInv
  BY DEF ProgramInv
<1>2. next \in Nat
  BY <1>1, BufferAssumption DEF TypeOK
<1>3. IsFiniteSet(consumed) /\ Cardinality(consumed) \in Nat
  <2>1. IsFiniteSet(0 .. next - 1) /\ consumed \subseteq 0 .. next - 1
    BY <1>1, <1>2, FS_Interval DEF TypeOK
  <2> QED
    BY <2>1, Counted
<1>4. CASE Consume(t)
  <2>1. t \in Consumers /\ pc[t] = "consume"
    BY <1>1, <1>4, StepKinds DEF Consume, Goto, TypeOK, ProducerPc
  <2>2. item[t] \in 0 .. next - 1
    <3>1. item[t] \in -1 .. next - 1 /\ item[t] >= 0
      BY <1>1, <2>1 DEF ItemInv
    <3> QED
      BY <1>2, <3>1
  <2> DEFINE x == item[t]
  <2>3. x \in Nat /\ x \in 0 .. next - 1
    BY <1>2, <2>2
  <2> HIDE DEF x
  <2>4. Cardinality(Takers(x)) # 0
    <3>1. t \in Takers(x)
      BY <2>1 DEF Takers, Taken, x
    <3>2. Takers(x) \subseteq Consumers
      BY DEF Takers
    <3> QED
      BY <3>1, <3>2, BufferAssumption, Counted
  <2>5. Cardinality(Eaten(x)) = 0
    <3>1. /\ Cardinality(Carriers(x)) \in Nat /\ Cardinality(Takers(x)) \in Nat
          /\ Cardinality(Holding(x)) \in Nat /\ Cardinality(Eaten(x)) \in Nat
      BY PlacesCounted
    <3>2. Cardinality(Carriers(x)) + Cardinality(Takers(x))
          + Cardinality(Holding(x)) + Cardinality(Eaten(x)) = 1
      BY <1>1, <2>3 DEF ItemInv
    <3> QED
      BY <2>4, <3>1, <3>2
  <2>6. x \notin consumed
    <3>1. Eaten(x) \subseteq {x} /\ IsFiniteSet({x})
      BY FS_Singleton DEF Eaten
    <3>2. Eaten(x) = {}
      BY <2>5, <3>1, Counted
    <3> QED
      BY <3>2 DEF Eaten
  <2>7. consumed' = consumed \cup {x} /\ counter' = counter + 1
    BY <1>4 DEF Consume, x
  <2>8. Cardinality(consumed') = Cardinality(consumed) + 1
    BY <1>3, <2>6, <2>7, Gains
  <2> QED
    BY <1>1, <1>4, <2>2, <2>6, <2>7, <2>8 DEF ItemInv, x
<1>5. CASE ~Consume(t)
  <2>1. consumed' = consumed /\ counter' = counter
    BY <1>5 DEF Step, Produce, WaitEmpty, Lock, Put, WrapTail, Unlock, PostFull,
       WaitFull, Take, WrapHead, PostEmpty
  <2> QED
    BY <1>1, <1>5, <2>1 DEF ItemInv
<1> QED
  BY <1>4, <1>5


\* Every item goes on being in one place: Produce makes one, which was
\* nowhere; Put, Take and Consume each move one from one place to the next.
LEMMA ItemStep ==
  ASSUME ProgramInv, NEW t \in Thread, Step(t)
  PROVE  ItemInv'
<1>1. TypeOK /\ MutexInv /\ BufferInv /\ ItemInv
  BY DEF ProgramInv
<1>2. next \in Nat /\ next' \in Nat
  BY ItemValues
<1>3. ASSUME NEW x \in 0 .. next' - 1
      PROVE  (Cardinality(Carriers(x)) + Cardinality(Takers(x))
              + Cardinality(Holding(x)) + Cardinality(Eaten(x)))' = 1
  <2> DEFINE c == Cardinality(Carriers(x))
             k == Cardinality(Takers(x))
             h == Cardinality(Holding(x))
             e == Cardinality(Eaten(x))
  <2>1. x \in Nat
    BY <1>2
  <2>2. c \in Nat /\ k \in Nat /\ h \in Nat /\ e \in Nat
    BY PlacesCounted
  <2>3. /\ c' = IF Produce(t) /\ item'[t] = x THEN c + 1
                ELSE IF Put(t) /\ item[t] = x THEN c - 1 ELSE c
        /\ k' = IF Take(t) /\ queue[head] = x THEN k + 1
                ELSE IF Consume(t) /\ item[t] = x THEN k - 1 ELSE k
        /\ h' = IF Put(t) /\ item[t] = x THEN h + 1
                ELSE IF Take(t) /\ queue[head] = x THEN h - 1 ELSE h
    BY <1>1, <2>1, PlacesStep
  <2>4. e' = IF Consume(t) /\ item[t] = x THEN e + 1 ELSE e
    <3>1. IsFiniteSet(Eaten(x))
      BY PlacesCounted
    <3>2. CASE Consume(t) /\ item[t] = x
      <4>1. x \notin Eaten(x) /\ Eaten(x)' = Eaten(x) \cup {x}
        BY <3>2, ConsumedStep DEF Eaten
      <4> QED
        BY <3>1, <3>2, <4>1, Gains
    <3>3. CASE ~(Consume(t) /\ item[t] = x)
      <4>1. Eaten(x)' = Eaten(x)
        BY <3>3, ConsumedStep DEF Eaten
      <4> QED
        BY <3>3, <4>1
    <3> QED
      BY <3>2, <3>3
  <2>5. /\ Produce(t) => ~Put(t) /\ ~Take(t) /\ ~Consume(t)
        /\ Put(t) => ~Take(t) /\ ~Consume(t)
        /\ Take(t) => ~Consume(t)
    BY DEF Produce, Put, Take, Consume, Goto
  <2>6. ASSUME x \in 0 .. next - 1 PROVE c' + k' + h' + e' = 1
    <3>1. c + k + h + e = 1
      BY <1>1, <2>6 DEF ItemInv
    <3>2. ~(Produce(t) /\ item'[t] = x)
      BY <1>1, <1>2, <2>6 DEF Produce, TypeOK
    <3> HIDE DEF c, k, h, e
    <3> QED
      BY <2>2, <2>3, <2>4, <2>5, <3>1, <3>2
  <2>7. ASSUME x \notin 0 .. next - 1 PROVE c' + k' + h' + e' = 1
    <3>1. Produce(t) /\ x = next /\ ItemsLeft
      <4>1. ~Produce(t) => next' = next
        BY DEF Step, Produce, WaitEmpty, Lock, Put, WrapTail, Unlock, PostFull,
           WaitFull, Take, WrapHead, PostEmpty, Consume
      <4>2. Produce(t) => next' = IF ItemsLeft THEN next + 1 ELSE next
        BY DEF Produce, NextItem
      <4>3. next' # next
        BY <1>3, <2>7
      <4>4. Produce(t) /\ ItemsLeft /\ next' = next + 1
        BY <4>1, <4>2, <4>3
      <4> QED
        BY <1>2, <1>3, <2>7, <4>4
    <3>2. item'[t] = x
      BY <1>1, <3>1 DEF Produce, TypeOK
    <3>3. Carriers(x) = {} /\ Takers(x) = {} /\ Holding(x) = {} /\ Eaten(x) = {}
      <4>1. /\ \A u \in Thread : item[u] # x
            /\ \A s \in Filled : queue[s] # x
            /\ x \notin consumed
        BY <1>1, <1>2, <3>1 DEF ItemInv, TypeOK
      <4> QED
        BY <4>1 DEF Carriers, Takers, Holding, Eaten, Thread
    <3>4. c = 0 /\ k = 0 /\ h = 0 /\ e = 0
      BY <3>3, FS_EmptySet
    <3> HIDE DEF c, k, h, e
    <3> QED
      BY <2>3, <2>4, <2>5, <3>1, <3>2, <3>4
  <2> QED
    BY <2>6, <2>7
<1>4. /\ \A u \in Thread : item'[u] \in -1 .. next' - 1
      /\ \A s \in Filled' : queue'[s] \in -1 .. next' - 1
      /\ \A u \in Consumers : pc'[u] = "consume" => item'[u] >= 0
  BY ItemValues
<1>5. counter' = Cardinality(consumed)'
  BY ConsumedStep
<1> QED
  BY <1>3, <1>4, <1>5 DEF ItemInv


-----------------------------------------------------------------------------
(* The -1 that ends each thread.                                           *)

\* A producer has ended, or is about to, when it has put -1 into the buffer,
\* and a consumer when it has taken one.
LEMMA PillsStep ==
  ASSUME TypeOK, ItemInv, NEW t \in Thread, Step(t)
  PROVE  /\ Pills(Producers)' = IF Put(t) /\ item[t] = -1 THEN Pills(Producers) \cup {t}
                                ELSE Pills(Producers)
         /\ Pills(Consumers)' = IF Take(t) /\ queue[head] = -1
                                THEN Pills(Consumers) \cup {t} ELSE Pills(Consumers)
         /\ Put(t) => t \notin Pills(Producers)
         /\ Take(t) => t \notin Pills(Consumers)
<1> DEFINE L == Behind \cup {"ended"}
<1>1. /\ Pills(Producers)' = {p \in Producers : item'[p] = -1 /\ pc'[p] \in L}
      /\ Pills(Consumers)' = {c \in Consumers : item'[c] = -1 /\ pc'[c] \in L}
      /\ Pills(Producers) = {p \in Producers : item[p] = -1 /\ pc[p] \in L}
      /\ Pills(Consumers) = {c \in Consumers : item[c] = -1 /\ pc[c] \in L}
  BY DEF Pills
<1>2. /\ Producers \subseteq Thread /\ Consumers \subseteq Thread
      /\ item[t] \in Int /\ (item[t] < 0 <=> item[t] = -1)
  <2>1. next \in Int /\ item[t] \in -1 .. next - 1
    BY BufferAssumption DEF TypeOK, ItemInv
  <2> QED
    BY <2>1 DEF Thread
<1>3. \A u \in Thread \ {t} : item'[u] = item[u] /\ pc'[u] = pc[u]
  BY DEF TypeOK, Step, Produce, WaitEmpty, Lock, Put, WrapTail, Unlock, PostFull,
     WaitFull, Take, WrapHead, PostEmpty, Consume, Goto
<1>4. CASE t \in Producers /\ t \notin Consumers
  <2>1. Pills(Consumers)' = Pills(Consumers)
    BY <1>1, <1>2, <1>3, <1>4
  <2>2. ~Take(t)
    BY <1>4 DEF TypeOK, ProducerPc, Take, Goto
  <2>3. CASE Put(t)
    <3>1. pc[t] \notin L /\ pc'[t] \in L /\ item'[t] = item[t]
      BY <2>3 DEF Put, Goto, TypeOK, Behind
    <3> QED
      BY <1>1, <1>2, <1>3, <1>4, <2>1, <2>2, <2>3, <3>1
  <2>4. CASE ~Put(t)
    <3>1. (item'[t] = -1 /\ pc'[t] \in L) <=> (item[t] = -1 /\ pc[t] \in L)
      BY <1>2, <1>4, <2>4, StepKinds DEF TypeOK, Behind, Produce, WaitEmpty, Lock, WrapTail,
         Unlock, PostFull, Goto
    <3>2. Pills(Producers)' = Pills(Producers)
      BY <1>1, <1>2, <1>3, <3>1
    <3> QED
      BY <2>1, <2>2, <2>4, <3>2
  <2> QED
    BY <2>3, <2>4
<1>5. CASE t \in Consumers /\ t \notin Producers
  <2>1. Pills(Producers)' = Pills(Producers)
    BY <1>1, <1>2, <1>3, <1>5
  <2>2. ~Put(t)
    BY <1>5 DEF TypeOK, ConsumerPc, Put, Goto
  <2>3. CASE Take(t)
    <3>1. pc[t] \notin L /\ pc'[t] \in L /\ item'[t] = queue[head]
      BY <2>3 DEF Take, Goto, TypeOK, Behind
    <3> QED
      BY <1>1, <1>2, <1>3, <1>5, <2>1, <2>2, <2>3, <3>1
  <2>4. CASE ~Take(t)
    <3>1. (item'[t] = -1 /\ pc'[t] \in L) <=> (item[t] = -1 /\ pc[t] \in L)
      BY <1>2, <1>5, <2>4, StepKinds DEF TypeOK, Behind, WaitFull, Lock, WrapHead,
         Unlock, PostEmpty, Consume, Goto
    <3>2. Pills(Consumers)' = Pills(Consumers)
      BY <1>1, <1>2, <1>3, <3>1
    <3> QED
      BY <2>1, <2>2, <2>4, <3>2
  <2> QED
    BY <2>3, <2>4
<1> QED
  BY <1>4, <1>5, StepKinds

\* A producer that will put something more goes on being one, until it puts it.
LEMMA PutsMoreStep ==
  ASSUME TypeOK, ItemInv, NEW t \in Thread, Step(t), ~Put(t),
         NEW p \in Producers, PutsMore(p)
  PROVE  PutsMore(p)'
<1>1. PutsMore(p)' <=> \/ pc'[p] \in {"produce", "empty", "lock", "put"}
                       \/ pc'[p] \in Behind /\ item'[p] # -1
  BY DEF PutsMore
<1>2. p \in Thread
  BY DEF Thread
<1>3. CASE p # t
  <2>1. item'[p] = item[p] /\ pc'[p] = pc[p]
    BY <1>2, <1>3 DEF TypeOK, Step, Produce, WaitEmpty, Lock, Put, WrapTail, Unlock, PostFull,
       WaitFull, Take, WrapHead, PostEmpty, Consume, Goto
  <2> QED
    BY <1>1, <2>1 DEF PutsMore
<1>4. CASE p = t
  <2>1. t \in Producers /\ t \notin Consumers /\ (item[t] < 0 <=> item[t] = -1)
    <3>1. next \in Int /\ item[t] \in -1 .. next - 1
      BY BufferAssumption DEF TypeOK, ItemInv
    <3> QED
      BY <1>4, <3>1, BufferAssumption
  <2> QED
    BY <1>1, <1>4, <2>1, StepKinds DEF PutsMore, TypeOK, Behind, Produce, WaitEmpty, Lock,
       WrapTail, Unlock, PostFull, Goto
<1> QED
  BY <1>3, <1>4


\* The -1s go on being as many as the producers that have put theirs, and an
\* item is the last in the buffer only while a producer is to put more.
LEMMA PillStep ==
  ASSUME ProgramInv, NEW t \in Thread, Step(t)
  PROVE  PillInv'
<1>1. TypeOK /\ MutexInv /\ BufferInv /\ ItemInv /\ PillInv
  BY DEF ProgramInv
<1>2. /\ next \in Nat /\ Done \in Nat /\ next <= Done
      /\ item[t] < 0 <=> item[t] = -1
  BY <1>1, BufferAssumption DEF TypeOK, ItemInv
<1>3. \A u \in Thread \ {t} : item'[u] = item[u] /\ pc'[u] = pc[u]
  BY <1>1 DEF TypeOK, Step, Produce, WaitEmpty, Lock, Put, WrapTail, Unlock, PostFull,
     WaitFull, Take, WrapHead, PostEmpty, Consume, Goto
<1>4. \A u \in Thread : pc'[u] = "ended" => item'[u] = -1
  <2>1. pc'[t] = "ended" => item'[t] = -1
    BY <1>1, <1>2 DEF TypeOK, Step, Produce, WaitEmpty, Lock, Put, WrapTail, Unlock, PostFull,
       WaitFull, Take, WrapHead, PostEmpty, Consume, Goto
  <2> QED
    BY <1>1, <1>3, <2>1 DEF PillInv
<1>5. \A p \in Producers : pc'[p] # "produce" /\ item'[p] = -1 => next' = Done
  <2>1. next = Done => next' = Done
    BY <1>2 DEF Step, Produce, WaitEmpty, Lock, Put, WrapTail, Unlock, PostFull,
       WaitFull, Take, WrapHead, PostEmpty, Consume, ItemsLeft
  <2>2. ASSUME t \in Producers, pc'[t] # "produce", item'[t] = -1
        PROVE  next' = Done
    <3>1. CASE Produce(t)
      BY <1>1, <1>2, <2>2, <3>1 DEF Produce, ItemsLeft, TypeOK
    <3>2. CASE ~Produce(t)
      <4>1. pc[t] # "produce" /\ item[t] = -1
        BY <1>1, <2>2, <3>2, StepKinds, BufferAssumption DEF WaitEmpty, Lock, Put, WrapTail,
           Unlock, PostFull, Goto, TypeOK
      <4> QED
        BY <1>1, <2>1, <2>2, <4>1 DEF PillInv
    <3> QED
      BY <3>1, <3>2
  <2> QED
    BY <1>1, <1>3, <2>1, <2>2 DEF PillInv, Thread
<1>6. (Cardinality(Pills(Producers)) =
         Cardinality(Pills(Consumers)) + Cardinality(Holding(-1)))'
  <2> DEFINE a == Cardinality(Pills(Producers))
             b == Cardinality(Pills(Consumers))
             h == Cardinality(Holding(-1))
  <2> SUFFICES a' = b' + h'
    OBVIOUS
  <2>1. /\ IsFiniteSet(Pills(Producers)) /\ a \in Nat
        /\ IsFiniteSet(Pills(Consumers)) /\ b \in Nat
        /\ IsFiniteSet(Holding(-1)) /\ h \in Nat
    <3>1. Pills(Producers) \subseteq Producers /\ Pills(Consumers) \subseteq Consumers
      BY DEF Pills
    <3>2. IsFiniteSet(Holding(-1)) /\ h \in Nat
      BY PlacesCounted
    <3> QED
      BY <3>1, <3>2, BufferAssumption, Counted
  <2>2. a = b + h
    BY <1>1 DEF PillInv
  <2>3. CASE Put(t) /\ item[t] = -1
    <3>1. a' = a + 1
      BY <1>1, <2>1, <2>3, PillsStep, Gains
    <3>2. h' = h + 1
      BY <1>1, <2>1, <2>3, HoldingStep, Gains
    <3>3. b' = b
      <4>1. Pills(Consumers)' = Pills(Consumers)
        BY <1>1, <2>3, PillsStep DEF Put, Take, Goto
      <4> QED
        BY <4>1
    <3> HIDE DEF a, b, h
    <3> QED
      BY <2>1, <2>2, <3>1, <3>2, <3>3
  <2>4. CASE Take(t) /\ queue[head] = -1
    <3>1. b' = b + 1
      BY <1>1, <2>1, <2>4, PillsStep, Gains
    <3>2. h' = h - 1
      BY <1>1, <2>1, <2>4, HoldingStep, Loses
    <3>3. a' = a
      <4>1. Pills(Producers)' = Pills(Producers)
        BY <1>1, <2>4, PillsStep DEF Put, Take, Goto
      <4> QED
        BY <4>1
    <3> HIDE DEF a, b, h
    <3> QED
      BY <2>1, <2>2, <3>1, <3>2, <3>3
  <2>5. CASE ~(Put(t) /\ item[t] = -1) /\ ~(Take(t) /\ queue[head] = -1)
    <3>1. Pills(Producers)' = Pills(Producers) /\ Pills(Consumers)' = Pills(Consumers)
      BY <1>1, <2>5, PillsStep
    <3>2. Holding(-1)' = Holding(-1)
      BY <1>1, <2>5, HoldingStep
    <3> QED
      BY <2>2, <3>1, <3>2
  <2> QED
    BY <2>3, <2>4, <2>5
<1>7. (\A s \in Slot : Offset(s) = Count - 1 /\ queue[s] # -1 =>
                          \E p \in Producers : PutsMore(p))'
  <2> SUFFICES ASSUME NEW s \in Slot, Offset(s)' = Count' - 1, queue'[s] # -1
               PROVE  (\E p \in Producers : PutsMore(p))'
    BY DEF Slot
  <2>1. CASE Put(t)
    <3>1. s = tail
      BY <1>1, <2>1, FilledStep
    <3>2. item[t] # -1
      BY <1>1, <2>1, <3>1 DEF Put, TypeOK
    <3>3. pc'[t] = "wrap" /\ item'[t] = item[t]
      BY <1>1, <2>1 DEF Put, Goto, TypeOK
    <3>4. t \in Producers
      BY <1>1, <2>1, BufferMoves DEF Put, Take, Goto
    <3> QED
      BY <3>2, <3>3, <3>4 DEF PutsMore, Behind
  <2>2. CASE ~Put(t)
    <3>1. queue' = queue /\ Offset(s) = Count - 1
      <4>1. CASE Take(t)
        BY <1>1, <4>1, FilledStep DEF Take
      <4>2. CASE ~Take(t)
        <5>1. queue' = queue /\ Count' = Count /\ Offset(s)' = Offset(s)
          BY <1>1, <2>2, <4>2, FilledStep, BufferMoves
        <5> QED
          BY <5>1
      <4> QED
        BY <4>1, <4>2
    <3>2. PICK p \in Producers : PutsMore(p)
      BY <1>1, <3>1 DEF PillInv
    <3>3. PutsMore(p)'
      BY <1>1, <2>2, <3>2, PutsMoreStep
    <3> QED
      BY <3>3
  <2> QED
    BY <2>1, <2>2
<1> QED
  BY <1>4, <1>5, <1>6, <1>7 DEF PillInv

-----------------------------------------------------------------------------
(* The items behind a -1.                                                  *)

\* How far the slots are from head.
LEMMA OffsetStep ==
  ASSUME TypeOK, MutexInv, BufferInv, NEW t \in Thread, Step(t)
  PROVE  /\ \A s \in Slot : Offset(s) \in Nat
         /\ Put(t) => /\ \A s \in Slot : Offset(s)' = Offset(s)
                      /\ Offset(tail) = Count
         /\ Take(t) => /\ \A s \in Slot \ {head} : Offset(s)' = Offset(s) - 1
                       /\ \A s \in Slot \ {head} : Offset(s) > 0
                       /\ Offset(head) = 0
<1>1. Slots \in Nat \ {0} /\ Count \in 0 .. Slots
  BY BufferAssumption, NeverOverrun
<1>2. \A s : Offset(s)' = IF s >= Around(head') THEN s - Around(head')
                          ELSE s - Around(head') + Slots
  BY DEF Offset, Around
<1>3. \A s \in Slot : Offset(s) \in Nat
  <2>1. Around(head) \in Slot
    BY WrapIs DEF TypeOK
  <2> QED
    BY <1>1, <2>1 DEF Offset, Slot
<1>4. ASSUME Put(t)
      PROVE  (\A s \in Slot : Offset(s)' = Offset(s)) /\ Offset(tail) = Count
  <2>1. head \in Slot /\ tail \in Slot /\ head' = head /\ Count < Slots
    BY <1>4, BufferMoves DEF Put, Take, Goto
  <2>2. Around(tail) = tail /\ Around(head) = head /\ Around(head') = head
    BY <1>1, <2>1 DEF Around, Slot
  <2>3. tail = IF head + Count < Slots THEN head + Count ELSE head + Count - Slots
    BY <2>2 DEF BufferInv
  <2>4. Offset(tail) = Count
    BY <1>1, <2>1, <2>2, <2>3 DEF Offset, Slot
  <2> QED
    BY <1>2, <2>2, <2>4 DEF Offset
<1>5. ASSUME Take(t)
      PROVE  /\ \A s \in Slot \ {head} : Offset(s)' = Offset(s) - 1
             /\ \A s \in Slot \ {head} : Offset(s) > 0
             /\ Offset(head) = 0
  <2>1. head \in Slot /\ head' = head + 1
    BY <1>5, BufferMoves DEF Put, Take, Goto
  <2>2. Around(head) = head /\ Around(head') = IF head + 1 = Slots THEN 0 ELSE head + 1
    BY <1>1, <2>1 DEF Around, Slot
  <2>3. \A s \in Slot \ {head} : Offset(s)' = Offset(s) - 1 /\ Offset(s) > 0
    BY <1>1, <1>2, <2>1, <2>2 DEF Offset, Slot
  <2>4. Offset(head) = 0
    BY <1>1, <2>1, <2>2 DEF Offset, Slot
  <2> QED
    BY <2>3, <2>4
<1> QED
  BY <1>3, <1>4, <1>5

\* What is behind slot s, and who is about to end, can be counted.
LEMMA LateCounted ==
  /\ IsFiniteSet(Finishing) /\ Cardinality(Finishing) \in Nat
  /\ IsFiniteSet(Filled) /\ Cardinality(Filled) \in Nat
  /\ \A s : /\ IsFiniteSet(ItemsFrom(s)) /\ Cardinality(ItemsFrom(s)) \in Nat
            /\ IsFiniteSet(PillsFrom(s)) /\ Cardinality(PillsFrom(s)) \in Nat
<1>1. IsFiniteSet(Slot)
  BY BufferAssumption, FS_Interval DEF Slot
<1>2. /\ Finishing \subseteq Producers /\ Filled \subseteq Slot
      /\ \A s : ItemsFrom(s) \subseteq Slot /\ PillsFrom(s) \subseteq Slot
  BY DEF Finishing, Filled, ItemsFrom, PillsFrom
<1> QED
  BY <1>1, <1>2, BufferAssumption, Counted

\* What is put comes behind every slot; what is taken was in front of all.
LEMMA FromStep ==
  ASSUME TypeOK, MutexInv, BufferInv, NEW t \in Thread, Step(t), NEW s, s \in Filled'
  PROVE  /\ Put(t) =>
              /\ ItemsFrom(s)' = IF item[t] # -1 THEN ItemsFrom(s) \cup {tail}
                                 ELSE ItemsFrom(s)
              /\ PillsFrom(s)' = IF item[t] = -1 THEN PillsFrom(s) \cup {tail}
                                 ELSE PillsFrom(s)
              /\ tail \notin ItemsFrom(s) /\ tail \notin PillsFrom(s)
              /\ s \in Filled \/ (s = tail /\ ItemsFrom(s) = {})
         /\ ~Put(t) => /\ ItemsFrom(s)' = ItemsFrom(s) /\ PillsFrom(s)' = PillsFrom(s)
                       /\ s \in Filled
<1>1. /\ ItemsFrom(s)' = {r \in Filled' : queue'[r] # -1 /\ Offset(r)' >= Offset(s)'}
      /\ PillsFrom(s)' = {r \in Filled' : queue'[r] = -1 /\ Offset(r)' >= Offset(s)'}
  BY DEF ItemsFrom, PillsFrom
<1>2. \A r \in Slot : Offset(r) \in Nat
  BY OffsetStep
<1>3. Filled \subseteq Slot /\ (\A r \in Filled : Offset(r) < Count) /\ s \in Slot
  BY DEF Filled, Slot
<1>4. ASSUME Put(t)
      PROVE  /\ ItemsFrom(s)' = IF item[t] # -1 THEN ItemsFrom(s) \cup {tail}
                                ELSE ItemsFrom(s)
             /\ PillsFrom(s)' = IF item[t] = -1 THEN PillsFrom(s) \cup {tail}
                                ELSE PillsFrom(s)
             /\ tail \notin ItemsFrom(s) /\ tail \notin PillsFrom(s)
             /\ s \in Filled \/ (s = tail /\ ItemsFrom(s) = {})
  <2>1. tail \in Slot \ Filled /\ Filled' = Filled \cup {tail}
    BY <1>4, FilledStep
  <2>2. \A r \in Slot : queue'[r] = IF r = tail THEN item[t] ELSE queue[r]
    BY <1>4 DEF Put, TypeOK
  <2>3. (\A r \in Slot : Offset(r)' = Offset(r)) /\ Offset(tail) = Count
    BY <1>4, OffsetStep
  <2>4. Offset(tail) >= Offset(s)
    BY <1>2, <1>3, <2>1, <2>3
  <2>5. /\ ItemsFrom(s) = {r \in Filled : queue[r] # -1 /\ Offset(r) >= Offset(s)}
        /\ PillsFrom(s) = {r \in Filled : queue[r] = -1 /\ Offset(r) >= Offset(s)}
    BY DEF ItemsFrom, PillsFrom
  <2>6. \A r \in Filled : /\ queue'[r] = queue[r] /\ Offset(r)' = Offset(r)
                          /\ Offset(s)' = Offset(s)
    BY <1>3, <2>1, <2>2, <2>3
  <2>7. \A r \in Slot : r = tail => queue'[r] = item[t] /\ Offset(r)' >= Offset(s)'
    BY <1>3, <2>1, <2>2, <2>3, <2>4
  <2>8. s = tail => ItemsFrom(s) = {}
    BY <1>2, <1>3, <2>1, <2>3, <2>5
  <2> QED
    BY <1>1, <2>1, <2>5, <2>6, <2>7, <2>8
<1>5. ASSUME Take(t)
      PROVE  /\ ItemsFrom(s)' = ItemsFrom(s) /\ PillsFrom(s)' = PillsFrom(s)
             /\ s \in Filled
  <2>1. head \in Filled /\ Filled' = Filled \ {head} /\ queue' = queue
    BY <1>5, FilledStep DEF Take
  <2>2. /\ \A r \in Slot \ {head} : Offset(r)' = Offset(r) - 1 /\ Offset(r) > 0
        /\ Offset(head) = 0
    BY <1>5, OffsetStep
  <2>3. ~(Offset(head) >= Offset(s))
    BY <1>2, <1>3, <2>1, <2>2
  <2>4. \A r \in Filled' : Offset(r)' >= Offset(s)' <=> Offset(r) >= Offset(s)
    BY <1>2, <1>3, <2>1, <2>2
  <2> QED
    BY <1>1, <2>1, <2>3, <2>4 DEF ItemsFrom, PillsFrom
<1>6. ASSUME ~Put(t), ~Take(t)
      PROVE  /\ ItemsFrom(s)' = ItemsFrom(s) /\ PillsFrom(s)' = PillsFrom(s)
             /\ s \in Filled
  <2>1. Filled' = Filled /\ queue' = queue /\ \A r \in Slot : Offset(r)' = Offset(r)
    BY <1>6, FilledStep, BufferMoves
  <2>2. \A r \in Filled : Offset(r)' = Offset(r) /\ Offset(s)' = Offset(s)
    BY <1>3, <2>1
  <2> QED
    BY <1>1, <2>1, <2>2 DEF ItemsFrom, PillsFrom
<1> QED
  BY <1>4, <1>5, <1>6

\* A producer that puts an item has none in hand; one that puts -1 is done.
\* While there are items left, though, it may make one more.
LEMMA FinishingStep ==
  ASSUME TypeOK, ItemInv, NEW t \in Thread, Step(t), ~(Produce(t) /\ ItemsLeft)
  PROVE  /\ Finishing' = IF Put(t) /\ item[t] = -1 THEN Finishing \ {t}
                         ELSE IF Put(t) THEN Finishing \cup {t} ELSE Finishing
         /\ Put(t) => (t \in Finishing <=> item[t] = -1)
<1>1. Finishing' = {p \in Producers : \/ pc'[p] = "produce"
                                      \/ pc'[p] \in Carrying /\ item'[p] = -1
                                      \/ pc'[p] \in Behind /\ item'[p] # -1}
  BY DEF Finishing
<1>2. /\ Producers \subseteq Thread
      /\ item[t] \in Int /\ (item[t] < 0 <=> item[t] = -1)
  <2>1. next \in Int /\ item[t] \in -1 .. next - 1
    BY BufferAssumption DEF TypeOK, ItemInv
  <2> QED
    BY <2>1 DEF Thread
<1>3. \A u \in Producers \ {t} : item'[u] = item[u] /\ pc'[u] = pc[u]
  BY <1>2 DEF TypeOK, Step, Produce, WaitEmpty, Lock, Put, WrapTail, Unlock, PostFull,
     WaitFull, Take, WrapHead, PostEmpty, Consume, Goto
<1> DEFINE F(l, i) == \/ l = "produce"
                      \/ l \in Carrying /\ i = -1
                      \/ l \in Behind /\ i # -1
<1>4. CASE t \in Producers /\ t \notin Consumers
  <2>1. CASE Put(t)
    <3>1. pc[t] = "put" /\ pc'[t] = "wrap" /\ item'[t] = item[t]
      BY <2>1 DEF Put, Goto, TypeOK
    <3>2. /\ F(pc[t], item[t]) <=> item[t] = -1
          /\ F(pc'[t], item'[t]) <=> item[t] # -1
      BY <3>1 DEF Carrying, Behind
    <3> QED
      BY <1>1, <1>3, <1>4, <2>1, <3>2 DEF Finishing
  <2>2. CASE ~Put(t)
    <3>1. F(pc'[t], item'[t]) <=> F(pc[t], item[t])
      <4>1. CASE Produce(t)
        BY <2>2, <4>1 DEF Produce, Goto, TypeOK, Carrying
      <4>2. CASE PostFull(t)
        BY <1>2, <4>2 DEF PostFull, Goto, TypeOK, Carrying, Behind
      <4>3. CASE WaitEmpty(t) \/ Lock(t) \/ WrapTail(t) \/ Unlock(t)
        BY <1>4, <4>3 DEF WaitEmpty, Lock, WrapTail, Unlock, Goto, TypeOK, Carrying, Behind
      <4> QED
        BY <1>4, <2>2, <4>1, <4>2, <4>3, StepKinds
    <3> QED
      BY <1>1, <1>3, <1>4, <2>2, <3>1 DEF Finishing
  <2> QED
    BY <2>1, <2>2
<1>5. CASE t \in Consumers /\ t \notin Producers
  <2>1. ~Put(t)
    BY <1>5 DEF TypeOK, ConsumerPc, Put, Goto
  <2> QED
    BY <1>1, <1>3, <1>5, <2>1 DEF Finishing
<1> QED
  BY <1>4, <1>5, StepKinds

\* No -1 is made while there are items left.
LEMMA LateDone ==
  ASSUME ProgramInv, NEW s, Late(s)
  PROVE  next = Done
<1>1. PillInv
  BY DEF ProgramInv
<1>2. Pills(Consumers) # {} \/ Holding(-1) # {}
  BY DEF Late, Holding
<1>3. /\ Pills(Producers) \subseteq Producers /\ Pills(Consumers) \subseteq Consumers
      /\ IsFiniteSet(Producers) /\ IsFiniteSet(Consumers)
  BY BufferAssumption DEF Pills
<1>4. /\ Cardinality(Pills(Producers)) \in Nat
      /\ Cardinality(Pills(Producers)) = 0 <=> Pills(Producers) = {}
      /\ Cardinality(Pills(Consumers)) \in Nat
      /\ Cardinality(Pills(Consumers)) = 0 <=> Pills(Consumers) = {}
  BY <1>3, Counted
<1>5. Cardinality(Holding(-1)) \in Nat /\ (Cardinality(Holding(-1)) = 0 <=> Holding(-1) = {})
  BY PlacesCounted, FS_EmptySet
<1>6. Cardinality(Pills(Producers)) =
        Cardinality(Pills(Consumers)) + Cardinality(Holding(-1))
  BY <1>1 DEF PillInv
<1>7. Pills(Producers) # {}
  BY <1>2, <1>4, <1>5, <1>6
<1>8. PICK p \in Producers : item[p] = -1 /\ pc[p] \in Behind \cup {"ended"}
  BY <1>7 DEF Pills
<1> QED
  BY <1>1, <1>8 DEF PillInv, Behind

\* A slot becomes late only when it is filled: no -1 is put in front of it.
LEMMA LateBefore ==
  ASSUME TypeOK, MutexInv, BufferInv, ItemInv, NEW t \in Thread, Step(t),
         NEW s \in Slot, Late(s)'
  PROVE  Late(s) \/ (Put(t) /\ s = tail)
<1>1. /\ s \in Filled' /\ queue'[s] # -1
      /\ \/ Pills(Consumers)' # {}
         \/ \E r \in Filled' : queue'[r] = -1 /\ Offset(r)' < Offset(s)'
  BY DEF Late
<1>2. (\A r \in Slot : Offset(r) \in Nat) /\ Filled \subseteq Slot
  BY OffsetStep DEF Filled
<1>3. CASE Put(t) /\ s # tail
  <2>1. tail \in Slot \ Filled /\ Filled' = Filled \cup {tail}
    BY <1>3, FilledStep
  <2>2. \A r \in Slot : queue'[r] = IF r = tail THEN item[t] ELSE queue[r]
    BY <1>3 DEF Put, TypeOK
  <2>3. (\A r \in Slot : Offset(r)' = Offset(r)) /\ Offset(tail) = Count
    BY <1>3, OffsetStep
  <2>4. Pills(Consumers)' = Pills(Consumers)
    BY <1>3, PillsStep DEF Put, Take, Goto
  <2>5. s \in Filled /\ Offset(s) < Count /\ queue[s] # -1
    BY <1>1, <1>3, <2>1, <2>2 DEF Filled
  <2>6. Count \in Nat
    BY CountNat
  <2>7. \A r \in Slot : r = tail => ~(Offset(r)' < Offset(s)')
    BY <1>2, <2>1, <2>3, <2>5, <2>6
  <2>8. (\E r \in Filled' : queue'[r] = -1 /\ Offset(r)' < Offset(s)') =>
           \E r \in Filled : queue[r] = -1 /\ Offset(r) < Offset(s)
    BY <1>2, <2>1, <2>2, <2>3, <2>7
  <2> QED
    BY <1>1, <2>4, <2>5, <2>8 DEF Late
<1>4. CASE Take(t)
  <2>1. head \in Filled /\ Filled' = Filled \ {head} /\ queue' = queue
    BY <1>4, FilledStep DEF Take
  <2>2. /\ \A r \in Slot \ {head} : Offset(r)' = Offset(r) - 1 /\ Offset(r) > 0
        /\ Offset(head) = 0
    BY <1>4, OffsetStep
  <2>3. Pills(Consumers)' # {} => Pills(Consumers) # {} \/ queue[head] = -1
    BY <1>4, PillsStep
  <2>4. Offset(head) < Offset(s)
    BY <1>1, <2>1, <2>2
  <2>5. \A r \in Filled' : Offset(r)' < Offset(s)' => Offset(r) < Offset(s)
    BY <1>1, <1>2, <2>1, <2>2
  <2> QED
    BY <1>1, <2>1, <2>3, <2>4, <2>5 DEF Late
<1>5. CASE ~Put(t) /\ ~Take(t)
  <2>1. Filled' = Filled /\ queue' = queue /\ \A r \in Slot : Offset(r)' = Offset(r)
    BY <1>5, FilledStep, BufferMoves
  <2>2. Pills(Consumers)' = Pills(Consumers)
    BY <1>5, PillsStep
  <2>3. \A r \in Filled : Offset(r)' = Offset(r)
    BY <1>2, <2>1
  <2> QED
    BY <1>1, <2>1, <2>2, <2>3 DEF Late
<1> QED
  BY <1>3, <1>4, <1>5

\* Each item behind a -1 goes on having its own -1 behind it or to come.
LEMMA LateStep ==
  ASSUME ProgramInv, LateInv, NEW t \in Thread, Step(t)
  PROVE  LateInv'
<1>1. TypeOK /\ MutexInv /\ BufferInv /\ ItemInv
  BY DEF ProgramInv
<1> SUFFICES ASSUME NEW s \in Slot, Late(s)'
             PROVE  (Cardinality(ItemsFrom(s)) <= Cardinality(PillsFrom(s))
                                                  + Cardinality(Finishing))'
  BY DEF LateInv, Slot
<1> DEFINE a == Cardinality(ItemsFrom(s))
           b == Cardinality(PillsFrom(s))
           f == Cardinality(Finishing)
<1>2. /\ IsFiniteSet(ItemsFrom(s)) /\ IsFiniteSet(PillsFrom(s)) /\ IsFiniteSet(Finishing)
      /\ a \in Nat /\ b \in Nat /\ f \in Nat
  BY LateCounted
<1>3. s \in Filled'
  BY DEF Late
<1>4. a <= b + f
  <2>1. CASE Late(s)
    BY <2>1 DEF LateInv
  <2>2. CASE ~Late(s)
    <3>1. Put(t) /\ s = tail
      BY <1>1, <2>2, LateBefore
    <3>2. tail \notin Filled
      BY <1>1, <3>1, FilledStep
    <3>3. ItemsFrom(s) = {}
      BY <1>1, <1>3, <3>1, <3>2, FromStep
    <3>4. a = 0
      BY <3>3, FS_EmptySet
    <3> QED
      BY <1>2, <3>4
  <2> QED
    BY <2>1, <2>2
<1>5. ~(Produce(t) /\ ItemsLeft)
  <2> SUFFICES ASSUME Produce(t), ItemsLeft PROVE FALSE
    OBVIOUS
  <2>1. ~Put(t)
    BY DEF Produce, Put, Goto
  <2>2. Late(s)
    BY <1>1, <2>1, LateBefore
  <2>3. next = Done /\ Done \in Nat
    BY <2>2, LateDone, BufferAssumption
  <2> QED
    BY <2>3 DEF ItemsLeft
<1> SUFFICES a' <= b' + f'
  OBVIOUS
<1>6. CASE Put(t) /\ item[t] # -1
  <2>1. ItemsFrom(s)' = ItemsFrom(s) \cup {tail} /\ tail \notin ItemsFrom(s)
        /\ PillsFrom(s)' = PillsFrom(s)
    BY <1>1, <1>3, <1>6, FromStep
  <2>2. Finishing' = Finishing \cup {t} /\ t \notin Finishing
    BY <1>1, <1>5, <1>6, FinishingStep
  <2>3. a' = a + 1
    BY <1>2, <2>1, Gains
  <2>4. f' = f + 1
    BY <1>2, <2>2, Gains
  <2>5. b' = b
    BY <2>1
  <2> HIDE DEF a, b, f
  <2> QED
    BY <1>2, <1>4, <2>3, <2>4, <2>5
<1>7. CASE Put(t) /\ item[t] = -1
  <2>1. PillsFrom(s)' = PillsFrom(s) \cup {tail} /\ tail \notin PillsFrom(s)
        /\ ItemsFrom(s)' = ItemsFrom(s)
    BY <1>1, <1>3, <1>7, FromStep
  <2>2. Finishing' = Finishing \ {t} /\ t \in Finishing
    BY <1>1, <1>5, <1>7, FinishingStep
  <2>3. b' = b + 1
    BY <1>2, <2>1, Gains
  <2>4. f' = f - 1
    BY <1>2, <2>2, Loses
  <2>5. a' = a
    BY <2>1
  <2> HIDE DEF a, b, f
  <2> QED
    BY <1>2, <1>4, <2>3, <2>4, <2>5
<1>8. CASE ~Put(t)
  <2>1. ItemsFrom(s)' = ItemsFrom(s) /\ PillsFrom(s)' = PillsFrom(s)
    BY <1>1, <1>3, <1>8, FromStep
  <2>2. Finishing' = Finishing
    BY <1>1, <1>5, <1>8, FinishingStep
  <2> QED
    BY <1>4, <2>1, <2>2
<1> QED
  BY <1>6, <1>7, <1>8

\* The slots that hold something are as many as the semaphores say.
LEMMA FilledCountStep ==
  ASSUME ProgramInv, NEW t \in Thread, Step(t), Cardinality(Filled) = Count
  PROVE  (Cardinality(Filled) = Count)'
<1>1. TypeOK /\ MutexInv /\ BufferInv
  BY DEF ProgramInv
<1>2. IsFiniteSet(Filled)
  BY LateCounted
<1>3. CASE Put(t)
  <2>1. tail \notin Filled /\ Filled' = Filled \cup {tail} /\ Count' = Count + 1
    BY <1>1, <1>3, FilledStep, CountStep
  <2> QED
    BY <1>2, <2>1, Gains
<1>4. CASE Take(t)
  <2>1. head \in Filled /\ Filled' = Filled \ {head} /\ Count' = Count - 1
    BY <1>1, <1>4, FilledStep, CountStep
  <2> QED
    BY <1>2, <2>1, Loses
<1>5. CASE ~Put(t) /\ ~Take(t)
  <2>1. Filled' = Filled /\ Count' = Count
    BY <1>1, <1>5, FilledStep, CountStep
  <2> QED
    BY <2>1
<1> QED
  BY <1>3, <1>4, <1>5

-----------------------------------------------------------------------------
(* The theorems.                                                           *)

\* The program starts with an empty buffer and nothing made.
LEMMA ProgramInit ==
  ASSUME Init
  PROVE  ProgramInv
<1>1. Slots \in Nat \ {0} /\ Done \in Nat /\ Producers \cap Consumers = {}
  BY BufferAssumption
<1>2. \A L : /\ "produce" \notin L => At(Producers, L) = {}
             /\ "full" \notin L => At(Consumers, L) = {}
             /\ "produce" \notin L /\ "full" \notin L => At(Thread, L) = {}
  BY <1>1 DEF Init, At, Thread
<1>3. Count = 0 /\ Room = Slots
  <2>1. /\ At(Producers, Behind) = {} /\ At(Consumers, {"lock", "take"}) = {}
        /\ At(Producers, {"lock", "put"}) = {} /\ At(Consumers, Behind) = {}
    BY <1>2 DEF Behind
  <2>2. /\ Cardinality(At(Producers, Behind)) = 0
        /\ Cardinality(At(Consumers, {"lock", "take"})) = 0
        /\ Cardinality(At(Producers, {"lock", "put"})) = 0
        /\ Cardinality(At(Consumers, Behind)) = 0
    BY <2>1, FS_EmptySet
  <2>3. full = 0 /\ empty = Slots
    BY DEF Init
  <2> QED
    BY <1>1, <2>2, <2>3 DEF Count, Room
<1>4. TypeOK
  BY <1>1 DEF TypeOK, Init, Slot, Thread, ProducerPc, ConsumerPc
<1>5. MutexInv
  BY <1>2 DEF MutexInv, Init, Critical
<1>6. BufferInv
  BY <1>1, <1>3 DEF BufferInv, Init, Around
<1>7. Filled = {} /\ \A s \in Slot : Offset(s) \in Nat
  BY <1>1, <1>3 DEF Filled, Offset, Slot, Around, Init
<1>8. ItemInv
  <2>1. next = 0 /\ \A t \in Thread : item[t] = -1 /\ pc[t] # "consume"
    BY DEF Init
  <2>2. counter = Cardinality(consumed)
    BY FS_EmptySet DEF Init
  <2> QED
    BY <1>7, <2>1, <2>2 DEF ItemInv, Thread
<1>9. PillInv
  <2>1. Pills(Producers) = {} /\ Pills(Consumers) = {} /\ Holding(-1) = {}
    BY <1>1, <1>7 DEF Init, Pills, Holding, Behind, Thread
  <2>2. \A t \in Thread : pc[t] # "ended"
    BY DEF Init
  <2>3. \A p \in Producers : pc[p] = "produce"
    BY DEF Init, Thread
  <2>4. \A s \in Slot : Offset(s) # Count - 1
    BY <1>3, <1>7
  <2>5. Cardinality(Pills(Producers)) =
          Cardinality(Pills(Consumers)) + Cardinality(Holding(-1))
    BY <2>1, FS_EmptySet
  <2> QED
    BY <2>2, <2>3, <2>4, <2>5 DEF PillInv
<1> QED
  BY <1>4, <1>5, <1>6, <1>8, <1>9 DEF ProgramInv

\* Nothing that main does, and no stuttering step, touches the buffer.
LEMMA ProgramStutter ==
  ASSUME ProgramInv,
         UNCHANGED <<mutex, full, empty, queue, head, tail, next, item, pc, consumed,
                     counter>>
  PROVE  ProgramInv'
<1>1. Count' = Count /\ Room' = Room
  BY DEF Count, Room, At
<1>2. Filled' = Filled /\ \A s : Offset(s)' = Offset(s)
  BY <1>1 DEF Filled, Offset, Around, Slot
<1>3. TypeOK'
  BY DEF ProgramInv, TypeOK, Slot
<1>4. MutexInv'
  BY DEF ProgramInv, MutexInv, At
<1>5. BufferInv'
  BY <1>1 DEF ProgramInv, BufferInv, Around
<1>6. ItemInv'
  BY <1>2 DEF ProgramInv, ItemInv, Carriers, Takers, Holding, Eaten
<1>7. PillInv'
  BY <1>1, <1>2 DEF ProgramInv, PillInv, Pills, PutsMore, Holding, Slot
<1> QED
  BY <1>3, <1>4, <1>5, <1>6, <1>7 DEF ProgramInv

\* The semaphores of producer() and consumer() keep the indices, the slots
\* and the threads in agreement at every step, inside the critical sections
\* as well: ProgramInv is inductive.
THEOREM ProgramInvariant == Spec => []ProgramInv
<1>1. Init => ProgramInv
  BY ProgramInit
<1>2. ProgramInv /\ [Next]_vars => ProgramInv'
  <2> SUFFICES ASSUME ProgramInv, [Next]_vars
               PROVE  ProgramInv'
    OBVIOUS
  <2>1. CASE Verify \/ UNCHANGED vars
    BY <2>1, ProgramStutter DEF Verify, vars
  <2>2. CASE \E t \in Thread : Step(t)
    BY <2>2, TypeStep, MutexStep, BufferStep, ItemStep, PillStep DEF ProgramInv
  <2> QED
    BY <2>1, <2>2 DEF Next
<1> QED
  BY <1>1, <1>2, PTL DEF Spec


\* % SLOTS of a sum of two indices.
LEMMA SumWraps ==
  ASSUME NEW a \in Nat, a < 2 * Slots
  PROVE  a % Slots = IF a < Slots THEN a ELSE a - Slots
<1>1. Slots \in Nat /\ Slots > 0
  BY BufferAssumption
<1>2. CASE a < Slots
  BY <1>1, <1>2
<1>3. CASE ~(a < Slots)
  BY <1>1, <1>3
<1> QED
  BY <1>2, <1>3

\* Between critical sections the slots that NothingLost looks at are the
\* filled ones.
LEMMA HeldIsFilled ==
  ASSUME ProgramInv, mutex = 1
  PROVE  /\ InBuffer = Count /\ Held = Filled
         /\ (head + InBuffer) % Slots = tail /\ InBuffer <= Slots
<1>1. TypeOK /\ MutexInv /\ BufferInv
  BY DEF ProgramInv
<1>2. Slots \in Nat \ {0}
  BY BufferAssumption
<1>3. \A t \in Thread : pc[t] \notin Critical
  BY <1>1 DEF MutexInv, At
<1>4. head \in Slot /\ tail \in Slot
  BY <1>1, <1>2, <1>3 DEF BufferInv, TypeOK, Slot, Thread, Critical
<1>5. InBuffer = Count
  <2>1. /\ At(Producers, Behind) = {p \in Producers : pc[p] = "post"}
        /\ At(Consumers, {"lock", "take"}) = {c \in Consumers : pc[c] = "lock"}
    BY <1>3 DEF At, Thread, Critical, Behind
  <2> QED
    BY <2>1 DEF Count, InBuffer
<1>6. Count \in Nat /\ Count <= Slots
  BY <1>1, <1>2, CountNat DEF BufferInv
<1>7. Around(head) = head /\ Around(tail) = tail
  BY <1>2, <1>4 DEF Around, Slot
<1>8. \A d \in 0 .. Slots : (head + d) % Slots = IF head + d < Slots THEN head + d
                                                ELSE head + d - Slots
  <2> SUFFICES ASSUME NEW d \in 0 .. Slots
               PROVE  (head + d) % Slots = IF head + d < Slots THEN head + d
                                           ELSE head + d - Slots
    OBVIOUS
  <2> DEFINE a == head + d
  <2>1. a \in Nat /\ a < 2 * Slots
    BY <1>2, <1>4 DEF Slot
  <2> HIDE DEF a
  <2>2. a % Slots = IF a < Slots THEN a ELSE a - Slots
    BY <2>1, SumWraps
  <2> QED
    BY <1>2, <1>4, <2>2 DEF a, Slot
<1>9. (head + Count) % Slots = tail
  BY <1>1, <1>2, <1>6, <1>7, <1>8 DEF BufferInv
<1>10. Held = Filled
  <2>1. Held = {(head + d) % Slots : d \in 0 .. Count - 1}
    BY <1>5 DEF Held
  <2>2. ASSUME NEW s \in Held PROVE s \in Filled
    <3>1. PICK d \in 0 .. Count - 1 : s = (head + d) % Slots
      BY <2>1, <2>2
    <3>2. s = IF head + d < Slots THEN head + d ELSE head + d - Slots
      BY <1>2, <1>6, <1>8, <3>1
    <3>3. s \in Slot /\ Offset(s) = d
      BY <1>2, <1>4, <1>6, <1>7, <3>2 DEF Offset, Slot
    <3> QED
      BY <1>6, <3>3 DEF Filled
  <2>3. ASSUME NEW s \in Filled PROVE s \in Held
    <3>1. s \in Slot /\ Offset(s) \in 0 .. Count - 1
      BY <1>2, <1>4, <1>6, <1>7 DEF Filled, Offset, Slot
    <3>2. s = (head + Offset(s)) % Slots
      BY <1>2, <1>4, <1>6, <1>7, <1>8, <3>1 DEF Offset, Slot
    <3> QED
      BY <2>1, <3>1, <3>2
  <2> QED
    BY <2>2, <2>3
<1> QED
  BY <1>5, <1>6, <1>9, <1>10

\* Whatever the interleaving of producer() and consumer(), and whatever the
\* numbers of threads, slots and items: no item is lost, overwritten in the
\* buffer or taken from it twice, and the semaphores agree with the indices.
THEOREM NoItemIsLost == Spec => []NothingLost
<1>1. ProgramInv => NothingLost
  <2> SUFFICES ASSUME ProgramInv PROVE NothingLost
    OBVIOUS
  <2>1. ItemInv
    BY DEF ProgramInv
  <2>2. counter = Cardinality(consumed)
    BY <2>1 DEF ItemInv
  <2>3. ASSUME mutex = 1, NEW x \in 0 .. next - 1
        PROVE  Cardinality({p \in Producers : item[p] = x /\ pc[p] \in Carrying})
               + Cardinality({c \in Consumers : item[c] = x /\ pc[c] \in Taken})
               + Cardinality({s \in Held : queue[s] = x})
               + Cardinality({x} \cap consumed) = 1
    <3>1. Held = Filled
      BY <2>3, HeldIsFilled
    <3>2. Cardinality(Carriers(x)) + Cardinality(Takers(x))
          + Cardinality(Holding(x)) + Cardinality(Eaten(x)) = 1
      BY <2>1 DEF ItemInv
    <3> QED
      BY <3>1, <3>2 DEF Carriers, Takers, Holding, Eaten
  <2>4. mutex = 1 => InBuffer <= Slots /\ (head + InBuffer) % Slots = tail
    BY HeldIsFilled
  <2> QED
    BY <2>2, <2>3, <2>4 DEF NothingLost
<1> QED
  BY <1>1, ProgramInvariant, PTL


\* The producers that have put their -1, and the consumers that have one,
\* when all those that have not are still short of the buffer.
LEMMA PillsCounted ==
  /\ IsFiniteSet(Pills(Producers)) /\ Cardinality(Pills(Producers)) \in Nat
  /\ IsFiniteSet(Pills(Consumers)) /\ Cardinality(Pills(Consumers)) \in Nat
  /\ Cardinality(Pills(Producers)) <= Cardinality(Producers)
  /\ Cardinality(Pills(Consumers)) <= Cardinality(Consumers)
  /\ Pills(Producers) # Producers => Cardinality(Pills(Producers)) < Cardinality(Producers)
  /\ Pills(Consumers) # Consumers => Cardinality(Pills(Consumers)) < Cardinality(Consumers)
  /\ Cardinality(Producers) \in Nat /\ Cardinality(Consumers) \in Nat
<1>1. Pills(Producers) \subseteq Producers /\ Pills(Consumers) \subseteq Consumers
  BY DEF Pills
<1>2. /\ IsFiniteSet(Pills(Producers)) /\ Cardinality(Pills(Producers)) \in Nat
      /\ IsFiniteSet(Pills(Consumers)) /\ Cardinality(Pills(Consumers)) \in Nat
      /\ Cardinality(Producers) \in Nat /\ Cardinality(Consumers) \in Nat
  BY <1>1, BufferAssumption, Counted
<1>3. /\ Cardinality(Pills(Producers)) <= Cardinality(Producers)
      /\ Pills(Producers) # Producers =>
           Cardinality(Pills(Producers)) < Cardinality(Producers)
  BY <1>1, BufferAssumption, Fewer
<1>4. /\ Cardinality(Pills(Consumers)) <= Cardinality(Consumers)
      /\ Pills(Consumers) # Consumers =>
           Cardinality(Pills(Consumers)) < Cardinality(Consumers)
  BY <1>1, BufferAssumption, Fewer
<1> QED
  BY <1>2, <1>3, <1>4

\* What is behind the -1s stays bounded, at every step: each late item has a
\* -1 of its own, in the buffer or still to be put.
CrowdInv == LateInv /\ Cardinality(Filled) = Count

\* CrowdInv is inductive, given ProgramInv.
LEMMA CrowdInvariant == Spec => [](ProgramInv /\ CrowdInv)
<1>1. Init => CrowdInv
  <2> SUFFICES ASSUME Init PROVE CrowdInv
    OBVIOUS
  <2>1. TypeOK /\ BufferInv
    BY ProgramInit DEF ProgramInv
  <2>2. Slots \in Nat \ {0}
    BY BufferAssumption
  <2>3. Count = 0
    <3>1. /\ Cardinality(At(Producers, {"lock", "put"})) \in Nat
          /\ Cardinality(At(Consumers, Behind)) \in Nat
      BY AtCounted
    <3>2. Room >= Slots
      BY <2>2, <3>1 DEF Room, Init
    <3> QED
      BY <2>1, <2>2, <3>2, CountNat DEF BufferInv
  <2>4. Filled = {}
    <3>1. \A s \in Slot : Offset(s) \in Nat
      BY <2>2 DEF Offset, Around, Slot, Init
    <3> QED
      BY <2>3, <3>1 DEF Filled
  <2>5. Cardinality(Filled) = 0
    BY <2>4, FS_EmptySet
  <2> QED
    BY <2>3, <2>4, <2>5 DEF CrowdInv, LateInv, Late
<1>2. ProgramInv /\ CrowdInv /\ [Next]_vars => CrowdInv'
  <2> SUFFICES ASSUME ProgramInv, CrowdInv, [Next]_vars
               PROVE  CrowdInv'
    OBVIOUS
  <2>1. CASE Verify \/ UNCHANGED vars
    <3>1. UNCHANGED <<full, queue, head, item, pc>>
      BY <2>1 DEF Verify, vars
    <3>2. Count' = Count
      BY <3>1 DEF Count, At
    <3>3. Filled' = Filled /\ \A s : Offset(s)' = Offset(s)
      BY <3>1, <3>2 DEF Filled, Offset, Around, Slot
    <3>4. Finishing' = Finishing /\ Pills(Consumers)' = Pills(Consumers)
      BY <3>1 DEF Finishing, Pills
    <3>5. \A s : /\ ItemsFrom(s)' = ItemsFrom(s) /\ PillsFrom(s)' = PillsFrom(s)
                 /\ Late(s)' = Late(s)
      BY <3>1, <3>3, <3>4 DEF ItemsFrom, PillsFrom, Late
    <3>6. LateInv'
      BY <3>4, <3>5 DEF LateInv, CrowdInv, Slot
    <3> QED
      BY <3>2, <3>3, <3>6 DEF CrowdInv
  <2>2. CASE \E t \in Thread : Step(t)
    BY <2>2, LateStep, FilledCountStep DEF CrowdInv
  <2> QED
    BY <2>1, <2>2 DEF Next
<1> QED
  BY <1>1, <1>2, ProgramInvariant, PTL DEF Spec

\* The less-than relation on offsets, as a set of pairs.
Nearer == {p \in Nat \X Nat : p[1] < p[2]}

\* It has no infinite descent: of some slots one is nearest to head.
LEMMA NearerWellFounded == IsWellFoundedOn(Nearer, Nat)
BY NatLessThanWellFounded DEF OpToRel, Nearer

\* One of a set of slots is nearest to head.
LEMMA NearestExists ==
  ASSUME TypeOK, NEW S, S # {}, S \subseteq Slot
  PROVE  \E s \in S : \A r \in S : Offset(r) >= Offset(s)
<1> DEFINE D == {Offset(r) : r \in S}
<1>1. \A r \in S : Offset(r) \in Nat
  <2>1. Around(head) \in Slot
    BY WrapIs DEF TypeOK
  <2> QED
    BY <2>1, BufferAssumption DEF Offset, Slot
<1>2. D # {} /\ D \subseteq Nat
  BY <1>1
<1>3. PICK d \in D : \A e \in D : ~(<<e, d>> \in Nearer)
  <2> HIDE DEF D
  <2> QED
    BY <1>2, NearerWellFounded, WFMin
<1>4. PICK s \in S : d = Offset(s)
  BY <1>3
<1>5. ASSUME NEW r \in S PROVE Offset(r) >= Offset(s)
  <2>1. Offset(r) \in D /\ Offset(r) \in Nat /\ Offset(s) \in Nat
    BY <1>1
  <2>2. ~(<<Offset(r), Offset(s)>> \in Nearer)
    BY <1>3, <1>4, <2>1
  <2>3. ~(Offset(r) < Offset(s))
    BY <2>1, <2>2 DEF Nearer
  <2> QED
    BY <2>1, <2>3
<1> QED
  BY <1>5

\* The slots that hold an item and no -1.
ItemSlots == {s \in Filled : queue[s] # -1}

\* Once a consumer has a -1, each item in the buffer has a -1 of its own,
\* there or still to be put.
LEMMA ItemsBound ==
  ASSUME ProgramInv, CrowdInv, Pills(Consumers) # {}
  PROVE  /\ IsFiniteSet(ItemSlots) /\ Cardinality(ItemSlots) \in Nat
         /\ Cardinality(ItemSlots) <= Cardinality(Holding(-1)) + Cardinality(Finishing)
<1>1. TypeOK
  BY DEF ProgramInv
<1>2. /\ IsFiniteSet(ItemSlots) /\ Cardinality(ItemSlots) \in Nat
      /\ IsFiniteSet(Holding(-1)) /\ Cardinality(Holding(-1)) \in Nat
      /\ Cardinality(Finishing) \in Nat
  <2>1. ItemSlots \subseteq Filled /\ IsFiniteSet(Filled)
    BY LateCounted DEF ItemSlots
  <2> QED
    BY <2>1, LateCounted, PlacesCounted, Counted
<1>3. CASE ItemSlots = {}
  <2>1. Cardinality(ItemSlots) = 0
    BY <1>3, FS_EmptySet
  <2> QED
    BY <1>2, <2>1
<1>4. CASE ItemSlots # {}
  <2>1. ItemSlots \subseteq Slot
    BY DEF ItemSlots, Filled
  <2>2. PICK s \in ItemSlots : \A r \in ItemSlots : Offset(r) >= Offset(s)
    BY <1>1, <1>4, <2>1, NearestExists
  <2>3. s \in Slot /\ Late(s)
    BY <2>1, <2>2 DEF Late, ItemSlots
  <2>4. ItemsFrom(s) = ItemSlots
    BY <2>2 DEF ItemsFrom, ItemSlots
  <2>5. PillsFrom(s) \subseteq Holding(-1)
    BY DEF PillsFrom, Holding
  <2>6. /\ Cardinality(PillsFrom(s)) <= Cardinality(Holding(-1))
        /\ Cardinality(PillsFrom(s)) \in Nat
    BY <1>2, <2>5, Fewer, Counted
  <2>7. Cardinality(ItemsFrom(s)) <= Cardinality(PillsFrom(s)) + Cardinality(Finishing)
    BY <2>3 DEF CrowdInv, LateInv
  <2> QED
    BY <1>2, <2>4, <2>6, <2>7
<1> QED
  BY <1>2, <1>3, <1>4

\* So the producers that have yet to put their -1 bound what is in the
\* buffer.
LEMMA CrowdBound ==
  ASSUME ProgramInv, CrowdInv, Pills(Consumers) # {}
  PROVE  Count <= 2 * Cardinality(Holding(-1)) + Cardinality(Finishing)
<1>1. /\ IsFiniteSet(ItemSlots) /\ Cardinality(ItemSlots) \in Nat
      /\ Cardinality(ItemSlots) <= Cardinality(Holding(-1)) + Cardinality(Finishing)
  BY ItemsBound
<1>2. /\ IsFiniteSet(Holding(-1)) /\ Cardinality(Holding(-1)) \in Nat
      /\ Cardinality(Finishing) \in Nat
  BY LateCounted, PlacesCounted
<1>3. Count = Cardinality(ItemSlots) + Cardinality(Holding(-1))
  <2>1. Filled = ItemSlots \cup Holding(-1) /\ ItemSlots \cap Holding(-1) = {}
    BY DEF Holding, ItemSlots
  <2>2. Cardinality(ItemSlots \cap Holding(-1)) = 0
    BY <2>1, FS_EmptySet
  <2>3. Cardinality(ItemSlots \cup Holding(-1)) = Cardinality(ItemSlots)
          + Cardinality(Holding(-1)) - Cardinality(ItemSlots \cap Holding(-1))
    BY <1>1, <1>2, FS_Union
  <2>4. Cardinality(Filled) = Count
    BY DEF CrowdInv
  <2> QED
    BY <1>1, <1>2, <2>1, <2>2, <2>3, <2>4
<1> QED
  BY <1>1, <1>2, <1>3

\* When all have ended, an item that was not consumed is in the buffer, and a
\* -1 with it: those are as many as the producers without a consumer.
LEMMA EndsWithFew ==
  ASSUME ProgramInv, CrowdInv, AllEnded, Producers # {}, Consumers # {}
  PROVE  FewMissing
<1>1. TypeOK /\ ItemInv /\ PillInv
  BY DEF ProgramInv
<1>2. Done \in Nat
  BY BufferAssumption
<1>3. next = Done
  BY <1>1 DEF PillInv, AllEnded, Thread
<1>4. Pills(Producers) = Producers /\ Pills(Consumers) = Consumers
  BY <1>1 DEF PillInv, Pills, AllEnded, Thread
<1>5. /\ Cardinality(Holding(-1)) \in Nat
      /\ Cardinality(Producers) \in Nat /\ Cardinality(Consumers) \in Nat
      /\ Cardinality(Holding(-1)) = Cardinality(Producers) - Cardinality(Consumers)
  <2>1. Cardinality(Producers) = Cardinality(Consumers) + Cardinality(Holding(-1))
    BY <1>1, <1>4 DEF PillInv
  <2> QED
    BY <2>1, PlacesCounted, PillsCounted
<1>6. Cardinality(Finishing) = 0
  <2>1. Finishing = {}
    BY DEF Finishing, AllEnded, Thread, Carrying, Behind
  <2> QED
    BY <2>1, FS_EmptySet
<1>7. /\ IsFiniteSet(ItemSlots) /\ Cardinality(ItemSlots) \in Nat
      /\ Cardinality(ItemSlots) <= Cardinality(Holding(-1))
  BY <1>4, <1>5, <1>6, ItemsBound
<1> DEFINE Left == (0 .. Done - 1) \ consumed
<1>8. IsFiniteSet(Left) /\ Cardinality(Left) = Done - counter /\ counter \in Nat
  <2>1. IsFiniteSet(0 .. Done - 1) /\ Cardinality(0 .. Done - 1) = Done
    <3>1. /\ IsFiniteSet(0 .. Done - 1)
          /\ Cardinality(0 .. Done - 1) = IF 0 > Done - 1 THEN 0 ELSE (Done - 1) - 0 + 1
      BY <1>2, FS_Interval
    <3> QED
      BY <1>2, <3>1
  <2>2. consumed \subseteq 0 .. Done - 1
    BY <1>1, <1>3 DEF TypeOK
  <2>3. IsFiniteSet(consumed) /\ Cardinality(consumed) \in Nat
    BY <2>1, <2>2, Counted
  <2>4. /\ Left \cup consumed = 0 .. Done - 1 /\ Left \cap consumed = {}
        /\ Left \subseteq 0 .. Done - 1
    BY <2>2
  <2> HIDE DEF Left
  <2>5. IsFiniteSet(Left) /\ Cardinality(Left) \in Nat
    BY <2>1, <2>4, Counted
  <2>6. Cardinality(Left \cup consumed) =
          Cardinality(Left) + Cardinality(consumed) - Cardinality(Left \cap consumed)
    BY <2>3, <2>5, FS_Union
  <2>7. Cardinality(Left \cap consumed) = 0
    BY <2>4, FS_EmptySet
  <2>8. counter = Cardinality(consumed)
    BY <1>1 DEF ItemInv
  <2>9. Cardinality(Left \cup consumed) = Done
    BY <2>1, <2>4
  <2> QED
    BY <1>2, <2>3, <2>5, <2>6, <2>7, <2>8, <2>9
<1>9. ASSUME NEW x \in Left
      PROVE  \E s \in ItemSlots : queue[s] = x
  <2>1. Carriers(x) = {} /\ Takers(x) = {} /\ Eaten(x) = {}
    BY DEF Carriers, Takers, Eaten, AllEnded, Thread, Carrying, Taken
  <2>2. /\ Cardinality(Carriers(x)) = 0 /\ Cardinality(Takers(x)) = 0
        /\ Cardinality(Eaten(x)) = 0
    BY <2>1, FS_EmptySet
  <2>3. Cardinality(Carriers(x)) + Cardinality(Takers(x))
        + Cardinality(Holding(x)) + Cardinality(Eaten(x)) = 1
    BY <1>1, <1>3 DEF ItemInv
  <2>4. Cardinality(Holding(x)) = 1
    <3>1. Cardinality(Holding(x)) \in Nat
      BY PlacesCounted
    <3> QED
      BY <2>2, <2>3, <3>1
  <2>5. Holding(x) # {}
    BY <2>4, FS_EmptySet
  <2>6. x # -1
    BY <1>2
  <2> QED
    BY <2>5, <2>6 DEF Holding, ItemSlots
<1> DEFINE f == [x \in Left |-> CHOOSE s \in ItemSlots : queue[s] = x]
<1>10. ~(Cardinality(ItemSlots) < Cardinality(Left))
  <2> SUFFICES ASSUME Cardinality(ItemSlots) < Cardinality(Left) PROVE FALSE
    OBVIOUS
  <2>1. \A x \in Left : f[x] \in ItemSlots /\ queue[f[x]] = x
    BY <1>9
  <2>2. f \in [Left -> ItemSlots]
    BY <2>1
  <2> HIDE DEF f, Left
  <2>3. \E x, y \in Left : x # y /\ f[x] = f[y]
    BY <1>7, <1>8, <2>2, FS_PigeonHole
  <2> QED
    BY <2>1, <2>3
<1> HIDE DEF Left, f
<1>11. Done - counter \in Nat
  BY <1>8, FS_CardinalityType
<1> QED
  BY <1>2, <1>5, <1>7, <1>8, <1>10, <1>11 DEF FewMissing

\* main's VERIFY(DONE) finds at most one item missing for each producer that
\* has no consumer, and none if there is no such producer, for any numbers of
\* slots, items, producers and consumers; so also for the 8 producers and 7
\* consumers of test-m2m-pc.c, where it may find one missing.
THEOREM FewAreLeftOver == Spec => []FewLeftOver
<1> DEFINE Some == Producers # {} /\ Consumers # {}
           Excused == Some /\ nope => Cardinality(Producers) > Cardinality(Consumers)
<1>1. Init => Excused
  BY DEF Init
<1>2. ProgramInv /\ CrowdInv /\ Excused /\ [Next]_vars => Excused'
  <2> SUFFICES ASSUME ProgramInv, CrowdInv, Excused, [Next]_vars, Some, nope'
               PROVE  Cardinality(Producers) > Cardinality(Consumers)
    OBVIOUS
  <2>1. CASE Verify
    <3>1. FewMissing /\ counter # Done
      BY <2>1, EndsWithFew DEF Verify
    <3>2. /\ Cardinality(Producers) \in Nat /\ Cardinality(Consumers) \in Nat
          /\ Done \in Nat
      BY PillsCounted, BufferAssumption
    <3>3. counter \in Nat
      <4>1. consumed \subseteq 0 .. next - 1 /\ next \in Nat /\ counter = Cardinality(consumed)
        BY BufferAssumption DEF ProgramInv, TypeOK, ItemInv
      <4>2. IsFiniteSet(0 .. next - 1)
        BY <4>1, FS_Interval
      <4> QED
        BY <4>1, <4>2, Counted
    <3> QED
      BY <3>1, <3>2, <3>3 DEF FewMissing
  <2>2. CASE UNCHANGED vars \/ \E t \in Thread : Step(t)
    BY <2>2 DEF vars, Step, Produce, WaitEmpty, Lock, Put, WrapTail, Unlock, PostFull,
       WaitFull, Take, WrapHead, PostEmpty, Consume
  <2> QED
    BY <2>1, <2>2 DEF Next
<1>3. ProgramInv /\ CrowdInv /\ Excused => FewLeftOver
  BY EndsWithFew DEF FewLeftOver
<1> QED
  BY <1>1, <1>2, <1>3, CrowdInvariant, PTL DEF Spec

\* No deadlock between the producers and the consumers, for any numbers of
\* items, threads and slots with room for what the producers that are left
\* over put into the buffer: a thread that waits for empty, for full or for
\* the mutex has another one that can go on.
THEOREM SomeoneGoesOn == Spec => []NeverStuck
<1>1. ProgramInv /\ CrowdInv => NeverStuck
  <2> SUFFICES ASSUME ProgramInv, CrowdInv, EnoughRoom,
                      ~AllEnded, \A t \in Thread : ~CanGo(t)
               PROVE  FALSE
    BY DEF NeverStuck
  <2>1. TypeOK /\ MutexInv /\ BufferInv /\ ItemInv /\ PillInv
    BY DEF ProgramInv
  <2>2. Slots \in Nat \ {0}
    BY BufferAssumption
  <2>3. mutex = 1
    <3> SUFFICES ASSUME mutex # 1 PROVE FALSE
      OBVIOUS
    <3>1. PICK t \in Thread : pc[t] \in Critical
      BY <2>1 DEF MutexInv, At
    <3> QED
      BY <3>1 DEF CanGo, Critical
  <2>4. /\ \A p \in Producers : pc[p] \in {"empty", "ended"}
        /\ \A c \in Consumers : pc[c] \in {"full", "ended"}
        /\ \A p \in Producers : pc[p] = "empty" => empty = 0
        /\ \A c \in Consumers : pc[c] = "full" => full = 0
    BY <2>1, <2>3 DEF CanGo, Thread, TypeOK, ProducerPc, ConsumerPc
  <2>5. Count = full /\ Room = empty /\ Count + Room = Slots
    <3>1. /\ At(Producers, Behind) = {} /\ At(Consumers, {"lock", "take"}) = {}
          /\ At(Producers, {"lock", "put"}) = {} /\ At(Consumers, Behind) = {}
      BY <2>4 DEF At, Behind
    <3>2. /\ Cardinality(At(Producers, Behind)) = 0
          /\ Cardinality(At(Consumers, {"lock", "take"})) = 0
          /\ Cardinality(At(Producers, {"lock", "put"})) = 0
          /\ Cardinality(At(Consumers, Behind)) = 0
      BY <3>1, FS_EmptySet
    <3>3. full \in Nat /\ empty \in Nat
      BY <2>1 DEF TypeOK
    <3> QED
      BY <2>1, <3>2, <3>3 DEF Count, Room, BufferInv
  <2>6. Cardinality(Pills(Producers)) =
          Cardinality(Pills(Consumers)) + Cardinality(Holding(-1))
        /\ Cardinality(Holding(-1)) \in Nat
    BY <2>1, PlacesCounted DEF PillInv
  <2>7. \A t \in Thread : pc[t] = "ended" => item[t] = -1
    BY <2>1 DEF PillInv
  <2>8. CASE \E c \in Consumers : pc[c] = "full"
    <3>1. full = 0 /\ empty # 0
      BY <2>1, <2>2, <2>4, <2>5, <2>8 DEF TypeOK
    <3>2. Pills(Producers) = Producers
      BY <2>4, <2>7, <3>1 DEF Pills, Thread
    <3>3. Pills(Consumers) # Consumers
      BY <2>8 DEF Pills, Behind
    <3>4. Holding(-1) = {}
      <4>1. Count = 0 /\ Around(head) \in Slot
        BY <2>1, <2>5, <3>1, WrapIs DEF TypeOK
      <4>2. \A s \in Slot : ~(Offset(s) < Count)
        BY <2>2, <4>1 DEF Offset, Slot
      <4> QED
        BY <4>2 DEF Holding, Filled
    <3>5. Cardinality(Holding(-1)) = 0
      BY <3>4, FS_EmptySet
    <3> QED
      BY <2>6, <3>2, <3>3, <3>5, PillsCounted DEF EnoughRoom
  <2>9. CASE \A c \in Consumers : pc[c] = "ended"
    <3>1. Pills(Consumers) = Consumers
      BY <2>7, <2>9 DEF Pills, Thread
    <3>2. PICK p \in Producers : pc[p] = "empty"
      BY <2>4, <2>9 DEF AllEnded, Thread
    <3>3. Pills(Producers) # Producers
      BY <3>2 DEF Pills, Behind
    <3>4. Count = Slots
      BY <2>1, <2>2, <2>4, <2>5, <3>2 DEF TypeOK
    <3>5. Consumers # {}
      BY FS_EmptySet DEF EnoughRoom
    <3>6. Slots <= 2 * Cardinality(Holding(-1)) + Cardinality(Finishing)
      BY <3>1, <3>4, <3>5, CrowdBound
    <3>7. Cardinality(Finishing) <= Cardinality(Producers) - Cardinality(Pills(Producers))
      <4>1. /\ Finishing \cap Pills(Producers) = {}
            /\ Finishing \cup Pills(Producers) \subseteq Producers
        BY <2>4 DEF Finishing, Pills, Carrying, Behind
      <4>2. /\ IsFiniteSet(Finishing) /\ IsFiniteSet(Pills(Producers))
            /\ Cardinality(Finishing) \in Nat /\ Cardinality(Pills(Producers)) \in Nat
            /\ Cardinality(Producers) \in Nat
        BY LateCounted, PillsCounted
      <4>3. Cardinality(Finishing \cup Pills(Producers)) =
              Cardinality(Finishing) + Cardinality(Pills(Producers))
              - Cardinality(Finishing \cap Pills(Producers))
        BY <4>2, FS_Union
      <4>4. Cardinality(Finishing \cap Pills(Producers)) = 0
        BY <4>1, FS_EmptySet
      <4>5. Cardinality(Finishing \cup Pills(Producers)) <= Cardinality(Producers)
        BY <4>1, BufferAssumption, Fewer
      <4> QED
        BY <4>2, <4>3, <4>4, <4>5
    <3>8. /\ Cardinality(Pills(Producers)) < Cardinality(Producers)
          /\ Cardinality(Pills(Producers)) =
               Cardinality(Consumers) + Cardinality(Holding(-1))
          /\ 2 * (Cardinality(Producers) - Cardinality(Consumers)) <= Slots
          /\ Cardinality(Producers) \in Nat /\ Cardinality(Consumers) \in Nat
          /\ Cardinality(Holding(-1)) \in Nat /\ Cardinality(Finishing) \in Nat
      BY <2>6, <3>1, <3>3, PillsCounted, LateCounted DEF EnoughRoom
    <3> QED
      BY <2>2, <3>6, <3>7, <3>8
  <2> QED
    BY <2>4, <2>8, <2>9
<1> QED
  BY <1>1, CrowdInvariant, PTL

=============================================================================
