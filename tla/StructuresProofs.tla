------------------------- MODULE StructuresProofs --------------------------
(***************************************************************************)
(* Proofs about the two data structures that the library is built on.      *)
(*                                                                         *)
(* The bytes, shifts and masks of bitvec.c are a set of tids to            *)
(* get_next_tid and reclaim_tid, for vectors of any length.                *)
(*                                                                         *)
(* The linked list of queue.c is a sequence, for any number of nodes and   *)
(* items and any order of calls of CoreSpec: queue_init, queue_enqueue,    *)
(* queue_insert_first, queue_peek, queue_dequeue, queue_size and           *)
(* queue_destroy.  Of queue_remove_item it does not hold: see RemoveFinds. *)
(*                                                                         *)
(* The properties of the list are stated with Pointer, which follows next  *)
(* from the header.  The inductive invariant QueueInv names the nodes      *)
(* instead: some sequence p of distinct nodes is the list.  What Pointer   *)
(* computes is derived from p once (PointerIs): it is the only function    *)
(* that satisfies its recursive equation.                                  *)
(***************************************************************************)
EXTENDS Queue, Bitvec, FiniteSetTheorems, SequenceTheorems,
        WellFoundedInduction, TLAPS

-----------------------------------------------------------------------------
(* The bit vector.                                                         *)

\* A byte has Byte bits, and the vector is a whole number of bytes, as
\* UTHREAD_MAX_THREADS is: otherwise the last byte has bits that are no tids.
WholeBytes == /\ Byte \in Nat \ {0} /\ NBits \in Nat
              /\ \E h \in Nat : NBits = h * Byte

\* Every byte of the vector has bits of a byte.
VecOK == vec \in [0 .. NBytes - 1 -> SUBSET (0 .. Byte - 1)]

Used == {i \in 0 .. NBits - 1 : BitvecGet(i)}

\* The less-than relation on indices and positions, as a set of pairs.
Below == {x \in Nat \X Nat : x[1] < x[2]}

\* It has no infinite descent.
LEMMA BelowWellFounded == IsWellFoundedOn(Below, Nat)
BY NatLessThanWellFounded DEF OpToRel, Below

\* A set of indices that is not empty has a smallest.
LEMMA MinIn ==
  ASSUME NEW I \in SUBSET Nat, I # {}
  PROVE  Min(I) \in I
<1>1. PICK m \in I : \A h \in I : m <= h
  <2>1. PICK m \in I : \A h \in I : ~(<<h, m>> \in Below)
    BY BelowWellFounded, WFMin
  <2>2. \A h \in I : m <= h
    <3> TAKE h \in I
    <3>1. m \in Nat /\ h \in Nat /\ ~(h < m)
      BY <2>1 DEF Below
    <3> QED
      BY <3>1
  <2> QED
    BY <2>2
<1> QED
  BY <1>1 DEF Min

\* The byte and the bit of an index.
LEMMA DivMod ==
  ASSUME NEW b \in Nat \ {0}, NEW i \in Nat
  PROVE  /\ i \div b \in Nat /\ i % b \in 0 .. b - 1
         /\ i = b * (i \div b) + (i % b)
<1>1. i \div b \in Int
  OBVIOUS
<1>2. i % b \in 0 .. b - 1
  OBVIOUS
<1>3. i = b * (i \div b) + (i % b)
  OBVIOUS
<1>4. i \div b >= 0
  OBVIOUS
<1> QED
  BY <1>1, <1>2, <1>3, <1>4


\* Multiplication is monotone.
LEMMA Monotone ==
  ASSUME NEW a \in Nat, NEW m \in Int, NEW h \in Int, m < h
  PROVE  a * m + a <= a * h
<1>1. PICK d \in Nat : h = m + 1 + d
  <2>1. h - m - 1 \in Nat /\ h = m + 1 + (h - m - 1)
    OBVIOUS
  <2> QED
    BY <2>1
<1>2. a * h = a * m + a + a * d
  BY <1>1
<1>3. a * d >= 0 /\ a * d \in Int /\ a * m \in Int
  OBVIOUS
<1> QED
  BY <1>2, <1>3

\* Byte and bit are those of one index only.
LEMMA OneIndex ==
  ASSUME NEW b \in Nat \ {0}, NEW q \in Int, NEW p \in Int,
         NEW r \in 0 .. b - 1, NEW s \in 0 .. b - 1, b * q + r = b * p + s
  PROVE  q = p /\ r = s
<1>1. b * q \in Int /\ b * p \in Int
  OBVIOUS
<1>2. ~(q < p)
  <2> SUFFICES ASSUME q < p PROVE FALSE
    OBVIOUS
  <2>1. b * q + b <= b * p
    BY Monotone
  <2> QED
    BY <1>1, <2>1
<1>3. ~(p < q)
  <2> SUFFICES ASSUME p < q PROVE FALSE
    OBVIOUS
  <2>1. b * p + b <= b * q
    BY Monotone
  <2> QED
    BY <1>1, <2>1
<1>4. q = p
  BY <1>2, <1>3
<1> QED
  BY <1>1, <1>4

\* The vector has no bits but those of the tids.
LEMMA VectorSize ==
  ASSUME WholeBytes
  PROVE  /\ NBytes \in Nat /\ NBytes * Byte = NBits
         /\ \A i \in 0 .. NBits - 1 : i \div Byte \in 0 .. NBytes - 1
<1>1. PICK h \in Nat : NBits = h * Byte
  BY DEF WholeBytes
<1>2. Byte \in Nat \ {0} /\ NBits \in Nat
  BY DEF WholeBytes
<1>3. NBytes = h
  <2>1. PICK m \in Nat : m = Byte - 1 + NBits
    BY <1>2
  <2>2. /\ m \div Byte \in Nat /\ m % Byte \in 0 .. Byte - 1
        /\ m = Byte * (m \div Byte) + (m % Byte)
    BY <1>2, DivMod
  <2>3. Byte * h = h * Byte /\ Byte * h \in Nat /\ Byte - 1 \in 0 .. Byte - 1
    BY <1>2
  <2>4. m = Byte * h + (Byte - 1)
    BY <1>1, <1>2, <2>1, <2>3
  <2>5. m \div Byte = h
    BY <1>2, <2>2, <2>3, <2>4, OneIndex
  <2> QED
    BY <2>1, <2>5 DEF NBytes
<1>4. ASSUME NEW i \in 0 .. NBits - 1 PROVE i \div Byte \in 0 .. NBytes - 1
  <2>1. i \in Nat /\ i < NBits
    BY <1>2
  <2>2. /\ i \div Byte \in Nat /\ i % Byte \in 0 .. Byte - 1
        /\ i = Byte * (i \div Byte) + (i % Byte)
    BY <1>2, <2>1, DivMod
  <2>3. PICK q \in Nat, r \in 0 .. Byte - 1 :
           q = i \div Byte /\ r = i % Byte /\ i = Byte * q + r
    BY <2>2
  <2>4. ~(h <= q)
    <3> SUFFICES ASSUME h <= q PROVE FALSE
      OBVIOUS
    <3>1. Byte * h <= Byte * q /\ Byte * h \in Nat /\ Byte * q \in Nat
      <4>1. Byte * h \in Nat /\ Byte * q \in Nat
        BY <1>2
      <4>2. CASE h = q
        BY <4>1, <4>2
      <4>3. CASE h < q
        BY <1>2, <4>1, <4>3, Monotone
      <4> QED
        BY <4>1, <4>2, <4>3
    <3>2. NBits = Byte * h
      BY <1>1, <1>2
    <3> QED
      BY <1>2, <2>1, <2>3, <3>1, <3>2
  <2>5. q \in 0 .. h - 1
    BY <2>4
  <2> QED
    BY <1>3, <2>3, <2>5
<1> QED
  BY <1>1, <1>3, <1>4


\* Two tids share no bit.
LEMMA BitsDiffer ==
  ASSUME WholeBytes, NEW i \in 0 .. NBits - 1, NEW j \in 0 .. NBits - 1,
         i \div Byte = j \div Byte, i % Byte = j % Byte
  PROVE  i = j
<1>1. Byte \in Nat \ {0} /\ i \in Nat /\ j \in Nat
  BY DEF WholeBytes
<1>2. i = Byte * (i \div Byte) + (i % Byte)
  BY <1>1, DivMod
<1>3. j = Byte * (j \div Byte) + (j % Byte)
  BY <1>1, DivMod
<1> QED
  BY <1>2, <1>3

\* bitvec_set and bitvec_clear change the bit of one tid.
LEMMA BitvecWrites ==
  ASSUME WholeBytes, VecOK, NEW t \in 0 .. NBits - 1
  PROVE  /\ vec' = BitvecSet(t) => VecOK' /\ Used' = Used \cup {t}
         /\ vec' = BitvecClear(t) => VecOK' /\ Used' = Used \ {t}
<1>1. /\ t \div Byte \in 0 .. NBytes - 1 /\ t % Byte \in 0 .. Byte - 1
      /\ \A i \in 0 .. NBits - 1 : i \div Byte \in 0 .. NBytes - 1
  <2>1. Byte \in Nat \ {0} /\ t \in Nat
    BY DEF WholeBytes
  <2> QED
    BY <2>1, VectorSize, DivMod
<1>2. ASSUME vec' = BitvecSet(t)
      PROVE  VecOK' /\ Used' = Used \cup {t}
  <2>1. vec' = [vec EXCEPT ![t \div Byte] = vec[t \div Byte] \cup {t % Byte}]
    BY <1>2 DEF BitvecSet
  <2>2. VecOK'
    BY <1>1, <2>1 DEF VecOK
  <2>3. ASSUME NEW i \in 0 .. NBits - 1
        PROVE  BitvecGet(i)' <=> BitvecGet(i) \/ i = t
    <3>1. i % Byte \in vec'[i \div Byte] <=> i % Byte \in vec[i \div Byte] \/ i = t
      BY <1>1, <2>1, BitsDiffer DEF VecOK
    <3> QED
      BY <3>1 DEF BitvecGet
  <2> QED
    BY <2>2, <2>3 DEF Used
<1>3. ASSUME vec' = BitvecClear(t)
      PROVE  VecOK' /\ Used' = Used \ {t}
  <2>1. vec' = [vec EXCEPT ![t \div Byte] = vec[t \div Byte] \ {t % Byte}]
    BY <1>3 DEF BitvecClear
  <2>2. VecOK'
    BY <1>1, <2>1 DEF VecOK
  <2>3. ASSUME NEW i \in 0 .. NBits - 1
        PROVE  BitvecGet(i)' <=> BitvecGet(i) /\ i # t
    <3>1. i % Byte \in vec'[i \div Byte] <=> i % Byte \in vec[i \div Byte] /\ i # t
      BY <1>1, <2>1, BitsDiffer DEF VecOK
    <3> QED
      BY <3>1 DEF BitvecGet
  <2> QED
    BY <2>2, <2>3 DEF Used
<1> QED
  BY <1>2, <1>3

\* bitvec_first_cleared_index finds the smallest tid that is not in use, and
\* fails only when there is none.
LEMMA SearchFinds ==
  ASSUME WholeBytes
  PROVE  /\ Used = 0 .. NBits - 1 => FirstClearedIndex = -1
         /\ Used # 0 .. NBits - 1 =>
               /\ FirstClearedIndex = Min((0 .. NBits - 1) \ Used)
               /\ FirstClearedIndex \in (0 .. NBits - 1) \ Used
<1>1. {j \in Searched : ~BitvecGet(j)} = (0 .. NBits - 1) \ Used
  BY VectorSize DEF Searched, Used
<1>2. (0 .. NBits - 1) \ Used \in SUBSET Nat /\ Used \subseteq 0 .. NBits - 1
  BY DEF WholeBytes, Used
<1>3. FirstClearedIndex = IF (0 .. NBits - 1) \ Used = {} THEN -1
                          ELSE Min((0 .. NBits - 1) \ Used)
  BY <1>1 DEF FirstClearedIndex
<1>4. Used # 0 .. NBits - 1 => (0 .. NBits - 1) \ Used # {}
  BY <1>2
<1> QED
  BY <1>2, <1>3, <1>4, MinIn

\* With a whole number of bytes, of any size, get_next_tid and reclaim_tid
\* take and give back tids of a set: the smallest that is free, in whatever
\* byte it is, and no other bit changes.
THEOREM ImplementsTidSet ==
  ASSUME WholeBytes
  PROVE  BitvecSpec => TidSetSpec
<1>1. BitvecInit => VecOK /\ S!Init
  <2> SUFFICES ASSUME BitvecInit PROVE VecOK /\ Used = {} /\ tid = 0
    BY DEF S!Init, Used
  <2>1. VecOK /\ tid = 0
    BY DEF BitvecInit, VecOK
  <2>2. \A i \in 0 .. NBits - 1 : ~BitvecGet(i)
    BY VectorSize DEF BitvecInit, BitvecGet
  <2> QED
    BY <2>1, <2>2 DEF Used
<1>2. VecOK /\ [BitvecNext]_bitVars => VecOK' /\ [S!Next]_<<Used, tid>>
  <2> SUFFICES ASSUME VecOK, [BitvecNext]_bitVars
               PROVE  VecOK' /\ (S!Next \/ (Used' = Used /\ tid' = tid))
    OBVIOUS
  <2>1. CASE GetNextTid /\ Used = 0 .. NBits - 1
    <3>1. tid' = 1 /\ vec' = vec
      BY <2>1, SearchFinds DEF GetNextTid
    <3>2. VecOK' /\ Used' = Used
      BY <3>1 DEF VecOK, Used, BitvecGet
    <3> QED
      BY <2>1, <3>1, <3>2 DEF S!Next, S!TakeTid, S!Tid, Used
  <2>2. CASE GetNextTid /\ Used # 0 .. NBits - 1
    <3>1. PICK t \in (0 .. NBits - 1) \ Used :
             t = FirstClearedIndex /\ t = Min((0 .. NBits - 1) \ Used)
      BY <2>2, SearchFinds
    <3>2. ~(t < 0)
      BY <3>1 DEF WholeBytes
    <3>3. tid' = t /\ vec' = BitvecSet(t)
      BY <2>2, <3>1, <3>2 DEF GetNextTid
    <3>4. VecOK' /\ Used' = Used \cup {t}
      BY <3>3, BitvecWrites
    <3> QED
      BY <2>2, <3>1, <3>3, <3>4 DEF S!Next, S!TakeTid, S!Tid, S!Min, Min, Used
  <2>3. ASSUME NEW t \in 0 .. NBits - 1, ReclaimTid(t)
        PROVE  VecOK' /\ S!Next
    <3>1. vec' = BitvecClear(t) /\ tid' = tid /\ t \in Used
      BY <2>3 DEF ReclaimTid, Used
    <3>2. VecOK' /\ Used' = Used \ {t}
      BY <3>1, BitvecWrites
    <3> QED
      BY <3>1, <3>2 DEF S!Next, S!ReclaimTid, Used
  <2>4. CASE UNCHANGED bitVars
    <3>1. vec' = vec /\ tid' = tid
      BY <2>4 DEF bitVars
    <3> QED
      BY <3>1 DEF VecOK, Used, BitvecGet
  <2> QED
    BY <2>1, <2>2, <2>3, <2>4 DEF BitvecNext
<1> QED
  BY <1>1, <1>2, PTL DEF BitvecSpec, TidSetSpec, S!Spec, Used

-----------------------------------------------------------------------------
(* The inductive invariant of the list.                                    *)

\* The nodes in p are chained from the header to NULL by next.
Chain(p) ==
  /\ p \in Seq(Node)
  /\ \A i, j \in 1 .. Len(p) : p[i] = p[j] => i = j
  /\ next[Head0] = IF Len(p) = 0 THEN NULL ELSE p[1]
  /\ \A i \in 1 .. Len(p) : next[p[i]] = IF i = Len(p) THEN NULL ELSE p[i + 1]

NodesOf(p) == {p[i] : i \in 1 .. Len(p)}

\* They are the nodes that are allocated; size and tail agree.
ListIs(p) ==
  /\ Chain(p)
  /\ alive = NodesOf(p)
  /\ size = Len(p)
  /\ tail = IF Len(p) = 0 THEN Head0 ELSE p[Len(p)]

\* What a node may hold.
Value == Item \cup {NULL}

QueueInv ==
  /\ item \in [Node -> Value]
  /\ next \in [Node \cup {Head0} -> Node \cup {NULL}]
  /\ fault = "none"
  /\ n = Head0
  /\ \E len \in 0 .. Cardinality(Node) : \E p \in [1 .. len -> Node] : ListIs(p)

-----------------------------------------------------------------------------
(* What Pointer computes.                                                  *)

\* The chain p as Pointer should see it.
Along(p) == [i \in 0 .. Cardinality(Node) |-> IF i < Len(p) THEN p[i + 1] ELSE NULL]

\* It satisfies the equation by which Pointer is defined.
LEMMA AlongUnfolds ==
  ASSUME NEW p, Chain(p)
  PROVE  Along(p) = [i \in 0 .. Cardinality(Node) |->
            IF i = 0 THEN next[Head0]
            ELSE IF Along(p)[i - 1] = NULL THEN NULL ELSE next[Along(p)[i - 1]]]
<1>1. /\ Cardinality(Node) \in Nat /\ Len(p) \in Nat /\ p \in Seq(Node)
      /\ NULL \notin Node
  BY FS_CardinalityType, QueueAssumption DEF Chain
<1>2. ASSUME NEW i \in 0 .. Cardinality(Node)
      PROVE  Along(p)[i] = IF i = 0 THEN next[Head0]
               ELSE IF Along(p)[i - 1] = NULL THEN NULL ELSE next[Along(p)[i - 1]]
  <2>1. CASE i = 0
    BY <1>1, <2>1 DEF Along, Chain
  <2>2. CASE i # 0
    <3>1. /\ i - 1 \in 0 .. Cardinality(Node) /\ i \in Nat
          /\ Along(p)[i - 1] = IF i - 1 < Len(p) THEN p[i] ELSE NULL
      BY <1>1, <2>2 DEF Along
    <3>2. CASE i - 1 < Len(p)
      <4>1. p[i] \in Node /\ i \in 1 .. Len(p)
        BY <1>1, <2>2, <3>1, <3>2
      <4> QED
        BY <1>1, <2>2, <3>1, <3>2, <4>1 DEF Along, Chain
    <3>3. CASE ~(i - 1 < Len(p))
      BY <1>1, <2>2, <3>1, <3>3 DEF Along
    <3> QED
      BY <3>2, <3>3
  <2> QED
    BY <2>1, <2>2
<1> QED
  BY <1>2 DEF Along

\* So does Pointer, then.
LEMMA PointerUnfolds ==
  ASSUME NEW p, Chain(p)
  PROVE  Pointer = [i \in 0 .. Cardinality(Node) |->
            IF i = 0 THEN next[Head0]
            ELSE IF Pointer[i - 1] = NULL THEN NULL ELSE next[Pointer[i - 1]]]
BY AlongUnfolds DEF Pointer

\* Pointer goes along the chain: there is no first position where it does not.
LEMMA PointerIs ==
  ASSUME NEW p, Chain(p)
  PROVE  Pointer = Along(p)
<1>1. Cardinality(Node) \in Nat
  BY FS_CardinalityType, QueueAssumption
<1>2. ASSUME NEW i \in 0 .. Cardinality(Node)
      PROVE  /\ Pointer[i] = IF i = 0 THEN next[Head0]
                             ELSE IF Pointer[i - 1] = NULL THEN NULL
                                                           ELSE next[Pointer[i - 1]]
             /\ Along(p)[i] = IF i = 0 THEN next[Head0]
                              ELSE IF Along(p)[i - 1] = NULL THEN NULL
                                                             ELSE next[Along(p)[i - 1]]
  <2>1. Pointer[i] = [j \in 0 .. Cardinality(Node) |->
            IF j = 0 THEN next[Head0]
            ELSE IF Pointer[j - 1] = NULL THEN NULL ELSE next[Pointer[j - 1]]][i]
    BY PointerUnfolds, Zenon
  <2>2. Along(p)[i] = [j \in 0 .. Cardinality(Node) |->
            IF j = 0 THEN next[Head0]
            ELSE IF Along(p)[j - 1] = NULL THEN NULL ELSE next[Along(p)[j - 1]]][i]
    BY AlongUnfolds, Zenon
  <2> QED
    BY <2>1, <2>2
<1>3. \A i \in 0 .. Cardinality(Node) : Pointer[i] = Along(p)[i]
  <2> DEFINE Bad == {i \in 0 .. Cardinality(Node) : Pointer[i] # Along(p)[i]}
  <2>1. CASE Bad = {}
    BY <2>1
  <2>2. CASE Bad # {}
    <3>1. Bad \subseteq Nat
      BY <1>1
    <3>2. PICK i \in Bad : \A j \in Bad : ~(<<j, i>> \in Below)
      <4> HIDE DEF Bad
      <4> QED
        BY <2>2, <3>1, BelowWellFounded, WFMin
    <3>3. i \in 0 .. Cardinality(Node) /\ Pointer[i] # Along(p)[i]
      BY <3>2
    <3>4. i # 0
      BY <1>2, <3>3
    <3>5. i - 1 \in 0 .. Cardinality(Node) /\ <<i - 1, i>> \in Below
      BY <1>1, <3>3, <3>4 DEF Below
    <3>6. Pointer[i - 1] = Along(p)[i - 1]
      BY <3>2, <3>5
    <3> QED
      BY <1>2, <3>3, <3>4, <3>6
  <2> QED
    BY <2>1, <2>2
<1>4. DOMAIN Pointer = 0 .. Cardinality(Node) /\ DOMAIN Along(p) = 0 .. Cardinality(Node)
  BY PointerUnfolds DEF Along
<1>5. Pointer = [i \in 0 .. Cardinality(Node) |-> Pointer[i]]
  BY <1>4, PointerUnfolds
<1> QED
  BY <1>3, <1>5 DEF Along

\* The nodes of a chain, and how many they are.
LEMMA ChainNodes ==
  ASSUME NEW p, Chain(p)
  PROVE  /\ Len(p) \in 0 .. Cardinality(Node)
         /\ Cardinality(NodesOf(p)) = Len(p)
         /\ IsFiniteSet(NodesOf(p))
<1>1. p \in [1 .. Len(p) -> Node] /\ Len(p) \in Nat /\ IsFiniteSet(Node)
  BY QueueAssumption DEF Chain
<1>2. IsFiniteSet(1 .. Len(p)) /\ Cardinality(1 .. Len(p)) = Len(p)
  <2>1. 1 \in Int /\ Len(p) \in Int
    BY <1>1
  <2>2. /\ IsFiniteSet(1 .. Len(p))
        /\ Cardinality(1 .. Len(p)) = IF 1 > Len(p) THEN 0 ELSE Len(p) - 1 + 1
    BY <2>1, FS_Interval
  <2> QED
    BY <1>1, <2>2
<1>3. p \in Injection(1 .. Len(p), Node)
  BY <1>1 DEF Injection, IsInjective, Chain
<1>4. p \in Surjection(1 .. Len(p), NodesOf(p))
  BY <1>1 DEF Surjection, NodesOf
<1>5. p \in Injection(1 .. Len(p), NodesOf(p))
  <2>1. p \in [1 .. Len(p) -> NodesOf(p)]
    BY <1>1 DEF NodesOf
  <2> QED
    BY <2>1 DEF Injection, IsInjective, Chain
<1>6. Len(p) <= Cardinality(Node) /\ Cardinality(Node) \in Nat
  BY <1>1, <1>2, <1>3, FS_Injection, FS_CardinalityType
<1>7. /\ Cardinality(NodesOf(p)) = Len(p)
      /\ IsFiniteSet(NodesOf(p))
  BY <1>2, <1>4, <1>5, FS_Surjection
<1> QED
  BY <1>1, <1>6, <1>7

\* What Reachable and Contents are for a list.
LEMMA ListContents ==
  ASSUME NEW p, ListIs(p)
  PROVE  /\ Reachable = alive /\ size = Cardinality(alive)
         /\ \A i \in 1 .. Len(p) : Pointer[i - 1] = p[i]
         /\ Contents = [i \in 1 .. Len(p) |-> item[p[i]]]
<1>1. Chain(p) /\ p \in Seq(Node) /\ Len(p) \in Nat /\ Cardinality(Node) \in Nat
  BY FS_CardinalityType, QueueAssumption DEF ListIs, Chain
<1>2. Len(p) <= Cardinality(Node) /\ Cardinality(alive) = Len(p)
  BY <1>1, ChainNodes DEF ListIs
<1>3. \A i \in 1 .. Len(p) : Pointer[i - 1] = p[i]
  BY <1>1, <1>2, PointerIs DEF Along
<1>4. Reachable = alive
  <2>1. DOMAIN Pointer = 0 .. Cardinality(Node)
    BY <1>1, PointerIs DEF Along
  <2>2. \A i \in 0 .. Cardinality(Node) :
           Pointer[i] = NULL \/ (i < Len(p) /\ Pointer[i] = p[i + 1])
    BY <1>1, PointerIs DEF Along
  <2>3. ASSUME NEW x \in Reachable PROVE x \in alive
    <3>1. PICK i \in 0 .. Cardinality(Node) : x = Pointer[i] /\ x # NULL
      BY <2>1 DEF Reachable
    <3>2. x = p[i + 1] /\ i + 1 \in 1 .. Len(p)
      BY <1>1, <2>2, <3>1
    <3> QED
      BY <3>2 DEF ListIs, NodesOf
  <2>4. ASSUME NEW x \in alive PROVE x \in Reachable
    <3>1. PICK i \in 1 .. Len(p) : x = p[i]
      BY DEF ListIs, NodesOf
    <3>2. x = Pointer[i - 1] /\ i - 1 \in 0 .. Cardinality(Node) /\ x \in Node
      BY <1>1, <1>2, <1>3, <3>1
    <3> QED
      BY <2>1, <3>2, QueueAssumption DEF Reachable
  <2> QED
    BY <2>3, <2>4
<1>5. Contents = [i \in 1 .. Len(p) |-> item[p[i]]]
  <2>1. CASE Len(p) = 0
    BY <2>1 DEF Contents, ListIs
  <2>2. CASE Len(p) # 0
    <3>1. tail # Head0
      BY <1>1, <2>2, QueueAssumption DEF ListIs
    <3>2. Contents = [i \in 1 .. Len(p) |-> item[Pointer[i - 1]]]
      BY <1>2, <1>4, <3>1 DEF Contents
    <3> QED
      BY <1>3, <3>2
  <2> QED
    BY <2>1, <2>2
<1> QED
  BY <1>2, <1>3, <1>4, <1>5 DEF ListIs


\* The same for every list, in this state and in the next.
ContentsAgree ==
  \A p : ListIs(p) =>
     /\ Reachable = alive /\ size = Cardinality(alive)
     /\ \A i \in 1 .. Len(p) : Pointer[i - 1] = p[i]
     /\ Contents = [i \in 1 .. Len(p) |-> item[p[i]]]
     /\ Len(p) \in 0 .. Cardinality(Node)

\* Now ...
LEMMA ContentsAgreeNow == ContentsAgree
<1>1. ASSUME NEW p, ListIs(p) PROVE Len(p) \in 0 .. Cardinality(Node)
  BY <1>1, ChainNodes DEF ListIs
<1> QED
  BY <1>1, ListContents DEF ContentsAgree

\* ... and in the next state.
LEMMA ContentsAgreeNext == ContentsAgree'
BY ContentsAgreeNow, PTL

-----------------------------------------------------------------------------
(* Reading the items of a sequence of nodes.                               *)

Values(f, p) == [i \in 1 .. Len(p) |-> f[p[i]]]

\* The values change with the sequence: at its end, ...
LEMMA ValuesAppend ==
  ASSUME NEW f \in [Node -> Value], NEW g \in [Node -> Value],
         NEW p \in Seq(Node), NEW e \in Node, \A i \in 1 .. Len(p) : g[p[i]] = f[p[i]]
  PROVE  Values(g, Append(p, e)) = Append(Values(f, p), g[e])
<1>1. /\ Append(p, e) \in Seq(Node) /\ Len(Append(p, e)) = Len(p) + 1
      /\ Append(p, e)[Len(p) + 1] = e
      /\ \A i \in 1 .. Len(p) : Append(p, e)[i] = p[i]
  BY AppendProperties
<1>2. Values(f, p) \in Seq(Value) /\ Len(Values(f, p)) = Len(p) /\ g[e] \in Value
  <2>1. Len(p) \in Nat /\ g[e] \in Value /\ \A i \in 1 .. Len(p) : f[p[i]] \in Value
    OBVIOUS
  <2> QED
    BY <2>1 DEF Values
<1>3. /\ Append(Values(f, p), g[e]) \in Seq(Value)
      /\ Len(Append(Values(f, p), g[e])) = Len(p) + 1
      /\ Append(Values(f, p), g[e])[Len(p) + 1] = g[e]
      /\ \A i \in 1 .. Len(p) : Append(Values(f, p), g[e])[i] = f[p[i]]
  BY <1>2, AppendProperties DEF Values
<1>4. /\ Values(g, Append(p, e)) \in Seq(Value)
      /\ Len(Values(g, Append(p, e))) = Len(p) + 1
  <2>1. /\ Len(Append(p, e)) \in Nat
        /\ \A i \in 1 .. Len(Append(p, e)) : g[Append(p, e)[i]] \in Value
    BY <1>1
  <2> QED
    BY <1>1, <2>1 DEF Values
<1>5. ASSUME NEW i \in 1 .. Len(p) + 1
      PROVE  Values(g, Append(p, e))[i] = Append(Values(f, p), g[e])[i]
  <2>1. Values(g, Append(p, e))[i] = g[Append(p, e)[i]]
    BY <1>1 DEF Values
  <2>2. CASE i \in 1 .. Len(p)
    BY <1>1, <1>3, <2>1, <2>2
  <2>3. CASE i = Len(p) + 1
    BY <1>1, <1>3, <2>1, <2>3
  <2>4. i \in 1 .. Len(p) \/ i = Len(p) + 1
    OBVIOUS
  <2> QED
    BY <2>2, <2>3, <2>4, Zenon
<1> QED
  BY <1>3, <1>4, <1>5, SeqEqual

\* ... at its beginning, ...
LEMMA ValuesCons ==
  ASSUME NEW f \in [Node -> Value], NEW g \in [Node -> Value],
         NEW p \in Seq(Node), NEW e \in Node, \A i \in 1 .. Len(p) : g[p[i]] = f[p[i]]
  PROVE  Values(g, <<e>> \o p) = <<g[e]>> \o Values(f, p)
<1>1. /\ <<e>> \o p \in Seq(Node) /\ Len(<<e>> \o p) = Len(p) + 1
      /\ (<<e>> \o p)[1] = e
      /\ \A i \in 2 .. Len(p) + 1 : (<<e>> \o p)[i] = p[i - 1]
  <2>1. <<e>> \in Seq(Node) /\ Len(<<e>>) = 1 /\ <<e>>[1] = e
    OBVIOUS
  <2> QED
    BY <2>1, ConcatProperties
<1>2. Values(f, p) \in Seq(Value) /\ Len(Values(f, p)) = Len(p) /\ g[e] \in Value
  <2>1. Len(p) \in Nat /\ g[e] \in Value /\ \A i \in 1 .. Len(p) : f[p[i]] \in Value
    OBVIOUS
  <2> QED
    BY <2>1 DEF Values
<1>3. /\ <<g[e]>> \o Values(f, p) \in Seq(Value)
      /\ Len(<<g[e]>> \o Values(f, p)) = Len(p) + 1
      /\ (<<g[e]>> \o Values(f, p))[1] = g[e]
      /\ \A i \in 2 .. Len(p) + 1 : (<<g[e]>> \o Values(f, p))[i] = f[p[i - 1]]
  <2>1. <<g[e]>> \in Seq(Value) /\ Len(<<g[e]>>) = 1 /\ <<g[e]>>[1] = g[e]
    BY <1>2
  <2>2. \A i \in 1 .. Len(p) : Values(f, p)[i] = f[p[i]]
    BY DEF Values
  <2> QED
    BY <1>2, <2>1, <2>2, ConcatProperties
<1>4. /\ Values(g, <<e>> \o p) \in Seq(Value)
      /\ Len(Values(g, <<e>> \o p)) = Len(p) + 1
  <2>1. /\ Len(<<e>> \o p) \in Nat
        /\ \A i \in 1 .. Len(<<e>> \o p) : g[(<<e>> \o p)[i]] \in Value
    BY <1>1
  <2> QED
    BY <1>1, <2>1 DEF Values
<1>5. ASSUME NEW i \in 1 .. Len(p) + 1
      PROVE  Values(g, <<e>> \o p)[i] = (<<g[e]>> \o Values(f, p))[i]
  <2>1. Values(g, <<e>> \o p)[i] = g[(<<e>> \o p)[i]]
    BY <1>1 DEF Values
  <2>2. CASE i = 1
    BY <1>1, <1>3, <2>1, <2>2
  <2>3. CASE i \in 2 .. Len(p) + 1
    <3>1. i - 1 \in 1 .. Len(p) /\ (<<e>> \o p)[i] = p[i - 1]
      BY <1>1, <2>3
    <3> QED
      BY <1>3, <2>1, <2>3, <3>1
  <2>4. i = 1 \/ i \in 2 .. Len(p) + 1
    OBVIOUS
  <2> QED
    BY <2>2, <2>3, <2>4, Zenon
<1> QED
  BY <1>3, <1>4, <1>5, SeqEqual

\* ... and without its first node.
LEMMA ValuesTail ==
  ASSUME NEW f \in [Node -> Value], NEW p \in Seq(Node), p # <<>>
  PROVE  /\ Values(f, p) # <<>> /\ Head(Values(f, p)) = f[p[1]]
         /\ Values(f, Tail(p)) = Tail(Values(f, p))
<1>1. /\ Len(p) \in Nat \ {0} /\ Tail(p) \in Seq(Node) /\ Len(Tail(p)) = Len(p) - 1
      /\ \A i \in 1 .. Len(p) - 1 : Tail(p)[i] = p[i + 1]
  BY HeadTailProperties
<1>2. Values(f, p) \in Seq(Value) /\ Len(Values(f, p)) = Len(p)
  <2>1. Len(p) \in Nat /\ \A i \in 1 .. Len(p) : f[p[i]] \in Value
    OBVIOUS
  <2> QED
    BY <2>1 DEF Values
<1>3. Values(f, p) # <<>> /\ Head(Values(f, p)) = f[p[1]]
  BY <1>1, <1>2 DEF Values
<1>4. /\ Tail(Values(f, p)) \in Seq(Value) /\ Len(Tail(Values(f, p))) = Len(p) - 1
      /\ \A i \in 1 .. Len(p) - 1 : Tail(Values(f, p))[i] = f[p[i + 1]]
  <2>1. \A i \in 1 .. Len(p) : Values(f, p)[i] = f[p[i]]
    BY DEF Values
  <2> QED
    BY <1>1, <1>2, <1>3, <2>1, HeadTailProperties
<1>5. /\ Values(f, Tail(p)) \in Seq(Value) /\ Len(Values(f, Tail(p))) = Len(p) - 1
  <2>1. Len(Tail(p)) \in Nat /\ \A i \in 1 .. Len(Tail(p)) : f[Tail(p)[i]] \in Value
    BY <1>1
  <2> QED
    BY <1>1, <2>1 DEF Values
<1>6. ASSUME NEW i \in 1 .. Len(p) - 1
      PROVE  Values(f, Tail(p))[i] = Tail(Values(f, p))[i]
  BY <1>1, <1>4 DEF Values
<1> QED
  BY <1>3, <1>4, <1>5, <1>6, SeqEqual


-----------------------------------------------------------------------------
(* What a call leaves behind.                                              *)

Typed == /\ item \in [Node -> Value]
         /\ next \in [Node \cup {Head0} -> Node \cup {NULL}]
         /\ fault = "none"

\* A call that ends with list q.
LEMMA CallEnds ==
  ASSUME NEW q, ListIs(q)', Typed', n' = Head0
  PROVE  QueueInv' /\ Contents' = Values(item', q)
<1>1. /\ Contents' = [i \in 1 .. Len(q) |-> item'[q[i]]]
      /\ Len(q) \in 0 .. Cardinality(Node)
  BY ContentsAgreeNext DEF ContentsAgree
<1>2. q \in Seq(Node) /\ q \in [1 .. Len(q) -> Node]
  <2>1. q \in Seq(Node)
    BY DEF ListIs, Chain
  <2> QED
    BY <2>1
<1>3. \E len \in 0 .. Cardinality(Node) : \E p \in [1 .. len -> Node] : ListIs(p)'
  BY <1>1, <1>2
<1> QED
  BY <1>1, <1>3 DEF QueueInv, Typed, Values

\* Where a call begins, with the list that it finds.
LEMMA CallBegins ==
  ASSUME QueueInv
  PROVE  /\ Typed /\ n = Head0 /\ fault = "none"
         /\ \E p : /\ ListIs(p) /\ p \in Seq(Node) /\ Len(p) \in Nat
                   /\ Contents = Values(item, p) /\ Len(Contents) = Len(p)
                   /\ next[Head0] = IF Len(p) = 0 THEN NULL ELSE p[1]
                   /\ Len(p) # 0 => p[1] \in alive /\ p[1] \in Node
<1>1. Typed /\ n = Head0 /\ fault = "none"
  BY DEF QueueInv, Typed
<1>2. PICK p : ListIs(p)
  BY DEF QueueInv
<1>3. /\ p \in Seq(Node) /\ Len(p) \in Nat
      /\ next[Head0] = IF Len(p) = 0 THEN NULL ELSE p[1]
  BY <1>2 DEF ListIs, Chain
<1>4. Contents = Values(item, p)
  BY <1>2, ListContents DEF Values
<1>5. Len(p) # 0 => p[1] \in alive /\ p[1] \in Node
  BY <1>2, <1>3 DEF ListIs, NodesOf
<1>6. Len(Contents) = Len(p)
  BY <1>3, <1>4 DEF Values
<1> QED
  BY <1>1, <1>2, <1>3, <1>4, <1>5, <1>6

-----------------------------------------------------------------------------
(* The calls.                                                              *)

\* queue_enqueue appends.
LEMMA Enqueues ==
  ASSUME QueueInv, NEW x \in Item, Enqueue(x)
  PROVE  QueueInv' /\ L!Enqueue(x)
<1>1. Typed
  BY CallBegins
<1>2. PICK p : ListIs(p) /\ Contents = Values(item, p)
  BY CallBegins
<1>3. p \in Seq(Node) /\ Len(p) \in Nat /\ alive = NodesOf(p)
  BY <1>2 DEF ListIs, Chain
<1>4. tail \in alive \cup {Head0}
  BY <1>2, <1>3 DEF ListIs, NodesOf
<1>5. PICK node \in Node \ alive :
         /\ alive' = alive \cup {node}
         /\ item' = [item EXCEPT ![node] = x]
         /\ LinkLast(node) /\ CountUp /\ Return(0)
  BY <1>4 DEF Enqueue
<1>6. /\ node \in Node /\ node # Head0 /\ tail # node
      /\ tail \in Node \cup {Head0} /\ Head0 \notin Node
  BY <1>3, <1>4, <1>5, QueueAssumption DEF NodesOf
<1> DEFINE q == Append(p, node)
<1>7. /\ q \in Seq(Node) /\ Len(q) = Len(p) + 1 /\ q[Len(p) + 1] = node
      /\ \A i \in 1 .. Len(p) : q[i] = p[i]
  BY <1>3, <1>5, AppendProperties
<1>8. \A i \in 1 .. Len(p) : p[i] \in Node /\ p[i] # node
  BY <1>3, <1>5 DEF NodesOf
<1> HIDE DEF q
<1>9. /\ next' \in [Node \cup {Head0} -> Node \cup {NULL}]
      /\ next'[node] = NULL /\ next'[tail] = node
      /\ \A y \in (Node \cup {Head0}) \ {node, tail} : next'[y] = next[y]
      /\ tail' = node
  BY <1>1, <1>5, <1>6 DEF LinkLast, Typed
<1>10. Chain(q)'
  <2>1. \A i, j \in 1 .. Len(q) : q[i] = q[j] => i = j
    BY <1>2, <1>3, <1>7, <1>8 DEF ListIs, Chain
  <2>2. next'[Head0] = q[1]
    <3>1. CASE Len(p) = 0
      BY <1>2, <1>7, <1>9, <3>1 DEF ListIs, Chain
    <3>2. CASE Len(p) # 0
      <4>1. tail = p[Len(p)] /\ tail # Head0 /\ next[Head0] = p[1] /\ q[1] = p[1]
        BY <1>2, <1>3, <1>6, <1>7, <1>8, <3>2 DEF ListIs, Chain
      <4> QED
        BY <1>6, <1>9, <4>1
    <3> QED
      BY <3>1, <3>2
  <2>3. ASSUME NEW i \in 1 .. Len(q)
        PROVE  next'[q[i]] = IF i = Len(q) THEN NULL ELSE q[i + 1]
    <3>1. CASE i = Len(p) + 1
      BY <1>7, <1>9, <3>1
    <3>2. CASE i = Len(p)
      <4>1. q[i] = tail /\ i + 1 # Len(q) + 1 /\ q[i + 1] = node /\ i # Len(q)
        BY <1>2, <1>3, <1>7, <3>2 DEF ListIs, Chain
      <4> QED
        BY <1>9, <4>1
    <3>3. CASE i \in 1 .. Len(p) /\ i # Len(p)
      <4>1. /\ q[i] = p[i] /\ q[i + 1] = p[i + 1] /\ i # Len(q) /\ i < Len(p)
            /\ Len(p) # 0
        BY <1>3, <1>7, <3>3
      <4>2. tail = p[Len(p)] /\ Len(p) \in 1 .. Len(p)
        BY <1>2, <1>3, <4>1 DEF ListIs, Chain
      <4>3. p[i] # tail /\ next[p[i]] = p[i + 1]
        BY <1>2, <3>3, <4>1, <4>2 DEF ListIs, Chain
      <4> QED
        BY <1>8, <1>9, <3>3, <4>1, <4>3
    <3> QED
      BY <1>3, <1>7, <3>1, <3>2, <3>3
  <2>4. Len(q) # 0
    BY <1>3, <1>7
  <2> QED
    BY <1>7, <2>1, <2>2, <2>3, <2>4 DEF Chain
<1>11. ListIs(q)'
  <2>1. alive' = NodesOf(q)
    <3>1. \A y : y \in NodesOf(q) <=> y \in NodesOf(p) \/ y = node
      BY <1>3, <1>7 DEF NodesOf
    <3> QED
      BY <1>3, <1>5, <3>1
  <2>2. size' = Len(q)
    BY <1>2, <1>5, <1>7 DEF ListIs, CountUp
  <2>3. tail' = q[Len(q)] /\ Len(q) # 0
    BY <1>3, <1>7, <1>9
  <2> QED
    BY <1>10, <2>1, <2>2, <2>3 DEF ListIs, NodesOf
<1>12. item' \in [Node -> Value] /\ item'[node] = x
       /\ \A y \in Node \ {node} : item'[y] = item[y]
  BY <1>1, <1>5 DEF Typed, Value
<1>13. n' = Head0 /\ fault' = "none" /\ ret' = 0
  BY <1>1, <1>5 DEF Return, Enqueue, Ready, loop
<1>14. QueueInv' /\ Contents' = Values(item', q)
  BY <1>9, <1>11, <1>12, <1>13, CallEnds DEF Typed
<1>15. Values(item', q) = Append(Values(item, p), x)
  <2>1. \A i \in 1 .. Len(p) : item'[p[i]] = item[p[i]]
    BY <1>8, <1>12
  <2>2. /\ item \in [Node -> Value] /\ item' \in [Node -> Value]
        /\ p \in Seq(Node) /\ node \in Node
    BY <1>1, <1>3, <1>6, <1>12 DEF Typed
  <2>3. Values(item', Append(p, node)) = Append(Values(item, p), item'[node])
    BY <2>1, <2>2, ValuesAppend, Zenon
  <2> QED
    BY <1>12, <2>3 DEF q
<1> QED
  BY <1>2, <1>13, <1>14, <1>15 DEF L!Enqueue, L!Result


\* queue_insert_first puts an item in front of the others.
LEMMA InsertsFirst ==
  ASSUME QueueInv, NEW x \in Item, InsertFirst(x)
  PROVE  QueueInv' /\ L!InsertFirst(x)
<1>1. Typed
  BY CallBegins
<1>2. PICK p : ListIs(p) /\ Contents = Values(item, p)
  BY CallBegins
<1>3. p \in Seq(Node) /\ Len(p) \in Nat /\ alive = NodesOf(p)
  BY <1>2 DEF ListIs, Chain
<1>4. PICK node \in Node \ alive :
         /\ alive' = alive \cup {node}
         /\ item' = [item EXCEPT ![node] = x]
         /\ next' = [next EXCEPT ![node] = next[Head0], ![Head0] = node]
         /\ tail' = IF next[Head0] = NULL THEN node ELSE tail
         /\ CountUp /\ Return(0)
  BY DEF InsertFirst
<1>5. node \in Node /\ node # Head0 /\ Head0 \notin Node /\ NULL \notin Node
  BY <1>4, QueueAssumption
<1> DEFINE q == <<node>> \o p
<1>6. /\ q \in Seq(Node) /\ Len(q) = Len(p) + 1 /\ q[1] = node
      /\ \A i \in 2 .. Len(p) + 1 : q[i] = p[i - 1]
  <2>1. <<node>> \in Seq(Node) /\ Len(<<node>>) = 1 /\ <<node>>[1] = node
    BY <1>5
  <2> QED
    BY <1>3, <2>1, ConcatProperties
<1>7. \A i \in 1 .. Len(p) : p[i] \in Node /\ p[i] # node
  BY <1>3, <1>4 DEF NodesOf
<1> HIDE DEF q
<1>8. /\ next' \in [Node \cup {Head0} -> Node \cup {NULL}]
      /\ next'[node] = next[Head0] /\ next'[Head0] = node
      /\ \A y \in Node \ {node} : next'[y] = next[y]
  BY <1>1, <1>4, <1>5 DEF Typed
<1>9. next[Head0] = (IF Len(p) = 0 THEN NULL ELSE p[1])
  BY <1>2 DEF ListIs, Chain
<1>10. Chain(q)'
  <2>1. \A i, j \in 1 .. Len(q) : q[i] = q[j] => i = j
    <3> SUFFICES ASSUME NEW i \in 1 .. Len(q), NEW j \in 1 .. Len(q), q[i] = q[j]
                 PROVE  i = j
      OBVIOUS
    <3>1. \A m \in 2 .. Len(p) + 1 : q[m] # node
      <4> TAKE m \in 2 .. Len(p) + 1
      <4>1. m - 1 \in 1 .. Len(p) /\ q[m] = p[m - 1]
        BY <1>3, <1>6
      <4> QED
        BY <1>7, <4>1
    <3>2. CASE i = 1 \/ j = 1
      BY <1>3, <1>6, <3>1, <3>2
    <3>3. CASE i # 1 /\ j # 1
      <4>1. /\ i - 1 \in 1 .. Len(p) /\ q[i] = p[i - 1]
            /\ j - 1 \in 1 .. Len(p) /\ q[j] = p[j - 1]
        BY <1>3, <1>6, <3>3
      <4>2. i - 1 = j - 1
        BY <1>2, <4>1 DEF ListIs, Chain
      <4> QED
        BY <1>3, <1>6, <4>2
    <3> QED
      BY <3>2, <3>3
  <2>2. ASSUME NEW i \in 1 .. Len(q)
        PROVE  next'[q[i]] = IF i = Len(q) THEN NULL ELSE q[i + 1]
    <3>1. CASE i = 1
      BY <1>3, <1>6, <1>8, <1>9, <3>1
    <3>2. CASE i # 1
      <4>1. /\ i - 1 \in 1 .. Len(p) /\ q[i] = p[i - 1]
            /\ i - 1 = Len(p) <=> i = Len(q)
            /\ i # Len(q) => q[i + 1] = p[i] /\ p[i] = p[(i - 1) + 1]
        BY <1>3, <1>6, <3>2
      <4>2. next'[p[i - 1]] = next[p[i - 1]]
        BY <1>7, <1>8, <4>1
      <4>3. next[p[i - 1]] = IF i - 1 = Len(p) THEN NULL ELSE p[(i - 1) + 1]
        BY <1>2, <4>1 DEF ListIs, Chain
      <4> QED
        BY <4>1, <4>2, <4>3
    <3> QED
      BY <3>1, <3>2
  <2>3. Len(q) # 0
    BY <1>3, <1>6
  <2> QED
    BY <1>6, <1>8, <2>1, <2>2, <2>3 DEF Chain
<1>11. ListIs(q)'
  <2>1. alive' = NodesOf(q)
    <3>1. ASSUME NEW y \in NodesOf(q) PROVE y \in NodesOf(p) \/ y = node
      <4>1. PICK i \in 1 .. Len(q) : y = q[i]
        BY DEF NodesOf
      <4>2. CASE i = 1
        BY <1>6, <4>1, <4>2
      <4>3. CASE i # 1
        <5>1. i - 1 \in 1 .. Len(p) /\ q[i] = p[i - 1]
          BY <1>3, <1>6, <4>3
        <5> QED
          BY <4>1, <5>1 DEF NodesOf
      <4> QED
        BY <4>2, <4>3
    <3>2. ASSUME NEW y \in NodesOf(p) PROVE y \in NodesOf(q)
      <4>1. PICK i \in 1 .. Len(p) : y = p[i]
        BY DEF NodesOf
      <4>2. i + 1 \in 1 .. Len(q) /\ q[i + 1] = p[i]
        BY <1>3, <1>6
      <4> QED
        BY <4>1, <4>2 DEF NodesOf
    <3>3. node \in NodesOf(q)
      BY <1>3, <1>6 DEF NodesOf
    <3> QED
      BY <1>3, <1>4, <3>1, <3>2, <3>3
  <2>2. size' = Len(q)
    BY <1>2, <1>3, <1>4, <1>6 DEF ListIs, CountUp
  <2>3. tail' = q[Len(q)] /\ Len(q) # 0
    <3>1. CASE Len(p) = 0
      BY <1>4, <1>6, <1>9, <3>1
    <3>2. CASE Len(p) # 0
      <4>1. p[1] \in Node /\ tail = p[Len(p)] /\ q[Len(q)] = p[Len(p)] /\ Len(q) # 0
        BY <1>2, <1>3, <1>6, <1>7, <3>2 DEF ListIs, Chain
      <4> QED
        BY <1>4, <1>5, <1>9, <3>2, <4>1
    <3> QED
      BY <3>1, <3>2
  <2> QED
    BY <1>10, <2>1, <2>2, <2>3 DEF ListIs, NodesOf
<1>12. item' \in [Node -> Value] /\ item'[node] = x
       /\ \A y \in Node \ {node} : item'[y] = item[y]
  BY <1>1, <1>4 DEF Typed, Value
<1>13. n' = Head0 /\ fault' = "none" /\ ret' = 0
  BY <1>1, <1>4 DEF Return, InsertFirst, Ready, loop
<1>14. QueueInv' /\ Contents' = Values(item', q)
  BY <1>8, <1>11, <1>12, <1>13, CallEnds DEF Typed
<1>15. Values(item', q) = <<x>> \o Values(item, p)
  <2>1. \A i \in 1 .. Len(p) : item'[p[i]] = item[p[i]]
    BY <1>7, <1>12
  <2>2. /\ item \in [Node -> Value] /\ item' \in [Node -> Value]
        /\ p \in Seq(Node) /\ node \in Node
    BY <1>1, <1>3, <1>5, <1>12 DEF Typed
  <2>3. Values(item', <<node>> \o p) = <<item'[node]>> \o Values(item, p)
    BY <2>1, <2>2, ValuesCons, Zenon
  <2> QED
    BY <1>12, <2>3 DEF q
<1> QED
  BY <1>2, <1>13, <1>14, <1>15 DEF L!InsertFirst, L!Result

\* The first node of a list is unlinked and freed.
LEMMA DropsFirst ==
  ASSUME QueueInv, NEW p, ListIs(p), Len(p) # 0,
         next' = [next EXCEPT ![Head0] = next[p[1]]],
         tail' = IF next[p[1]] = NULL THEN Head0 ELSE tail,
         size' = size - 1, alive' = alive \ {p[1]}, item' = item,
         n' = Head0, fault' = "none"
  PROVE  /\ QueueInv'
         /\ Contents # <<>> /\ Head(Contents) = item[p[1]]
         /\ Contents' = Tail(Contents)
<1>1. /\ Typed /\ p \in Seq(Node) /\ Len(p) \in Nat /\ p # <<>>
      /\ Contents = Values(item, p)
  BY CallBegins, ListContents DEF ListIs, Chain, Values
<1>2. Head0 \notin Node /\ NULL \notin Node /\ \A i \in 1 .. Len(p) : p[i] \in Node
  BY <1>1, QueueAssumption
<1> DEFINE q == Tail(p)
<1>3. /\ q \in Seq(Node) /\ Len(q) = Len(p) - 1
      /\ \A i \in 1 .. Len(p) - 1 : q[i] = p[i + 1]
  BY <1>1, HeadTailProperties
<1> HIDE DEF q
<1>4. /\ next' \in [Node \cup {Head0} -> Node \cup {NULL}]
      /\ next'[Head0] = next[p[1]]
      /\ \A y \in Node : next'[y] = next[y]
  BY <1>1, <1>2 DEF Typed
<1>5. next[p[1]] = IF Len(p) = 1 THEN NULL ELSE p[2]
  BY <1>1 DEF ListIs, Chain
<1>6. Chain(q)'
  <2>1. \A i, j \in 1 .. Len(q) : q[i] = q[j] => i = j
    <3> SUFFICES ASSUME NEW i \in 1 .. Len(q), NEW j \in 1 .. Len(q), q[i] = q[j]
                 PROVE  i = j
      OBVIOUS
    <3>1. /\ i + 1 \in 1 .. Len(p) /\ j + 1 \in 1 .. Len(p)
          /\ p[i + 1] = p[j + 1]
      BY <1>1, <1>3
    <3>2. i + 1 = j + 1
      BY <3>1 DEF ListIs, Chain
    <3> QED
      BY <1>1, <1>3, <3>2
  <2>2. next'[Head0] = IF Len(q) = 0 THEN NULL ELSE q[1]
    BY <1>1, <1>3, <1>4, <1>5
  <2>3. ASSUME NEW i \in 1 .. Len(q)
        PROVE  next'[q[i]] = IF i = Len(q) THEN NULL ELSE q[i + 1]
    <3>1. /\ i + 1 \in 1 .. Len(p) /\ q[i] = p[i + 1]
          /\ i = Len(q) <=> i + 1 = Len(p)
          /\ i # Len(q) => q[i + 1] = p[(i + 1) + 1]
      <4>1. i + 1 \in 1 .. Len(p) /\ (i = Len(q) <=> i + 1 = Len(p))
        BY <1>1, <1>3
      <4>2. i \in 1 .. Len(p) - 1 /\ (i # Len(q) => i + 1 \in 1 .. Len(p) - 1)
        BY <1>1, <1>3
      <4> QED
        BY <1>3, <4>1, <4>2
    <3>2. next[p[i + 1]] = IF i + 1 = Len(p) THEN NULL ELSE p[(i + 1) + 1]
      BY <3>1 DEF ListIs, Chain
    <3> QED
      BY <1>2, <1>4, <3>1, <3>2
  <2> QED
    BY <1>3, <2>1, <2>2, <2>3 DEF Chain
<1>7. ListIs(q)'
  <2>1. alive' = NodesOf(q)
    <3>1. ASSUME NEW y \in NodesOf(q) PROVE y \in NodesOf(p) \ {p[1]}
      <4>1. PICK i \in 1 .. Len(q) : y = q[i]
        BY DEF NodesOf
      <4>2. i + 1 \in 1 .. Len(p) /\ y = p[i + 1] /\ i + 1 # 1 /\ 1 \in 1 .. Len(p)
        BY <1>1, <1>3, <4>1
      <4> QED
        BY <4>2 DEF NodesOf, ListIs, Chain
    <3>2. ASSUME NEW y \in NodesOf(p) \ {p[1]} PROVE y \in NodesOf(q)
      <4>1. PICK i \in 1 .. Len(p) : y = p[i] /\ i # 1
        BY DEF NodesOf
      <4>2. i - 1 \in 1 .. Len(q) /\ q[i - 1] = p[i]
        BY <1>1, <1>3, <4>1
      <4> QED
        BY <4>1, <4>2 DEF NodesOf
    <3> QED
      BY <3>1, <3>2 DEF ListIs
  <2>2. size' = Len(q)
    BY <1>1, <1>3 DEF ListIs
  <2>3. tail' = IF Len(q) = 0 THEN Head0 ELSE q[Len(q)]
    <3>1. CASE Len(p) = 1
      BY <1>3, <1>5, <3>1
    <3>2. CASE Len(p) # 1
      <4>1. p[2] \in Node /\ Len(q) # 0 /\ q[Len(q)] = p[Len(p)] /\ tail = p[Len(p)]
        BY <1>1, <1>2, <1>3, <3>2 DEF ListIs
      <4> QED
        BY <1>2, <1>5, <3>2, <4>1
    <3> QED
      BY <3>1, <3>2
  <2> QED
    BY <1>6, <2>1, <2>2, <2>3 DEF ListIs, NodesOf
<1>8. QueueInv' /\ Contents' = Values(item, q)
  <2>1. Typed'
    BY <1>1, <1>4 DEF Typed
  <2>2. QueueInv' /\ Contents' = Values(item', q)
    BY <1>7, <2>1, CallEnds
  <2> QED
    BY <2>2
<1>9. /\ Values(item, p) # <<>> /\ Head(Values(item, p)) = item[p[1]]
      /\ Values(item, Tail(p)) = Tail(Values(item, p))
  <2>1. item \in [Node -> Value] /\ p \in Seq(Node) /\ p # <<>>
    BY <1>1 DEF Typed
  <2> QED
    BY <2>1, ValuesTail, Zenon
<1> QED
  BY <1>1, <1>8, <1>9 DEF q


\* A call that leaves the list as it is.
LEMMA KeepsList ==
  ASSUME QueueInv, NEW p, ListIs(p), UNCHANGED list, n' = Head0,
         fault' = "none"
  PROVE  QueueInv' /\ Contents' = Contents
<1>1. /\ item' = item /\ next' = next /\ tail' = tail /\ size' = size
      /\ alive' = alive
  BY DEF list
<1>2. ListIs(p)'
  BY <1>1 DEF ListIs, Chain
<1>3. Typed'
  BY <1>1 DEF QueueInv, Typed
<1>4. /\ Contents' = [i \in 1 .. Len(p) |-> item'[p[i]]]
      /\ Len(p) \in 0 .. Cardinality(Node)
  BY <1>2, ContentsAgreeNext DEF ContentsAgree
<1>5. Contents = [i \in 1 .. Len(p) |-> item[p[i]]]
  BY ListContents
<1>6. p \in [1 .. Len(p) -> Node]
  <2>1. p \in Seq(Node)
    BY DEF ListIs, Chain
  <2> QED
    BY <2>1
<1>7. \E len \in 0 .. Cardinality(Node) : \E q \in [1 .. len -> Node] : ListIs(q)'
  BY <1>2, <1>4, <1>6
<1> QED
  BY <1>1, <1>3, <1>4, <1>5, <1>7 DEF QueueInv, Typed

\* The calls that only return something.
LEMMA Returns ==
  ASSUME QueueInv, NEW p, ListIs(p), UNCHANGED list,
         NEW r, Return(r)
  PROVE  QueueInv' /\ L!Result(r, Contents)
<1>1. n = Head0 /\ fault = "none"
  BY CallBegins
<1>2. n' = Head0 /\ fault' = "none" /\ ret' = r
  BY <1>1 DEF Return, loop
<1> QED
  BY <1>2, KeepsList DEF L!Result

\* queue_peek, queue_size and the calls for which malloc fails.
LEMMA Looks ==
  ASSUME QueueInv, Peek \/ Size \/ OutOfMemory
  PROVE  QueueInv' /\ (L!Peek \/ L!Size \/ L!Fail)
<1>1. PICK p : /\ ListIs(p) /\ p \in Seq(Node) /\ Len(p) \in Nat
               /\ Contents = Values(item, p) /\ Len(Contents) = Len(p)
               /\ next[Head0] = IF Len(p) = 0 THEN NULL ELSE p[1]
               /\ Len(p) # 0 => p[1] \in alive /\ p[1] \in Node
  BY CallBegins
<1>2. CASE Size
  <2>1. Return(size) /\ UNCHANGED list /\ size = Len(Contents)
    BY <1>1, <1>2 DEF Size, ListIs
  <2> QED
    BY <1>1, <2>1, Returns DEF L!Size
<1>3. CASE OutOfMemory
  <2>1. Return(ENOMEM) /\ UNCHANGED list
    BY <1>3 DEF OutOfMemory
  <2> QED
    BY <1>1, <2>1, Returns DEF L!Fail, ENOMEM, L!ENOMEM
<1>4. CASE Peek /\ Len(p) = 0
  <2>1. Return(NULL) /\ UNCHANGED list
    <3>1. next[Head0] = NULL /\ alive = {}
      BY <1>1, <1>4 DEF ListIs, NodesOf
    <3> QED
      BY <1>4, <3>1 DEF Peek
  <2>2. Contents = <<>>
    BY <1>1, <1>4 DEF Values
  <2> QED
    BY <1>1, <2>1, <2>2, Returns DEF L!Peek
<1>5. CASE Peek /\ Len(p) # 0
  <2>1. next[Head0] = p[1] /\ p[1] # NULL /\ p[1] \in alive
    BY <1>1, <1>5, QueueAssumption
  <2>2. Return(item[p[1]]) /\ UNCHANGED list
    BY <1>5, <2>1 DEF Peek
  <2>3. Contents # <<>> /\ Head(Contents) = item[p[1]]
    <3>1. item \in [Node -> Value] /\ p \in Seq(Node) /\ p # <<>>
      BY <1>1, <1>5 DEF QueueInv
    <3>2. Values(item, p) # <<>> /\ Head(Values(item, p)) = item[p[1]]
      BY <3>1, ValuesTail, Zenon
    <3> QED
      BY <1>1, <3>2
  <2> QED
    BY <1>1, <2>2, <2>3, Returns DEF L!Peek
<1> QED
  BY <1>2, <1>3, <1>4, <1>5

\* queue_dequeue takes the first item.
LEMMA Dequeues ==
  ASSUME QueueInv, Dequeue
  PROVE  QueueInv' /\ L!Dequeue
<1>1. PICK p : /\ ListIs(p) /\ p \in Seq(Node) /\ Len(p) \in Nat
               /\ Contents = Values(item, p) /\ Len(Contents) = Len(p)
               /\ next[Head0] = IF Len(p) = 0 THEN NULL ELSE p[1]
               /\ Len(p) # 0 => p[1] \in alive /\ p[1] \in Node
  BY CallBegins
<1>2. CASE Len(p) = 0
  <2>1. Return(NULL) /\ UNCHANGED list
    <3>1. next[Head0] = NULL /\ alive = {}
      BY <1>1, <1>2 DEF ListIs, NodesOf
    <3> QED
      BY <3>1 DEF Dequeue
  <2>2. Contents = <<>>
    BY <1>1, <1>2 DEF Values
  <2> QED
    BY <1>1, <2>1, <2>2, Returns DEF L!Dequeue
<1>3. CASE Len(p) # 0
  <2>1. next[Head0] = p[1] /\ p[1] # NULL /\ p[1] \in alive
    BY <1>1, <1>3, QueueAssumption
  <2>2. Unlink(p[1])
    BY <2>1 DEF Dequeue
  <2>3. /\ next' = [next EXCEPT ![Head0] = next[p[1]]]
        /\ tail' = IF next[p[1]] = NULL THEN Head0 ELSE tail
        /\ size' = size - 1 /\ alive' = alive \ {p[1]} /\ item' = item
        /\ ret' = item[p[1]]
    BY <2>2 DEF Unlink, TailWithoutFirst, Return
  <2>4. n' = Head0 /\ fault' = "none"
    BY <2>2, CallBegins DEF Unlink, Return, loop
  <2>5. /\ QueueInv' /\ Contents # <<>> /\ Head(Contents) = item[p[1]]
        /\ Contents' = Tail(Contents)
    BY <1>1, <1>3, <2>3, <2>4, DropsFirst
  <2> QED
    BY <2>3, <2>5 DEF L!Dequeue, L!Result
<1> QED
  BY <1>2, <1>3

\* queue_destroy frees every node, each of them once.
LEMMA Destroys ==
  ASSUME QueueInv, Destroy
  PROVE  QueueInv' /\ L!Clear
<1>1. PICK p : ListIs(p)
  BY CallBegins
<1>2. n = Head0 /\ Typed /\ Reachable = alive
  BY <1>1, CallBegins, ListContents
<1>3. /\ alive' = {} /\ tail' = Head0 /\ size' = 0 /\ item' = item /\ ret' = ret
      /\ n' = Head0 /\ fault' = "none"
      /\ next' = [next EXCEPT ![Head0] = NULL]
  BY <1>2 DEF Destroy, loop, Typed
<1>4. Contents' = <<>>
  BY <1>3 DEF Contents
<1>5. next'[Head0] = NULL /\ Typed'
  BY <1>2, <1>3 DEF Typed
<1>6. ListIs(<<>>)'
  BY <1>3, <1>5 DEF ListIs, Chain, NodesOf
<1> QED
  BY <1>3, <1>4, <1>5, <1>6, CallEnds DEF L!Clear

-----------------------------------------------------------------------------
(* The theorems.                                                           *)

\* queue_init makes an empty list.
LEMMA InitQueue == Init => QueueInv /\ L!Init
<1> SUFFICES ASSUME Init PROVE QueueInv /\ L!Init
  OBVIOUS
<1>1. ListIs(<<>>)
  BY DEF Init, ListIs, Chain, NodesOf
<1>2. Cardinality(Node) \in Nat
  BY FS_CardinalityType, QueueAssumption
<1>3. <<>> \in [1 .. 0 -> Node] /\ 0 \in 0 .. Cardinality(Node)
  BY <1>2
<1>4. \E len \in 0 .. Cardinality(Node) : \E p \in [1 .. len -> Node] : ListIs(p)
  BY <1>1, <1>3
<1>5. QueueInv
  BY <1>4 DEF Init, QueueInv, Value
<1>6. L!Init
  BY DEF Init, L!Init, Contents
<1> QED
  BY <1>5, <1>6

\* Every call keeps the list in order, and is a step of ItemList.
LEMMA NextQueue ==
  ASSUME QueueInv, [CoreNext]_vars
  PROVE  QueueInv' /\ (L!Next \/ (Contents' = Contents /\ ret' = ret))
<1>1. ASSUME NEW x \in Item, Enqueue(x) PROVE QueueInv' /\ L!Next
  BY <1>1, Enqueues DEF L!Next
<1>2. ASSUME NEW x \in Item, InsertFirst(x) PROVE QueueInv' /\ L!Next
  BY <1>2, InsertsFirst DEF L!Next
<1>3. CASE Peek \/ Size \/ OutOfMemory
  BY <1>3, Looks DEF L!Next
<1>4. CASE Dequeue
  BY <1>4, Dequeues DEF L!Next
<1>5. CASE Destroy
  BY <1>5, Destroys DEF L!Next
<1>6. CASE UNCHANGED vars
  <2>1. UNCHANGED list /\ n' = n /\ ret' = ret /\ fault' = fault
    BY <1>6 DEF vars, loop
  <2>2. n' = Head0 /\ fault' = "none"
    BY <2>1 DEF QueueInv
  <2>3. PICK p : ListIs(p)
    BY CallBegins
  <2> QED
    BY <2>1, <2>2, <2>3, KeepsList
<1> QED
  BY <1>1, <1>2, <1>3, <1>4, <1>5, <1>6 DEF CoreNext

\* In every state that calls other than queue_remove_item and queue_clear
\* lead to, some chain of distinct nodes is the list.
THEOREM QueueInvariant == CoreSpec => []QueueInv
<1>1. Init => QueueInv
  BY InitQueue
<1>2. QueueInv /\ [CoreNext]_vars => QueueInv'
  BY NextQueue
<1> QED
  BY <1>1, <1>2, PTL DEF CoreSpec

\* The nodes that are allocated are those that the header leads to, size
\* counts them and tail is the last: no such call cuts an item off.
THEOREM ListsSound == CoreSpec => []ListSound
<1>1. QueueInv => ListSound
  <2> SUFFICES ASSUME QueueInv
               PROVE  /\ Reachable = alive
                      /\ size = Cardinality(alive)
                      /\ tail = IF size = 0 THEN Head0 ELSE Pointer[size - 1]
    BY DEF ListSound
  <2>1. PICK p : ListIs(p)
    BY CallBegins
  <2>2. Len(p) \in Nat /\ size = Len(p)
    BY <2>1 DEF ListIs, Chain
  <2>3. /\ Reachable = alive /\ size = Cardinality(alive)
        /\ \A i \in 1 .. Len(p) : Pointer[i - 1] = p[i]
    BY <2>1, ListContents
  <2>4. tail = IF size = 0 THEN Head0 ELSE Pointer[size - 1]
    BY <2>1, <2>2, <2>3 DEF ListIs
  <2> QED
    BY <2>3, <2>4
<1> QED
  BY <1>1, QueueInvariant, PTL

\* None of them follows a null pointer or uses a freed node.
THEOREM NoMemoryErrors == CoreSpec => []NoMemoryError
<1>1. QueueInv => NoMemoryError
  BY DEF QueueInv, NoMemoryError
<1> QED
  BY <1>1, QueueInvariant, PTL

\* To the callers of queue_enqueue, queue_insert_first, queue_peek,
\* queue_dequeue, queue_size and queue_destroy the linked list is a sequence
\* of items, without any condition on the order of the calls.
THEOREM ImplementsItemList == CoreSpec => ItemListSpec
<1>1. Init => QueueInv /\ L!Init
  BY InitQueue
<1>2. QueueInv /\ [CoreNext]_vars => QueueInv' /\ [L!Next]_<<Contents, ret>>
  BY NextQueue
<1> QED
  BY <1>1, <1>2, PTL DEF CoreSpec, ItemListSpec, L!Spec
=============================================================================
