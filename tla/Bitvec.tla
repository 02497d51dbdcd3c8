------------------------------- MODULE Bitvec -------------------------------
(***************************************************************************)
(* The bit vector of bitvec.c as get_next_tid and reclaim_tid use it,      *)
(* under bitvec_lock: a vector of bytes, each here the set of its bits     *)
(* that are 1, indexed by i / 8 and i % 8.                                 *)
(***************************************************************************)
EXTENDS Integers, FiniteSetsExt

CONSTANTS NBits,  \* bv->nbits: UTHREAD_MAX_THREADS
          Byte    \* bits of an unsigned char: 8

NBytes == (Byte - 1 + NBits) \div Byte    \* bv->nbytes

VARIABLES vec,  \* bv->vec
          tid   \* what get_next_tid returned last

bitVars == <<vec, tid>>

\* bitvec_init: calloc clears the bytes.
BitvecInit == vec = [i \in 0 .. NBytes - 1 |-> {}] /\ tid = 0

BitvecGet(i) == i % Byte \in vec[i \div Byte]

BitvecSet(i)   == [vec EXCEPT ![i \div Byte] = @ \cup {i % Byte}]
BitvecClear(i) == [vec EXCEPT ![i \div Byte] = @ \ {i % Byte}]

\* The search looks at every bit of every byte: ~bv->vec[i], an int after
\* promotion, is never 0, so that no byte is passed over, and the last byte
\* is searched to its end.  (The faulty variant forgets the last byte.)
Searched             == 0 .. NBytes * Byte - 1
FirstClearedShort    == LET clear == {j \in Searched : ~BitvecGet(j)}
                        IN  IF \A j \in clear : j >= (NBytes - 1) * Byte
                            THEN -1 ELSE Min(clear)
FirstClearedIndex    == LET clear == {j \in Searched : ~BitvecGet(j)}
                        IN  IF clear = {} THEN -1 ELSE Min(clear)

-----------------------------------------------------------------------------
\* get_next_tid and reclaim_tid(t), which is called for a tid in use.
GetNextTid ==
  IF FirstClearedIndex < 0
  THEN tid' = 1 /\ UNCHANGED vec
  ELSE tid' = FirstClearedIndex /\ vec' = BitvecSet(FirstClearedIndex)

ReclaimTid(t) == BitvecGet(t) /\ vec' = BitvecClear(t) /\ UNCHANGED tid

BitvecNext == GetNextTid \/ \E t \in 0 .. NBits - 1 : ReclaimTid(t)

BitvecSpec == BitvecInit /\ [][BitvecNext]_bitVars

-----------------------------------------------------------------------------
(* Properties.                                                             *)

\* Bytes, shifts and masks implement the set of tids in use: taking a tid
\* marks it and no other, giving one back frees it and no other, and the
\* smallest free one is found in whatever byte it is.
S == INSTANCE TidSet WITH N <- NBits,
                          used <- {i \in 0 .. NBits - 1 : BitvecGet(i)}
TidSetSpec == S!Spec
=============================================================================
