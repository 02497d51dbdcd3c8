------------------------------- MODULE TidSet -------------------------------
(***************************************************************************)
(* What get_next_tid and reclaim_tid are to uthread_create and             *)
(* uthread_join (and to module Uthread): the set of tids in use, from      *)
(* whose complement the smallest is taken.  With every tid in use the      *)
(* caller gets 1, which is no sign of failure.                             *)
(***************************************************************************)
EXTENDS Naturals, FiniteSetsExt

CONSTANT N    \* UTHREAD_MAX_THREADS

VARIABLES used, tid

Tid == 0 .. N - 1

Init == used = {} /\ tid = 0

TakeTid == IF used = Tid
           THEN tid' = 1 /\ UNCHANGED used
           ELSE LET t == Min(Tid \ used)
                IN  tid' = t /\ used' = used \cup {t}

ReclaimTid(t) == used' = used \ {t} /\ UNCHANGED tid

Next == TakeTid \/ \E t \in used : ReclaimTid(t)

Spec == Init /\ [][Next]_<<used, tid>>
=============================================================================
