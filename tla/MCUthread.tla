----------------------------- MODULE MCUthread ------------------------------
(* Small instances of Uthread for TLC.                                     *)
EXTENDS UthreadInv, TLC
CONSTANTS k1, k2, k3, s1

Everyone == Tid
OnlyMain == {MAIN}

\* The kernel threads other than the main one are alike.
WorkerSymmetry == Permutations(KThread \ {MainK})
=============================================================================
