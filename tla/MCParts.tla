------------------------------ MODULE MCParts -------------------------------
(***************************************************************************)
(* Small instances, for TLC, of four parts of the library that can be      *)
(* checked by themselves: the list of queue.c, the bit vector of bitvec.c, *)
(* the ready queue, and the start and end of the kernel threads.  They     *)
(* share no state here: a behaviour is one of one part, and the other      *)
(* parts' variables keep their initial values.                             *)
(***************************************************************************)
EXTENDS Queue, Bitvec, ReadyQueue, Startup

CONSTANTS n1, n2, n3, a, b, k1, k2, k3

VARIABLE part   \* the one that takes steps

partsVars == <<vars, bitVars, rqVars, startVars, part>>

PartsInit ==
  /\ part \in {"queue", "bitvec", "ready queue", "startup"}
  /\ Init /\ BitvecInit /\ RQInit /\ StartInit
  /\ part # "startup" => num_kthreads = Max(Requests)

QueueStep  == /\ part = "queue" /\ CoreNext
              /\ UNCHANGED <<bitVars, rqVars, startVars, part>>
BitvecStep == /\ part = "bitvec" /\ BitvecNext
              /\ UNCHANGED <<vars, rqVars, startVars, part>>
ReadyStep  == /\ part = "ready queue" /\ RQNext
              /\ UNCHANGED <<vars, bitVars, startVars, part>>
StartStep  == /\ part = "startup" /\ StartNext
              /\ UNCHANGED <<vars, bitVars, rqVars, part>>

\* Start-up is the one part that comes to an end.
StartOver == /\ part = "startup" /\ at[0] \in {"aborted", "done"}
             /\ UNCHANGED partsVars

PartsNext == QueueStep \/ BitvecStep \/ ReadyStep \/ StartStep \/ StartOver

\* Each part with its own fairness.  The ready queue's asks nothing while
\* no thread is inside it.
PartsSpec ==
  /\ PartsInit /\ [][PartsNext]_partsVars
  /\ RQFairness
  /\ part = "startup" => StartFairness

\* Every start ends: by abort, or with each worker in schedule() and, at the
\* program's end, collected.
StartupEnds == part = "startup" => StartEnds
=============================================================================
