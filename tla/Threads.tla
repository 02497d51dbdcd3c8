------------------------------- MODULE Threads ------------------------------
(***************************************************************************)
(* What the library promises the program, whatever the kernel threads,     *)
(* locks and queues do: each thread goes through its life in one order, no *)
(* more threads run than there are kernel threads, a thread that waits     *)
(* starts to wait only when it has to and is woken only when what it waits *)
(* for has happened, a thread disappears only after it has finished, and   *)
(* no unit is taken from a semaphore that has none.                        *)
(***************************************************************************)
EXTENDS Naturals, FiniteSets

CONSTANTS Tid, MAIN, Sem, NumK, MaxCount, NULL

VARIABLES phase,  \* phase[t]: "none", or the state of thread t
          waits,  \* waits[t]: the thread or the semaphore t waits for
          value   \* value[s]: the units of semaphore s

vars == <<phase, waits, value>>

Running == {t \in Tid : phase[t] = "RUNNING"}

Init ==
  /\ phase = [t \in Tid |-> IF t = MAIN THEN "RUNNING" ELSE "none"]
  /\ waits = [t \in Tid |-> NULL]
  /\ value = [s \in Sem |-> 0]

Move(t, from, to) == phase[t] = from /\ phase' = [phase EXCEPT ![t] = to]

\* Thread t begins or ceases to wait for w.
MoveFor(t, from, to, w) ==
  Move(t, from, to) /\ waits' = [waits EXCEPT ![t] = w] /\ UNCHANGED value

Create(t) == Running # {} /\ MoveFor(t, "none", "READY", NULL)
Run(t)    == Cardinality(Running) < NumK /\ MoveFor(t, "READY", "RUNNING", NULL)
Yield(t)  == MoveFor(t, "RUNNING", "READY", NULL)
Exit(t)   == t # MAIN /\ MoveFor(t, "RUNNING", "FINISHED", NULL)
Reap(t)   == Running # {} /\ MoveFor(t, "FINISHED", "none", NULL)

AwaitThread(t, u) == /\ phase[u] \notin {"none", "FINISHED"}
                     /\ MoveFor(t, "RUNNING", "WAITING_JOIN", u)
AwaitUnit(t, s)   == value[s] = 0 /\ MoveFor(t, "RUNNING", "WAITING_SEM", s)

WakeJoiner(t) == /\ \E u \in Tid : waits[t] = u /\ phase[u] = "FINISHED"
                 /\ MoveFor(t, "WAITING_JOIN", "READY", NULL)
WakeWaiter(t) == /\ \E s \in Sem : waits[t] = s /\ value[s] > 0
                 /\ MoveFor(t, "WAITING_SEM", "READY", NULL)

SetValue(s, v) == /\ Running # {}
                  /\ value' = [value EXCEPT ![s] = v]
                  /\ UNCHANGED <<phase, waits>>
InitSem(s) == \E v \in 0 .. MaxCount : SetValue(s, v)
                 /\ \A t \in Tid : ~(phase[t] = "WAITING_SEM" /\ waits[t] = s)
Post(s)    == SetValue(s, value[s] + 1)
Take(s)    == value[s] > 0 /\ SetValue(s, value[s] - 1)

\* Teardown: only main is left, and threads that nobody joined.
Shutdown == /\ \A t \in Tid \ {MAIN} : phase[t] \in {"none", "FINISHED"}
            /\ phase' = [t \in Tid |-> "none"]
            /\ UNCHANGED <<waits, value>>

Next == \/ \E t \in Tid : \/ Create(t) \/ Run(t) \/ Yield(t) \/ Exit(t)
                          \/ Reap(t) \/ WakeJoiner(t) \/ WakeWaiter(t)
                          \/ \E u \in Tid : AwaitThread(t, u)
                          \/ \E s \in Sem : AwaitUnit(t, s)
        \/ \E s \in Sem : InitSem(s) \/ Post(s) \/ Take(s)
        \/ Shutdown

Spec == Init /\ [][Next]_vars
=============================================================================
