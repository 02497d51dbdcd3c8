--------------------------- MODULE StartupProofs ----------------------------
(***************************************************************************)
(* Proofs about Startup, for any size of the table of kernel threads and   *)
(* any numbers of kernel threads that uthread_init may be asked for.       *)
(*                                                                         *)
(* The inductive invariant is StartInv.  It says, for each point that the  *)
(* main kernel thread can be at, how far each worker is: the workers below *)
(* the loop counter i have been through the loop's body and the others     *)
(* have not, and the one at i is where the handshake lets it be.  None of  *)
(* the properties is inductive alone: that a worker uses args only while   *)
(* kthread_create waits for it rests on the value of args.sem, and that    *)
(* kthread_join finds every worker rests on the whole start-up.            *)
(***************************************************************************)
EXTENDS Startup, FiniteSetTheorems, WellFoundedInduction, TLAPS

MainPc   == {"create", "handshake", "aborted", "release", "program", "join",
             "wait", "delete", "done"}
WorkerPc == {"unborn", "trampoline", "added", "post", "refused", "barrier",
             "enter", "schedule", "ended"}

\* w is in the table, once, and in kthread_info; w is not in the table.
Known(w)  == info[w] = w /\ \E s \in Slot : SlotsOf(w) = {s}
Absent(w) == SlotsOf(w) = {}

\* What kthread_create has exchanged with the worker that it starts.
HandshakeInv ==
  /\ i < num_kthreads /\ args.for = i
  /\ \/ at[i] = "trampoline" /\ args.sem = 0 /\ ~args.error /\ Absent(i)
     \/ /\ at[i] = "added" /\ args.sem = 0 /\ ~args.error
        /\ \E s \in Slot : SlotsOf(i) = {s}
     \/ at[i] = "post" /\ args.sem = 0 /\ ~args.error /\ Known(i)
     \/ at[i] = "barrier" /\ args.sem = 1 /\ ~args.error /\ Known(i)
     \/ at[i] = "refused" /\ args.sem = 0 /\ ~args.error
     \/ at[i] = "ended" /\ args.sem = 1 /\ args.error

\* How far the workers are when the main kernel thread creates them, ...
CreateInv ==
  /\ ~inited /\ inited_sem = 0 /\ i <= num_kthreads
  /\ \A w \in Worker : w < i => at[w] = "barrier" /\ Known(w)
  /\ \A w \in Worker : w > i \/ (w = i /\ at[0] = "create")
                          => at[w] = "unborn" /\ Absent(w)
  /\ at[0] = "create" => args = NoArgs
  /\ at[0] = "handshake" => HandshakeInv

\* ... releases them and runs the program, ...
RunInv ==
  /\ inited /\ i <= num_kthreads
  /\ inited_sem <= (IF at[0] = "release" THEN i ELSE num_kthreads) - 1
  /\ \A w \in Worker : w < num_kthreads =>
        at[w] \in {"barrier", "enter", "schedule"} /\ Known(w)

\* ... and collects them.
JoinInv ==
  /\ inited /\ i <= num_kthreads
  /\ \A w \in Worker : w < i => at[w] = "ended" /\ Absent(w)
  /\ \A w \in Worker : i <= w /\ w < num_kthreads =>
        at[w] \in {"barrier", "enter", "schedule", "ended"} /\ Known(w)
  /\ at[0] # "join" => i < num_kthreads /\ entry \in SlotsOf(i)
  /\ at[0] = "delete" => at[i] = "ended"

StartInv ==
  /\ StartTypeOK
  /\ at[0] \in MainPc /\ \A w \in Worker : at[w] \in WorkerPc
  /\ at[0] # "done" => DOMAIN info = KNumber
  /\ at[0] \notin {"create", "handshake", "aborted"} =>
        \A w \in Worker : w >= num_kthreads => at[w] = "unborn" /\ Absent(w)
  /\ at[0] \in {"create", "handshake"} => CreateInv
  /\ at[0] = "aborted" => \A w \in Worker : at[w] \in {"unborn", "barrier", "ended"}
  /\ at[0] \in {"release", "program"} => RunInv
  /\ at[0] \in {"join", "wait", "delete"} => JoinInv
  /\ at[0] = "done" => \A w \in Worker : w < num_kthreads =>
                          at[w] = "ended" /\ Absent(w)


-----------------------------------------------------------------------------
(* Facts about the constants and the table.                                *)

\* Kernel threads are numbers below the greatest request.
LEMMA Numbers ==
  /\ Max(Requests) \in Nat /\ \A r \in Requests : r \in Nat /\ 1 <= r /\ r <= Max(Requests)
  /\ 0 \in KNumber /\ NONE \notin KNumber
  /\ \A w : w \in Worker <=> w \in Nat /\ 1 <= w /\ w < Max(Requests)
  /\ \A k : k \in KNumber <=> k = 0 \/ k \in Worker
  /\ NONE \notin Slot
<1>1. PICK m \in Requests : \A r \in Requests : r <= m
  BY StartupAssumption
<1>2. Requests \subseteq Nat \ {0} /\ NONE \notin Nat
  BY StartupAssumption
<1>3. Max(Requests) \in Requests /\ \A r \in Requests : Max(Requests) >= r
  <2>1. \A y \in Requests : m >= y
    BY <1>1, <1>2
  <2>2. Max(Requests) = CHOOSE x \in Requests : \A y \in Requests : x >= y
    BY DEF Max
  <2> QED
    BY <2>1, <2>2
<1>4. Max(Requests) \in Nat /\ Max(Requests) >= 1
  <2>1. PICK M \in Requests : M = Max(Requests)
    BY <1>3
  <2>2. M \in Nat /\ M >= 1
    BY <1>2
  <2> QED
    BY <2>1, <2>2
<1>5. \A r \in Requests : r \in Nat /\ 1 <= r /\ r <= Max(Requests)
  BY <1>2, <1>3, <1>4
<1>6. NONE \notin KNumber /\ NONE \notin Slot
  BY <1>2, <1>4, StartupAssumption DEF KNumber, Slot
<1> QED
  BY <1>4, <1>5, <1>6 DEF KNumber, Worker

\* The less-than relation on slots, as a set of pairs.
Below == {p \in Nat \X Nat : p[1] < p[2]}

\* It has no infinite descent: a least free one exists.
LEMMA BelowWellFounded == IsWellFoundedOn(Below, Nat)
BY NatLessThanWellFounded DEF OpToRel, Below

\* tidmap_find_tid returns a slot that holds the tid, if there is one.
LEMMA FindTidFinds ==
  ASSUME NEW t
  PROVE  /\ SlotsOf(t) # {} => FindTid(t) \in SlotsOf(t) /\ FindTid(t) # NONE
         /\ SlotsOf(t) = {} => FindTid(t) = NONE
<1>1. SlotsOf(t) \subseteq Slot /\ Slot \subseteq Nat /\ NONE \notin Slot
  BY StartupAssumption, Numbers DEF SlotsOf, Slot
<1>2. ASSUME SlotsOf(t) # {} PROVE FindTid(t) \in SlotsOf(t)
  <2>1. PICK x \in SlotsOf(t) : \A y \in SlotsOf(t) : ~(<<y, x>> \in Below)
    BY <1>1, <1>2, BelowWellFounded, WFMin
  <2>2. \A y \in SlotsOf(t) : x <= y
    <3> TAKE y \in SlotsOf(t)
    <3>1. x \in Nat /\ y \in Nat
      BY <1>1
    <3>2. ~(y < x)
      BY <2>1, <3>1 DEF Below
    <3> QED
      BY <3>1, <3>2
  <2>3. Min(SlotsOf(t)) \in SlotsOf(t)
    BY <2>2 DEF Min
  <2> QED
    BY <1>2, <2>3 DEF FindTid
<1> QED
  BY <1>1, <1>2 DEF FindTid

\* tidmap_add_self gives the caller a free slot, or leaves a full table, and
\* changes no entry of another thread.
LEMMA AddSelfAdds ==
  ASSUME StartTypeOK, NEW k \in KNumber, AddSelf(k)
  PROVE  /\ kthreads' \in [Slot -> KNumber \cup {NONE}]
         /\ \A t \in KNumber \ {k} : SlotsOf(t)' = SlotsOf(t)
         /\ FindTid(NONE) = NONE => kthreads' = kthreads
         /\ FindTid(NONE) # NONE /\ Absent(k) =>
               \E s \in Slot : SlotsOf(k)' = {s}
<1>1. CASE FindTid(NONE) = NONE
  <2>1. kthreads' = kthreads
    BY <1>1 DEF AddSelf
  <2> QED
    BY <1>1, <2>1 DEF StartTypeOK, SlotsOf
<1>2. CASE FindTid(NONE) # NONE
  <2>1. PICK s \in Slot : s = FindTid(NONE) /\ kthreads[s] = NONE
    BY <1>2, FindTidFinds DEF SlotsOf
  <2>2. kthreads' = [kthreads EXCEPT ![s] = k]
    BY <1>2, <2>1 DEF AddSelf
  <2>3. /\ kthreads' \in [Slot -> KNumber \cup {NONE}]
        /\ \A t \in KNumber \ {k} : SlotsOf(t)' = SlotsOf(t)
    BY <2>1, <2>2, Numbers DEF StartTypeOK, SlotsOf
  <2>4. Absent(k) => SlotsOf(k)' = {s}
    BY <2>1, <2>2 DEF StartTypeOK, SlotsOf, Absent
  <2> QED
    BY <1>2, <2>3, <2>4
<1> QED
  BY <1>1, <1>2


-----------------------------------------------------------------------------
(* The invariant is preserved.                                             *)

\* A step that leaves the table and kthread_info alone.
LEMMA SameTable ==
  ASSUME kthreads' = kthreads, info' = info
  PROVE  \A w \in KNumber : /\ SlotsOf(w)' = SlotsOf(w)
                            /\ Absent(w)' <=> Absent(w)
                            /\ Known(w)' <=> Known(w)
BY DEF SlotsOf, Absent, Known

\* The start satisfies it.
LEMMA InitStart == StartInit => StartInv
<1> SUFFICES ASSUME StartInit PROVE StartInv
  OBVIOUS
<1> USE Numbers DEF StartInit
<1>1. \A w \in Worker : Absent(w)
  BY DEF Absent, SlotsOf
<1>2. StartTypeOK
  <2>1. NoArgs \in [for : Worker \cup {NONE}, sem : 0 .. 1, error : BOOLEAN]
    BY DEF NoArgs
  <2>2. /\ kthreads \in [Slot -> KNumber \cup {NONE}]
        /\ DOMAIN info = KNumber /\ DOMAIN at = KNumber
        /\ \A k \in KNumber : info[k] \in KNumber \cup {NONE}
    OBVIOUS
  <2>3. /\ num_kthreads \in Nat /\ 1 <= num_kthreads
        /\ num_kthreads <= Max(Requests)
    OBVIOUS
  <2>4. inited_sem \in 0 .. num_kthreads - 1 /\ i \in 1 .. Max(Requests)
    BY <2>3
  <2> QED
    BY <2>1, <2>2, <2>4 DEF StartTypeOK
<1> QED
  BY <1>1, <1>2 DEF StartInv, CreateInv, MainPc, WorkerPc

\* The main kernel thread creates the workers and releases them ...
LEMMA InitSteps ==
  ASSUME StartInv,
         \/ AddMain \/ Spawn \/ SpawnFails \/ Handshake \/ SetInited
         \/ ReleaseWorker \/ InitReturns
  PROVE  StartInv'
<1> USE Numbers DEF StartInv
<1>1. StartTypeOK /\ num_kthreads \in Nat /\ i \in Nat
  BY DEF StartTypeOK
<1>2. CASE AddMain
  <2>1. /\ at[0] = "create" /\ at' = [at EXCEPT ![0] = "create"] /\ AddSelf(0)
        /\ UNCHANGED <<num_kthreads, info, inited, inited_sem, args, i, entry>>
    BY <1>2 DEF AddMain, Move
  <2>2. DOMAIN at' = KNumber /\ \A k \in KNumber : at'[k] = at[k]
    BY <1>1, <2>1 DEF StartTypeOK
  <2>3. /\ kthreads' \in [Slot -> KNumber \cup {NONE}]
        /\ \A w \in Worker : SlotsOf(w)' = SlotsOf(w)
    BY <1>1, <2>1, AddSelfAdds DEF Worker
  <2>4. \A w \in Worker : (Known(w)' <=> Known(w)) /\ (Absent(w)' <=> Absent(w))
    BY <2>1, <2>3 DEF Known, Absent
  <2>5. StartTypeOK'
    BY <1>1, <2>1, <2>2, <2>3 DEF StartTypeOK
  <2>6. CreateInv'
    BY <2>1, <2>2, <2>4 DEF CreateInv
  <2> QED
    BY <2>1, <2>2, <2>5, <2>6
<1>3. CASE Spawn
  <2>1. /\ at[0] = "create" /\ i < num_kthreads /\ args' = [NoArgs EXCEPT !.for = i]
        /\ at' = [at EXCEPT ![0] = "handshake", ![i] = "trampoline"]
        /\ UNCHANGED <<num_kthreads, kthreads, info, inited, inited_sem, i, entry>>
    BY <1>3 DEF Spawn
  <2>2. i \in Worker
    BY <1>1, <2>1 DEF StartTypeOK
  <2>3. /\ at'[0] = "handshake" /\ at'[i] = "trampoline" /\ DOMAIN at' = KNumber
        /\ \A w \in Worker \ {i} : at'[w] = at[w]
    BY <1>1, <2>1, <2>2 DEF StartTypeOK
  <2>4. /\ args' \in [for : Worker \cup {NONE}, sem : 0 .. 1, error : BOOLEAN]
        /\ args'.for = i /\ args'.sem = 0 /\ ~args'.error
    <3>1. args' = [for |-> i, sem |-> 0, error |-> FALSE]
      BY <2>1 DEF NoArgs
    <3> QED
      BY <2>2, <3>1
  <2>5. \A w \in KNumber : (Known(w)' <=> Known(w)) /\ (Absent(w)' <=> Absent(w))
    BY <2>1, SameTable
  <2>6. StartTypeOK'
    BY <1>1, <2>1, <2>3, <2>4 DEF StartTypeOK
  <2>7. HandshakeInv'
    BY <2>1, <2>2, <2>3, <2>4, <2>5 DEF HandshakeInv, CreateInv
  <2>8. CreateInv'
    BY <1>1, <2>1, <2>2, <2>3, <2>5, <2>7 DEF CreateInv
  <2> QED
    BY <2>1, <2>2, <2>3, <2>6, <2>8 DEF MainPc, WorkerPc
<1>4. CASE SpawnFails
  <2>1. /\ at[0] = "create" /\ at' = [at EXCEPT ![0] = "aborted"]
        /\ UNCHANGED <<num_kthreads, kthreads, info, inited, inited_sem, args, i,
                       entry>>
    BY <1>4 DEF SpawnFails, Move
  <2>2. /\ at'[0] = "aborted" /\ DOMAIN at' = KNumber
        /\ \A w \in Worker : at'[w] = at[w]
    BY <1>1, <2>1 DEF StartTypeOK
  <2>3. \A w \in Worker : at[w] \in {"unborn", "barrier", "ended"}
    BY <1>1, <2>1 DEF CreateInv
  <2>4. StartTypeOK'
    BY <1>1, <2>1, <2>2 DEF StartTypeOK
  <2> QED
    BY <2>1, <2>2, <2>3, <2>4 DEF MainPc
<1>5. CASE Handshake
  <2>1. /\ at[0] = "handshake" /\ args.sem > 0 /\ args' = NoArgs /\ i' = i + 1
        /\ at' = [at EXCEPT ![0] = IF args.error THEN "aborted" ELSE "create"]
        /\ UNCHANGED <<num_kthreads, kthreads, info, inited, inited_sem, entry>>
    BY <1>5 DEF Handshake, Move, CreateFailed, ThreadPosted
  <2>2. CreateInv /\ HandshakeInv
    BY <2>1 DEF CreateInv
  <2>3. i \in Worker /\ i < num_kthreads
    BY <1>1, <2>2 DEF StartTypeOK, HandshakeInv
  <2>4. /\ DOMAIN at' = KNumber /\ \A w \in Worker : at'[w] = at[w]
        /\ at'[0] = IF args.error THEN "aborted" ELSE "create"
    BY <1>1, <2>1 DEF StartTypeOK
  <2>5. \A w \in KNumber : (Known(w)' <=> Known(w)) /\ (Absent(w)' <=> Absent(w))
    BY <2>1, SameTable
  <2>6. StartTypeOK'
    <3>1. NoArgs \in [for : Worker \cup {NONE}, sem : 0 .. 1, error : BOOLEAN]
      BY DEF NoArgs
    <3>2. i' \in 1 .. Max(Requests)
      BY <1>1, <2>1, <2>3 DEF StartTypeOK
    <3> QED
      BY <1>1, <2>1, <2>4, <3>1, <3>2 DEF StartTypeOK
  <2>7. CASE args.error
    <3>1. at[i] = "ended"
      BY <2>1, <2>2, <2>7 DEF HandshakeInv
    <3>2. \A w \in Worker : at[w] \in {"unborn", "barrier", "ended"}
      BY <1>1, <2>1, <2>2, <2>3, <3>1 DEF CreateInv
    <3> QED
      BY <2>1, <2>4, <2>6, <2>7, <3>2 DEF MainPc
  <2>8. CASE ~args.error
    <3>1. at[i] = "barrier" /\ Known(i)
      BY <2>1, <2>2, <2>8 DEF HandshakeInv
    <3>2. \A w \in Worker : w < i + 1 => at'[w] = "barrier" /\ Known(w)'
      BY <1>1, <2>2, <2>3, <2>4, <2>5, <3>1 DEF CreateInv
    <3>3. \A w \in Worker : w >= i + 1 => at'[w] = "unborn" /\ Absent(w)'
      BY <1>1, <2>2, <2>3, <2>4, <2>5 DEF CreateInv
    <3>4. CreateInv'
      BY <1>1, <2>1, <2>2, <2>3, <2>4, <2>8, <3>2, <3>3 DEF CreateInv
    <3> QED
      BY <2>1, <2>4, <2>6, <2>8, <3>4 DEF MainPc
  <2> QED
    BY <2>7, <2>8
<1>6. CASE SetInited
  <2>1. /\ at[0] = "create" /\ i = num_kthreads /\ inited' = TRUE /\ i' = 1
        /\ at' = [at EXCEPT ![0] = "release"]
        /\ UNCHANGED <<num_kthreads, kthreads, info, inited_sem, args, entry>>
    BY <1>6 DEF SetInited, Move
  <2>2. /\ at'[0] = "release" /\ DOMAIN at' = KNumber
        /\ \A w \in Worker : at'[w] = at[w]
    BY <1>1, <2>1 DEF StartTypeOK
  <2>3. \A w \in KNumber : (Known(w)' <=> Known(w)) /\ (Absent(w)' <=> Absent(w))
    BY <2>1, SameTable
  <2>4. StartTypeOK'
    BY <1>1, <2>1, <2>2 DEF StartTypeOK
  <2>5. RunInv'
    <3>1. \A w \in Worker : w < num_kthreads => at'[w] = "barrier" /\ Known(w)'
      BY <2>1, <2>2, <2>3 DEF CreateInv
    <3>2. inited_sem' = 0 /\ 1 <= num_kthreads
      BY <1>1, <2>1 DEF CreateInv, StartTypeOK
    <3> QED
      BY <2>1, <2>2, <3>1, <3>2 DEF RunInv
  <2>6. \A w \in Worker : w >= num_kthreads => at'[w] = "unborn" /\ Absent(w)'
    BY <1>1, <2>1, <2>2, <2>3 DEF CreateInv
  <2> QED
    BY <2>1, <2>2, <2>4, <2>5, <2>6 DEF MainPc
<1>7. CASE ReleaseWorker \/ InitReturns
  <2>1. /\ at[0] = "release" /\ at'[0] \in {"release", "program"}
        /\ DOMAIN at' = KNumber /\ \A w \in Worker : at'[w] = at[w]
    BY <1>1, <1>7 DEF ReleaseWorker, InitReturns, Move, StartTypeOK
  <2>2. /\ UNCHANGED <<num_kthreads, kthreads, info, inited, args, entry>>
        /\ \/ /\ i < num_kthreads /\ inited_sem' = inited_sem + 1 /\ i' = i + 1
              /\ at'[0] = "release"
           \/ inited_sem' = inited_sem /\ i' = i
    BY <1>1, <1>7 DEF ReleaseWorker, InitReturns, MorePosts, Move, StartTypeOK
  <2>3. \A w \in KNumber : (Known(w)' <=> Known(w)) /\ (Absent(w)' <=> Absent(w))
    BY <2>2, SameTable
  <2>4. RunInv /\ inited_sem \in Nat /\ inited_sem <= i - 1
    BY <1>1, <2>1 DEF StartTypeOK, RunInv
  <2>5. /\ inited_sem' \in Nat /\ i' \in Nat /\ i' >= 1 /\ i' <= num_kthreads
        /\ inited_sem' <= i' - 1 /\ inited_sem' <= num_kthreads - 1
    BY <1>1, <2>2, <2>4 DEF RunInv, StartTypeOK
  <2>6. StartTypeOK'
    <3>1. inited_sem' \in 0 .. num_kthreads' - 1 /\ i' \in 1 .. Max(Requests)
      BY <1>1, <2>2, <2>5 DEF StartTypeOK
    <3> QED
      BY <1>1, <2>1, <2>2, <3>1 DEF StartTypeOK
  <2>7. RunInv'
    BY <2>1, <2>2, <2>3, <2>4, <2>5 DEF RunInv
  <2> QED
    BY <2>1, <2>2, <2>3, <2>6, <2>7 DEF MainPc
<1> QED
  BY <1>2, <1>3, <1>4, <1>5, <1>6, <1>7


\* ... and collects them.
LEMMA TeardownSteps ==
  ASSUME StartInv,
         Teardown \/ JoinFind \/ JoinWait \/ JoinDelete \/ FreeInfo
  PROVE  StartInv'
<1> USE Numbers DEF StartInv
<1>1. StartTypeOK /\ num_kthreads \in Nat /\ i \in Nat /\ 1 <= i /\ 1 <= num_kthreads
  BY DEF StartTypeOK
<1>2. CASE Teardown
  <2>1. /\ at[0] = "program" /\ i' = 1 /\ at' = [at EXCEPT ![0] = "join"]
        /\ UNCHANGED <<num_kthreads, kthreads, info, inited, inited_sem, args,
                       entry>>
    BY <1>2 DEF Teardown, Move
  <2>2. /\ at'[0] = "join" /\ DOMAIN at' = KNumber
        /\ \A w \in Worker : at'[w] = at[w]
    BY <1>1, <2>1 DEF StartTypeOK
  <2>3. \A w \in KNumber : (Known(w)' <=> Known(w)) /\ (Absent(w)' <=> Absent(w))
    BY <2>1, SameTable
  <2>4. StartTypeOK'
    BY <1>1, <2>1, <2>2 DEF StartTypeOK
  <2>5. JoinInv'
    BY <1>1, <2>1, <2>2, <2>3 DEF RunInv, JoinInv
  <2> QED
    BY <2>1, <2>2, <2>3, <2>4, <2>5 DEF MainPc
<1>3. CASE JoinFind
  <2>1. at[0] = "join"
    BY <1>3 DEF JoinFind, Move
  <2>2. /\ i < num_kthreads /\ entry' = FindTid(info[i])
        /\ UNCHANGED <<num_kthreads, kthreads, info, inited, inited_sem, args>>
    BY <1>3 DEF JoinFind
  <2>3. i \in Worker /\ Known(i)
    BY <1>1, <2>1, <2>2 DEF JoinInv, StartTypeOK
  <2>4. entry' \in SlotsOf(i) /\ entry' # NONE
    BY <2>2, <2>3, FindTidFinds DEF Known
  <2>5. at' = [at EXCEPT ![0] = "wait"] /\ i' = i
    BY <1>3, <2>4 DEF JoinFind, Move
  <2>6. /\ at'[0] = "wait" /\ DOMAIN at' = KNumber
        /\ \A w \in Worker : at'[w] = at[w]
    BY <1>1, <2>5 DEF StartTypeOK
  <2>7. \A w \in KNumber : /\ SlotsOf(w)' = SlotsOf(w)
                           /\ (Known(w)' <=> Known(w)) /\ (Absent(w)' <=> Absent(w))
    BY <2>2, SameTable
  <2>8. StartTypeOK'
    <3>1. entry' \in Slot
      BY <2>4 DEF SlotsOf
    <3> QED
      BY <1>1, <2>2, <2>5, <2>6, <3>1 DEF StartTypeOK
  <2>9. entry' \in SlotsOf(i)'
    <3>1. PICK n \in Worker : n = i
      BY <2>3
    <3>2. entry' \in SlotsOf(n)' /\ n = i'
      BY <2>4, <2>5, <2>7, <3>1
    <3> QED
      BY <3>2
  <2>10. JoinInv'
    BY <2>1, <2>2, <2>5, <2>6, <2>7, <2>9 DEF JoinInv
  <2> QED
    BY <2>1, <2>2, <2>6, <2>7, <2>8, <2>10 DEF MainPc
<1>4. CASE JoinWait
  <2>1. /\ at[0] = "wait" /\ at' = [at EXCEPT ![0] = "delete"]
        /\ at[kthreads[entry]] = "ended"
        /\ UNCHANGED <<num_kthreads, kthreads, info, inited, inited_sem, args, i,
                       entry>>
    BY <1>4 DEF JoinWait, Move
  <2>2. /\ at'[0] = "delete" /\ DOMAIN at' = KNumber
        /\ \A w \in Worker : at'[w] = at[w]
    BY <1>1, <2>1 DEF StartTypeOK
  <2>3. \A w \in KNumber : /\ SlotsOf(w)' = SlotsOf(w)
                           /\ (Known(w)' <=> Known(w)) /\ (Absent(w)' <=> Absent(w))
    BY <2>1, SameTable
  <2>4. i \in Worker /\ at[i] = "ended"
    <3>1. i < num_kthreads /\ entry \in SlotsOf(i)
      BY <2>1 DEF JoinInv
    <3> QED
      BY <1>1, <2>1, <3>1 DEF SlotsOf, StartTypeOK
  <2>5. StartTypeOK'
    BY <1>1, <2>1, <2>2 DEF StartTypeOK
  <2>6. JoinInv'
    BY <2>1, <2>2, <2>3, <2>4 DEF JoinInv
  <2> QED
    BY <2>1, <2>2, <2>3, <2>5, <2>6 DEF MainPc
<1>5. CASE JoinDelete
  <2>1. /\ at[0] = "delete" /\ at' = [at EXCEPT ![0] = "join"]
        /\ kthreads' = [kthreads EXCEPT ![entry] = NONE]
        /\ entry' = NONE /\ i' = i + 1
        /\ UNCHANGED <<num_kthreads, info, inited, inited_sem, args>>
    BY <1>5 DEF JoinDelete, TidmapDel, Move
  <2>2. /\ at'[0] = "join" /\ DOMAIN at' = KNumber
        /\ \A w \in Worker : at'[w] = at[w]
    BY <1>1, <2>1 DEF StartTypeOK
  <2>3. JoinInv /\ i < num_kthreads /\ entry \in SlotsOf(i) /\ at[i] = "ended"
    BY <2>1 DEF JoinInv
  <2>4. i \in Worker /\ entry \in Slot /\ kthreads[entry] = i
    BY <1>1, <2>3 DEF StartTypeOK, SlotsOf
  <2>5. SlotsOf(i) = {entry}
    BY <1>1, <2>3, <2>4 DEF JoinInv, Known
  <2>6. \A w \in Worker \ {i} : SlotsOf(w)' = SlotsOf(w)
    BY <1>1, <2>1, <2>4 DEF SlotsOf, StartTypeOK
  <2>7. PICK n \in Worker : n = i /\ Absent(n)'
    <3>1. PICK n \in Worker : n = i
      BY <2>4
    <3>2. \A s \in Slot : kthreads'[s] # n
      BY <1>1, <2>1, <2>4, <2>5, <3>1 DEF SlotsOf, StartTypeOK
    <3>3. Absent(n)'
      BY <3>2 DEF Absent, SlotsOf
    <3> QED
      BY <3>1, <3>3
  <2>8. \A w \in Worker \ {i} : (Known(w)' <=> Known(w)) /\ (Absent(w)' <=> Absent(w))
    BY <2>1, <2>6 DEF Known, Absent
  <2>9. StartTypeOK'
    <3>1. kthreads' \in [Slot -> KNumber \cup {NONE}]
      BY <1>1, <2>1, <2>4 DEF StartTypeOK
    <3>2. i' \in 1 .. Max(Requests)
      BY <1>1, <2>1, <2>3 DEF StartTypeOK
    <3> QED
      BY <1>1, <2>1, <2>2, <3>1, <3>2 DEF StartTypeOK
  <2>10. \A w \in Worker : w < i + 1 => at'[w] = "ended" /\ Absent(w)'
    <3> TAKE w \in Worker
    <3>1. CASE w = i
      BY <2>2, <2>3, <2>7, <3>1
    <3>2. CASE w # i
      BY <1>1, <2>2, <2>3, <2>8, <3>2 DEF JoinInv
    <3> QED
      BY <3>1, <3>2
  <2>11. JoinInv'
    BY <1>1, <2>1, <2>2, <2>3, <2>8, <2>10 DEF JoinInv
  <2>12. \A w \in Worker : w >= num_kthreads => at'[w] = "unborn" /\ Absent(w)'
    BY <1>1, <2>1, <2>2, <2>3, <2>8
  <2> QED
    BY <2>1, <2>2, <2>9, <2>11, <2>12 DEF MainPc
<1>6. CASE FreeInfo
  <2>1. /\ at[0] = "join" /\ at' = [at EXCEPT ![0] = "done"]
        /\ i = num_kthreads /\ info' = [k \in {} |-> NONE] /\ inited' = FALSE
        /\ UNCHANGED <<num_kthreads, kthreads, inited_sem, args, i, entry>>
    BY <1>6 DEF FreeInfo, Move
  <2>2. /\ at'[0] = "done" /\ DOMAIN at' = KNumber
        /\ \A w \in Worker : at'[w] = at[w]
    BY <1>1, <2>1 DEF StartTypeOK
  <2>3. \A w \in Worker : Absent(w)' <=> Absent(w)
    BY <2>1 DEF Absent, SlotsOf
  <2>4. StartTypeOK'
    BY <1>1, <2>1, <2>2 DEF StartTypeOK
  <2>5. \A w \in Worker : w < num_kthreads => at'[w] = "ended" /\ Absent(w)'
    BY <2>1, <2>2, <2>3 DEF JoinInv
  <2> QED
    BY <2>1, <2>2, <2>3, <2>4, <2>5 DEF MainPc
<1> QED
  BY <1>2, <1>3, <1>4, <1>5, <1>6


\* A worker that is being created is the one the main kernel thread waits
\* for.
LEMMA WhoIsCreated ==
  ASSUME StartInv, NEW w \in Worker,
         at[w] \in {"trampoline", "added", "post", "refused"}
  PROVE  w = i /\ at[0] = "handshake" /\ args.for = w /\ args.sem = 0
         /\ ~args.error /\ w < num_kthreads
<1> USE Numbers DEF StartInv
<1>1. StartTypeOK /\ num_kthreads \in Nat /\ i \in Nat
  BY DEF StartTypeOK
<1>2. w \in Nat
  OBVIOUS
<1>3. at[0] \in {"create", "handshake"}
  <2>1. w < num_kthreads \/ w >= num_kthreads
    BY <1>1, <1>2
  <2>2. w < i \/ i <= w
    BY <1>1, <1>2
  <2> QED
    BY <2>1, <2>2 DEF RunInv, JoinInv, MainPc
<1>4. w < i \/ w = i \/ w > i
  BY <1>1, <1>2
<1>5. w = i /\ at[0] = "handshake"
  BY <1>3, <1>4 DEF CreateInv
<1> QED
  BY <1>3, <1>5 DEF CreateInv, HandshakeInv

\* The workers' part of it.
LEMMA WorkSteps ==
  ASSUME StartInv, at[0] # "aborted", NEW w \in Worker, Work(w)
  PROVE  StartInv'
<1> USE Numbers DEF StartInv
<1>1. StartTypeOK /\ num_kthreads \in Nat /\ i \in Nat /\ w \in KNumber /\ w \in Nat
  BY DEF StartTypeOK
<1>2. CASE Register(w)
  <2>1. /\ at[w] = "trampoline" /\ AddSelf(w)
        /\ UNCHANGED <<num_kthreads, info, inited, inited_sem, args, i, entry>>
        /\ at' = [at EXCEPT ![w] = IF FindTid(NONE) = NONE THEN "refused"
                                                          ELSE "added"]
    BY <1>2 DEF Register, Move
  <2>2. /\ w = i /\ at[0] = "handshake" /\ args.for = w /\ args.sem = 0
        /\ ~args.error /\ w < num_kthreads
    BY <2>1, WhoIsCreated
  <2>3. CreateInv /\ HandshakeInv /\ Absent(w)
    BY <2>1, <2>2 DEF CreateInv, HandshakeInv
  <2>4. /\ DOMAIN at' = KNumber /\ \A k \in KNumber \ {w} : at'[k] = at[k]
        /\ at'[w] = IF FindTid(NONE) = NONE THEN "refused" ELSE "added"
    BY <1>1, <2>1 DEF StartTypeOK
  <2>5. /\ kthreads' \in [Slot -> KNumber \cup {NONE}]
        /\ \A t \in KNumber \ {w} : SlotsOf(t)' = SlotsOf(t)
        /\ FindTid(NONE) # NONE => \E s \in Slot : SlotsOf(w)' = {s}
    BY <1>1, <2>1, <2>3, AddSelfAdds
  <2>6. \A t \in Worker \ {w} : (Known(t)' <=> Known(t)) /\ (Absent(t)' <=> Absent(t))
    BY <1>1, <2>1, <2>5 DEF Known, Absent
  <2>7. StartTypeOK'
    BY <1>1, <2>1, <2>4, <2>5 DEF StartTypeOK
  <2>8. HandshakeInv'
    BY <2>1, <2>2, <2>4, <2>5 DEF HandshakeInv
  <2>9. CreateInv'
    BY <1>1, <2>1, <2>2, <2>3, <2>4, <2>6, <2>8 DEF CreateInv
  <2>10. at'[0] = "handshake"
    BY <2>2, <2>4
  <2> QED
    BY <2>1, <2>4, <2>7, <2>9, <2>10 DEF MainPc, WorkerPc
<1>3. CASE Announce(w)
  <2>1. /\ at[w] = "added" /\ info' = [info EXCEPT ![w] = w]
        /\ UNCHANGED <<num_kthreads, kthreads, inited, inited_sem, args, i, entry>>
        /\ at' = [at EXCEPT ![w] = "post"]
    BY <1>3 DEF Announce, Move
  <2>2. /\ w = i /\ at[0] = "handshake" /\ args.for = w /\ args.sem = 0
        /\ ~args.error /\ w < num_kthreads
    BY <2>1, WhoIsCreated
  <2>3. CreateInv /\ HandshakeInv /\ \E s \in Slot : SlotsOf(w) = {s}
    BY <2>1, <2>2 DEF CreateInv, HandshakeInv
  <2>4. /\ DOMAIN at' = KNumber /\ \A k \in KNumber \ {w} : at'[k] = at[k]
        /\ at'[w] = "post"
    BY <1>1, <2>1 DEF StartTypeOK
  <2>5. /\ DOMAIN info' = KNumber /\ info'[w] = w
        /\ \A k \in KNumber \ {w} : info'[k] = info[k]
    BY <1>1, <2>1, <2>2
  <2>6. \A t \in KNumber : SlotsOf(t)' = SlotsOf(t)
    BY <2>1 DEF SlotsOf
  <2>7. \A t \in Worker \ {w} : (Known(t)' <=> Known(t)) /\ (Absent(t)' <=> Absent(t))
    BY <1>1, <2>5, <2>6 DEF Known, Absent
  <2>8. Known(w)'
    BY <1>1, <2>3, <2>5, <2>6 DEF Known
  <2>9. StartTypeOK'
    BY <1>1, <2>1, <2>2, <2>4, <2>5 DEF StartTypeOK
  <2>10. HandshakeInv'
    BY <2>1, <2>2, <2>4, <2>8 DEF HandshakeInv
  <2>11. CreateInv'
    BY <1>1, <2>1, <2>2, <2>3, <2>4, <2>7, <2>10 DEF CreateInv
  <2>12. at'[0] = "handshake"
    BY <2>2, <2>4
  <2> QED
    BY <2>1, <2>4, <2>5, <2>9, <2>11, <2>12 DEF MainPc, WorkerPc
<1>4. CASE Post(w) \/ Refuse(w)
  <2>1. /\ UNCHANGED <<num_kthreads, kthreads, info, inited, inited_sem, i, entry>>
        /\ \/ /\ at[w] = "post" /\ at' = [at EXCEPT ![w] = "barrier"]
              /\ args' = [args EXCEPT !.sem = @ + 1]
           \/ /\ at[w] = "refused" /\ at' = [at EXCEPT ![w] = "ended"]
              /\ args' = [args EXCEPT !.sem = @ + 1, !.error = TRUE]
    BY <1>4 DEF Post, Refuse, Move
  <2>2. /\ w = i /\ at[0] = "handshake" /\ args.for = w /\ args.sem = 0
        /\ ~args.error /\ w < num_kthreads
    BY <2>1, WhoIsCreated
  <2>3. CreateInv /\ HandshakeInv
    BY <2>2 DEF CreateInv
  <2>4. /\ DOMAIN at' = KNumber /\ \A k \in KNumber \ {w} : at'[k] = at[k]
        /\ \/ /\ at[w] = "post" /\ at'[w] = "barrier"
              /\ args' = [for |-> w, sem |-> 1, error |-> FALSE]
           \/ /\ at[w] = "refused" /\ at'[w] = "ended"
              /\ args' = [for |-> w, sem |-> 1, error |-> TRUE]
    <3>1. args = [for |-> w, sem |-> 0, error |-> FALSE]
      BY <1>1, <2>2 DEF StartTypeOK
    <3>2. CASE at[w] = "post"
      BY <1>1, <2>1, <3>1, <3>2 DEF StartTypeOK
    <3>3. CASE at[w] = "refused"
      BY <1>1, <2>1, <3>1, <3>3 DEF StartTypeOK
    <3> QED
      BY <2>1, <3>2, <3>3
  <2>5. args' \in [for : Worker \cup {NONE}, sem : 0 .. 1, error : BOOLEAN]
    <3>1. \A e \in BOOLEAN : [for |-> w, sem |-> 1, error |-> e]
             \in [for : Worker \cup {NONE}, sem : 0 .. 1, error : BOOLEAN]
      OBVIOUS
    <3>2. \E e \in BOOLEAN : args' = [for |-> w, sem |-> 1, error |-> e]
      BY <2>4
    <3> QED
      BY <3>1, <3>2
  <2>6. \A t \in KNumber : (Known(t)' <=> Known(t)) /\ (Absent(t)' <=> Absent(t))
    BY <2>1, SameTable
  <2>7. StartTypeOK'
    BY <1>1, <2>1, <2>4, <2>5 DEF StartTypeOK
  <2>8. HandshakeInv'
    BY <1>1, <2>1, <2>2, <2>3, <2>4, <2>5, <2>6 DEF HandshakeInv
  <2>9. CreateInv'
    BY <1>1, <2>1, <2>2, <2>3, <2>4, <2>6, <2>8 DEF CreateInv
  <2>10. at'[0] = "handshake"
    BY <2>2, <2>4
  <2> QED
    BY <2>1, <2>4, <2>7, <2>9, <2>10 DEF MainPc, WorkerPc
<1>5. CASE PassBarrier(w) \/ EnterSchedule(w) \/ Leave(w)
  <2>1. /\ UNCHANGED <<num_kthreads, kthreads, info, inited, args, i, entry>>
        /\ \/ at[w] = "barrier" /\ inited_sem > 0 /\ inited_sem' = inited_sem - 1
                                /\ at' = [at EXCEPT ![w] = "enter"]
           \/ at[w] = "enter" /\ inited_sem' = inited_sem
                              /\ at' = [at EXCEPT ![w] = "schedule"]
           \/ /\ at[w] = "schedule" /\ inited_sem' = inited_sem
              /\ at' = [at EXCEPT ![w] = "ended"]
              /\ at[0] \in {"join", "wait", "delete"}
    BY <1>5 DEF PassBarrier, EnterSchedule, Leave, Move
  <2>2. /\ DOMAIN at' = KNumber /\ \A k \in KNumber \ {w} : at'[k] = at[k]
        /\ at[w] \in {"barrier", "enter", "schedule"}
        /\ at'[w] \in {"enter", "schedule", "ended"}
        /\ at'[w] = "ended" => at[0] \in {"join", "wait", "delete"}
    BY <1>1, <2>1 DEF StartTypeOK
  <2>3. at[0] \in {"release", "program", "join", "wait", "delete"}
    <3>1. ~(at[0] \in {"create", "handshake"})
      <4>1. SUFFICES ASSUME at[0] \in {"create", "handshake"} PROVE FALSE
        OBVIOUS
      <4>2. inited_sem = 0 /\ CreateInv
        BY <4>1 DEF CreateInv
      <4>3. at[w] \in {"enter", "schedule"}
        BY <2>1, <4>2
      <4>4. w < i \/ w = i \/ w > i
        BY <1>1
      <4> QED
        BY <4>1, <4>2, <4>3, <4>4 DEF CreateInv, HandshakeInv
    <3>2. at[0] # "done"
      <4>1. w < num_kthreads \/ w >= num_kthreads
        BY <1>1
      <4> QED
        BY <2>2, <4>1
    <3> QED
      BY <3>1, <3>2 DEF MainPc
  <2>4. w < num_kthreads
    BY <1>1, <2>2, <2>3
  <2>5. \A t \in KNumber : /\ SlotsOf(t)' = SlotsOf(t)
                           /\ (Known(t)' <=> Known(t)) /\ (Absent(t)' <=> Absent(t))
    BY <2>1, SameTable
  <2>6. inited_sem' \in Nat /\ inited_sem' <= inited_sem
    BY <1>1, <2>1 DEF StartTypeOK
  <2>7. StartTypeOK'
    BY <1>1, <2>1, <2>2, <2>6 DEF StartTypeOK
  <2>8. at'[0] = at[0]
    BY <2>2
  <2>9. CASE at[0] \in {"release", "program"}
    <3>1. RunInv
      BY <2>9
    <3>2. inited_sem' <= (IF at'[0] = "release" THEN i ELSE num_kthreads) - 1
      BY <1>1, <2>6, <2>8, <3>1 DEF RunInv, StartTypeOK
    <3>3. RunInv'
      BY <2>1, <2>2, <2>3, <2>5, <2>8, <2>9, <3>1, <3>2 DEF RunInv
    <3> QED
      BY <1>1, <2>1, <2>2, <2>4, <2>5, <2>7, <2>8, <2>9, <3>3 DEF MainPc, WorkerPc
  <2>10. CASE at[0] \in {"join", "wait", "delete"}
    <3>1. JoinInv /\ i <= w
      BY <1>1, <2>2, <2>10 DEF JoinInv
    <3>2. entry' \in SlotsOf(i)' <=> entry \in SlotsOf(i)
      BY <2>1 DEF SlotsOf
    <3>3. at[0] = "delete" => i # w /\ i \in KNumber
      BY <1>1, <2>2, <2>10 DEF JoinInv, StartTypeOK
    <3>4. JoinInv'
      BY <1>1, <2>1, <2>2, <2>5, <2>8, <3>1, <3>2, <3>3 DEF JoinInv
    <3> QED
      BY <1>1, <2>1, <2>2, <2>4, <2>5, <2>7, <2>8, <2>10, <3>4 DEF MainPc, WorkerPc
  <2> QED
    BY <2>3, <2>9, <2>10
<1> QED
  BY <1>2, <1>3, <1>4, <1>5 DEF Work


-----------------------------------------------------------------------------
(* The theorems.                                                           *)

\* How far each worker is, in every reachable state.
THEOREM StartInvariant == StartSpec => []StartInv
<1>1. StartInv /\ [StartNext]_startVars => StartInv'
  <2> SUFFICES ASSUME StartInv, [StartNext]_startVars PROVE StartInv'
    OBVIOUS
  <2>1. CASE UNCHANGED startVars
    <3>1. UNCHANGED <<num_kthreads, kthreads, info, inited, inited_sem, args, i,
                      entry, at>>
      BY <2>1 DEF startVars
    <3> QED
      BY <3>1 DEF StartInv, StartTypeOK, CreateInv, HandshakeInv, RunInv, JoinInv,
         Known, Absent, SlotsOf
  <2> QED
    BY <2>1, InitSteps, TeardownSteps, WorkSteps DEF StartNext, Main
<1> QED
  BY <1>1, InitStart, PTL DEF StartSpec

\* The variables of start-up have their types: the barrier inited_sem and
\* the one-shot semaphore of kthread_create never exceed what was posted.
THEOREM TypeCorrect == StartSpec => []StartTypeOK
<1>1. StartInv => StartTypeOK
  BY DEF StartInv
<1> QED
  BY <1>1, StartInvariant, PTL

\* A new kernel thread uses trampoline_args, a local of kthread_create, only
\* while that call still waits for it.
THEOREM ArgsOutliveThread == StartSpec => []ArgsAlive
<1>1. StartInv => ArgsAlive
  BY WhoIsCreated DEF ArgsAlive
<1> QED
  BY <1>1, StartInvariant, PTL

\* The assertions of kthread_main and get_kthread_info hold for every
\* worker from the barrier to its end.
THEOREM WorkerFindsInfo == StartSpec => []InfoFound
<1>1. StartInv => InfoFound
  <2> SUFFICES ASSUME StartInv, NEW w \in Worker, at[w] \in {"enter", "schedule"}
               PROVE  inited /\ InfoFor(w) /\ info[w] = w
    BY DEF InfoFound
  <2> USE Numbers DEF StartInv
  <2>1. num_kthreads \in Nat /\ i \in Nat /\ w \in Nat /\ w \in KNumber
    BY DEF StartTypeOK
  <2>2. (w < num_kthreads \/ w >= num_kthreads) /\ (w < i \/ w = i \/ w > i)
    BY <2>1
  <2>3. at[0] \in {"release", "program", "join", "wait", "delete"}
    BY <2>2 DEF MainPc, CreateInv, HandshakeInv
  <2>4. w < num_kthreads
    BY <2>2, <2>3
  <2>5. inited /\ Known(w)
    BY <2>1, <2>2, <2>3, <2>4 DEF RunInv, JoinInv
  <2>6. DOMAIN info = KNumber
    BY <2>3
  <2> QED
    BY <2>1, <2>5, <2>6 DEF Known, InfoFor
<1> QED
  BY <1>1, StartInvariant, PTL

\* uthread_init returns with all the kernel threads it was asked for, each
\* in the table once and known to kthread_info.
THEOREM InitStartsAll == StartSpec => []AllStarted
<1>1. StartInv => AllStarted
  <2> SUFFICES ASSUME StartInv, at[0] \in {"release", "program"},
                      NEW w \in 1 .. num_kthreads - 1
               PROVE  info[w] = w /\ Cardinality(SlotsOf(w)) = 1
    BY DEF AllStarted
  <2>1. num_kthreads \in Nat /\ num_kthreads <= Max(Requests)
    BY Numbers DEF StartInv, StartTypeOK
  <2>2. w \in Worker /\ w < num_kthreads
    BY <2>1, Numbers
  <2>3. Known(w)
    BY <2>2 DEF StartInv, RunInv
  <2>4. PICK s \in Slot : SlotsOf(w) = {s}
    BY <2>3 DEF Known
  <2> QED
    BY <2>3, <2>4, FS_Singleton DEF Known
<1> QED
  BY <1>1, StartInvariant, PTL

\* When uthread_teardown frees kthread_info every worker has ended, and the
\* table of kthread.c holds none of them any more.
THEOREM TeardownCollectsAll == StartSpec => []AllCollected
<1>1. StartInv => AllCollected
  <2> SUFFICES ASSUME StartInv, at[0] = "done"
               PROVE  /\ Registered = {}
                      /\ \A w \in 1 .. num_kthreads - 1 : at[w] = "ended"
    BY DEF AllCollected
  <2>1. num_kthreads \in Nat /\ num_kthreads <= Max(Requests)
    BY Numbers DEF StartInv, StartTypeOK
  <2>2. \A w \in Worker : Absent(w) /\ (w < num_kthreads => at[w] = "ended")
    BY <2>1, Numbers DEF StartInv
  <2>3. \A w \in 1 .. num_kthreads - 1 : w \in Worker /\ w < num_kthreads
    BY <2>1, Numbers
  <2> QED
    BY <2>2, <2>3 DEF Registered, Absent
<1> QED
  BY <1>1, StartInvariant, PTL
=============================================================================
