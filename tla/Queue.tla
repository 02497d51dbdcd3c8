------------------------------- MODULE Queue --------------------------------
(***************************************************************************)
(* The linked list of queue.c: nodes on a heap, the header node inside the *)
(* queue_t, a pointer to the last node and a count.  Its callers hold the  *)
(* lock that protects it, so that a call is one step; only the loop of     *)
(* queue_remove_item, whose locals matter, takes one step per iteration.   *)
(*                                                                         *)
(* The model stops when the code follows a null pointer or uses a node     *)
(* that was freed.                                                         *)
(*                                                                         *)
(* Spec has every function of queue.c, called in any order.  CoreSpec      *)
(* leaves out the two that no file of the library calls and that have      *)
(* defects of their own, queue_remove_item and queue_clear.                *)
(***************************************************************************)
EXTENDS Integers, Sequences, FiniteSets

CONSTANTS Node,       \* the addresses malloc returns
          Item,       \* what is queued
          Head0,      \* &this->head
          NULL

ASSUME QueueAssumption == /\ IsFiniteSet(Node) /\ Head0 \notin Node
                          /\ NULL \notin Node \cup Item \cup {Head0}

VARIABLES item,     \* n->item
          next,     \* n->next, of the header too
          tail,     \* this->tail
          size,     \* this->size
          alive,    \* the nodes that are allocated
          n, prev,  \* locals of queue_remove_item; n = Head0: not running
          wanted,   \* its parameter
          ret,      \* the result of the last call
          fault     \* "none", "null" or "freed"

list == <<item, next, tail, size, alive>>
loop == <<n, prev, wanted>>
vars == <<list, loop, ret, fault>>

\* queue_init
Init ==
  /\ item = [x \in Node |-> NULL]
  /\ next = [x \in Node \cup {Head0} |-> NULL]
  /\ tail = Head0
  /\ size = 0
  /\ alive = {}
  /\ n = Head0 /\ prev = Head0 /\ wanted = NULL
  /\ ret = 0
  /\ fault = "none"

-----------------------------------------------------------------------------
\* Follow next from the header, at most as often as there are nodes.
Pointer[i \in 0 .. Cardinality(Node)] ==
  IF i = 0 THEN next[Head0]
  ELSE IF Pointer[i - 1] = NULL THEN NULL ELSE next[Pointer[i - 1]]

Reachable == {Pointer[i] : i \in DOMAIN Pointer} \ {NULL}

\* The items from the first node to the last.  Header and tail are all that
\* counts for the node list when nothing is queued.
Contents == IF tail = Head0 THEN <<>>
            ELSE [i \in 1 .. Cardinality(Reachable) |-> item[Pointer[i - 1]]]

\* No call is under way.
Ready == fault = "none" /\ n = Head0

Fault(why) == fault' = why /\ UNCHANGED <<list, loop, ret>>

Return(r) == ret' = r /\ UNCHANGED <<loop, fault>>

-----------------------------------------------------------------------------
(* The operations.                                                         *)

\* this->tail->next = node; this->tail = node.  A definition that precedes
\* the one whose name it extends is a faulty variant of it.
LinkLastTailKept(node) ==
  next' = [next EXCEPT ![node] = NULL, ![tail] = node] /\ tail' = tail
LinkLast(node) ==
  next' = [next EXCEPT ![node] = NULL, ![tail] = node] /\ tail' = node

CountUp == size' = size + 1

Enqueue(x) ==
  /\ Ready
  /\ IF tail \in alive \cup {Head0}
     THEN \E node \in Node \ alive :
            /\ alive' = alive \cup {node}
            /\ item' = [item EXCEPT ![node] = x]
            /\ LinkLast(node)
            /\ CountUp
            /\ Return(0)
     ELSE Fault("freed")

InsertFirst(x) ==
  /\ Ready
  /\ \E node \in Node \ alive :
        /\ alive' = alive \cup {node}
        /\ item' = [item EXCEPT ![node] = x]
        /\ next' = [next EXCEPT ![node] = next[Head0], ![Head0] = node]
        /\ tail' = IF next[Head0] = NULL THEN node ELSE tail
        /\ CountUp
        /\ Return(0)

\* malloc returns NULL in either of them.
ENOMEM == 12
OutOfMemory == Ready /\ Return(ENOMEM) /\ UNCHANGED list

Peek ==
  /\ Ready
  /\ CASE next[Head0] = NULL    -> Return(NULL) /\ UNCHANGED list
       [] next[Head0] \in alive -> Return(item[next[Head0]]) /\ UNCHANGED list
       [] OTHER                 -> Fault("freed")

\* The tail of a list whose first node goes.
TailWithoutFirstKept(first) == tail
TailWithoutFirst(first)     == IF next[first] = NULL THEN Head0 ELSE tail

Unlink(first) ==
  /\ next' = [next EXCEPT ![Head0] = next[first]]
  /\ tail' = TailWithoutFirst(first)
  /\ size' = size - 1
  /\ alive' = alive \ {first}
  /\ UNCHANGED item
  /\ Return(item[first])

Dequeue ==
  /\ Ready
  /\ CASE next[Head0] = NULL    -> Return(NULL) /\ UNCHANGED list
       [] next[Head0] \in alive -> Unlink(next[Head0])
       [] OTHER                 -> Fault("freed")

\* The loop that frees every node, with nothing else: queue_destroy.  The
\* queue_t may then be initialised again.
Destroy ==
  /\ Ready
  /\ IF Reachable \subseteq alive
     THEN /\ alive' = alive \ Reachable
          /\ next' = [next EXCEPT ![Head0] = NULL]
          /\ tail' = Head0
          /\ size' = 0
          /\ UNCHANGED <<item, loop, ret, fault>>
     ELSE Fault("freed")

\* queue_clear leaves this->head.next as it is.
Clear ==
  /\ Ready
  /\ IF Reachable \subseteq alive
     THEN /\ alive' = alive \ Reachable
          /\ tail' = Head0
          /\ size' = 0
          /\ UNCHANGED <<item, next, loop, ret, fault>>
     ELSE Fault("freed")

Size == Ready /\ Return(size) /\ UNCHANGED list

-----------------------------------------------------------------------------
(* queue_remove_item: the loop advances n at its end and in its header.    *)

\* The call begins with a node to look at ...
RemoveBegin(x) ==
  /\ Ready
  /\ next[Head0] # NULL
  /\ n' = next[Head0] /\ prev' = Head0 /\ wanted' = x
  /\ UNCHANGED <<list, ret, fault>>

\* ... or returns at once.
RemoveEmpty(x) ==
  Ready /\ next[Head0] = NULL /\ Return(-1) /\ UNCHANGED list

Running == fault = "none" /\ n # Head0

RemoveEnds(r) ==
  /\ n' = Head0 /\ prev' = Head0 /\ wanted' = NULL
  /\ ret' = r /\ UNCHANGED fault

Found == /\ alive' = alive \ {n}
         /\ tail' = IF next[n] = NULL THEN prev ELSE tail
         /\ next' = [next EXCEPT ![prev] = next[n]]
         /\ size' = size - 1
         /\ UNCHANGED item
         /\ RemoveEnds(0)

\* The second advance, of the loop header, reads n->next of what the first
\* one found.
RemoveStep ==
  /\ Running
  /\ IF n \notin alive THEN Fault("freed")
     ELSE IF item[n] = wanted THEN Found
     ELSE IF next[n] = NULL THEN Fault("null")
     ELSE IF next[next[n]] = NULL THEN RemoveEnds(-1) /\ UNCHANGED list
     ELSE /\ prev' = n /\ n' = next[next[n]]
          /\ UNCHANGED <<list, wanted, ret, fault>>

-----------------------------------------------------------------------------

CoreNext == \/ \E x \in Item : Enqueue(x) \/ InsertFirst(x)
            \/ OutOfMemory \/ Peek \/ Dequeue \/ Destroy \/ Size

CoreSpec == Init /\ [][CoreNext]_vars

Next == \/ CoreNext
        \/ \E x \in Item : RemoveBegin(x) \/ RemoveEmpty(x)
        \/ RemoveStep
        \/ Clear

Spec == Init /\ [][Next]_vars

-----------------------------------------------------------------------------
(* Properties.                                                             *)

\* After any sequence of queue_enqueue, queue_insert_first, queue_peek,
\* queue_dequeue, queue_size and queue_destroy, every allocated node is
\* reached from the header and no freed one is, size counts them, and tail
\* is the last: a node that is cut off is an item lost, and a wrong tail
\* loses what is appended next.
ListSound ==
  Ready => /\ Reachable = alive
           /\ size = Cardinality(alive)
           /\ tail = IF size = 0 THEN Head0 ELSE Pointer[size - 1]

\* None of these functions reads or frees a node that was freed, or follows
\* a null pointer.
NoMemoryError == fault = "none"

\* With them the linked list implements a sequence of items: each call does
\* to the items, and returns, what the sequence's operation does.
L == INSTANCE ItemList WITH items <- Contents
ItemListSpec == L!Spec

\* queue.c:154, of queue_remove_item: "Removes a given item from a list.
\* Returns zero if successful."  It fails, then, only if no item of the list
\* is the wanted one.
RemoveFinds ==
  [][(n # Head0 /\ n' = Head0 /\ ret' = -1) =>
        \A i \in DOMAIN Contents : Contents[i] # wanted]_vars
=============================================================================
