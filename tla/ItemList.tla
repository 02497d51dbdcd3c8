------------------------------ MODULE ItemList ------------------------------
(***************************************************************************)
(* What queue.h promises: a sequence of items, and the result of the last  *)
(* call.  A call that has to allocate may fail, and then changes nothing.  *)
(***************************************************************************)
EXTENDS Integers, Sequences

CONSTANTS Item, NULL

ENOMEM == 12

VARIABLES items, ret

Init == items = <<>> /\ ret = 0

Result(r, s) == ret' = r /\ items' = s

Enqueue(x)     == Result(0, Append(items, x))
InsertFirst(x) == Result(0, <<x>> \o items)
Fail           == Result(ENOMEM, items)
Peek           == Result(IF items = <<>> THEN NULL ELSE Head(items), items)
Dequeue        == IF items = <<>> THEN Result(NULL, items)
                  ELSE Result(Head(items), Tail(items))
Clear          == items' = <<>> /\ UNCHANGED ret
Size           == Result(Len(items), items)

\* The first occurrence of x goes, and only that.
Remove(x) ==
  IF \E i \in DOMAIN items : items[i] = x
  THEN \E i \in DOMAIN items :
         /\ items[i] = x /\ \A j \in 1 .. i - 1 : items[j] # x
         /\ Result(0, SubSeq(items, 1, i - 1) \o SubSeq(items, i + 1, Len(items)))
  ELSE Result(-1, items)

Next == \/ \E x \in Item : Enqueue(x) \/ InsertFirst(x) \/ Remove(x)
        \/ Fail \/ Peek \/ Dequeue \/ Clear \/ Size

Spec == Init /\ [][Next]_<<items, ret>>
=============================================================================
