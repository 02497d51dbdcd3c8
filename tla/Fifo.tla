-------------------------------- MODULE Fifo --------------------------------
(***************************************************************************)
(* What the ready queue promises to schedule(): one first-in first-out     *)
(* queue, to which a kernel thread adds and from which it takes in one     *)
(* step, and nothing is taken from an empty queue.                         *)
(***************************************************************************)
EXTENDS Sequences

CONSTANTS KThread, Item, NULL

VARIABLES items,  \* what is queued, in the order of arrival
          taken   \* taken[k]: what k took last

Init == items = <<>> /\ taken = [k \in KThread |-> NULL]

Put(x) == items' = Append(items, x) /\ UNCHANGED taken

Take(k) ==
  /\ items # <<>>
  /\ taken' = [taken EXCEPT ![k] = Head(items)]
  /\ items' = Tail(items)

Next == (\E x \in Item : Put(x)) \/ (\E k \in KThread : Take(k))

Spec == Init /\ [][Next]_<<items, taken>>
=============================================================================
