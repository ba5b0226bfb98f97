------------------------------ MODULE Mailbox ------------------------------
(***************************************************************************)
(* What Netzwerk::tsqueue promises its users: a double-ended queue whose   *)
(* operations take effect one at a time.  Every item is handed out at most *)
(* once, in the order of the deque, and an item can only be taken out of a *)
(* queue that holds one.  Items are numbered in the order of their arrival.*)
(***************************************************************************)
EXTENDS Naturals, Sequences

VARIABLES
    items,      \* the queue
    arrived,    \* how many items were ever put in
    taken       \* the items that were handed out

vars == <<items, arrived, taken>>

Init == items = <<>> /\ arrived = 0 /\ taken = {}

PutBack ==
    /\ items' = Append(items, arrived + 1)
    /\ arrived' = arrived + 1
    /\ UNCHANGED taken

PutFront ==
    /\ items' = <<arrived + 1>> \o items
    /\ arrived' = arrived + 1
    /\ UNCHANGED taken

TakeFront ==
    /\ items # <<>>
    /\ items' = Tail(items)
    /\ taken' = taken \cup {Head(items)}
    /\ UNCHANGED arrived

TakeBack ==
    /\ items # <<>>
    /\ items' = SubSeq(items, 1, Len(items) - 1)
    /\ taken' = taken \cup {items[Len(items)]}
    /\ UNCHANGED arrived

Empty == items' = <<>> /\ UNCHANGED <<arrived, taken>>

Next == PutBack \/ PutFront \/ TakeFront \/ TakeBack \/ Empty

Spec == Init /\ [][Next]_vars
=============================================================================
