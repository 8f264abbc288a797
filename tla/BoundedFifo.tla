----------------------------- MODULE BoundedFifo -----------------------------
(***************************************************************************)
(* What a queue between one producer and one consumer promises: items      *)
(* leave once, whole and in the order in which they entered; only a full   *)
(* queue refuses, only an empty one answers "empty".                       *)
(***************************************************************************)
EXTENDS Integers, Sequences

CONSTANTS Items, Size, None

VARIABLES
    queue,          \* the items inside
    pushed,         \* what the last push() returned
    popped          \* what the last pop() returned: an item, or None

Init == queue = <<>> /\ pushed = FALSE /\ popped = None

Push(x) ==
    /\ Len(queue) < Size
    /\ queue' = Append(queue, x) /\ pushed' = TRUE
    /\ UNCHANGED popped

Refuse ==
    /\ Len(queue) = Size
    /\ pushed' = FALSE
    /\ UNCHANGED <<queue, popped>>

Pop ==
    /\ queue # <<>>
    /\ popped' = Head(queue) /\ queue' = Tail(queue)
    /\ UNCHANGED pushed

FindEmpty ==
    /\ queue = <<>>
    /\ popped' = None
    /\ UNCHANGED <<queue, pushed>>

Next == (\E x \in Items : Push(x)) \/ Refuse \/ Pop \/ FindEmpty

Spec == Init /\ [][Next]_<<queue, pushed, popped>>

=============================================================================
