------------------------------ MODULE RingBuffer ------------------------------
(***************************************************************************)
(* RingBuffer<T, Capacity>, src/src/core/ring_buffer.h: a lock-free queue  *)
(* between one producer thread (HostSession's capture thread) and one      *)
(* consumer thread (its encode thread).                                    *)
(*                                                                         *)
(* A step is one access to shared memory.  Each index is written by one    *)
(* thread only, with release, and read by the other with acquire: what was *)
(* written to a slot before the index was stored is seen after it was      *)
(* loaded.  A slot is not atomic: while it is being moved into or out of,  *)
(* its content is neither the old nor the new item.                        *)
(***************************************************************************)
EXTENDS Integers, Sequences

CONSTANTS
    Items,          \* what is pushed
    Capacity,       \* a power of two
    None,           \* std::nullopt
    Hollow          \* the content of a slot that holds no item: initial,
                    \* moved from, or half moved into

ASSUME CapacityAssumption ==
    /\ Capacity \in Nat \ {0}
    /\ \E n \in 0..Capacity : Capacity = 2^n
ASSUME ItemsAssumption == None \notin Items /\ Hollow \notin Items

VARIABLES
    head, tail, storage,    \* head_, tail_, storage_
    producer,               \* "idle", "check", "write", "fill", "publish"
    consumer,               \* "idle", "check", "take", "publish"
    input,                  \* the argument of push()
    item,                   \* `item` in pop()
    pushed, popped          \* what the last push() and pop() returned

vars == <<head, tail, storage, producer, consumer, input, item, pushed, popped>>

Indices == 0..(Capacity - 1)

\* (i + 1) & kMask; with a power of two the mask wraps at Capacity.
Following(i) == IF i + 1 = Capacity THEN 0 ELSE i + 1

\* size(): (h - t) & kMask.
Occupied == IF head >= tail THEN head - tail ELSE head - tail + Capacity

Init ==
    /\ head = 0 /\ tail = 0
    /\ storage = [i \in Indices |-> Hollow]
    /\ producer = "idle" /\ consumer = "idle"
    /\ input = None /\ item = None
    /\ pushed = FALSE /\ popped = None

---------------------------------------------------------------------------
(* push(), on the producer's thread.                                       *)

PushCall ==
    /\ producer = "idle" /\ producer' = "check"
    /\ input' \in Items
    /\ UNCHANGED <<head, tail, storage, consumer, item, pushed, popped>>

\* Mutant: nothing keeps the producer off a full buffer.
PushCheckNever ==
    /\ producer = "check" /\ producer' = "write"
    /\ UNCHANGED <<head, tail, storage, consumer, input, item, pushed, popped>>

\* Mutant: two slots are left free.
PushCheckEarly ==
    /\ producer = "check"
    /\ IF Following(Following(head)) = tail
       THEN producer' = "idle" /\ pushed' = FALSE
       ELSE producer' = "write" /\ UNCHANGED pushed
    /\ UNCHANGED <<head, tail, storage, consumer, input, item, popped>>

\* head_ is the producer's own; tail_ is loaded.
PushCheck ==
    /\ producer = "check"
    /\ IF Following(head) = tail
       THEN producer' = "idle" /\ pushed' = FALSE
       ELSE producer' = "write" /\ UNCHANGED pushed
    /\ UNCHANGED <<head, tail, storage, consumer, input, item, popped>>

\* storage_[head] = std::move(item) begins ...
PushWrite ==
    /\ producer = "write" /\ producer' = "fill"
    /\ storage' = [storage EXCEPT ![head] = Hollow]
    /\ UNCHANGED <<head, tail, consumer, input, item, pushed, popped>>

\* ... and ends.
PushFill ==
    /\ producer = "fill" /\ producer' = "publish"
    /\ storage' = [storage EXCEPT ![head] = input]
    /\ UNCHANGED <<head, tail, consumer, input, item, pushed, popped>>

PushPublish ==
    /\ producer = "publish" /\ producer' = "idle"
    /\ head' = Following(head) /\ pushed' = TRUE
    /\ UNCHANGED <<tail, storage, consumer, input, item, popped>>

---------------------------------------------------------------------------
(* pop(), on the consumer's thread.                                        *)

PopCall ==
    /\ consumer = "idle" /\ consumer' = "check"
    /\ UNCHANGED <<head, tail, storage, producer, input, item, pushed, popped>>

\* tail_ is the consumer's own; head_ is loaded.
PopCheck ==
    /\ consumer = "check"
    /\ IF tail = head
       THEN consumer' = "idle" /\ popped' = None
       ELSE consumer' = "take" /\ UNCHANGED popped
    /\ UNCHANGED <<head, tail, storage, producer, input, item, pushed>>

PopTake ==
    /\ consumer = "take" /\ consumer' = "publish"
    /\ item' = storage[tail]
    /\ storage' = [storage EXCEPT ![tail] = Hollow]
    /\ UNCHANGED <<head, tail, producer, input, pushed, popped>>

PopPublish ==
    /\ consumer = "publish" /\ consumer' = "idle"
    /\ tail' = Following(tail) /\ popped' = item
    /\ UNCHANGED <<head, storage, producer, input, item, pushed>>

---------------------------------------------------------------------------
Next ==
    \/ PushCall \/ PushCheck \/ PushWrite \/ PushFill \/ PushPublish
    \/ PopCall \/ PopCheck \/ PopTake \/ PopPublish

Spec == Init /\ [][Next]_vars

---------------------------------------------------------------------------
(* Properties.                                                             *)

TypeOK ==
    /\ head \in Indices /\ tail \in Indices
    /\ storage \in [Indices -> Items \cup {Hollow}]
    /\ producer \in {"idle", "check", "write", "fill", "publish"}
    /\ consumer \in {"idle", "check", "take", "publish"}
    /\ input \in Items \cup {None} /\ item \in Items \cup {None}
    /\ pushed \in BOOLEAN /\ popped \in Items \cup {None}

\* The two threads are never inside the same slot: push() does not write where
\* pop() is moving an item out.
NoRace ==
    ~(producer \in {"write", "fill"} /\ consumer = "take" /\ head = tail)

\* The slot of the k-th item, counted from 0.
Slot(k) == IF tail + k < Capacity THEN tail + k ELSE tail + k - Capacity

\* What is inside: an item taken out counts until tail_ is stored.
Contents ==
    [k \in 1..Occupied |->
        IF k = 1 /\ consumer = "publish" THEN item ELSE storage[Slot(k - 1)]]

\* The buffer is a queue of Capacity - 1 items: in order, none lost, repeated
\* or torn, refused only when full.
Fifo == INSTANCE BoundedFifo WITH queue <- Contents, Size <- Capacity - 1
IsFifo == Fifo!Spec

=============================================================================
