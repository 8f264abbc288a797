------------------------------ MODULE ThreadsProofs ------------------------------
(***************************************************************************)
(* What the threads of a process share.  The ring buffer of any capacity   *)
(* implements BoundedFifo, and its two threads never meet in a slot; the   *)
(* tasks of a thread pool of any size work in different decoders, and no   *)
(* wake-up of its workers is lost.                                         *)
(***************************************************************************)
EXTENDS RingBuffer, ThreadPool, SequenceTheorems, FiniteSetTheorems, TLAPS

\* Slot i lies between tail_ and head_.
Inside(i) == IF head >= tail THEN tail <= i /\ i < head
                             ELSE tail <= i \/ i < head

\* A slot inside holds an item, except while its item is with pop().
Filled ==
    \A i \in Indices :
        Inside(i) => \/ storage[i] \in Items
                     \/ i = tail /\ consumer = "publish"

ProducerOk ==
    /\ producer # "idle" => input \in Items
    /\ producer \in {"write", "fill", "publish"} => Following(head) # tail
    /\ producer = "publish" => storage[head] = input

ConsumerOk ==
    /\ consumer \in {"take", "publish"} => tail # head
    /\ consumer = "publish" => item \in Items

IInv == TypeOK /\ Filled /\ ProducerOk /\ ConsumerOk

LEMMA CapacityPositive == Capacity \in Nat /\ Capacity >= 1
<1>1. Capacity \in Nat \ {0}
  BY CapacityAssumption, Zenon
<1> QED
  BY <1>1

LEMMA InitInvariant == Init => IInv
<1> SUFFICES ASSUME Init PROVE IInv
  OBVIOUS
<1>1. TypeOK
  <2>1. 0 \in Indices
    BY CapacityPositive DEF Indices
  <2>2. storage \in [Indices -> Items \cup {Hollow}]
    BY DEF Init
  <2> QED
    BY <2>1, <2>2 DEF Init, TypeOK
<1>2. Filled
  BY DEF Init, Filled, Inside, Indices
<1>3. ProducerOk /\ ConsumerOk
  BY DEF Init, ProducerOk, ConsumerOk
<1> QED
  BY <1>1, <1>2, <1>3 DEF IInv

\* Every step keeps the invariant.
LEMMA NextInvariant == IInv /\ [Next]_vars => IInv'
<1> SUFFICES ASSUME IInv, [Next]_vars
             PROVE  IInv'
  OBVIOUS
<1> USE CapacityPositive, ItemsAssumption
    DEF IInv, TypeOK, Filled, ProducerOk, ConsumerOk, Indices, Inside, Following
<1>1. CASE PushCall
  BY <1>1 DEF PushCall
<1>2. CASE PushCheck
  BY <1>2 DEF PushCheck
<1>3. CASE PushWrite
  BY <1>3 DEF PushWrite
<1>4. CASE PushFill
  BY <1>4 DEF PushFill
<1>5. CASE PushPublish
  BY <1>5 DEF PushPublish
<1>6. CASE PopCall
  BY <1>6 DEF PopCall
<1>7. CASE PopCheck
  BY <1>7 DEF PopCheck
<1>8. CASE PopTake
  BY <1>8 DEF PopTake
<1>9. CASE PopPublish
  BY <1>9 DEF PopPublish
<1>10. CASE UNCHANGED vars
  BY <1>10 DEF vars
<1> QED
  BY <1>1, <1>2, <1>3, <1>4, <1>5, <1>6, <1>7, <1>8, <1>9, <1>10 DEF Next

THEOREM Invariance == Spec => []IInv
  BY InitInvariant, NextInvariant, PTL DEF Spec

\* Every variable keeps its type; in particular the indices stay inside.
THEOREM TypeCorrectness == Spec => []TypeOK
<1>1. IInv => TypeOK
  BY DEF IInv
<1> QED
  BY <1>1, Invariance, PTL

\* push() never writes the slot that pop() is reading.
THEOREM NoDataRace == Spec => []NoRace
<1>1. IInv => NoRace
  BY DEF IInv, ConsumerOk, NoRace
<1> QED
  BY <1>1, Invariance, PTL

---------------------------------------------------------------------------
(* The refinement.                                                         *)

\* The occupied slots are distinct, inside, and follow one another.
LEMMA Slots ==
    ASSUME TypeOK
    PROVE  /\ Occupied \in 0..(Capacity - 1)
           /\ \A k \in 0..(Occupied - 1) : Slot(k) \in Indices /\ Inside(Slot(k))
           /\ \A k \in 1..(Occupied - 1) : Slot(k) # tail
           /\ Slot(0) = tail
           /\ Slot(Occupied) = head
  BY CapacityPositive DEF TypeOK, Occupied, Slot, Inside, Indices

\* What is inside is a sequence of whole items.
ContentsOk == Contents \in Seq(Items) /\ Len(Contents) = Occupied

LEMMA ContentsType == IInv => ContentsOk
<1> SUFFICES ASSUME IInv
             PROVE  Contents \in Seq(Items) /\ Len(Contents) = Occupied
  BY DEF ContentsOk
<1>1. Occupied \in Nat
  BY Slots DEF IInv
<1>2. ASSUME NEW k \in 1..Occupied
      PROVE  (IF k = 1 /\ consumer = "publish" THEN item ELSE storage[Slot(k - 1)])
                \in Items
  <2>1. k - 1 \in 0..(Occupied - 1) /\ (k # 1 => k - 1 \in 1..(Occupied - 1))
    BY <1>1
  <2>2. Slot(k - 1) \in Indices /\ Inside(Slot(k - 1))
    BY <2>1, Slots DEF IInv
  <2>3. k # 1 => Slot(k - 1) # tail
    BY <2>1, Slots DEF IInv
  <2> QED
    BY <2>2, <2>3 DEF IInv, Filled, ConsumerOk
<1> QED
  BY <1>1, <1>2 DEF Contents

LEMMA ContentsTypeAfter == IInv' => ContentsOk'
  BY ContentsType, PTL

\* A step that leaves the slots inside alone leaves the contents alone.
LEMMA SameContents ==
    ASSUME IInv, UNCHANGED <<head, tail>>,
           \A i \in Indices : Inside(i) /\ i # tail => storage'[i] = storage[i],
           head # tail =>
              (IF consumer' = "publish" THEN item' ELSE storage'[tail])
                = (IF consumer = "publish" THEN item ELSE storage[tail])
    PROVE  Contents' = Contents
<1>1. Occupied' = Occupied /\ Occupied \in Nat /\ \A k : Slot(k)' = Slot(k)
  BY Slots DEF IInv, Occupied, Slot
<1>2. ASSUME NEW k \in 1..Occupied
      PROVE  (IF k = 1 /\ consumer' = "publish" THEN item' ELSE storage'[Slot(k - 1)])
               = (IF k = 1 /\ consumer = "publish" THEN item ELSE storage[Slot(k - 1)])
  <2>1. head # tail
    BY <1>1 DEF Occupied, IInv, TypeOK, Indices
  <2>2. k - 1 \in 0..(Occupied - 1) /\ (k # 1 => k - 1 \in 1..(Occupied - 1))
    BY <1>1
  <2>3. Slot(k - 1) \in Indices /\ Inside(Slot(k - 1))
    BY <2>2, Slots DEF IInv
  <2>4. CASE k = 1
    BY <2>1, <2>4, Slots DEF IInv
  <2>5. CASE k # 1
    BY <2>2, <2>3, <2>5, Slots DEF IInv
  <2> QED
    BY <2>4, <2>5
<1>3. Contents' = [k \in 1..Occupied |->
          IF k = 1 /\ consumer' = "publish" THEN item' ELSE storage'[Slot(k - 1)]]
  BY <1>1 DEF Contents
<1> QED
  BY <1>2, <1>3 DEF Contents

\* push() appends its argument when head_ is stored.
LEMMA PublishAppends ==
    ASSUME IInv, IInv', PushPublish
    PROVE  Fifo!Push(input)
<1>1. /\ Contents \in Seq(Items) /\ Len(Contents) = Occupied
      /\ Contents' \in Seq(Items) /\ Len(Contents') = Occupied'
      /\ input \in Items
  BY ContentsTypeAfter, ContentsType DEF IInv, ProducerOk, PushPublish, ContentsOk
<1>2. Occupied \in Nat /\ Occupied' = Occupied + 1 /\ Occupied < Capacity - 1
  BY CapacityPositive
  DEF PushPublish, IInv, TypeOK, ProducerOk, Indices, Occupied, Following
<1>3. ASSUME NEW k \in 1..(Occupied + 1)
      PROVE  Contents'[k] = IF k = Occupied + 1 THEN input ELSE Contents[k]
  <2>1. /\ storage' = storage /\ consumer' = consumer /\ item' = item
        /\ Slot(k - 1)' = Slot(k - 1)
    BY DEF PushPublish, Slot
  <2>2. Contents'[k] = IF k = 1 /\ consumer = "publish" THEN item
                       ELSE storage[Slot(k - 1)]
    BY <1>2, <2>1 DEF Contents
  <2>3. CASE k = Occupied + 1
    <3>1. Slot(k - 1) = head
      BY <1>2, <2>3, Slots DEF IInv
    <3>2. ~(k = 1 /\ consumer = "publish")
      BY <1>2, <2>3, CapacityPositive
      DEF IInv, ConsumerOk, TypeOK, Indices, Occupied
    <3> QED
      BY <2>2, <2>3, <3>1, <3>2 DEF IInv, ProducerOk, PushPublish
  <2>4. CASE k # Occupied + 1
    <3>1. k \in 1..Occupied
      BY <1>2, <2>4
    <3> QED
      BY <2>2, <2>4, <3>1 DEF Contents
  <2> QED
    BY <2>3, <2>4
<1>4. Contents' = Append(Contents, input)
  <2>1. /\ Append(Contents, input) \in Seq(Items)
        /\ Len(Append(Contents, input)) = Occupied + 1
        /\ \A k \in 1..Occupied : Append(Contents, input)[k] = Contents[k]
        /\ Append(Contents, input)[Occupied + 1] = input
    BY <1>1, AppendProperties
  <2>2. \A k \in 1..(Occupied + 1) : Contents'[k] = Append(Contents, input)[k]
    BY <1>2, <1>3, <2>1
  <2> QED
    BY <1>1, <1>2, <2>1, <2>2, SeqEqual
<1> QED
  BY <1>1, <1>2, <1>4 DEF Fifo!Push, PushPublish

\* pop() takes the first item when tail_ is stored.
LEMMA PublishTakes ==
    ASSUME IInv, IInv', PopPublish
    PROVE  Fifo!Pop
<1>1. /\ Contents \in Seq(Items) /\ Len(Contents) = Occupied
      /\ Contents' \in Seq(Items) /\ Len(Contents') = Occupied'
  BY ContentsTypeAfter, ContentsType DEF ContentsOk
<1>2. Occupied \in Nat \ {0} /\ Occupied' = Occupied - 1
  BY CapacityPositive
  DEF PopPublish, IInv, TypeOK, ConsumerOk, Indices, Occupied, Following
<1>3. Contents # <<>> /\ Head(Contents) = item
  <2>1. Contents[1] = item
    BY <1>2 DEF Contents, PopPublish
  <2> QED
    BY <1>1, <1>2, <2>1
<1>4. ASSUME NEW k \in 1..(Occupied - 1)
      PROVE  Contents'[k] = Contents[k + 1]
  <2>1. /\ k \in 1..Occupied' /\ k + 1 \in 1..Occupied /\ k + 1 # 1
        /\ (k + 1) - 1 = k /\ k \in 1..(Capacity - 1)
    BY <1>2, Slots, CapacityPositive DEF IInv
  <2>2. Slot(k - 1)' = Slot(k)
    <3>1. tail \in 0..(Capacity - 1) /\ tail' = Following(tail)
      BY DEF IInv, TypeOK, Indices, PopPublish
    <3>2. Slot(k - 1)' = IF tail' + (k - 1) < Capacity
                         THEN tail' + (k - 1) ELSE tail' + (k - 1) - Capacity
      BY DEF Slot
    <3> QED
      BY <2>1, <3>1, <3>2, CapacityPositive DEF Slot, Following
  <2>3. Contents'[k] = storage'[Slot(k - 1)']
    BY <2>1 DEF Contents, PopPublish
  <2>4. Contents[k + 1] = storage[Slot(k)]
    BY <2>1 DEF Contents
  <2> QED
    BY <2>2, <2>3, <2>4 DEF PopPublish
<1>5. Contents' = Tail(Contents)
  <2>1. /\ Tail(Contents) \in Seq(Items) /\ Len(Tail(Contents)) = Occupied - 1
        /\ \A k \in 1..(Occupied - 1) : Tail(Contents)[k] = Contents[k + 1]
    BY <1>1, <1>2, <1>3, HeadTailProperties
  <2> QED
    BY <1>1, <1>2, <1>4, <2>1, SeqEqual
<1> QED
  BY <1>3, <1>5 DEF Fifo!Pop, PopPublish

\* Every step of the buffer is a step of the queue, or none.
LEMMA NextImplements ==
    ASSUME IInv, IInv', [Next]_vars
    PROVE  [Fifo!Next]_<<Contents, pushed, popped>>
<1> USE DEF IInv, TypeOK
<1>1. CASE PushCall
  <2> Contents' = Contents
    BY <1>1, SameContents DEF PushCall
  <2> QED
    BY <1>1 DEF PushCall
<1>2. CASE PushCheck
  <2>1. Contents' = Contents
    BY <1>2, SameContents DEF PushCheck
  <2>2. CASE Following(head) = tail
    <3>1. Occupied = Capacity - 1
      BY <2>2, CapacityPositive DEF Following, Occupied, Indices
    <3> QED
      BY <1>2, <2>1, <2>2, <3>1, ContentsType DEF ContentsOk, PushCheck, Fifo!Next, Fifo!Refuse
  <2> QED
    BY <1>2, <2>1, <2>2 DEF PushCheck
<1>3. CASE PushWrite
  <2> Contents' = Contents
    BY <1>3, SameContents DEF PushWrite, Inside, Indices, ConsumerOk
  <2> QED
    BY <1>3 DEF PushWrite
<1>4. CASE PushFill
  <2> Contents' = Contents
    BY <1>4, SameContents DEF PushFill, Inside, Indices, ConsumerOk
  <2> QED
    BY <1>4 DEF PushFill
<1>5. CASE PushPublish
  BY <1>5, PublishAppends DEF Fifo!Next, ProducerOk, PushPublish
<1>6. CASE PopCall
  <2> Contents' = Contents
    BY <1>6, SameContents DEF PopCall
  <2> QED
    BY <1>6 DEF PopCall
<1>7. CASE PopCheck
  <2>1. Contents' = Contents
    BY <1>7, SameContents DEF PopCheck
  <2>2. CASE tail = head
    <3>1. Contents = <<>>
      BY <2>2, ContentsType, EmptySeq DEF ContentsOk, Occupied, Indices
    <3> QED
      BY <1>7, <2>1, <2>2, <3>1 DEF PopCheck, Fifo!Next, Fifo!FindEmpty
  <2> QED
    BY <1>7, <2>1, <2>2 DEF PopCheck
<1>8. CASE PopTake
  <2> Contents' = Contents
    BY <1>8, SameContents DEF PopTake, Indices
  <2> QED
    BY <1>8 DEF PopTake
<1>9. CASE PopPublish
  BY <1>9, PublishTakes DEF Fifo!Next
<1>10. CASE UNCHANGED vars
  <2> Contents' = Contents
    BY <1>10, SameContents DEF vars
  <2> QED
    BY <1>10 DEF vars
<1> QED
  BY <1>1, <1>2, <1>3, <1>4, <1>5, <1>6, <1>7, <1>8, <1>9, <1>10 DEF Next

\* The ring buffer of any capacity implements a bounded queue.
THEOREM Implementation == Spec => IsFifo
<1>1. Init => Fifo!Init
  <2> SUFFICES ASSUME Init PROVE Fifo!Init
    OBVIOUS
  <2>1. Contents = <<>>
    BY InitInvariant, ContentsType, EmptySeq DEF ContentsOk, Init, Occupied
  <2> QED
    BY <2>1 DEF Init, Fifo!Init
<1>2. IInv /\ IInv' /\ [Next]_vars => [Fifo!Next]_<<Contents, pushed, popped>>
  BY NextImplements
<1> QED
  BY <1>1, <1>2, Invariance, PTL DEF Spec, IsFifo, Fifo!Spec

---------------------------------------------------------------------------
(* The thread pool.  What keeps two tasks out of one TileDecoder is that   *)
(* only the workers of the newest pool run any, and that the numbers these *)
(* have drawn are the last ones the counter gave: a window of at most      *)
(* NumThreads of them, whose remainders differ.  A packet's tasks are all  *)
(* done before the decoder gets to replace its pool, so nothing runs then. *)

Running == {w \in Workers : worker[w] = "running"}
Drawn == {w \in Of(pool) : number[w] # -1}
PoolTypes ==
    /\ caller \in {"idle", "submit", "notify", "get", "stop", "wake", "join", "over"}
    /\ pool \in Pools /\ dying \in Pools \cup {0}
    /\ caller \in {"stop", "wake", "join"} => dying \in Pools
    /\ tiles \in Nat /\ unfinished \in Nat
    /\ tasks \in [Pools -> Nat] /\ stop \in [Pools -> BOOLEAN]
    /\ worker \in [Workers -> {"none", "top", "asleep", "running", "exited"}]
    /\ number \in [Workers -> Nat \cup {-1}] /\ counter \in Nat
WorkInHand ==
    /\ Running \subseteq Of(pool)
    /\ \A p \in Pools \ {pool} : tasks[p] = 0
    /\ unfinished = tasks[pool] + Cardinality(Running)
    /\ caller \notin {"submit", "notify"} => unfinished = 0
InWindow ==
    /\ \A w \in Workers : w[1] > pool => number[w] = -1
    /\ Running \subseteq Drawn
    /\ \A w \in Drawn : counter - Cardinality(Drawn) <= number[w] /\ number[w] < counter
    /\ \A v, w \in Drawn : number[v] = number[w] => v = w
PoolInv == PoolTypes /\ WorkInHand /\ InWindow

LEMMA ThreadsPositive == NumThreads \in Nat \ {0}
<1>1. IsFiniteSet(PoolThreads) /\ PoolThreads # {}
  BY PoolAssumption
<1> QED
  BY <1>1, FS_CardinalityType, FS_EmptySet DEF NumThreads

LEMMA Remainder ==
    ASSUME NEW n \in Nat \ {0}, NEW a \in Nat
    PROVE  \E q \in Nat, r \in 0..(n - 1) : a = n * q + r /\ r = a % n
<1> DEFINE q == a \div n
           r == a % n
<1>1. q \in Nat /\ r \in 0..(n - 1)
  OBVIOUS
<1>2. r = a - n * q
  OBVIOUS
<1> HIDE DEF q
<1>3. a = n * q + r
  BY <1>1, <1>2
<1> QED
  BY <1>1, <1>3

\* Numbers less than a pool apart have different remainders.
LEMMA Remainders ==
    ASSUME NEW n \in Nat \ {0}, NEW a \in Nat, NEW b \in Nat,
           a <= b, b - a < n, a % n = b % n
    PROVE  a = b
<1>1. PICK q \in Nat, r \in 0..(n - 1) : a = n * q + r /\ r = a % n
  BY Remainder
<1>2. PICK s \in Nat, u \in 0..(n - 1) : b = n * s + u /\ u = b % n
  BY Remainder
<1>3. n * q <= n * s /\ n * s < n * q + n
  BY <1>1, <1>2
<1>4. s < q + 1
  <2> SUFFICES ASSUME s >= q + 1 PROVE FALSE
    BY <1>1, <1>2
  <2>1. n * s >= n * (q + 1)
    BY <1>1, <1>2
  <2> QED
    BY <1>1, <1>2, <1>3, <2>1
<1>5. s >= q
  <2> SUFFICES ASSUME q >= s + 1 PROVE FALSE
    BY <1>1, <1>2
  <2>1. n * q >= n * (s + 1)
    BY <1>1, <1>2
  <2> QED
    BY <1>1, <1>2, <1>3, <2>1
<1> QED
  BY <1>1, <1>2, <1>4, <1>5

LEMMA BoundPositive == MaxPools \in Nat \ {0}
BY PoolAssumption

LEMMA Team ==
    ASSUME NEW p \in Pools
    PROVE  /\ Of(p) \subseteq Workers
           /\ \A w \in Workers : w \in Of(p) <=> w[1] = p
           /\ IsFiniteSet(Of(p)) /\ Cardinality(Of(p)) = NumThreads
<1>1. IsFiniteSet({p}) /\ Cardinality({p}) = 1
  BY FS_Singleton
<1>2. IsFiniteSet(Of(p)) /\ Cardinality(Of(p)) = 1 * NumThreads
  BY <1>1, FS_Product, PoolAssumption DEF Of, NumThreads
<1> QED
  BY <1>2, ThreadsPositive DEF Of, Workers

LEMMA Finite ==
    ASSUME PoolTypes, Running \subseteq Of(pool)
    PROVE  /\ IsFiniteSet(Running) /\ Cardinality(Running) \in Nat
           /\ IsFiniteSet(Drawn) /\ Cardinality(Drawn) \in 0..NumThreads
<1>1. pool \in Pools /\ Drawn \subseteq Of(pool)
  BY DEF PoolTypes, Drawn
<1>2. IsFiniteSet(Running) /\ IsFiniteSet(Drawn) /\ Cardinality(Drawn) <= NumThreads
  BY <1>1, Team, FS_Subset
<1> QED
  BY <1>2, FS_CardinalityType, ThreadsPositive

LEMMA InitPool == PoolInit => PoolInv
<1> SUFFICES ASSUME PoolInit PROVE PoolInv
  OBVIOUS
<1>1. PoolTypes
  BY PoolAssumption DEF PoolInit, PoolTypes, Pools
<1>2. pool \in Pools /\ tasks[pool] = 0
  BY <1>1 DEF PoolInit, PoolTypes
<1>3. Drawn = {}
  BY <1>2, Team DEF PoolInit, Drawn
<1>4. Running = {}
  BY DEF PoolInit, Running
<1>5. WorkInHand
  BY <1>2, <1>4, FS_EmptySet DEF PoolInit, WorkInHand
<1>6. InWindow
  BY <1>3, <1>4 DEF PoolInit, InWindow
<1> QED
  BY <1>1, <1>5, <1>6 DEF PoolInv

---------------------------------------------------------------------------
(* One step.                                                               *)

LEMMA WorkerTypes ==
    ASSUME PoolTypes, WorkInHand, NEW w \in Workers,
           WorkerLooks(w) \/ TaskDone(w) \/ Spurious(w)
    PROVE  PoolTypes'
<1>1. CASE WorkerLooks(w)
  BY <1>1 DEF PoolTypes, WorkerLooks, Onward, DrawNumber, callerVars, Workers
<1>2. CASE TaskDone(w)
  <2>1. w \in Running /\ IsFiniteSet(Running) /\ Cardinality(Running) \in Nat
    BY <1>2, Finite DEF TaskDone, Running, WorkInHand
  <2>2. Cardinality(Running) # 0
    BY <2>1, FS_EmptySet
  <2>3. unfinished - 1 \in Nat
    BY <2>1, <2>2 DEF PoolTypes, WorkInHand
  <2> QED
    BY <1>2, <2>3 DEF PoolTypes, TaskDone
<1>3. CASE Spurious(w)
  BY <1>3 DEF PoolTypes, Spurious, callerVars
<1> QED
  BY <1>1, <1>2, <1>3

\* What the decoder's thread does.
Decoder == Decode \/ Reinit \/ Destroy \/ CallerStep

LEMMA DecoderTypes == ASSUME PoolTypes, Decoder PROVE PoolTypes'
<1> USE DEF PoolTypes
<1>1. ASSUME NEW p \in Pools, NotifyOne(p) PROVE worker' \in [Workers -> {"none", "top", "asleep", "running", "exited"}]
  BY <1>1 DEF NotifyOne
<1>2. ASSUME NEW p \in Pools, NotifyAll(p) PROVE worker' \in [Workers -> {"none", "top", "asleep", "running", "exited"}]
  BY <1>2 DEF NotifyAll
<1>3. CASE Decode \/ Submit
  BY <1>3, PoolAssumption DEF Decode, Submit
<1>4. CASE Notify \/ Get
  BY <1>1, <1>4 DEF Notify, Get
<1>5. CASE Reinit \/ Destroy
  BY <1>5, BoundPositive DEF Reinit, Destroy, Pools
<1>6. CASE DestructorStop
  BY <1>6 DEF DestructorStop
<1>7. CASE DestructorWake \/ DestructorJoin
  BY <1>2, <1>7 DEF DestructorWake, DestructorJoin
<1> QED
  BY <1>3, <1>4, <1>5, <1>6, <1>7 DEF Decoder, CallerStep

\* A step that leaves every running worker running and starts none.
LEMMA NumbersStay ==
    ASSUME PoolTypes, InWindow, UNCHANGED <<pool, number, counter>>, Running' = Running
    PROVE  InWindow'
BY DEF InWindow, Drawn

LEMMA WorkerWork ==
    ASSUME PoolTypes, WorkInHand, InWindow, NEW w \in Workers,
           WorkerLooks(w) \/ TaskDone(w) \/ Spurious(w)
    PROVE  WorkInHand' /\ InWindow'
<1>0. w[1] \in Pools /\ IsFiniteSet(Running) /\ Cardinality(Running) \in Nat
  BY Finite DEF Workers, WorkInHand
<1>1. CASE WorkerLooks(w) /\ Onward(w[1]) = "running"
  <2>1. w[1] = pool /\ tasks[pool] \in Nat \ {0}
    BY <1>0, <1>1 DEF Onward, PoolTypes, WorkInHand
  <2>2. w \in Of(pool)
    BY <2>1, Team DEF PoolTypes
  <2>3. w \notin Running /\ Running' = Running \cup {w}
    BY <1>1 DEF WorkerLooks, Running, PoolTypes
  <2>4. Cardinality(Running') = Cardinality(Running) + 1
    BY <1>0, <2>3, FS_AddElement
  <2>5. /\ UNCHANGED <<caller, pool, unfinished>>
        /\ tasks' = [tasks EXCEPT ![pool] = @ - 1]
    BY <1>1, <2>1 DEF WorkerLooks, callerVars
  <2>6. tasks'[pool] = tasks[pool] - 1
    BY <2>5 DEF PoolTypes
  <2>7. WorkInHand'
    <3>1. Running' \subseteq Of(pool')
      BY <2>2, <2>3, <2>5 DEF WorkInHand
    <3>2. \A p \in Pools \ {pool'} : tasks'[p] = 0
      BY <2>5 DEF PoolTypes, WorkInHand
    <3>3. unfinished' = tasks'[pool'] + Cardinality(Running')
      BY <1>0, <2>1, <2>4, <2>5, <2>6 DEF WorkInHand
    <3>4. caller' \notin {"submit", "notify"} => unfinished' = 0
      BY <2>5 DEF WorkInHand
    <3> QED
      BY <3>1, <3>2, <3>3, <3>4 DEF WorkInHand
  <2>8. CASE number[w] # -1
    <3>1. UNCHANGED <<number, counter>>
      BY <1>1, <2>8 DEF WorkerLooks, DrawNumber
    <3>2. w \in Drawn /\ Drawn' = Drawn
      BY <2>2, <2>5, <2>8, <3>1 DEF Drawn
    <3> QED
      BY <2>3, <2>5, <2>7, <3>1, <3>2 DEF InWindow
  <2>9. CASE number[w] = -1
    <3>1. number' = [number EXCEPT ![w] = counter] /\ counter' = counter + 1
      BY <1>1, <2>9 DEF WorkerLooks, DrawNumber
    <3>2. counter \in Nat /\ number'[w] = counter
          /\ \A v \in Workers \ {w} : number'[v] = number[v]
      BY <3>1 DEF PoolTypes
    <3>3. w \notin Drawn /\ Drawn' = Drawn \cup {w}
      BY <2>2, <2>5, <2>9, <3>2, Team DEF Drawn, PoolTypes
    <3>4. PICK n \in Nat : n = Cardinality(Drawn) /\ Cardinality(Drawn') = n + 1
      <4>1. IsFiniteSet(Drawn) /\ Cardinality(Drawn) \in 0..NumThreads
        BY Finite DEF WorkInHand
      <4>2. Cardinality(Drawn \cup {w}) = Cardinality(Drawn) + 1
        BY <3>3, <4>1, FS_AddElement
      <4> QED
        BY <3>3, <4>1, <4>2, ThreadsPositive
    <3>5. \A v \in Drawn : v \in Workers /\ v # w /\ number[v] \in Nat
      BY <3>3, Team DEF Drawn, PoolTypes
    <3>6. \A v \in Drawn' : counter' - Cardinality(Drawn') <= number'[v] /\ number'[v] < counter'
      BY <3>1, <3>2, <3>3, <3>4, <3>5 DEF InWindow
    <3>7. \A u, v \in Drawn' : number'[u] = number'[v] => u = v
      BY <3>2, <3>3, <3>5 DEF InWindow
    <3>8. \A v \in Workers : v[1] > pool => number'[v] = -1
      BY <2>1, <3>2 DEF InWindow, PoolTypes, Pools
    <3> QED
      BY <2>3, <2>5, <2>7, <3>3, <3>6, <3>7, <3>8 DEF InWindow
  <2> QED
    BY <2>8, <2>9
<1>2. CASE WorkerLooks(w) /\ Onward(w[1]) # "running"
  <2>1. Running' = Running
    BY <1>2 DEF WorkerLooks, Running, PoolTypes
  <2>2. UNCHANGED <<callerVars, tasks, number, counter>>
    BY <1>2 DEF WorkerLooks
  <2> QED
    BY <2>1, <2>2, NumbersStay DEF WorkInHand, callerVars
<1>3. CASE TaskDone(w)
  <2>1. w \in Running /\ Running' = Running \ {w}
    BY <1>3 DEF TaskDone, Running, PoolTypes
  <2>2. Cardinality(Running') = Cardinality(Running) - 1
    BY <1>0, <2>1, FS_RemoveElement
  <2>3. UNCHANGED <<caller, pool, tasks, number, counter>> /\ unfinished' = unfinished - 1
    BY <1>3 DEF TaskDone
  <2>4. unfinished' = tasks'[pool'] + Cardinality(Running')
    BY <1>0, <2>2, <2>3 DEF WorkInHand, PoolTypes
  <2>5. unfinished # 0
    <3>1. Cardinality(Running) # 0
      BY <1>0, <2>1, FS_EmptySet
    <3> QED
      BY <1>0, <3>1 DEF WorkInHand, PoolTypes
  <2>6. WorkInHand'
    BY <2>1, <2>3, <2>4, <2>5 DEF WorkInHand
  <2>7. InWindow'
    BY <2>1, <2>3 DEF InWindow, Drawn
  <2> QED
    BY <2>6, <2>7
<1>4. CASE Spurious(w)
  <2>1. Running' = Running
    BY <1>4 DEF Spurious, Running, PoolTypes
  <2> QED
    BY <1>4, <2>1, NumbersStay DEF Spurious, WorkInHand, callerVars
<1> QED
  BY <1>1, <1>2, <1>3, <1>4

LEMMA DecoderWork ==
    ASSUME PoolTypes, WorkInHand, InWindow, Decoder
    PROVE  WorkInHand' /\ InWindow'
<1>0. pool \in Pools /\ IsFiniteSet(Running) /\ Cardinality(Running) \in Nat
  BY Finite DEF PoolTypes, WorkInHand
<1>1. ASSUME NEW p \in Pools, NotifyOne(p) \/ NotifyAll(p) PROVE Running' = Running
  BY <1>1 DEF NotifyOne, NotifyAll, Asleep, Running, PoolTypes
<1>2. CASE Reinit
  <2>1. unfinished = 0 /\ tasks[pool] \in Nat /\ pool + 1 \in Pools
    BY <1>2, BoundPositive DEF Reinit, WorkInHand, PoolTypes, Pools
  <2>2. tasks[pool] = 0 /\ Cardinality(Running) = 0
    BY <1>0, <2>1 DEF WorkInHand
  <2>3. Running = {}
    BY <1>0, <2>2, FS_EmptySet
  <2>4. Running' = {}
    BY <1>2, <2>3 DEF Reinit, Running, PoolTypes
  <2>5. pool' = pool + 1 /\ UNCHANGED <<unfinished, tasks, number, counter>>
        /\ caller' = "stop"
    BY <1>2 DEF Reinit
  <2>6. \A w \in Workers : w[1] > pool => number[w] = -1
    BY DEF InWindow
  <2>7. Drawn' = {}
    <3>1. \A w \in Of(pool + 1) : w \in Workers /\ w[1] = pool + 1
      BY <2>1, Team
    <3>2. pool + 1 > pool
      BY <1>0 DEF Pools
    <3> QED
      BY <2>5, <2>6, <3>1, <3>2 DEF Drawn
  <2>8. WorkInHand'
    BY <2>1, <2>2, <2>4, <2>5, FS_EmptySet DEF WorkInHand
  <2>9. \A w \in Workers : w[1] > pool' => number'[w] = -1
    BY <2>5, <2>6 DEF Workers, Pools, PoolTypes
  <2> QED
    BY <2>4, <2>7, <2>8, <2>9 DEF InWindow
<1>3. CASE Submit
  <2>1. Running' = Running /\ UNCHANGED <<pool, number, counter>>
    BY <1>3 DEF Submit, Running
  <2>2. tasks' = [tasks EXCEPT ![pool] = @ + 1] /\ unfinished' = unfinished + 1
        /\ caller' = "notify"
    BY <1>3 DEF Submit
  <2>3. unfinished' = tasks'[pool'] + Cardinality(Running')
    BY <1>0, <2>1, <2>2 DEF WorkInHand, PoolTypes
  <2>4. WorkInHand'
    BY <2>1, <2>2, <2>3 DEF WorkInHand, PoolTypes
  <2> QED
    BY <2>1, <2>4, NumbersStay
<1>4. CASE Notify \/ DestructorWake
  <2>1. Running' = Running
    BY <1>1, <1>4 DEF Notify, DestructorWake, PoolTypes
  <2>2. UNCHANGED <<pool, unfinished, tasks, number, counter>>
    BY <1>4 DEF Notify, DestructorWake
  <2>3. WorkInHand'
    BY <1>4, <2>1, <2>2 DEF WorkInHand, Notify, DestructorWake
  <2> QED
    BY <2>1, <2>2, <2>3, NumbersStay
<1>5. CASE Decode \/ Get \/ Destroy \/ DestructorStop \/ DestructorJoin
  <2>1. UNCHANGED <<pool, unfinished, tasks, worker, number, counter>>
    BY <1>5 DEF Decode, Get, Destroy, DestructorStop, DestructorJoin
  <2>2. Running' = Running
    BY <2>1 DEF Running
  <2>3. WorkInHand'
    BY <1>5, <2>1, <2>2 DEF WorkInHand, Decode, Get, Destroy, DestructorStop, DestructorJoin
  <2> QED
    BY <2>1, <2>2, <2>3, NumbersStay
<1> QED
  BY <1>2, <1>3, <1>4, <1>5 DEF Decoder, CallerStep

LEMMA PoolInductive == PoolInv /\ [PoolNext]_poolVars => PoolInv'
<1> SUFFICES ASSUME PoolInv, [PoolNext]_poolVars PROVE PoolInv'
  OBVIOUS
<1>1. PoolTypes /\ WorkInHand /\ InWindow
  BY DEF PoolInv
<1>2. CASE UNCHANGED poolVars
  BY <1>2 DEF poolVars, callerVars, PoolInv, PoolTypes, WorkInHand, InWindow, Running, Drawn
<1> QED
  BY <1>1, <1>2, WorkerTypes, WorkerWork, DecoderTypes, DecoderWork
     DEF PoolNext, Decoder, PoolInv

\* Tasks that run at the same time decode in different TileDecoders, for any number
\* of threads, pools, packets and tiles, although nothing but the numbers of the
\* workers keeps them apart.
THEOREM TasksApart == PoolSpec => []DecodersApart
<1>1. ASSUME PoolInv PROVE DecodersApart
  <2> SUFFICES ASSUME NEW v \in Running, NEW w \in Running,
                      number[v] % NumThreads = number[w] % NumThreads
               PROVE  v = w
    BY DEF DecodersApart, Running
  <2>1. v \in Drawn /\ w \in Drawn /\ v \in Workers /\ w \in Workers
    BY <1>1 DEF PoolInv, InWindow, Running
  <2>2. number[v] \in Nat /\ number[w] \in Nat
    BY <1>1, <2>1 DEF PoolInv, PoolTypes, Drawn
  <2>3. PICK n \in 0..NumThreads : n = Cardinality(Drawn)
    BY <1>1, Finite DEF PoolInv, WorkInHand
  <2>4. /\ counter - n <= number[v] /\ number[v] < counter
        /\ counter - n <= number[w] /\ number[w] < counter
    BY <1>1, <2>1, <2>3 DEF PoolInv, InWindow
  <2>5. number[v] = number[w]
    <3>1. CASE number[v] <= number[w]
      <4>1. number[w] - number[v] < NumThreads
        BY <1>1, <2>2, <2>3, <2>4, ThreadsPositive DEF PoolInv, PoolTypes
      <4> QED
        BY <2>2, <3>1, <4>1, ThreadsPositive, Remainders
    <3>2. CASE number[w] <= number[v]
      <4>1. number[v] - number[w] < NumThreads
        BY <1>1, <2>2, <2>3, <2>4, ThreadsPositive DEF PoolInv, PoolTypes
      <4> QED
        BY <2>2, <3>2, <4>1, ThreadsPositive, Remainders
    <3> QED
      BY <2>2, <3>1, <3>2
  <2> QED
    BY <1>1, <2>1, <2>5 DEF PoolInv, InWindow
<1> QED
  BY <1>1, InitPool, PoolInductive, PTL DEF PoolSpec

---------------------------------------------------------------------------
(* No wake-up is lost.  A worker goes to sleep under the lock, with        *)
(* nothing queued and the pool not stopped; whoever changes that comes     *)
(* back to notify, and until then is at a place of its own.                *)

Awake == {w \in Of(pool) : worker[w] \in {"top", "running"}}
Destroying == {"stop", "wake", "join"}

\* A pool that was told to stop is an old one, or the last one at its end.
Stopped ==
    /\ caller \in Destroying => dying <= pool
    /\ caller \in {"wake", "join"} => stop[dying]
    /\ \A p \in Pools : stop[p] =>
          \/ p < pool
          \/ p = pool /\ caller = "over"
          \/ p = pool /\ dying = pool /\ caller \in {"wake", "join"}
    /\ \A w \in Workers : worker[w] = "exited" => stop[w[1]]

\* A task in the queue has its notification to come, or a worker that will look
\* again before it sleeps.
Watched ==
    /\ \A w \in Of(pool) : worker[w] # "none"
    /\ tasks[pool] > 0 => caller = "notify" \/ Awake # {}
    /\ caller = "join" => \A w \in Of(dying) : worker[w] # "asleep"

WatchInv == PoolInv /\ Stopped /\ Watched

LEMMA InitWatch == PoolInit => WatchInv
<1> SUFFICES ASSUME PoolInit PROVE WatchInv
  OBVIOUS
<1>1. PoolInv
  BY InitPool
<1>2. Stopped
  BY DEF PoolInit, Stopped, Destroying
<1>3. Watched
  BY PoolAssumption DEF PoolInit, Watched, Of, Workers, Pools
<1> QED
  BY <1>1, <1>2, <1>3 DEF WatchInv

LEMMA WorkerWatched ==
    ASSUME WatchInv, NEW w \in Workers, WorkerLooks(w) \/ TaskDone(w) \/ Spurious(w)
    PROVE  Stopped' /\ Watched'
<1>0. /\ w[1] \in Pools /\ pool \in Pools /\ Of(pool) \subseteq Workers
      /\ worker \in [Workers -> {"none", "top", "asleep", "running", "exited"}]
      /\ tasks \in [Pools -> Nat] /\ stop \in [Pools -> BOOLEAN]
  BY Team DEF WatchInv, PoolInv, PoolTypes, Workers
<1>1. UNCHANGED <<caller, pool, dying, stop>>
  BY DEF WorkerLooks, TaskDone, Spurious, callerVars
<1>2. PICK next \in {"top", "asleep", "running", "exited"} :
         /\ worker' = [worker EXCEPT ![w] = next]
         /\ next = "exited" => stop[w[1]]
         /\ next = "asleep" => tasks[w[1]] = 0 /\ ~stop[w[1]]
         /\ next = "exited" => tasks[w[1]] = 0
         /\ worker[w] # "none"
         /\ (tasks' = tasks \/ (tasks' = [tasks EXCEPT ![w[1]] = @ - 1] /\ next = "running"))
  <2>1. CASE WorkerLooks(w)
    <3>1. Onward(w[1]) \in {"asleep", "running", "exited"}
      BY DEF Onward
    <3>2. /\ Onward(w[1]) = "exited" => stop[w[1]] /\ tasks[w[1]] = 0
          /\ Onward(w[1]) = "asleep" => tasks[w[1]] = 0 /\ ~stop[w[1]]
      BY <1>0 DEF Onward
    <3>3. worker[w] = "top" /\ worker' = [worker EXCEPT ![w] = Onward(w[1])]
      BY <2>1 DEF WorkerLooks
    <3>4. \/ tasks' = tasks
          \/ tasks' = [tasks EXCEPT ![w[1]] = @ - 1] /\ Onward(w[1]) = "running"
      BY <2>1 DEF WorkerLooks
    <3> DEFINE next == Onward(w[1])
    <3>5. /\ next \in {"top", "asleep", "running", "exited"}
          /\ worker' = [worker EXCEPT ![w] = next]
          /\ next = "exited" => stop[w[1]]
          /\ next = "asleep" => tasks[w[1]] = 0 /\ ~stop[w[1]]
          /\ next = "exited" => tasks[w[1]] = 0
          /\ worker[w] # "none"
          /\ (tasks' = tasks \/ (tasks' = [tasks EXCEPT ![w[1]] = @ - 1] /\ next = "running"))
      BY <3>1, <3>2, <3>3, <3>4
    <3> HIDE DEF next
    <3> QED
      BY <3>5
  <2>2. CASE TaskDone(w) \/ Spurious(w)
    <3>1. /\ worker' = [worker EXCEPT ![w] = "top"] /\ tasks' = tasks
          /\ worker[w] # "none"
      BY <2>2 DEF TaskDone, Spurious
    <3> QED
      BY <3>1
  <2> QED
    BY <2>1, <2>2
<1>3. \A v \in Workers : worker'[v] = IF v = w THEN next ELSE worker[v]
  BY <1>0, <1>2
<1>4. Stopped'
  BY <1>1, <1>2, <1>3 DEF WatchInv, Stopped
<1>5. Watched'
  <2>1. \A v \in Of(pool) : worker'[v] # "none"
    BY <1>0, <1>2, <1>3 DEF WatchInv, Watched
  <2>2. tasks'[pool] > 0 => caller = "notify" \/ Awake' # {}
    <3> SUFFICES ASSUME tasks'[pool] > 0, caller # "notify" PROVE Awake' # {}
      OBVIOUS
    <3>1. tasks[pool] > 0
      BY <1>0, <1>2
    <3>2. PICK v \in Of(pool) : worker[v] \in {"top", "running"}
      BY <3>1 DEF WatchInv, Watched, Awake
    <3>3. v = w => w[1] = pool
      BY <1>0, Team
    <3>4. worker'[v] \in {"top", "running"}
      BY <1>0, <1>2, <1>3, <3>1, <3>2, <3>3
    <3> QED
      BY <1>1, <3>4 DEF Awake
  <2>3. caller = "join" => \A v \in Of(dying) : worker'[v] # "asleep"
    <3> SUFFICES ASSUME caller = "join", NEW v \in Of(dying) PROVE worker'[v] # "asleep"
      OBVIOUS
    <3>1. dying \in Pools /\ stop[dying] /\ worker[v] # "asleep"
      BY DEF WatchInv, Stopped, Watched, PoolInv, PoolTypes
    <3>2. v \in Workers /\ v[1] = dying
      BY <3>1, Team
    <3> QED
      BY <1>2, <1>3, <3>1, <3>2
  <2> QED
    BY <1>1, <2>1, <2>2, <2>3 DEF Watched
<1> QED
  BY <1>4, <1>5

LEMMA Notified ==
    ASSUME WatchInv, NEW p \in Pools, NotifyOne(p) \/ NotifyAll(p)
    PROVE  /\ \A v \in Workers : \/ worker'[v] = worker[v]
                                 \/ worker[v] = "asleep" /\ worker'[v] = "top"
           /\ Asleep(p) # {} => \E v \in Of(p) : worker'[v] = "top"
           /\ NotifyAll(p) => \A v \in Of(p) : worker'[v] # "asleep"
<1>1. Of(p) \subseteq Workers
      /\ worker \in [Workers -> {"none", "top", "asleep", "running", "exited"}]
  BY Team DEF WatchInv, PoolInv, PoolTypes
<1>2. CASE NotifyOne(p)
  <2>1. \A v \in Workers : \/ worker'[v] = worker[v]
                           \/ worker[v] = "asleep" /\ worker'[v] = "top"
    BY <1>1, <1>2 DEF NotifyOne, Asleep
  <2>2. Asleep(p) # {} => \E v \in Of(p) : worker'[v] = "top"
    BY <1>1, <1>2 DEF NotifyOne, Asleep
  <2>3. NotifyAll(p) => \A v \in Of(p) : worker'[v] # "asleep"
    BY <1>1 DEF NotifyAll, Asleep
  <2> QED
    BY <2>1, <2>2, <2>3
<1>3. CASE NotifyAll(p)
  BY <1>1, <1>3 DEF NotifyAll, Asleep
<1> QED
  BY <1>2, <1>3

LEMMA DecoderWatched ==
    ASSUME WatchInv, Decoder
    PROVE  Stopped' /\ Watched'
<1>0. /\ pool \in Pools /\ Of(pool) \subseteq Workers /\ pool \in Nat
      /\ worker \in [Workers -> {"none", "top", "asleep", "running", "exited"}]
      /\ tasks \in [Pools -> Nat] /\ stop \in [Pools -> BOOLEAN] /\ dying \in Pools \cup {0}
      /\ caller \in Destroying => dying \in Pools
  BY Team DEF WatchInv, PoolInv, PoolTypes, Pools, Destroying
<1>1. Stopped /\ Watched /\ WorkInHand
  BY DEF WatchInv, PoolInv
<1>2. CASE Decode \/ Get
  BY <1>1, <1>2 DEF Decode, Get, Stopped, Watched, Awake, Destroying
<1>3. CASE Submit
  <2>1. caller = "submit" /\ caller' = "notify" /\ UNCHANGED <<pool, dying, stop, worker>>
    BY <1>3 DEF Submit
  <2> QED
    BY <1>1, <2>1 DEF Stopped, Watched, Destroying
<1>4. CASE Notify
  <2>1. caller = "notify" /\ caller' = "submit" /\ UNCHANGED <<pool, dying, stop, tasks>>
        /\ NotifyOne(pool)
    BY <1>4 DEF Notify
  <2>2. \A v \in Workers : \/ worker'[v] = worker[v]
                           \/ worker[v] = "asleep" /\ worker'[v] = "top"
    BY <1>0, <2>1, Notified
  <2>3. Awake' # {}
    <3>1. CASE Asleep(pool) # {}
      <4>1. PICK v \in Of(pool) : worker'[v] = "top"
        BY <1>0, <2>1, <3>1, Notified
      <4> QED
        BY <2>1, <4>1 DEF Awake
    <3>2. CASE Asleep(pool) = {}
      <4>1. PICK t \in PoolThreads : TRUE
        BY PoolAssumption
      <4> DEFINE v == <<pool, t>>
      <4>2. v \in Of(pool) /\ v \in Workers /\ v[1] = pool
        BY <1>0 DEF Of, Workers
      <4> HIDE DEF v
      <4>3. worker[v] # "asleep" /\ worker[v] # "none"
        BY <1>1, <3>2, <4>2 DEF Asleep, Watched
      <4>4. ~stop[pool]
        BY <1>0, <1>1, <2>1 DEF Stopped
      <4>5. worker[v] # "exited"
        BY <1>1, <4>2, <4>4 DEF Stopped
      <4>6. worker'[v] \in {"top", "running"}
        BY <1>0, <2>2, <4>2, <4>3, <4>5
      <4> QED
        BY <2>1, <4>2, <4>6 DEF Awake
    <3> QED
      BY <3>1, <3>2
  <2>4. Stopped'
    BY <1>1, <2>1, <2>2 DEF Stopped, Destroying
  <2>5. Watched'
    BY <1>0, <1>1, <2>1, <2>2, <2>3 DEF Watched
  <2> QED
    BY <2>4, <2>5
<1>5. CASE Reinit
  <2>1. /\ caller = "idle" /\ caller' = "stop" /\ dying' = pool /\ pool' = pool + 1
        /\ worker' = [w \in Workers |-> IF w[1] = pool + 1 THEN "top" ELSE worker[w]]
        /\ UNCHANGED <<tasks, stop, unfinished>> /\ pool + 1 \in Pools
    BY <1>0, <1>5, BoundPositive DEF Reinit, Pools
  <2>2. \A v \in Of(pool + 1) : v \in Workers /\ v[1] = pool + 1
    BY <2>1, Team
  <2>3. \A v \in Workers : v[1] \in Pools
    BY DEF Workers
  <2>4. Stopped'
    <3>1. \A p \in Pools : stop[p] => p < pool + 1
      BY <1>0, <1>1, <2>1 DEF Stopped, Pools
    <3>2. \A v \in Workers : worker'[v] = "exited" => worker[v] = "exited"
      BY <2>1
    <3>3. pool <= pool + 1
      BY <1>0
    <3> QED
      BY <1>1, <2>1, <3>1, <3>2, <3>3 DEF Stopped, Destroying
  <2>5. Watched'
    <3>1. tasks[pool + 1] = 0
      BY <1>0, <1>1, <2>1 DEF WorkInHand
    <3>2. \A v \in Of(pool + 1) : worker'[v] = "top"
      BY <2>1, <2>2
    <3> QED
      BY <2>1, <3>1, <3>2 DEF Watched
  <2> QED
    BY <2>4, <2>5
<1>6. CASE Destroy
  <2>1. caller = "idle" /\ caller' = "stop" /\ dying' = pool /\ ~stop[pool]
        /\ UNCHANGED <<pool, tasks, stop, worker>>
    BY <1>6 DEF Destroy
  <2>2. Stopped'
    BY <1>0, <1>1, <2>1 DEF Stopped, Destroying
  <2>3. Watched'
    BY <1>1, <2>1 DEF Watched, Awake
  <2> QED
    BY <2>2, <2>3
<1>7. CASE DestructorStop
  <2>1. caller = "stop" /\ caller' = "wake" /\ stop' = [stop EXCEPT ![dying] = TRUE]
        /\ UNCHANGED <<pool, dying, tasks, worker>>
    BY <1>7 DEF DestructorStop
  <2>2. dying \in Pools /\ dying <= pool
    BY <1>0, <1>1, <2>1 DEF Stopped, Destroying
  <2>3. \A p \in Pools : stop'[p] <=> stop[p] \/ p = dying
    BY <1>0, <2>1
  <2>4. Stopped'
    <3>1. \A p \in Pools : stop'[p] => p < pool \/ (p = pool /\ dying = pool)
      <4>1. \A p \in Pools : stop[p] => p < pool
        BY <1>1, <2>1 DEF Stopped
      <4>2. dying < pool \/ dying = pool
        BY <1>0, <2>2 DEF Pools
      <4> SUFFICES ASSUME NEW p \in Pools, stop'[p]
                   PROVE  p < pool \/ (p = pool /\ dying = pool)
        OBVIOUS
      <4>3. stop[p] \/ p = dying
        BY <2>3
      <4>4. CASE stop[p]
        BY <4>1, <4>4
      <4>5. CASE p = dying
        BY <4>2, <4>5
      <4> QED
        BY <4>3, <4>4, <4>5
    <3>2. \A w \in Workers : worker'[w] = "exited" => stop'[w[1]]
      BY <1>1, <2>1, <2>3 DEF Stopped, Workers
    <3>3. stop'[dying]
      BY <2>2, <2>3
    <3> QED
      BY <2>1, <2>2, <3>1, <3>2, <3>3 DEF Stopped, Destroying
  <2>5. Watched'
    BY <1>1, <2>1 DEF Watched, Awake
  <2> QED
    BY <2>4, <2>5
<1>8. CASE DestructorWake
  <2>1. caller = "wake" /\ caller' = "join" /\ NotifyAll(dying)
        /\ UNCHANGED <<pool, dying, tasks, stop>>
    BY <1>8 DEF DestructorWake
  <2>2. dying \in Pools
    BY <1>0, <2>1 DEF Destroying
  <2>3. \A v \in Workers : \/ worker'[v] = worker[v]
                           \/ worker[v] = "asleep" /\ worker'[v] = "top"
    BY <2>1, <2>2, Notified
  <2>4. \A v \in Of(dying) : worker'[v] # "asleep"
    BY <2>1, <2>2, Notified
  <2>5. Stopped'
    BY <1>1, <2>1, <2>3 DEF Stopped, Destroying
  <2>6. Awake \subseteq Awake'
    BY <1>0, <2>1, <2>3 DEF Awake
  <2>7. Watched'
    BY <1>0, <1>1, <2>1, <2>3, <2>4, <2>6 DEF Watched
  <2> QED
    BY <2>5, <2>7
<1>9. CASE DestructorJoin
  <2>1. /\ caller = "join" /\ caller' = IF dying = pool THEN "over" ELSE "idle"
        /\ UNCHANGED <<pool, tasks, stop, worker>>
    BY <1>9 DEF DestructorJoin
  <2>2. Stopped'
    <3>1. \A p \in Pools : stop[p] => p < pool \/ (p = pool /\ dying = pool)
      <4>1. caller # "over"
        BY <2>1
      <4> QED
        BY <1>1, <4>1 DEF Stopped
    <3>2. caller' \notin Destroying /\ (dying = pool => caller' = "over")
      BY <2>1 DEF Destroying
    <3> QED
      BY <1>1, <2>1, <3>1, <3>2 DEF Stopped, Destroying
  <2>3. Watched'
    BY <1>1, <2>1 DEF Watched, Awake
  <2> QED
    BY <2>2, <2>3
<1> QED
  BY <1>2, <1>3, <1>4, <1>5, <1>6, <1>7, <1>8, <1>9 DEF Decoder, CallerStep

LEMMA WatchInductive == WatchInv /\ [PoolNext]_poolVars => WatchInv'
<1> SUFFICES ASSUME WatchInv, [PoolNext]_poolVars PROVE WatchInv'
  OBVIOUS
<1>1. PoolInv'
  BY PoolInductive DEF WatchInv
<1>2. CASE UNCHANGED poolVars
  BY <1>1, <1>2 DEF poolVars, callerVars, WatchInv, Stopped, Watched, Awake
<1>3. CASE PoolNext
  <2>1. Stopped' /\ Watched'
    BY <1>3, WorkerWatched, DecoderWatched DEF PoolNext, Decoder
  <2> QED
    BY <1>1, <2>1 DEF WatchInv
<1> QED
  BY <1>2, <1>3

\* While the decoder waits for futures, a worker of its pool is awake, and no worker
\* sleeps where the destructor joins: no wake-up is lost, although all notifications
\* come after the lock is let go, and none of this needs a spurious one.
THEOREM NobodySleepsOnWork == PoolSpec => []WorkIsNoticed
<1>1. ASSUME WatchInv PROVE WorkIsNoticed
  <2>1. PoolTypes /\ WorkInHand /\ Watched
    BY <1>1 DEF WatchInv, PoolInv
  <2>2. ASSUME caller = "submit", unfinished > 0
        PROVE  \E w \in Of(pool) : worker[w] \in {"top", "running"}
    <3>1. tasks[pool] \in Nat /\ Cardinality(Running) \in Nat
          /\ unfinished = tasks[pool] + Cardinality(Running)
      BY <2>1, Finite DEF PoolTypes, WorkInHand
    <3>2. CASE tasks[pool] > 0
      BY <2>1, <2>2, <3>2 DEF Watched, Awake
    <3>3. CASE tasks[pool] = 0
      <4>1. Cardinality(Running) # 0
        BY <2>2, <3>1, <3>3
      <4>2. Running # {}
        BY <4>1, FS_EmptySet
      <4> QED
        BY <2>1, <4>2 DEF Running, WorkInHand
    <3> QED
      BY <3>1, <3>2, <3>3
  <2> QED
    BY <2>1, <2>2 DEF WorkIsNoticed, Watched
<1> QED
  BY <1>1, InitWatch, WatchInductive, PTL DEF PoolSpec

\* Both halves of what the pool promises.
THEOREM PoolIsSafe == PoolSpec => []PoolSafe
BY TasksApart, NobodySleepsOnWork, PTL DEF PoolSafe

=============================================================================
