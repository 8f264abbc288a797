------------------------------- MODULE ThreadPool -------------------------------
(***************************************************************************)
(* ThreadPool, src/src/core/thread_pool.cpp and .h, under its heaviest     *)
(* user: OmniCodecDecoder, which submits one task for each coded tile of a *)
(* packet, waits for all of them, and makes a new pool whenever it is      *)
(* initialised again.  A task picks one of the decoder's TileDecoders by a *)
(* thread_local number that each worker draws from a counter of the whole  *)
(* program when it runs its first task.                                    *)
(*                                                                         *)
(* What is done under mutex_ is one step.  A worker that waits may also be *)
(* woken by nobody (a spurious wake-up), as the standard allows.           *)
(***************************************************************************)
EXTENDS Integers, Sequences, FiniteSets

CONSTANTS
    PoolThreads,    \* workers of a pool, 1..numPoolThreads
    MaxPools,       \* bound: pools made
    MaxTiles,       \* bound: coded tiles of a packet
    MaxDecodes      \* bound: packets decoded

NumThreads == Cardinality(PoolThreads)
Pools == 1..MaxPools

ASSUME PoolAssumption ==
    /\ IsFiniteSet(PoolThreads) /\ PoolThreads # {}
    /\ {MaxPools, MaxTiles, MaxDecodes} \subseteq Nat \ {0}

VARIABLES
    caller,         \* the thread of the decoder: "idle", "submit", "notify",
                    \* "get"; "stop", "wake", "join" destroy a pool; "over"
    pool,           \* the newest pool
    dying,          \* the pool that is being destroyed, 0 if none
    tiles,          \* futures still to be submitted for this packet
    unfinished,     \* its tasks that have been submitted and have not run
    decodes,        \* packets so far
    tasks,          \* tasks_ of each pool
    stop,           \* stop_ of each pool
    worker,         \* where worker <<p, t>> is: "none", "top", "asleep",
                    \* "running", "exited"
    number,         \* its tlDecIdx, -1 before its first task
    counter         \* the static counter behind tlDecIdx

callerVars == <<caller, pool, dying, tiles, unfinished, decodes>>
poolVars == <<callerVars, tasks, stop, worker, number, counter>>

Workers == Pools \X PoolThreads
Of(p) == {p} \X PoolThreads

PoolInit ==
    /\ caller = "idle" /\ pool = 1 /\ dying = 0
    /\ tiles = 0 /\ unfinished = 0 /\ decodes = 0
    /\ tasks = [p \in Pools |-> 0] /\ stop = [p \in Pools |-> FALSE]
    /\ worker = [w \in Workers |-> IF w[1] = 1 THEN "top" ELSE "none"]
    /\ number = [w \in Workers |-> -1] /\ counter = 0

---------------------------------------------------------------------------
(* A worker's loop.                                                        *)

\* Where the predicate of cv_.wait and the two tests after it lead.
Onward(p) ==
    IF tasks[p] > 0 THEN "running" ELSE IF stop[p] THEN "exited" ELSE "asleep"

\* Mutant: the number is not thread_local but drawn for every task.
DrawNumberAlways(w) ==
    number' = [number EXCEPT ![w] = counter] /\ counter' = counter + 1

\* thread_local tlDecIdx: drawn once.
DrawNumber(w) ==
    IF number[w] = -1
    THEN number' = [number EXCEPT ![w] = counter] /\ counter' = counter + 1
    ELSE UNCHANGED <<number, counter>>

\* The lock is taken, the queue looked at, and the lock let go.
WorkerLooks(w) ==
    /\ worker[w] = "top"
    /\ worker' = [worker EXCEPT ![w] = Onward(w[1])]
    /\ IF Onward(w[1]) = "running"
       THEN tasks' = [tasks EXCEPT ![w[1]] = @ - 1] /\ DrawNumber(w)
       ELSE UNCHANGED <<tasks, number, counter>>
    /\ UNCHANGED <<callerVars, stop>>

\* task() has returned: its future is ready.
TaskDone(w) ==
    /\ worker[w] = "running"
    /\ worker' = [worker EXCEPT ![w] = "top"]
    /\ unfinished' = unfinished - 1
    /\ UNCHANGED <<caller, pool, dying, tiles, decodes, tasks, stop, number, counter>>

Spurious(w) ==
    /\ worker[w] = "asleep"
    /\ worker' = [worker EXCEPT ![w] = "top"]
    /\ UNCHANGED <<callerVars, tasks, stop, number, counter>>

---------------------------------------------------------------------------
(* decode() and init() of the decoder.                                     *)

Decode ==
    /\ caller = "idle" /\ decodes < MaxDecodes
    /\ decodes' = decodes + 1
    /\ \E n \in 1..MaxTiles : tiles' = n
    /\ caller' = "submit"
    /\ UNCHANGED <<pool, dying, unfinished, tasks, stop, worker, number, counter>>

\* submit(): the task is queued under the lock ...
Submit ==
    /\ caller = "submit" /\ tiles > 0
    /\ tasks' = [tasks EXCEPT ![pool] = @ + 1]
    /\ tiles' = tiles - 1 /\ unfinished' = unfinished + 1
    /\ caller' = "notify"
    /\ UNCHANGED <<pool, dying, decodes, stop, worker, number, counter>>

Asleep(p) == {w \in Of(p) : worker[w] = "asleep"}

\* ... and one sleeping worker, any of them, is woken after it is let go.
NotifyOne(p) ==
    IF Asleep(p) = {} THEN UNCHANGED worker
    ELSE \E w \in Asleep(p) : worker' = [worker EXCEPT ![w] = "top"]

NotifyAll(p) ==
    worker' = [w \in Workers |-> IF w \in Asleep(p) THEN "top" ELSE worker[w]]

Notify ==
    /\ caller = "notify" /\ caller' = "submit"
    /\ NotifyOne(pool)
    /\ UNCHANGED <<pool, dying, tiles, unfinished, decodes, tasks, stop, number, counter>>

\* for (auto& f : futures) f.get();
Get ==
    /\ caller = "submit" /\ tiles = 0 /\ unfinished = 0
    /\ caller' = "idle"
    /\ UNCHANGED <<pool, dying, tiles, unfinished, decodes, tasks, stop, worker, number, counter>>

\* threadPool_ = std::make_unique<ThreadPool>(numPoolThreads): the new workers are
\* started, then the old pool is destroyed.
Reinit ==
    /\ caller = "idle" /\ pool < MaxPools
    /\ dying' = pool /\ pool' = pool + 1 /\ caller' = "stop"
    /\ worker' = [w \in Workers |-> IF w[1] = pool + 1 THEN "top" ELSE worker[w]]
    /\ UNCHANGED <<tiles, unfinished, decodes, tasks, stop, number, counter>>

\* The decoder is destroyed, and its pool with it.
Destroy ==
    /\ caller = "idle" /\ ~stop[pool]
    /\ dying' = pool /\ caller' = "stop"
    /\ UNCHANGED <<pool, tiles, unfinished, decodes, tasks, stop, worker, number, counter>>

DestructorStop ==
    /\ caller = "stop" /\ caller' = "wake"
    /\ stop' = [stop EXCEPT ![dying] = TRUE]
    /\ UNCHANGED <<pool, dying, tiles, unfinished, decodes, tasks, worker, number, counter>>

\* Mutant: one worker is woken.
DestructorWakeOne ==
    /\ caller = "wake" /\ caller' = "join"
    /\ NotifyOne(dying)
    /\ UNCHANGED <<pool, dying, tiles, unfinished, decodes, tasks, stop, number, counter>>

DestructorWake ==
    /\ caller = "wake" /\ caller' = "join"
    /\ NotifyAll(dying)
    /\ UNCHANGED <<pool, dying, tiles, unfinished, decodes, tasks, stop, number, counter>>

DestructorJoin ==
    /\ caller = "join" /\ \A w \in Of(dying) : worker[w] = "exited"
    /\ caller' = IF dying = pool THEN "over" ELSE "idle"
    /\ dying' = 0
    /\ UNCHANGED <<pool, tiles, unfinished, decodes, tasks, stop, worker, number, counter>>

---------------------------------------------------------------------------
CallerStep ==
    \/ Submit \/ Notify \/ Get
    \/ DestructorStop \/ DestructorWake \/ DestructorJoin

PoolNext ==
    \/ \E w \in Workers : WorkerLooks(w) \/ TaskDone(w) \/ Spurious(w)
    \/ Decode \/ Reinit \/ Destroy
    \/ CallerStep

\* Every thread runs; nobody is owed a spurious wake-up, a packet or a destructor.
PoolFairness ==
    /\ \A w \in Workers : WF_poolVars(WorkerLooks(w) \/ TaskDone(w))
    /\ WF_poolVars(CallerStep)

PoolSpec == PoolInit /\ [][PoolNext]_poolVars /\ PoolFairness

---------------------------------------------------------------------------
(* Properties.                                                             *)

\* Two tasks that run at the same time work in different TileDecoders, whose
\* buffers nothing protects, although the numbers of the workers go on from one
\* pool to the next and are taken modulo the number of threads.
DecodersApart ==
    \A v, w \in Workers :
        /\ worker[v] = "running" /\ worker[w] = "running"
        /\ number[v] % NumThreads = number[w] % NumThreads
        => v = w

\* No wake-up is lost, although submit() and the destructor notify after they have
\* let the lock go: while the decoder waits for futures a worker of its pool is awake,
\* and none sleeps where the destructor joins.
WorkIsNoticed ==
    /\ caller = "submit" /\ unfinished > 0 =>
           \E w \in Of(pool) : worker[w] \in {"top", "running"}
    /\ caller = "join" => \A w \in Of(dying) : worker[w] # "asleep"

\* What a decoder may rely on at all times.
PoolSafe == DecodersApart /\ WorkIsNoticed

\* Every packet's tasks all run and its futures are all ready in the end, and
\* the destructor gets all its workers to leave.
PoolServes == (caller # "idle") ~> (caller \in {"idle", "over"})

=============================================================================
