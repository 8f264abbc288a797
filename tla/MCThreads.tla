------------------------------- MODULE MCThreads -------------------------------
(***************************************************************************)
(* What threads, and programs, hand to one another: the ring buffer, the   *)
(* thread pool, the framing of a TCP channel, the signaling client.  A     *)
(* behaviour picks one, runs it as its module says, and leaves the others  *)
(* in an initial state.                                                    *)
(***************************************************************************)
EXTENDS RingBuffer, ThreadPool, TcpFraming, SignalingClient

VARIABLE hand

Hands == {"ring", "pool", "framing", "client"}

Runs(h) == hand = h

threadsVars == <<hand, vars, poolVars, framingVars, clientVars>>

\* Where one has several initial states, one is enough while it does not run.
OneInitialState ==
    /\ IF Runs("framing") THEN TRUE ELSE polls = TRUE
    /\ IF Runs("client") THEN TRUE
       ELSE autoReconnect = TRUE /\ user = "careful" /\ validId = TRUE

ThreadsInit ==
    /\ hand \in Hands
    /\ OneInitialState
    /\ Init /\ PoolInit /\ FramingInit /\ ClientInit

OthersIdle ==
    /\ UNCHANGED hand
    /\ IF Runs("ring") THEN TRUE ELSE UNCHANGED vars
    /\ IF Runs("pool") THEN TRUE ELSE UNCHANGED poolVars
    /\ IF Runs("framing") THEN TRUE ELSE UNCHANGED framingVars
    /\ IF Runs("client") THEN TRUE ELSE UNCHANGED clientVars

ThreadsNext ==
    /\ \/ Runs("ring") /\ Next
       \/ Runs("pool") /\ PoolNext
       \/ Runs("framing") /\ FramingNext
       \/ Runs("client") /\ ClientNext
    /\ OthersIdle

\* The fairness of each; a worker of the pool is ready in the initial state, the
\* others' actions are disabled there.
ThreadsFairness ==
    /\ \A w \in Workers :
          WF_poolVars(Runs("pool") /\ (WorkerLooks(w) \/ TaskDone(w)))
    /\ WF_poolVars(CallerStep)
    /\ \A t \in Senders : WF_framingVars(SenderStep(t))
    /\ WF_framingVars(ReceiverStep)
    /\ ClientFairness

ThreadsSpec == ThreadsInit /\ [][ThreadsNext]_threadsVars /\ ThreadsFairness

=============================================================================
