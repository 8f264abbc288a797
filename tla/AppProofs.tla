------------------------------- MODULE AppProofs -------------------------------
(***************************************************************************)
(* The application, for any number of peers, clicks, requests and queued   *)
(* actions: who may be connected and shown the screen, in which order      *)
(* shutdown() destroys, how many sessions there can be, and what is behind *)
(* the screen of the first.                                                *)
(***************************************************************************)
EXTENDS AppSession, FiniteSetTheorems, TLAPS

---------------------------------------------------------------------------
(* Who was invited.  An answer, an offer or a description speaks of a peer *)
(* that this user asked or accepted, wherever it is on its way: in the     *)
(* relay, in pendingActions_, in the batch that is being run.              *)

Deeds == {"request", "accepted", "refused", "offer", "answer", "lost", "host",
          "viewer", "disconnect"}

Fits(action, S) ==
    /\ action \in Actions
    /\ action.do \in {"accepted", "offer", "answer"} => action.peer \in S
    /\ action.do = "request" => action.peer \in Peers

Trusted(q, S) == q \in Seq(Actions) /\ \A i \in 1..Len(q) : Fits(q[i], S)

RelayTrusted ==
    /\ invited \subseteq Peers
    /\ asked \subseteq invited /\ offering \subseteq invited
    /\ answering \subseteq invited /\ reached \subseteq invited

QueuesTrusted == Trusted(pending, invited) /\ Trusted(batch, invited)

SessionTrusted ==
    /\ webrtc \in [id : Nat, role : {"none", "host", "viewer"},
                   peer : invited \cup {NoPeer}, remote : invited \cup {NoPeer},
                   link : {"none", "new", "checking", "up", "disconnected",
                           "failed"}]
    /\ webrtc.link \in {"checking", "up", "disconnected", "failed"} =>
           webrtc.remote \in invited
    /\ webrtc.role = "none" => webrtc.link = "none"

DialogNamesPeer ==
    /\ dialog \in BOOLEAN /\ from \in Peers \cup {NoPeer}
    /\ dialog => from \in Peers

TrustInv ==
    /\ RelayTrusted /\ QueuesTrusted /\ SessionTrusted /\ DialogNamesPeer
    /\ sessions \in Nat

LEMMA DoFits ==
    ASSUME NEW what \in Deeds, NEW p \in Peers \cup {NoPeer}, NEW S,
           what \in {"accepted", "offer", "answer"} => p \in S,
           what = "request" => p \in Peers
    PROVE  Fits(Do(what, p), S)
<1>1. Do(what, p) \in Actions
  BY DEF Actions, Do, Deeds
<1>2. Do(what, p).do = what /\ Do(what, p).peer = p
  BY DEF Do
<1> QED
  BY <1>1, <1>2 DEF Fits

LEMMA PushTrusted ==
    ASSUME NEW q, NEW S, Trusted(q, S), NEW action, Fits(action, S)
    PROVE  Trusted(Append(q, action), S)
<1>1. q \in Seq(Actions) /\ action \in Actions
  BY DEF Trusted, Fits
<1>2. Append(q, action) \in Seq(Actions) /\ Len(Append(q, action)) = Len(q) + 1
  BY <1>1
<1>3. ASSUME NEW i \in 1..Len(Append(q, action))
      PROVE  Fits(Append(q, action)[i], S)
  <2>1. CASE i \in 1..Len(q)
    <3>1. Append(q, action)[i] = q[i]
      BY <1>1, <2>1
    <3> QED
      BY <2>1, <3>1 DEF Trusted
  <2>2. CASE i = Len(q) + 1
    <3>1. Append(q, action)[i] = action
      BY <1>1, <2>2
    <3> QED
      BY <3>1
  <2>3. Len(q) \in Nat
    BY <1>1
  <2> QED
    BY <1>2, <1>3, <2>1, <2>2, <2>3
<1> QED
  BY <1>2, <1>3 DEF Trusted

LEMMA TakeTrusted ==
    ASSUME NEW q, NEW S, Trusted(q, S), q # <<>>
    PROVE  Fits(Head(q), S) /\ Trusted(Tail(q), S)
<1>1. q \in Seq(Actions) /\ Len(q) \in Nat /\ Len(q) > 0
  BY DEF Trusted
<1>2. Head(q) = q[1] /\ Tail(q) \in Seq(Actions) /\ Len(Tail(q)) = Len(q) - 1
  BY <1>1
<1>3. Fits(Head(q), S)
  BY <1>1, <1>2 DEF Trusted
<1>4. ASSUME NEW i \in 1..Len(Tail(q)) PROVE Fits(Tail(q)[i], S)
  <2>1. Tail(q)[i] = q[i + 1] /\ i + 1 \in 1..Len(q)
    BY <1>1, <1>2
  <2> QED
    BY <2>1 DEF Trusted
<1> QED
  BY <1>2, <1>3, <1>4 DEF Trusted

LEMMA TrustGrows ==
    ASSUME NEW q, NEW S, NEW T, Trusted(q, S), S \subseteq T
    PROVE  Trusted(q, T)
BY DEF Trusted, Fits

LEMMA NothingQueued == ASSUME NEW S PROVE Trusted(<<>>, S)
BY DEF Trusted

\* Another thread queues an action that fits.
LEMMA Queued ==
    ASSUME TrustInv, NEW action, Fits(action, invited), Push(action)
    PROVE  Trusted(pending', invited)
BY PushTrusted DEF TrustInv, QueuesTrusted, Push

\* close() queues nothing but "disconnect".
LEMMA CloseQueues ==
    ASSUME TrustInv, NEW reports \in BOOLEAN, Close(reports)
    PROVE  Trusted(pending', invited)
<1>1. CASE Push(Do("disconnect", webrtc.peer))
  <2>1. Fits(Do("disconnect", webrtc.peer), invited)
    BY DoFits DEF Deeds, TrustInv, SessionTrusted, RelayTrusted
  <2> QED
    BY <1>1, <2>1, Queued
<1>2. CASE UNCHANGED <<pending, wake>>
  BY <1>2 DEF TrustInv, QueuesTrusted
<1> QED
  BY <1>1, <1>2 DEF Close

LEMMA NoSessionTrusted ==
    ASSUME TrustInv, webrtc' = NoSession, UNCHANGED invited
    PROVE  SessionTrusted'
BY DEF SessionTrusted, NoSession

LEMMA DisconnectTrusted ==
    ASSUME TrustInv, DisconnectSession, UNCHANGED <<batch, relay, history, dialog, from>>
    PROVE  TrustInv'
<1>1. Trusted(pending', invited)
  BY CloseQueues DEF DisconnectSession
<1>2. SessionTrusted'
  BY NoSessionTrusted DEF DisconnectSession, history
<1>3. RelayTrusted' /\ DialogNamesPeer' /\ (sessions \in Nat)'
  BY DEF TrustInv, RelayTrusted, DialogNamesPeer, DisconnectSession, relay, history
<1>4. QueuesTrusted'
  BY <1>1 DEF TrustInv, QueuesTrusted, history
<1> QED
  BY <1>2, <1>3, <1>4 DEF TrustInv

LEMMA NewTrusted ==
    ASSUME TrustInv, NEW role \in {"host", "viewer"}, NEW p \in invited',
           invited \subseteq invited', NewSession(role, p)
    PROVE  SessionTrusted' /\ sessions' \in Nat
<1>1. webrtc' = [id |-> sessions + 1, role |-> role, peer |-> p,
                 remote |-> NoPeer, link |-> "new"]
  BY DEF NewSession
<1>2. sessions + 1 \in Nat
  BY DEF TrustInv
<1>3. SessionTrusted'
  BY <1>1, <1>2 DEF SessionTrusted
<1> QED
  BY <1>2, <1>3 DEF NewSession

LEMMA DescriptionTrusted ==
    ASSUME TrustInv, NEW p \in invited, NEW role, RemoteDescription(p, role),
           UNCHANGED invited
    PROVE  SessionTrusted'
BY DEF TrustInv, SessionTrusted, RemoteDescription

---------------------------------------------------------------------------
(* One lemma for each thread.                                              *)

LEMMA ArrivesTrusted == ASSUME TrustInv, Arrives PROVE TrustInv'
<1> DEFINE Keeps == UNCHANGED <<batch, dialog, from, webrtc, sessions, history>>
<1>1. ASSUME Keeps, asked' \subseteq invited, offering' \subseteq invited,
             answering' \subseteq invited, Trusted(pending', invited)
      PROVE  TrustInv'
  BY <1>1 DEF TrustInv, RelayTrusted, QueuesTrusted, SessionTrusted, DialogNamesPeer,
     history
<1>2. ASSUME NEW p \in Peers, RequestArrives(p) PROVE TrustInv'
  <2>1. Fits(Do("request", p), invited)
    BY DoFits DEF Deeds
  <2>2. Trusted(pending', invited)
    BY <1>2, <2>1, Queued DEF RequestArrives, Receive
  <2>3. Keeps /\ UNCHANGED relay
    BY <1>2 DEF RequestArrives, Receive, window, objects
  <2> QED
    BY <1>1, <2>2, <2>3 DEF TrustInv, RelayTrusted, relay
<1>3. ASSUME NEW p \in Peers, AcceptArrives(p) PROVE TrustInv'
  <2>1. Fits(Do("accepted", p), invited)
    BY <1>3, DoFits DEF Deeds, AcceptArrives, TrustInv, RelayTrusted
  <2>2. Trusted(pending', invited)
    BY <1>3, <2>1, Queued DEF AcceptArrives, Receive
  <2>3. Keeps
    BY <1>3 DEF AcceptArrives, Receive, window, objects
  <2> QED
    BY <1>1, <1>3, <2>2, <2>3 DEF TrustInv, RelayTrusted, AcceptArrives
<1>4. ASSUME NEW p \in Peers, RefusalArrives(p) PROVE TrustInv'
  <2>1. Fits(Do("refused", p), invited)
    BY DoFits DEF Deeds
  <2>2. Trusted(pending', invited)
    BY <1>4, <2>1, Queued DEF RefusalArrives, Receive
  <2>3. Keeps
    BY <1>4 DEF RefusalArrives, Receive, window, objects
  <2> QED
    BY <1>1, <1>4, <2>2, <2>3 DEF TrustInv, RelayTrusted, RefusalArrives
<1>5. ASSUME NEW p \in Peers, OfferArrives(p) PROVE TrustInv'
  <2>1. Fits(Do("offer", p), invited)
    BY <1>5, DoFits DEF Deeds, OfferArrives, TrustInv, RelayTrusted
  <2>2. Trusted(pending', invited)
    BY <1>5, <2>1, Queued DEF OfferArrives, Receive
  <2>3. Keeps
    BY <1>5 DEF OfferArrives, Receive, window, objects
  <2> QED
    BY <1>1, <1>5, <2>2, <2>3 DEF TrustInv, RelayTrusted, OfferArrives
<1>6. ASSUME NEW p \in Peers, AnswerArrives(p) PROVE TrustInv'
  <2>1. Fits(Do("answer", p), invited)
    BY <1>6, DoFits DEF Deeds, AnswerArrives, TrustInv, RelayTrusted
  <2>2. Trusted(pending', invited)
    BY <1>6, <2>1, Queued DEF AnswerArrives, Receive
  <2>3. Keeps
    BY <1>6 DEF AnswerArrives, Receive, window, objects
  <2> QED
    BY <1>1, <1>6, <2>2, <2>3 DEF TrustInv, RelayTrusted, AnswerArrives
<1>7. CASE SignalingLost
  <2>1. Fits(Do("lost", NoPeer), invited)
    BY DoFits DEF Deeds
  <2>2. Trusted(pending', invited)
    BY <1>7, <2>1, Queued DEF SignalingLost
  <2>3. Keeps /\ UNCHANGED relay
    BY <1>7 DEF SignalingLost, window, objects, counters
  <2> QED
    BY <1>1, <2>2, <2>3 DEF TrustInv, RelayTrusted, relay
<1>8. CASE SignalingBack
  <2>1. Keeps /\ UNCHANGED <<relay, pending>>
    BY <1>8 DEF SignalingBack, window, objects, counters
  <2> QED
    BY <1>1, <2>1 DEF TrustInv, RelayTrusted, QueuesTrusted, relay
<1> QED
  BY <1>2, <1>3, <1>4, <1>5, <1>6, <1>7, <1>8 DEF Arrives

LEMMA LibraryTrusted ==
    ASSUME TrustInv, LinkUp \/ LinkDown \/ SendFrame PROVE TrustInv'
<1>1. CASE LinkUp
  <2>1. Fits(Do(webrtc.role, webrtc.peer), invited)
    <3>1. webrtc.role \in {"host", "viewer"} /\ webrtc.peer \in Peers \cup {NoPeer}
      BY <1>1 DEF LinkUp, TrustInv, SessionTrusted, RelayTrusted
    <3> QED
      BY <3>1, DoFits DEF Deeds
  <2>2. Trusted(pending', invited)
    BY <1>1, <2>1, Queued DEF LinkUp
  <2>3. SessionTrusted'
    BY <1>1 DEF LinkUp, TrustInv, SessionTrusted, history
  <2> QED
    BY <1>1, <2>2, <2>3 DEF LinkUp, TrustInv, RelayTrusted, QueuesTrusted,
       DialogNamesPeer, window, relay, history, counters
<1>2. CASE LinkDown
  <2>1. Fits(Do("disconnect", webrtc.peer), invited)
    BY DoFits DEF Deeds, TrustInv, SessionTrusted, RelayTrusted
  <2>2. Trusted(pending', invited)
    BY <1>2, <2>1, Queued DEF LinkDown
  <2>3. SessionTrusted'
    BY <1>2 DEF LinkDown, TrustInv, SessionTrusted, history
  <2> QED
    BY <1>2, <2>2, <2>3 DEF LinkDown, TrustInv, RelayTrusted, QueuesTrusted,
       DialogNamesPeer, window, relay, history, counters
<1>3. CASE SendFrame
  <2>1. webrtc.remote \in invited
    BY <1>3 DEF SendFrame, ChannelOpen, TrustInv, SessionTrusted
  <2> QED
    BY <1>3, <2>1 DEF SendFrame, TrustInv, RelayTrusted, QueuesTrusted, SessionTrusted,
       DialogNamesPeer, window, objects, relay, counters
<1> QED
  BY <1>1, <1>2, <1>3

LEMMA HandleTrusted ==
    ASSUME TrustInv, NEW do, NEW p, Fits([do |-> do, peer |-> p], invited),
           Handle(do, p), UNCHANGED <<relay, history>>, Trusted(batch', invited)
    PROVE  TrustInv'
<1> DEFINE Same == UNCHANGED <<pending, dialog, from, webrtc, sessions>>
<1>1. do \in {"accepted", "offer", "answer"} => p \in invited
  BY DEF Fits
<1>2. do = "request" => p \in Peers
  BY DEF Fits
<1>3. RelayTrusted' /\ UNCHANGED invited
  BY DEF TrustInv, RelayTrusted, relay, history
<1>4. ASSUME UNCHANGED pending PROVE QueuesTrusted'
  BY <1>3, <1>4 DEF TrustInv, QueuesTrusted
<1>5. ASSUME UNCHANGED webrtc PROVE SessionTrusted'
  BY <1>3, <1>5 DEF TrustInv, SessionTrusted
<1>6. ASSUME UNCHANGED <<dialog, from>> PROVE DialogNamesPeer'
  BY <1>6 DEF TrustInv, DialogNamesPeer
<1>7. ASSUME Same PROVE TrustInv'
  BY <1>3, <1>4, <1>5, <1>6, <1>7 DEF TrustInv
<1>8. CASE /\ do = "request" /\ HandleConnectionRequest(p)
           /\ UNCHANGED <<pending, wake, state, elapsed, objects, sessions>>
  <2>1. DialogNamesPeer'
    BY <1>2, <1>8 DEF HandleConnectionRequest, DialogNamesPeer
  <2> QED
    BY <2>1, <1>3, <1>4, <1>5, <1>8 DEF TrustInv, objects
<1>9. CASE /\ do = "accepted" /\ StartViewer(p)
           /\ UNCHANGED <<pending, wake, dialog, from, host, input>>
  <2>1. CASE StartAsViewer(p)
    <3>1. SessionTrusted' /\ sessions' \in Nat
      BY <2>1, <1>1, <1>3, <1>9, NewTrusted DEF StartAsViewer
    <3> QED
      BY <3>1, <1>3, <1>4, <1>6, <1>9 DEF TrustInv
  <2>2. CASE UNCHANGED <<webrtc, sessions>>
    BY <2>2, <1>7, <1>9
  <2> QED
    BY <2>1, <2>2, <1>9 DEF StartViewer
<1>10. CASE /\ do = "offer" \/ do = "answer"
            /\ RemoteDescription(p, IF do = "offer" THEN "viewer" ELSE "host")
            /\ UNCHANGED <<pending, wake, dialog, from, state, elapsed, host, viewer,
                           input, sessions>>
  <2>1. SessionTrusted'
    BY <1>1, <1>3, <1>10, DescriptionTrusted
  <2> QED
    BY <2>1, <1>3, <1>4, <1>6, <1>10 DEF TrustInv
<1>11. CASE /\ do = "disconnect" /\ DisconnectSession
            /\ UNCHANGED <<dialog, from, elapsed>>
  <2>1. QueuesTrusted'
    BY <1>3, <1>11, CloseQueues DEF DisconnectSession, QueuesTrusted
  <2>2. SessionTrusted' /\ UNCHANGED sessions
    BY <1>3, <1>11, NoSessionTrusted DEF DisconnectSession
  <2> QED
    BY <2>1, <2>2, <1>3, <1>6, <1>11 DEF TrustInv
<1>12. Same \/ do \in {"request", "accepted", "offer", "answer", "disconnect"}
  BY DEF Handle, objects
<1> QED
  BY <1>7, <1>8, <1>9, <1>10, <1>11, <1>12 DEF Handle

LEMMA LoopTrusted == ASSUME TrustInv, Loop PROVE TrustInv'
<1>1. CASE Drain
  <2>1. QueuesTrusted'
    BY <1>1, NothingQueued DEF Drain, TrustInv, QueuesTrusted, history
  <2> QED
    BY <1>1, <2>1 DEF Drain, TrustInv, RelayTrusted, SessionTrusted, DialogNamesPeer,
       window, objects, relay, history, counters
<1>2. CASE RunAction
  <2>1. Fits(Head(batch), invited) /\ Trusted(Tail(batch), invited)
    BY <1>2, TakeTrusted DEF RunAction, TrustInv, QueuesTrusted
  <2>2. Fits([do |-> Head(batch).do, peer |-> Head(batch).peer], invited)
    BY <2>1 DEF Fits, Actions
  <2>3. /\ Handle(Head(batch).do, Head(batch).peer)
        /\ Trusted(batch', invited) /\ UNCHANGED <<relay, history>>
    BY <1>2, <2>1 DEF RunAction
  <2> QED
    BY <2>2, <2>3, HandleTrusted
<1>3. CASE Update
  BY <1>3 DEF Update, TrustInv, RelayTrusted, QueuesTrusted, SessionTrusted,
     DialogNamesPeer, window, objects, relay, history, counters
<1> QED
  BY <1>1, <1>2, <1>3 DEF Loop

LEMMA UserTrusted == ASSUME TrustInv, User PROVE TrustInv'
<1>1. ASSUME NEW p \in Peers, Connect(p) PROVE TrustInv'
  <2>1. invited \subseteq invited' /\ UNCHANGED <<pending, batch>>
    BY <1>1 DEF Connect, Event
  <2>2. QueuesTrusted'
    BY <2>1, TrustGrows DEF TrustInv, QueuesTrusted
  <2>3. RelayTrusted'
    BY <1>1 DEF Connect, TrustInv, RelayTrusted
  <2>4. SessionTrusted'
    BY <1>1 DEF Connect, TrustInv, SessionTrusted, objects
  <2> QED
    BY <1>1, <2>2, <2>3, <2>4 DEF Connect, TrustInv, DialogNamesPeer
<1>2. CASE Accept
  <2>1. from \in Peers /\ UNCHANGED <<pending, batch, from, asked, offering, reached>>
    BY <1>2 DEF Accept, Event, TrustInv, DialogNamesPeer
  <2>2. DialogNamesPeer'
    BY <1>2, <2>1 DEF Accept, DialogNamesPeer
  <2>3. CASE StartAsHost(from) /\ invited' = invited \cup {from}
    <3>1. SessionTrusted' /\ sessions' \in Nat
      BY <2>3, NewTrusted DEF StartAsHost
    <3>2. QueuesTrusted'
      BY <2>1, <2>3, TrustGrows DEF TrustInv, QueuesTrusted
    <3>3. RelayTrusted'
      BY <2>1, <2>3 DEF StartAsHost, TrustInv, RelayTrusted
    <3> QED
      BY <2>2, <3>1, <3>2, <3>3 DEF TrustInv
  <2>4. CASE UNCHANGED <<webrtc, sessions, answering, invited>>
    BY <2>1, <2>2, <2>4 DEF TrustInv, RelayTrusted, QueuesTrusted, SessionTrusted
  <2> QED
    BY <1>2, <2>3, <2>4 DEF Accept
<1>3. CASE Reject
  BY <1>3 DEF Reject, Event, TrustInv, RelayTrusted, QueuesTrusted, SessionTrusted,
     DialogNamesPeer, objects, relay, history, counters
<1>4. CASE Escape
  <2>1. UNCHANGED <<batch, relay, history, dialog, from>>
    BY <1>4 DEF Escape, Event
  <2>2. CASE DisconnectSession
    BY <2>1, <2>2, DisconnectTrusted
  <2>3. CASE UNCHANGED <<wake, pending, state, objects, sessions>>
    BY <2>1, <2>3 DEF TrustInv, RelayTrusted, QueuesTrusted, SessionTrusted,
       DialogNamesPeer, objects, relay, history
  <2> QED
    BY <1>4, <2>2, <2>3 DEF Escape
<1>5. CASE Cancel \/ Quit
  BY <1>5 DEF Cancel, Quit, Event, TrustInv, RelayTrusted, QueuesTrusted,
     SessionTrusted, DialogNamesPeer, window, objects, relay, history, counters
<1> QED
  BY <1>1, <1>2, <1>3, <1>4, <1>5 DEF User

LEMMA ShutdownTrusted == ASSUME TrustInv, Shutdown PROVE TrustInv'
<1>1. CASE CloseSession
  <2>1. Trusted(pending', invited)
    BY <1>1, CloseQueues DEF CloseSession
  <2>2. SessionTrusted'
    BY <1>1, NoSessionTrusted DEF CloseSession, history
  <2> QED
    BY <1>1, <2>1, <2>2 DEF CloseSession, TrustInv, RelayTrusted, QueuesTrusted,
       DialogNamesPeer, window, relay, history, counters
<1>2. CASE JoinReconnect \/ StopSessions \/ ReleaseSignaling
  BY <1>2 DEF JoinReconnect, StopSessions, ReleaseSignaling, TrustInv, RelayTrusted,
     QueuesTrusted, SessionTrusted, DialogNamesPeer, window, objects, relay, history,
     counters
<1> QED
  BY <1>1, <1>2 DEF Shutdown

LEMMA TrustInductive == TrustInv /\ [Next]_vars => TrustInv'
<1> SUFFICES ASSUME TrustInv, [Next]_vars PROVE TrustInv'
  OBVIOUS
<1>1. CASE UNCHANGED vars
  BY <1>1 DEF vars, TrustInv, RelayTrusted, QueuesTrusted, SessionTrusted,
     DialogNamesPeer, window, objects, relay, history, counters
<1> QED
  BY <1>1, ArrivesTrusted, LibraryTrusted, UserTrusted, LoopTrusted, ShutdownTrusted
     DEF Next

LEMMA InitTrusted == Init => TrustInv
<1> SUFFICES ASSUME Init PROVE TrustInv
  OBVIOUS
<1>1. RelayTrusted /\ DialogNamesPeer /\ sessions \in Nat
  BY DEF Init, RelayTrusted, DialogNamesPeer
<1>2. SessionTrusted
  BY DEF Init, SessionTrusted, NoSession
<1> QED
  BY <1>1, <1>2, NothingQueued DEF Init, TrustInv, QueuesTrusted

\* Whatever requests, late answers and descriptions arrive in whatever order, only
\* peers that this user asked or accepted are connected and shown the screen.
THEOREM Invitation == Spec => []OnlyInvited
<1>1. TrustInv => OnlyInvited
  BY AppAssumption DEF TrustInv, RelayTrusted, SessionTrusted, OnlyInvited
<1> QED
  BY <1>1, InitTrusted, TrustInductive, PTL DEF Spec

---------------------------------------------------------------------------
(* The order of shutdown().                                                *)

Phases == {"wait", "messages", "drain", "join", "close", "stop", "release", "ended"}

TornDown ==
    /\ ui \in Phases
    /\ ui # "ended" => "signaling" \in threads
    /\ ui \in {"close", "stop", "release", "ended"} => "reconnect" \notin threads
    /\ ui \in {"stop", "release", "ended"} => webrtc = NoSession
    /\ ui \in {"release", "ended"} => host # "running"

\* A session that exists has a link.
SessionLives == webrtc.link = "none" => webrtc = NoSession

ShutdownInv == TornDown /\ SessionLives /\ HostHasSession

\* A step of the loop or of the user, which leaves threads alone.
LEMMA WhileRunning ==
    ASSUME ShutdownInv, ui \in {"wait", "messages", "drain"},
           ui' \in {"wait", "messages", "drain", "join"}, UNCHANGED threads
    PROVE  TornDown'
BY DEF ShutdownInv, TornDown, Phases

LEMMA SessionUnchanged ==
    ASSUME ShutdownInv, UNCHANGED <<webrtc, host>>,
           ui # "stop" \/ ui' = "stop" \/ host' # "running"
    PROVE  SessionLives' /\ HostHasSession'
BY DEF ShutdownInv, SessionLives, HostHasSession

LEMMA SessionStarted ==
    ASSUME NEW role, NEW p, NewSession(role, p)
    PROVE  SessionLives' /\ HostHasSession'
BY DEF NewSession, SessionLives, HostHasSession, NoSession

LEMMA SessionEnded ==
    ASSUME webrtc' = NoSession, host' # "running" \/ ui' = "stop"
    PROVE  SessionLives' /\ HostHasSession'
BY DEF SessionLives, HostHasSession

\* The library, or a description, changes the link of a session.
LEMMA LinkChanged ==
    ASSUME TrustInv, NEW link \in {"checking", "up", "disconnected", "failed"},
           webrtc'.link = link
    PROVE  SessionLives' /\ HostHasSession'
BY DEF SessionLives, HostHasSession, NoSession

LEMMA LibraryShutdown ==
    ASSUME TrustInv, ShutdownInv, LinkUp \/ LinkDown \/ SendFrame
    PROVE  ShutdownInv'
<1>1. CASE LinkUp \/ LinkDown
  <2>1. PICK link \in {"up", "disconnected", "failed"} :
            webrtc' = [webrtc EXCEPT !.link = link]
    BY <1>1 DEF LinkUp, LinkDown
  <2>2. webrtc'.link = link
    BY <2>1 DEF TrustInv, SessionTrusted
  <2>3. webrtc.link # "none" /\ UNCHANGED <<ui, host, threads>>
    BY <1>1 DEF LinkUp, LinkDown
  <2>4. TornDown'
    BY <2>3 DEF ShutdownInv, TornDown, NoSession
  <2> QED
    BY <2>2, <2>4, LinkChanged DEF ShutdownInv
<1>2. CASE SendFrame
  <2>1. UNCHANGED <<ui, host, webrtc, threads>>
    BY <1>2 DEF SendFrame, objects
  <2> QED
    BY <2>1 DEF ShutdownInv, TornDown, SessionLives, HostHasSession
<1> QED
  BY <1>1, <1>2

LEMMA ArrivesShutdown == ASSUME ShutdownInv, Arrives PROVE ShutdownInv'
<1>1. UNCHANGED <<ui, host, webrtc, threads>>
  BY DEF Arrives, RequestArrives, AcceptArrives, RefusalArrives, OfferArrives,
     AnswerArrives, Receive, SignalingLost, SignalingBack, objects
<1> QED
  BY <1>1 DEF ShutdownInv, TornDown, SessionLives, HostHasSession

LEMMA HandleShutdown ==
    ASSUME TrustInv, ShutdownInv, ui = "drain", ui' = ui, NEW do, NEW p, Handle(do, p)
    PROVE  SessionLives' /\ HostHasSession'
<1>1. CASE UNCHANGED <<webrtc, host>>
  BY <1>1, SessionUnchanged
<1>2. CASE StartViewer(p) /\ UNCHANGED host
  <2>1. CASE StartAsViewer(p)
    BY <2>1, SessionStarted DEF StartAsViewer
  <2>2. CASE UNCHANGED <<webrtc, sessions>>
    BY <1>2, <2>2, SessionUnchanged
  <2> QED
    BY <1>2, <2>1, <2>2 DEF StartViewer
<1>3. ASSUME NEW role, RemoteDescription(p, role), UNCHANGED host
      PROVE  SessionLives' /\ HostHasSession'
  <2>1. CASE webrtc' = webrtc
    BY <1>3, <2>1, SessionUnchanged
  <2>2. CASE webrtc' = [webrtc EXCEPT !.link = "checking", !.remote = p]
    <3>1. webrtc'.link = "checking"
      BY <2>2 DEF TrustInv, SessionTrusted
    <3> QED
      BY <3>1, LinkChanged
  <2> QED
    BY <1>3, <2>1, <2>2 DEF RemoteDescription
<1>4. CASE DisconnectSession
  BY <1>4, SessionEnded DEF DisconnectSession
<1> QED
  BY <1>1, <1>2, <1>3, <1>4 DEF Handle, objects

LEMMA LoopShutdown == ASSUME TrustInv, ShutdownInv, Loop PROVE ShutdownInv'
<1>1. ui \in {"wait", "messages", "drain"} /\ ui' \in {"wait", "drain"}
      /\ UNCHANGED threads
  BY DEF Loop, Drain, RunAction, Update
<1>2. TornDown'
  BY <1>1, WhileRunning
<1>3. CASE Drain \/ Update
  <2>1. UNCHANGED <<webrtc, host>>
    BY <1>3 DEF Drain, Update, objects
  <2> QED
    BY <1>1, <1>2, <2>1, SessionUnchanged DEF ShutdownInv
<1>4. CASE RunAction
  BY <1>2, <1>4, HandleShutdown DEF RunAction, ShutdownInv
<1> QED
  BY <1>3, <1>4 DEF Loop

LEMMA UserShutdown == ASSUME TrustInv, ShutdownInv, User PROVE ShutdownInv'
<1>1. ui \in {"wait", "messages"} /\ ui' \in {"messages", "join"} /\ UNCHANGED threads
  BY DEF User, Connect, Cancel, Accept, Reject, Escape, Quit, Event
<1>2. TornDown'
  BY <1>1, WhileRunning
<1>3. CASE UNCHANGED <<webrtc, host>>
  BY <1>1, <1>2, <1>3, SessionUnchanged DEF ShutdownInv
<1>4. CASE Accept
  <2>1. CASE StartAsHost(from)
    BY <1>2, <2>1, SessionStarted DEF StartAsHost, ShutdownInv
  <2>2. CASE host' = "failed" /\ UNCHANGED webrtc
    BY <1>2, <2>2 DEF ShutdownInv, SessionLives, HostHasSession
  <2> QED
    BY <1>4, <2>1, <2>2 DEF Accept
<1>5. CASE DisconnectSession
  BY <1>2, <1>5, SessionEnded DEF DisconnectSession, ShutdownInv
<1>6. UNCHANGED <<webrtc, host>> \/ Accept \/ DisconnectSession
  BY DEF User, Connect, Cancel, Reject, Escape, Quit, objects
<1> QED
  BY <1>3, <1>4, <1>5, <1>6

LEMMA ShutdownShutdown == ASSUME ShutdownInv, Shutdown PROVE ShutdownInv'
<1>1. CASE JoinReconnect
  <2>1. TornDown'
    BY <1>1 DEF JoinReconnect, ShutdownInv, TornDown, Phases, objects
  <2> QED
    BY <1>1, <2>1, SessionUnchanged DEF JoinReconnect, ShutdownInv, objects
<1>2. CASE CloseSession
  <2>1. TornDown'
    BY <1>2 DEF CloseSession, ShutdownInv, TornDown, Phases
  <2> QED
    BY <1>2, <2>1, SessionEnded DEF CloseSession, ShutdownInv
<1>3. CASE StopSessions
  <2>1. TornDown'
    BY <1>3 DEF StopSessions, ShutdownInv, TornDown, Phases
  <2>2. host' # "running" /\ UNCHANGED webrtc
    BY <1>3 DEF StopSessions
  <2> QED
    BY <2>1, <2>2 DEF ShutdownInv, SessionLives, HostHasSession
<1>4. CASE ReleaseSignaling
  <2>1. TornDown'
    BY <1>4 DEF ReleaseSignaling, ShutdownInv, TornDown, Phases, objects
  <2> QED
    BY <1>4, <2>1, SessionUnchanged DEF ReleaseSignaling, ShutdownInv, objects
<1> QED
  BY <1>1, <1>2, <1>3, <1>4 DEF Shutdown

LEMMA ShutdownInductive == TrustInv /\ ShutdownInv /\ [Next]_vars => ShutdownInv'
<1> SUFFICES ASSUME TrustInv, ShutdownInv, [Next]_vars PROVE ShutdownInv'
  OBVIOUS
<1>1. CASE UNCHANGED vars
  BY <1>1 DEF vars, objects, ShutdownInv, TornDown, SessionLives, HostHasSession
<1> QED
  BY <1>1, ArrivesShutdown, LibraryShutdown, UserShutdown, LoopShutdown,
     ShutdownShutdown DEF Next

LEMMA InitShutdown == Init => ShutdownInv
BY DEF Init, ShutdownInv, TornDown, Phases, SessionLives, HostHasSession

LEMMA ShutdownInvariant == Spec => []ShutdownInv
BY InitTrusted, TrustInductive, InitShutdown, ShutdownInductive, PTL DEF Spec

\* A running host session has a WebRTC session whose loss ends it, until shutdown()
\* stops the host session itself.
THEOREM HostSessionCanEnd == Spec => []HostHasSession
<1>1. ShutdownInv => HostHasSession
  BY DEF ShutdownInv
<1> QED
  BY <1>1, ShutdownInvariant, PTL

\* Nothing that uses the signaling client outlives it, however far shutdown() is.
THEOREM ShutdownOrder == Spec => []SignalingOutlives
<1>1. ShutdownInv => SignalingOutlives
  BY DEF ShutdownInv, TornDown, SignalingOutlives, Phases
<1> QED
  BY <1>1, ShutdownInvariant, PTL

---------------------------------------------------------------------------
(* Sequences of actions.  The queue is what is still to run of toRun,      *)
(* followed by pendingActions_.                                            *)

Queue == batch \o pending

LEMMA QueuePushed ==
    ASSUME NEW S, NEW s \in Seq(S), NEW t \in Seq(S), NEW a \in S
    PROVE  s \o Append(t, a) = Append(s \o t, a)
OBVIOUS

LEMMA QueueTaken ==
    ASSUME NEW S, NEW s \in Seq(S), NEW t \in Seq(S), s # <<>>
    PROVE  /\ s \o t \in Seq(S) /\ s \o t # <<>>
           /\ Head(s \o t) = Head(s) /\ Tail(s) \o t = Tail(s \o t)
OBVIOUS

LEMMA QueueHandedOver ==
    ASSUME NEW S, NEW t \in Seq(S) PROVE <<>> \o t = t /\ t \o <<>> = t
OBVIOUS

\* What an action of pendingActions_ may start: a dialog, or a session.
Calls(q) == {i \in 1..Len(q) : q[i].do \in {"request", "accepted"}}
Called(a) == a.do \in {"request", "accepted"}

LEMMA CallsFinite ==
    ASSUME NEW S, NEW q \in Seq(S)
    PROVE  IsFiniteSet(Calls(q)) /\ Cardinality(Calls(q)) \in Nat
<1>1. IsFiniteSet(1..Len(q)) /\ Calls(q) \subseteq 1..Len(q)
  BY FS_Interval DEF Calls
<1> QED
  BY <1>1, FS_Subset, FS_CardinalityType

LEMMA CallsAppended ==
    ASSUME NEW S, NEW q \in Seq(S), NEW a \in S
    PROVE  /\ Called(a) => Cardinality(Calls(Append(q, a))) = Cardinality(Calls(q)) + 1
           /\ ~Called(a) => Cardinality(Calls(Append(q, a))) = Cardinality(Calls(q))
<1>1. Len(q) + 1 \notin Calls(q)
  BY DEF Calls
<1>2. CASE Called(a)
  <2>1. Calls(Append(q, a)) = Calls(q) \cup {Len(q) + 1}
    BY <1>2 DEF Calls, Called
  <2> QED
    BY <1>1, <1>2, <2>1, CallsFinite, FS_AddElement
<1>3. CASE ~Called(a)
  <2>1. Calls(Append(q, a)) = Calls(q)
    BY <1>3 DEF Calls, Called
  <2> QED
    BY <1>3, <2>1
<1> QED
  BY <1>2, <1>3

LEMMA CallsTaken ==
    ASSUME NEW S, NEW q \in Seq(S), q # <<>>
    PROVE  /\ Called(Head(q)) => Cardinality(Calls(Tail(q))) = Cardinality(Calls(q)) - 1
           /\ ~Called(Head(q)) => Cardinality(Calls(Tail(q))) = Cardinality(Calls(q))
<1> DEFINE f == [i \in Calls(Tail(q)) |-> i + 1]
           Rest == Calls(q) \ {1}
<1>1. Rest = {i + 1 : i \in Calls(Tail(q))}
  BY DEF Calls
<1>2. f \in Bijection(Calls(Tail(q)), Rest)
  <2>1. f \in [Calls(Tail(q)) -> Rest]
    BY <1>1
  <2>2. \A i, j \in Calls(Tail(q)) : f[i] = f[j] => i = j
    BY DEF Calls
  <2>3. \A k \in Rest : \E i \in Calls(Tail(q)) : f[i] = k
    BY <1>1
  <2> QED
    BY <2>1, <2>2, <2>3 DEF Bijection, Injection, Surjection, IsInjective
<1>3. Tail(q) \in Seq(S)
  OBVIOUS
<1>4. Cardinality(Rest) = Cardinality(Calls(Tail(q)))
  <2>1. ExistsBijection(Calls(Tail(q)), Rest) /\ IsFiniteSet(Calls(Tail(q)))
    BY <1>2, <1>3, CallsFinite DEF ExistsBijection
  <2> HIDE DEF Rest
  <2> QED
    BY <2>1, FS_Bijection
<1>5. 1 \in Calls(q) <=> Called(Head(q))
  BY DEF Calls, Called
<1> QED
  BY <1>4, <1>5, CallsFinite, FS_RemoveElement

LEMMA QueueTypes ==
    ASSUME TrustInv
    PROVE  batch \in Seq(Actions) /\ pending \in Seq(Actions) /\ Queue \in Seq(Actions)
BY DEF TrustInv, QueuesTrusted, Trusted, Queue

LEMMA DoIsAction ==
    ASSUME NEW what \in Deeds, NEW p \in Peers \cup {NoPeer}
    PROVE  Do(what, p) \in Actions /\ Do(what, p).do = what
BY DEF Do, Actions, Deeds

\* Another thread queues an action at the end.
LEMMA Pushed ==
    ASSUME TrustInv, NEW a \in Actions, Push(a)
    PROVE  /\ pending' = Append(pending, a) /\ wake' = TRUE
           /\ Len(pending') <= MaxPending
<1>1. pending' = Append(pending, a) /\ Len(pending) < MaxPending /\ wake' = TRUE
  BY DEF Push
<1>2. Len(pending) \in Nat /\ Len(pending') = Len(pending) + 1
  BY <1>1, QueueTypes
<1> QED
  BY <1>1, <1>2, AppAssumption

\* What close() does to the queue.
LEMMA Closed ==
    ASSUME TrustInv, NEW reports \in BOOLEAN, Close(reports)
    PROVE  \/ UNCHANGED <<pending, wake>>
           \/ /\ webrtc # NoSession
              /\ pending' = Append(pending, Do("disconnect", webrtc.peer))
              /\ wake' = TRUE /\ Len(pending') <= MaxPending
<1>1. Do("disconnect", webrtc.peer) \in Actions
  BY DoIsAction DEF Deeds, TrustInv, SessionTrusted, RelayTrusted
<1> QED
  BY <1>1, Pushed DEF Close

---------------------------------------------------------------------------
(* Types, and how many sessions there can be.  Each session was paid for   *)
(* by a click on Connect or by a request: an answer, an action in the      *)
(* queue, the dialog carry that payment until it is spent.                 *)

AppTypes ==
    /\ wake \in BOOLEAN /\ glWindow \in BOOLEAN /\ input \in BOOLEAN
    /\ online \in BOOLEAN
    /\ state \in {"DASHBOARD", "CONNECTING", "SESSION_HOST", "SESSION_VIEWER"}
    /\ elapsed \in 0..Timeout
    /\ host \in {"none", "running", "failed"}
    /\ viewer \in {"none", "running", "failed"}
    /\ threads \subseteq {"signaling", "reconnect"}
    /\ Len(pending) <= MaxPending
    /\ asks \in 0..MaxAsks /\ requests \in 0..MaxRequests /\ keys \in 0..MaxKeys

LEMMA InitTypes == Init => AppTypes
<1>1. 0 \in 0..Timeout /\ 0 \in 0..MaxAsks /\ 0 \in 0..MaxRequests /\ 0 \in 0..MaxKeys
      /\ Len(<<>>) <= MaxPending
  BY AppAssumption
<1> QED
  BY <1>1 DEF Init, AppTypes

LEMMA ArrivesTypes == ASSUME TrustInv, AppTypes, Arrives PROVE AppTypes'
<1>1. ASSUME NEW what \in Deeds, NEW p \in Peers \cup {NoPeer}, Push(Do(what, p))
      PROVE  Len(pending') <= MaxPending /\ wake' = TRUE
  BY <1>1, DoIsAction, Pushed
<1>2. ASSUME NEW p \in Peers, RequestArrives(p) PROVE AppTypes'
  <2>1. requests' \in 0..MaxRequests
    BY <1>2, AppAssumption DEF RequestArrives, AppTypes
  <2>2. Push(Do("request", p))
    BY <1>2 DEF RequestArrives, Receive
  <2>3. Len(pending') <= MaxPending /\ wake' = TRUE
    BY <1>1, <2>2 DEF Deeds
  <2> QED
    BY <1>2, <2>1, <2>3 DEF RequestArrives, Receive, AppTypes, window, objects
<1>3. ASSUME NEW p \in Peers, NEW what \in {"accepted", "refused", "offer", "answer"},
             Receive(Do(what, p)), UNCHANGED requests
      PROVE  AppTypes'
  <2>1. Push(Do(what, p))
    BY <1>3 DEF Receive
  <2>2. Len(pending') <= MaxPending /\ wake' = TRUE
    BY <1>1, <2>1 DEF Deeds
  <2> QED
    BY <1>3, <2>2 DEF Receive, AppTypes, window, objects
<1>4. CASE SignalingLost
  <2>1. Push(Do("lost", NoPeer))
    BY <1>4 DEF SignalingLost
  <2>2. Len(pending') <= MaxPending /\ wake' = TRUE
    BY <1>1, <2>1 DEF Deeds
  <2> QED
    BY <1>4, <2>2 DEF SignalingLost, AppTypes, window, objects, counters
<1>5. CASE SignalingBack
  BY <1>5 DEF SignalingBack, AppTypes, window, objects, counters
<1> QED
  BY <1>2, <1>3, <1>4, <1>5 DEF Arrives, AcceptArrives, RefusalArrives, OfferArrives,
     AnswerArrives

LEMMA LibraryTypes ==
    ASSUME TrustInv, AppTypes, LinkUp \/ LinkDown \/ SendFrame PROVE AppTypes'
<1>1. webrtc.peer \in Peers \cup {NoPeer}
  BY DEF TrustInv, SessionTrusted, RelayTrusted
<1>2. CASE LinkUp
  <2>1. webrtc.role \in Deeds
    BY <1>2 DEF LinkUp, TrustInv, SessionTrusted, Deeds
  <2>2. Len(pending') <= MaxPending /\ wake' = TRUE
    BY <1>1, <1>2, <2>1, DoIsAction, Pushed DEF LinkUp
  <2> QED
    BY <1>2, <2>2 DEF LinkUp, AppTypes, window, counters
<1>3. CASE LinkDown
  <2>1. Len(pending') <= MaxPending /\ wake' = TRUE
    <3>1. Push(Do("disconnect", webrtc.peer))
      BY <1>3 DEF LinkDown
    <3>2. Do("disconnect", webrtc.peer) \in Actions
      BY <1>1, DoIsAction DEF Deeds
    <3> QED
      BY <3>1, <3>2, Pushed
  <2> QED
    BY <1>3, <2>1 DEF LinkDown, AppTypes, window, counters
<1>4. CASE SendFrame
  BY <1>4 DEF SendFrame, AppTypes, window, objects, counters
<1> QED
  BY <1>2, <1>3, <1>4

LEMMA DisconnectTypes ==
    ASSUME TrustInv, AppTypes, DisconnectSession
    PROVE  /\ wake' \in BOOLEAN /\ Len(pending') <= MaxPending
           /\ input' = FALSE /\ host' = "none" /\ viewer' = "none"
           /\ state' = "DASHBOARD"
BY Closed DEF DisconnectSession, AppTypes

LEMMA HandleTypes ==
    ASSUME TrustInv, AppTypes, NEW do, NEW p, Handle(do, p),
           UNCHANGED <<glWindow, online, threads, asks, requests, keys>>
    PROVE  AppTypes'
<1>0. 0 \in 0..Timeout
  BY AppAssumption
<1>1. CASE DisconnectSession /\ UNCHANGED elapsed
  BY <1>1, DisconnectTypes DEF AppTypes
<1>2. CASE StartViewer(p) /\ UNCHANGED <<pending, wake, host, input>>
  BY <1>0, <1>2 DEF AppTypes, StartViewer
<1>3. CASE /\ UNCHANGED <<pending, wake, host, viewer>>
           /\ elapsed' = elapsed \/ elapsed' = 0
           /\ input' = input \/ input' = TRUE
           /\ \/ state' = state
              \/ state' \in {"DASHBOARD", "SESSION_HOST", "SESSION_VIEWER"}
  <2>1. elapsed' \in 0..Timeout
    BY <1>0, <1>3 DEF AppTypes
  <2>2. input' \in BOOLEAN
    BY <1>3 DEF AppTypes
  <2>3. state' \in {"DASHBOARD", "CONNECTING", "SESSION_HOST", "SESSION_VIEWER"}
    BY <1>3 DEF AppTypes
  <2> QED
    BY <1>3, <2>1, <2>2, <2>3 DEF AppTypes
<1> QED
  BY <1>1, <1>2, <1>3 DEF Handle, objects

LEMMA LoopTypes == ASSUME TrustInv, AppTypes, Loop PROVE AppTypes'
<1>1. CASE Drain
  <2>1. Len(pending') <= MaxPending
    BY <1>1, AppAssumption DEF Drain
  <2>2. wake' \in BOOLEAN
    BY <1>1 DEF Drain
  <2> QED
    BY <1>1, <2>1, <2>2 DEF Drain, AppTypes, window, objects, counters
<1>2. CASE RunAction
  BY <1>2, HandleTypes DEF RunAction
<1>3. CASE Update
  <2>1. elapsed' \in 0..Timeout
    BY <1>3, AppAssumption DEF Update, AppTypes
  <2>2. state' \in {"DASHBOARD", "CONNECTING", "SESSION_HOST", "SESSION_VIEWER"}
    BY <1>3 DEF Update, AppTypes
  <2> QED
    BY <1>3, <2>1, <2>2 DEF Update, AppTypes, objects, counters
<1> QED
  BY <1>1, <1>2, <1>3 DEF Loop

LEMMA UserTypes == ASSUME TrustInv, AppTypes, User PROVE AppTypes'
<1>1. ASSUME NEW p \in Peers, Connect(p) PROVE AppTypes'
  <2>1. asks' \in 0..MaxAsks /\ elapsed' \in 0..Timeout
    BY <1>1, AppAssumption DEF Connect, AppTypes
  <2> QED
    BY <1>1, <2>1 DEF Connect, Event, AppTypes, objects
<1>2. CASE Cancel
  BY <1>2 DEF Cancel, Event, AppTypes, objects, counters
<1>6. CASE Reject
  BY <1>6 DEF Reject, Event, AppTypes, objects, counters
<1>3. CASE Accept
  BY <1>3 DEF Accept, Event, AppTypes
<1>4. CASE Escape
  <2>1. keys' \in 0..MaxKeys
    BY <1>4, AppAssumption DEF Escape, AppTypes
  <2>2. CASE DisconnectSession
    BY <1>4, <2>1, <2>2, DisconnectTypes DEF Escape, Event, AppTypes
  <2>3. CASE UNCHANGED <<wake, pending, state, objects, sessions>>
    BY <1>4, <2>1, <2>3 DEF Escape, Event, AppTypes, objects
  <2> QED
    BY <1>4, <2>2, <2>3 DEF Escape
<1>5. CASE Quit
  BY <1>5 DEF Quit, AppTypes, window, objects, counters
<1> QED
  BY <1>1, <1>2, <1>3, <1>4, <1>5, <1>6 DEF User

LEMMA ShutdownTypes == ASSUME TrustInv, AppTypes, Shutdown PROVE AppTypes'
<1>1. CASE CloseSession
  BY <1>1, Closed DEF CloseSession, AppTypes, window, counters
<1>2. CASE JoinReconnect
  BY <1>2 DEF JoinReconnect, AppTypes, window, objects, counters
<1>3. CASE StopSessions
  BY <1>3 DEF StopSessions, AppTypes, window, counters
<1>4. CASE ReleaseSignaling
  BY <1>4 DEF ReleaseSignaling, AppTypes, window, objects, counters
<1> QED
  BY <1>1, <1>2, <1>3, <1>4 DEF Shutdown

LEMMA TypesInductive == TrustInv /\ AppTypes /\ [Next]_vars => AppTypes'
<1> SUFFICES ASSUME TrustInv, AppTypes, [Next]_vars PROVE AppTypes'
  OBVIOUS
<1>1. CASE UNCHANGED vars
  BY <1>1 DEF vars, AppTypes, window, objects, counters
<1> QED
  BY <1>1, ArrivesTypes, LibraryTypes, UserTypes, LoopTypes, ShutdownTypes DEF Next

\* The thread that queues leaves toRun alone.
LEMMA QueueGrows ==
    ASSUME TrustInv, NEW a \in Actions, pending' = Append(pending, a), UNCHANGED batch
    PROVE  Queue' = Append(Queue, a)
BY QueueTypes, QueuePushed DEF Queue

LEMMA QueueShrinks ==
    ASSUME TrustInv, batch # <<>>, batch' = Tail(batch)
    PROVE  /\ Queue # <<>> /\ Head(Queue) = Head(batch) /\ Head(batch) \in Actions
           /\ UNCHANGED pending => Queue' = Tail(Queue)
           /\ \A a \in Actions : pending' = Append(pending, a) =>
                  Queue' = Append(Tail(Queue), a)
<1>1. /\ Queue # <<>> /\ Head(Queue) = Head(batch)
      /\ Tail(batch) \o pending = Tail(Queue)
  BY QueueTypes, QueueTaken DEF Queue
<1>2. Tail(batch) \in Seq(Actions) /\ Head(batch) \in Actions
  BY QueueTypes
<1>3. Queue' = Tail(batch) \o pending'
  BY DEF Queue
<1>4. ASSUME NEW a \in Actions
      PROVE  Tail(batch) \o Append(pending, a) = Append(Tail(Queue), a)
  <2>1. Tail(batch) \o Append(pending, a) = Append(Tail(batch) \o pending, a)
    BY <1>2, QueueTypes, QueuePushed
  <2> QED
    BY <1>1, <2>1
<1> QED
  BY <1>1, <1>2, <1>3, <1>4

Waiting == Cardinality(Calls(Queue))
Owed == IF dialog THEN 1 ELSE 0

Credit ==
    /\ IsFiniteSet(asked)
    /\ sessions + Owed + Waiting + Cardinality(asked) <= asks + requests
    /\ webrtc.id <= sessions

LEMMA Amounts ==
    ASSUME TrustInv, AppTypes, Credit
    PROVE  /\ sessions \in Nat /\ Owed \in 0..1 /\ Waiting \in Nat
           /\ Cardinality(asked) \in Nat /\ asks \in Nat /\ requests \in Nat
           /\ webrtc.id \in Nat
<1>1. Owed \in 0..1
  BY DEF Owed
<1>2. Waiting \in Nat /\ Cardinality(asked) \in Nat
  BY QueueTypes, CallsFinite, FS_CardinalityType DEF Waiting, Credit
<1>3. sessions \in Nat /\ webrtc.id \in Nat
  BY DEF TrustInv, SessionTrusted
<1> QED
  BY <1>1, <1>2, <1>3, AppAssumption DEF AppTypes

LEMMA MoreWaiting ==
    ASSUME TrustInv, NEW a \in Actions, Queue' = Append(Queue, a)
    PROVE  /\ Called(a) => Waiting' = Waiting + 1
           /\ ~Called(a) => Waiting' = Waiting
<1>1. Waiting' = Cardinality(Calls(Append(Queue, a)))
  BY DEF Waiting, Calls
<1> QED
  BY <1>1, QueueTypes, CallsAppended DEF Waiting

LEMMA LessWaiting ==
    ASSUME TrustInv, Queue # <<>>, 
           \/ Queue' = Tail(Queue)
           \/ \E a \in Actions : ~Called(a) /\ Queue' = Append(Tail(Queue), a)
    PROVE  /\ Called(Head(Queue)) => Waiting' = Waiting - 1
           /\ ~Called(Head(Queue)) => Waiting' = Waiting
<1>1. Queue \in Seq(Actions) /\ Tail(Queue) \in Seq(Actions)
  BY QueueTypes
<1>2. CASE Queue' = Tail(Queue)
  <2>1. Waiting' = Cardinality(Calls(Tail(Queue)))
    BY <1>2 DEF Waiting, Calls
  <2> QED
    BY <1>1, <2>1, CallsTaken DEF Waiting
<1>3. ASSUME NEW a \in Actions, ~Called(a), Queue' = Append(Tail(Queue), a)
      PROVE  Waiting' = Cardinality(Calls(Tail(Queue)))
  <2>1. Waiting' = Cardinality(Calls(Append(Tail(Queue), a)))
    BY <1>3 DEF Waiting, Calls
  <2> QED
    BY <1>1, <1>3, <2>1, CallsAppended
<1> QED
  BY <1>1, <1>2, <1>3, CallsTaken DEF Waiting

\* Nothing was spent.
LEMMA NothingSpent ==
    ASSUME Credit, UNCHANGED <<dialog, sessions, asked, asks, requests>>,
           Waiting' = Waiting, webrtc'.id = webrtc.id \/ webrtc' = NoSession,
           TrustInv, AppTypes
    PROVE  Credit'
<1>1. webrtc'.id <= sessions
  BY Amounts DEF Credit, NoSession
<1> QED
  BY <1>1 DEF Credit, Owed

LEMMA InitCredit == Init => Credit
<1> SUFFICES ASSUME Init PROVE Credit
  OBVIOUS
<1>1. Queue = <<>>
  BY DEF Init, Queue
<1>2. Calls(Queue) = {}
  BY <1>1 DEF Calls
<1>3. webrtc.id = 0
  BY DEF Init, NoSession
<1> QED
  BY <1>2, <1>3, FS_EmptySet DEF Init, Credit, Owed, Waiting

LEMMA ArrivesCredit == ASSUME TrustInv, AppTypes, Credit, Arrives PROVE Credit'
<1>1. ASSUME NEW a \in Actions, Receive(a)
      PROVE  Queue' = Append(Queue, a) /\ UNCHANGED <<dialog, webrtc, sessions, asks>>
  BY <1>1, Pushed, QueueGrows DEF Receive, window, objects
<1>2. ASSUME NEW p \in Peers, RequestArrives(p) PROVE Credit'
  <2>1. Do("request", p) \in Actions /\ Called(Do("request", p))
    BY DoIsAction DEF Deeds, Called
  <2>2. Waiting' = Waiting + 1 /\ requests' = requests + 1
        /\ UNCHANGED <<dialog, webrtc, sessions, asks, asked>>
    BY <1>1, <1>2, <2>1, MoreWaiting DEF RequestArrives, relay
  <2>3. Owed' = Owed
    BY <2>2 DEF Owed
  <2> QED
    BY <2>2, <2>3, Amounts DEF Credit
<1>3. ASSUME NEW p \in Peers, AcceptArrives(p) \/ RefusalArrives(p) PROVE Credit'
  <2>1. PICK what \in {"accepted", "refused"} : Receive(Do(what, p))
    BY <1>3 DEF AcceptArrives, RefusalArrives
  <2>2. Do(what, p) \in Actions
    BY DoIsAction DEF Deeds
  <2>3. Waiting' \in {Waiting, Waiting + 1} /\ UNCHANGED <<dialog, webrtc, sessions, asks>>
    BY <1>1, <2>1, <2>2, MoreWaiting
  <2>4. p \in asked /\ asked' = asked \ {p} /\ requests' = requests
    BY <1>3 DEF AcceptArrives, RefusalArrives
  <2>5. IsFiniteSet(asked') /\ Cardinality(asked') = Cardinality(asked) - 1
    BY <2>4, FS_RemoveElement DEF Credit
  <2>6. Owed' = Owed
    BY <2>3 DEF Owed
  <2> QED
    BY <2>3, <2>4, <2>5, <2>6, Amounts DEF Credit
<1>4. ASSUME NEW a \in Actions, ~Called(a), Queue' = Append(Queue, a),
             UNCHANGED <<dialog, webrtc, sessions, asks, asked, requests>>
      PROVE  Credit'
  BY <1>4, MoreWaiting, NothingSpent
<1>5. ASSUME NEW p \in Peers, OfferArrives(p) \/ AnswerArrives(p) PROVE Credit'
  <2>1. PICK what \in {"offer", "answer"} : Receive(Do(what, p))
    BY <1>5 DEF OfferArrives, AnswerArrives
  <2>2. Do(what, p) \in Actions /\ ~Called(Do(what, p))
    BY DoIsAction DEF Deeds, Called
  <2>3. UNCHANGED <<asked, requests>>
    BY <1>5 DEF OfferArrives, AnswerArrives
  <2> QED
    BY <1>1, <1>4, <2>1, <2>2, <2>3
<1>6. CASE SignalingLost
  <2>1. Do("lost", NoPeer) \in Actions /\ ~Called(Do("lost", NoPeer))
    BY DoIsAction DEF Deeds, Called
  <2> QED
    BY <1>4, <1>6, <2>1, Pushed, QueueGrows DEF SignalingLost, window, objects, relay, counters
<1>7. CASE SignalingBack
  <2>1. Waiting' = Waiting
    BY <1>7 DEF SignalingBack, Waiting, Queue, Calls
  <2> QED
    BY <1>7, <2>1, NothingSpent DEF SignalingBack, window, objects, relay, counters
<1> QED
  BY <1>2, <1>3, <1>5, <1>6, <1>7 DEF Arrives

LEMMA LibraryCredit ==
    ASSUME TrustInv, AppTypes, Credit, LinkUp \/ LinkDown \/ SendFrame PROVE Credit'
<1>0. webrtc.peer \in Peers \cup {NoPeer}
  BY DEF TrustInv, SessionTrusted, RelayTrusted
<1>1. CASE LinkUp \/ LinkDown
  <2>1. PICK what \in {"host", "viewer", "disconnect"} : Push(Do(what, webrtc.peer))
    BY <1>1 DEF LinkUp, LinkDown, TrustInv, SessionTrusted
  <2>2. Do(what, webrtc.peer) \in Actions /\ ~Called(Do(what, webrtc.peer))
    BY <1>0, DoIsAction DEF Deeds, Called
  <2>3. UNCHANGED <<batch, dialog, asked, sessions, asks, requests>>
    BY <1>1 DEF LinkUp, LinkDown, window, relay, counters
  <2>4. webrtc'.id = webrtc.id
    BY <1>1 DEF LinkUp, LinkDown, TrustInv, SessionTrusted
  <2> QED
    BY <2>1, <2>2, <2>3, <2>4, Pushed, QueueGrows, MoreWaiting, NothingSpent
<1>2. CASE SendFrame
  <2>1. Waiting' = Waiting
    BY <1>2 DEF SendFrame, Waiting, Queue, Calls
  <2> QED
    BY <1>2, <2>1, NothingSpent DEF SendFrame, window, objects, relay, counters
<1> QED
  BY <1>1, <1>2

\* One action of toRun: a call in it becomes the dialog, or a session.
LEMMA RunCredit == ASSUME TrustInv, AppTypes, Credit, RunAction PROVE Credit'
<1> DEFINE do == Head(batch).do
           p == Head(batch).peer
<1>1. /\ Queue # <<>> /\ Head(Queue) = Head(batch) /\ Head(batch) \in Actions
      /\ UNCHANGED pending => Queue' = Tail(Queue)
      /\ \A a \in Actions : pending' = Append(pending, a) =>
             Queue' = Append(Tail(Queue), a)
  BY QueueShrinks DEF RunAction
<1>2. Handle(do, p) /\ UNCHANGED <<asked, asks, requests>>
  BY DEF RunAction, relay
<1>3. Called(Head(Queue)) <=> do \in {"request", "accepted"}
  BY <1>1 DEF Called
<1> HIDE DEF do, p
<1>4. CASE do = "request" /\ HandleConnectionRequest(p)
           /\ UNCHANGED <<pending, objects, sessions>>
  <2>1. Waiting' = Waiting - 1
    BY <1>1, <1>3, <1>4, LessWaiting
  <2>2. Owed' = 1
    BY <1>4 DEF HandleConnectionRequest, Owed
  <2>3. webrtc' = webrtc /\ sessions' = sessions
    BY <1>4 DEF objects
  <2> QED
    BY <1>2, <2>1, <2>2, <2>3, Amounts DEF Credit
<1>5. CASE do = "accepted" /\ StartViewer(p) /\ UNCHANGED <<pending, dialog>>
  <2>1. Waiting' = Waiting - 1
    BY <1>1, <1>3, <1>5, LessWaiting
  <2>2. Owed' = Owed
    BY <1>5 DEF Owed
  <2>3. \/ sessions' = sessions + 1 /\ webrtc'.id = sessions + 1
        \/ UNCHANGED <<sessions, webrtc>>
    BY <1>5 DEF StartViewer, StartAsViewer, NewSession
  <2> QED
    BY <1>2, <2>1, <2>2, <2>3, Amounts DEF Credit
<1>6. ASSUME do \notin {"request", "accepted"}, UNCHANGED <<dialog, sessions>>,
             webrtc'.id = webrtc.id \/ webrtc' = NoSession,
             \/ UNCHANGED pending
             \/ pending' = Append(pending, Do("disconnect", webrtc.peer))
      PROVE  Credit'
  <2>1. Do("disconnect", webrtc.peer) \in Actions /\ ~Called(Do("disconnect", webrtc.peer))
    BY DoIsAction DEF Deeds, Called, TrustInv, SessionTrusted, RelayTrusted
  <2>2. Waiting' = Waiting
    BY <1>1, <1>3, <1>6, <2>1, LessWaiting
  <2> QED
    BY <1>2, <1>6, <2>2, NothingSpent
<1>7. CASE /\ do = "offer" \/ do = "answer"
           /\ RemoteDescription(p, IF do = "offer" THEN "viewer" ELSE "host")
           /\ UNCHANGED <<pending, dialog, sessions>>
  <2>1. webrtc'.id = webrtc.id
    BY <1>7 DEF RemoteDescription, TrustInv, SessionTrusted
  <2> QED
    BY <1>6, <1>7, <2>1
<1>8. CASE do = "disconnect" /\ DisconnectSession /\ UNCHANGED dialog
  <2>1. \/ UNCHANGED pending
        \/ pending' = Append(pending, Do("disconnect", webrtc.peer))
    BY <1>8, Closed DEF DisconnectSession
  <2> QED
    BY <1>6, <1>8, <2>1 DEF DisconnectSession
<1>9. CASE do \in {"refused", "lost", "host", "viewer"}
           /\ UNCHANGED <<pending, dialog, webrtc, sessions>>
  BY <1>6, <1>9
<1> QED
  BY <1>2, <1>4, <1>5, <1>7, <1>8, <1>9 DEF Handle, objects

\* drainPendingActions() takes the queue when nothing of the last is left.
BatchRun == ui \in {"wait", "messages"} => batch = <<>>

LEMMA BatchInductive == BatchRun /\ [Next]_vars => BatchRun'
<1> SUFFICES ASSUME BatchRun, [Next]_vars PROVE BatchRun'
  OBVIOUS
<1> USE DEF BatchRun
<1>1. CASE Arrives \/ LinkUp \/ LinkDown \/ SendFrame
  BY <1>1 DEF Arrives, RequestArrives, AcceptArrives, RefusalArrives, OfferArrives,
     AnswerArrives, Receive, SignalingLost, SignalingBack, LinkUp, LinkDown, SendFrame
<1>2. CASE User
  BY <1>2 DEF User, Connect, Cancel, Accept, Reject, Escape, Quit, Event
<1>3. CASE Loop
  BY <1>3 DEF Loop, Drain, RunAction, Update
<1>4. CASE Shutdown
  BY <1>4 DEF Shutdown, JoinReconnect, CloseSession, StopSessions, ReleaseSignaling
<1>5. CASE UNCHANGED vars
  BY <1>5 DEF vars
<1> QED
  BY <1>1, <1>2, <1>3, <1>4, <1>5 DEF Next

LEMMA DrainQueue == ASSUME TrustInv, BatchRun, Drain PROVE Queue' = Queue
<1>1. batch = <<>> /\ batch' = pending /\ pending' = <<>>
  BY DEF Drain, BatchRun
<1> QED
  BY <1>1, QueueTypes, QueueHandedOver DEF Queue

LEMMA LoopCredit == ASSUME TrustInv, AppTypes, Credit, BatchRun, Loop PROVE Credit'
<1>1. CASE Drain
  <2>1. Waiting' = Waiting
    BY <1>1, DrainQueue DEF Waiting, Calls
  <2> QED
    BY <1>1, <2>1, NothingSpent DEF Drain, window, objects, relay, counters
<1>2. CASE Update
  <2>1. Waiting' = Waiting
    BY <1>2 DEF Update, Waiting, Queue, Calls
  <2> QED
    BY <1>2, <2>1, NothingSpent DEF Update, objects, relay, counters
<1> QED
  BY <1>1, <1>2, RunCredit DEF Loop

\* The queue after close(), which may add to it.
LEMMA CloseCredit ==
    ASSUME TrustInv, AppTypes, Credit, NEW reports \in BOOLEAN, Close(reports),
           webrtc' = NoSession,
           UNCHANGED <<batch, dialog, sessions, asked, asks, requests>>
    PROVE  Credit'
<1>1. Do("disconnect", webrtc.peer) \in Actions /\ ~Called(Do("disconnect", webrtc.peer))
  BY DoIsAction DEF Deeds, Called, TrustInv, SessionTrusted, RelayTrusted
<1>2. CASE pending' = Append(pending, Do("disconnect", webrtc.peer))
  BY <1>1, <1>2, QueueGrows, MoreWaiting, NothingSpent
<1>3. CASE UNCHANGED pending
  <2>1. Waiting' = Waiting
    BY <1>3 DEF Waiting, Queue, Calls
  <2> QED
    BY <2>1, NothingSpent
<1> QED
  BY <1>2, <1>3, Closed

LEMMA UserCredit == ASSUME TrustInv, AppTypes, Credit, User PROVE Credit'
<1>1. ASSUME UNCHANGED <<pending, batch>> PROVE Waiting' = Waiting
  BY <1>1 DEF Waiting, Queue, Calls
<1>2. ASSUME NEW p \in Peers, Connect(p) PROVE Credit'
  <2>1. Waiting' = Waiting /\ UNCHANGED <<dialog, sessions, requests, webrtc>>
        /\ asks' = asks + 1 /\ asked' = asked \cup {p}
    BY <1>1, <1>2 DEF Connect, Event, objects
  <2>2. IsFiniteSet(asked') /\ Cardinality(asked') <= Cardinality(asked) + 1
    <3>1. IsFiniteSet(asked) /\ Cardinality(asked) \in Nat
      BY Amounts DEF Credit
    <3> QED
      BY <2>1, <3>1, FS_AddElement
  <2>3. Cardinality(asked') \in Nat /\ Owed' = Owed
    BY <2>1, <2>2, FS_CardinalityType DEF Owed
  <2> QED
    BY <2>1, <2>2, <2>3, Amounts DEF Credit
<1>3. CASE Accept
  <2>1. Waiting' = Waiting /\ UNCHANGED <<asked, asks, requests>>
    BY <1>1, <1>3 DEF Accept, Event
  <2>2. Owed = 1 /\ Owed' = 0
    BY <1>3 DEF Accept, Owed
  <2>3. \/ sessions' = sessions + 1 /\ webrtc'.id = sessions + 1
        \/ UNCHANGED <<sessions, webrtc>>
    BY <1>3 DEF Accept, StartAsHost, NewSession
  <2> QED
    BY <2>1, <2>2, <2>3, Amounts DEF Credit
<1>4. CASE Reject
  <2>1. Waiting' = Waiting /\ UNCHANGED <<sessions, webrtc, asked, asks, requests>>
    BY <1>1, <1>4 DEF Reject, Event, objects, relay, counters
  <2>2. Owed = 1 /\ Owed' = 0
    BY <1>4 DEF Reject, Owed
  <2> QED
    BY <2>1, <2>2, Amounts DEF Credit
<1>5. CASE Escape /\ DisconnectSession
  BY <1>5, CloseCredit DEF Escape, Event, DisconnectSession, relay
<1>6. CASE Escape /\ UNCHANGED <<pending, objects, sessions>>
  BY <1>1, <1>6, NothingSpent DEF Escape, Event, objects, relay
<1>7. CASE Cancel \/ Quit
  BY <1>1, <1>7, NothingSpent DEF Cancel, Quit, Event, window, objects, relay, counters
<1> QED
  BY <1>2, <1>3, <1>4, <1>5, <1>6, <1>7 DEF User, Escape

LEMMA ShutdownCredit == ASSUME TrustInv, AppTypes, Credit, Shutdown PROVE Credit'
<1>1. CASE CloseSession
  BY <1>1, CloseCredit DEF CloseSession, window, relay, counters
<1>2. CASE JoinReconnect \/ StopSessions \/ ReleaseSignaling
  <2>1. UNCHANGED <<pending, batch, webrtc, dialog, sessions, asked, asks, requests>>
    BY <1>2 DEF JoinReconnect, StopSessions, ReleaseSignaling, window, objects, relay, counters
  <2>2. Waiting' = Waiting
    BY <2>1 DEF Waiting, Queue, Calls
  <2> QED
    BY <2>1, <2>2, NothingSpent
<1> QED
  BY <1>1, <1>2 DEF Shutdown

LEMMA CreditInductive ==
    TrustInv /\ AppTypes /\ BatchRun /\ Credit /\ [Next]_vars => Credit'
<1> SUFFICES ASSUME TrustInv, AppTypes, BatchRun, Credit, [Next]_vars PROVE Credit'
  OBVIOUS
<1>1. CASE UNCHANGED vars
  <2>1. UNCHANGED <<pending, batch, webrtc, dialog, sessions, asked, asks, requests>>
    BY <1>1 DEF vars, window, objects, relay, counters
  <2>2. Waiting' = Waiting
    BY <2>1 DEF Waiting, Queue, Calls
  <2> QED
    BY <2>1, <2>2, NothingSpent
<1> QED
  BY <1>1, ArrivesCredit, LibraryCredit, UserCredit, LoopCredit, ShutdownCredit DEF Next

---------------------------------------------------------------------------
(* The first session.  While there is only one, the queue holds at most    *)
(* one action that opens its screen, which comes before every action that  *)
(* ends it; the screen is shown only after the first has run.              *)

Opening(a) == a.do \in {"host", "viewer"}
Ending(a) == a.do = "disconnect"

Opens(q) == \E i \in 1..Len(q) : Opening(q[i])
Ends(q) == \E i \in 1..Len(q) : Ending(q[i])
Named(q, role) == \A i \in 1..Len(q) : Opening(q[i]) => q[i].do = role
Orderly(q) ==
    \A i, j \in 1..Len(q) :
        /\ Opening(q[i]) /\ Opening(q[j]) => i = j
        /\ Opening(q[i]) /\ Ending(q[j]) => i < j

SessionStates == {"SESSION_HOST", "SESSION_VIEWER"}
LinkSeen == {"up", "disconnected", "failed"}

ScreenBacked ==
    /\ Orderly(Queue) /\ Named(Queue, webrtc.role)
    /\ Ends(Queue) => sessions = 1 /\ webrtc.link \in {"none", "disconnected", "failed"}
    /\ Opens(Queue) => webrtc.link \in LinkSeen /\ state \notin SessionStates
    /\ state = "SESSION_HOST" => webrtc.role = "host" /\ webrtc.link \in LinkSeen
    /\ state = "SESSION_VIEWER" =>
           webrtc.role = "viewer" /\ webrtc.link \in LinkSeen /\ input
    /\ webrtc.role = "host" => host # "none"
    /\ webrtc.role = "viewer" => viewer # "none"
    /\ webrtc # NoSession => sessions = 1

Running == ui \in {"wait", "messages", "drain"}

FirstInv == sessions <= 1 /\ Running => ScreenBacked

LEMMA Added ==
    ASSUME NEW q \in Seq(Actions), NEW a \in Actions
    PROVE  /\ Opens(Append(q, a)) <=> Opens(q) \/ Opening(a)
           /\ Ends(Append(q, a)) <=> Ends(q) \/ Ending(a)
           /\ \A r : Named(q, r) /\ (Opening(a) => a.do = r) => Named(Append(q, a), r)
           /\ Orderly(q) /\ (Opening(a) => ~Opens(q) /\ ~Ends(q)) => Orderly(Append(q, a))
<1> DEFINE n == Len(q) + 1
           t == Append(q, a)
<1>1. /\ n \in 1..n /\ Len(t) = n /\ t[n] = a
      /\ \A i \in 1..Len(q) : i \in 1..n /\ i # n /\ i < n /\ t[i] = q[i]
      /\ \A i \in 1..n : i = n \/ i \in 1..Len(q)
  OBVIOUS
<1> HIDE DEF n, t
<1>2. (Opens(t) <=> Opens(q) \/ Opening(a)) /\ (Ends(t) <=> Ends(q) \/ Ending(a))
  BY <1>1, Zenon DEF Opens, Ends
<1>3. ASSUME NEW r, Named(q, r), Opening(a) => a.do = r PROVE Named(t, r)
  BY <1>1, <1>3 DEF Named
<1>4. ASSUME Orderly(q), Opening(a) => ~Opens(q) /\ ~Ends(q) PROVE Orderly(t)
  <2> SUFFICES ASSUME NEW i \in 1..n, NEW j \in 1..n
               PROVE  /\ Opening(t[i]) /\ Opening(t[j]) => i = j
                      /\ Opening(t[i]) /\ Ending(t[j]) => i < j
    BY <1>1 DEF Orderly
  <2>1. ~(Opening(a) /\ Ending(a))
    BY DEF Opening, Ending
  <2>2. CASE i \in 1..Len(q) /\ j \in 1..Len(q)
    BY <1>1, <1>4, <2>2 DEF Orderly
  <2>3. CASE i \in 1..Len(q) /\ j = n
    BY <1>1, <1>4, <2>3, Zenon DEF Opens
  <2>4. CASE i = n /\ j \in 1..Len(q)
    BY <1>1, <1>4, <2>4, Zenon DEF Opens, Ends
  <2>5. CASE i = n /\ j = n
    BY <1>1, <2>1, <2>5, Zenon
  <2> QED
    BY <1>1, <2>2, <2>3, <2>4, <2>5
<1> QED
  BY <1>2, <1>3, <1>4 DEF t

LEMMA Shorter ==
    ASSUME NEW q \in Seq(Actions), q # <<>>
    PROVE  /\ Tail(q) \in Seq(Actions)
           /\ Opens(Tail(q)) => Opens(q)
           /\ Ends(Tail(q)) => Ends(q)
           /\ \A r : Named(q, r) => Named(Tail(q), r)
           /\ Orderly(q) => Orderly(Tail(q))
           /\ Opening(Head(q)) => Opens(q)
           /\ Ending(Head(q)) => Ends(q)
           /\ \A r : Named(q, r) /\ Opening(Head(q)) => Head(q).do = r
           /\ Orderly(q) /\ (Opening(Head(q)) \/ Ending(Head(q))) => ~Opens(Tail(q))
<1> DEFINE t == Tail(q)
<1>1. /\ t \in Seq(Actions) /\ 1 \in 1..Len(q) /\ Head(q) = q[1]
      /\ \A i \in 1..Len(t) : /\ i + 1 \in 1..Len(q) /\ i + 1 # 1 /\ ~(i + 1 < 1)
                              /\ t[i] = q[i + 1]
      /\ \A i, j \in 1..Len(t) : /\ i + 1 = j + 1 => i = j
                                 /\ i + 1 < j + 1 => i < j
  OBVIOUS
<1> HIDE DEF t
<1>2. /\ Opens(t) => Opens(q)
      /\ Ends(t) => Ends(q)
      /\ Opening(Head(q)) => Opens(q)
      /\ Ending(Head(q)) => Ends(q)
  BY <1>1, Zenon DEF Opens, Ends
<1>3. ASSUME NEW r, Named(q, r)
      PROVE  Named(t, r) /\ (Opening(Head(q)) => Head(q).do = r)
  BY <1>1, <1>3 DEF Named
<1>4. Orderly(q) => Orderly(t)
  BY <1>1 DEF Orderly
<1>5. ASSUME Orderly(q), Opening(Head(q)) \/ Ending(Head(q)) PROVE ~Opens(t)
  <2> SUFFICES ASSUME NEW i \in 1..Len(t), Opening(t[i]) PROVE FALSE
    BY DEF Opens
  <2>1. PICK k \in 1..Len(q) : Opening(q[k]) /\ k # 1 /\ ~(k < 1)
    BY <1>1
  <2>2. CASE Opening(q[1])
    BY <1>1, <1>5, <2>1, <2>2 DEF Orderly
  <2>3. CASE Ending(q[1])
    BY <1>1, <1>5, <2>1, <2>3 DEF Orderly
  <2> QED
    BY <1>1, <1>5, <2>2, <2>3
<1> QED
  BY <1>1, <1>2, <1>3, <1>4, <1>5 DEF t

\* A step that neither opens nor ends a session: what it queues is neither, and it
\* leads to no screen of a session.
LEMMA StaysBacked ==
    ASSUME TrustInv, ScreenBacked,
           \/ Queue' = Queue
           \/ Queue # <<>> /\ Queue' = Tail(Queue)
           \/ \E a \in Actions : ~Opening(a) /\ ~Ending(a) /\ Queue' = Append(Queue, a),
           UNCHANGED <<webrtc, sessions, input>>,
           state' = state \/ state' \notin SessionStates,
           host' = host \/ host' # "none", viewer' = viewer \/ viewer' # "none"
    PROVE  ScreenBacked'
<1>1. \E q \in Seq(Actions) : Queue' = q /\ Orderly(q) /\ Named(q, webrtc.role)
          /\ (Opens(q) => Opens(Queue)) /\ (Ends(q) => Ends(Queue))
  <2>1. CASE Queue' = Queue
    BY <2>1, QueueTypes DEF ScreenBacked
  <2>2. CASE Queue # <<>> /\ Queue' = Tail(Queue)
    BY <2>2, QueueTypes, Shorter DEF ScreenBacked
  <2>3. ASSUME NEW a \in Actions, ~Opening(a), ~Ending(a), Queue' = Append(Queue, a)
        PROVE  /\ Append(Queue, a) \in Seq(Actions) /\ Orderly(Append(Queue, a))
               /\ Named(Append(Queue, a), webrtc.role)
               /\ Opens(Append(Queue, a)) => Opens(Queue)
               /\ Ends(Append(Queue, a)) => Ends(Queue)
    BY <2>3, QueueTypes, Added DEF ScreenBacked
  <2> QED
    BY <2>1, <2>2, <2>3
<1>2. Orderly(Queue)' /\ Named(Queue, webrtc.role)'
      /\ (Opens(Queue)' => Opens(Queue)) /\ (Ends(Queue)' => Ends(Queue))
  BY <1>1 DEF Orderly, Named, Opens, Ends
<1> QED
  BY <1>2 DEF ScreenBacked, SessionStates

LEMMA ShutBacked ==
    ASSUME NEW q \in Seq(Actions), ~Opens(q) PROVE Orderly(q) /\ \A r : Named(q, r)
BY DEF Opens, Orderly, Named

\* The first session starts.
LEMMA NewBacked ==
    ASSUME TrustInv, ScreenBacked, NEW role \in {"host", "viewer"}, NEW p,
           NewSession(role, p), sessions' <= 1,
           Queue' = Queue \/ (Queue # <<>> /\ Queue' = Tail(Queue)),
           state' = state,
           role = "host" => host' # "none", role = "viewer" => viewer' # "none"
    PROVE  ScreenBacked'
<1>1. sessions = 0 /\ sessions' = 1
  BY DEF NewSession, TrustInv
<1>2. webrtc = NoSession
  BY <1>1 DEF ScreenBacked
<1>3. ~Opens(Queue) /\ ~Ends(Queue) /\ state \notin SessionStates
  BY <1>1, <1>2 DEF ScreenBacked, NoSession, LinkSeen, SessionStates
<1>4. \E q \in Seq(Actions) : Queue' = q /\ ~Opens(q) /\ ~Ends(q)
  BY <1>3, QueueTypes, Shorter
<1>5. /\ Orderly(Queue)' /\ Named(Queue, webrtc.role)'
      /\ ~Opens(Queue)' /\ ~Ends(Queue)'
  BY <1>4, ShutBacked DEF Orderly, Named, Opens, Ends
<1>6. webrtc'.role = role
  BY DEF NewSession
<1> QED
  BY <1>1, <1>3, <1>5, <1>6 DEF ScreenBacked, SessionStates

\* A session ends when nothing that opens its screen is queued any more.
LEMMA EndBacked ==
    ASSUME TrustInv, ScreenBacked, NEW q \in Seq(Actions), ~Opens(q),
           Ends(q) => Ends(Queue),
           \/ Queue' = q
           \/ webrtc # NoSession /\ \E a \in Actions : ~Opening(a) /\ Queue' = Append(q, a),
           webrtc' = NoSession, UNCHANGED sessions, state' \notin SessionStates
    PROVE  ScreenBacked'
<1>1. \E t \in Seq(Actions) : Queue' = t /\ ~Opens(t) /\ (Ends(t) => sessions = 1)
  <2>1. CASE Queue' = q
    BY <2>1 DEF ScreenBacked
  <2>2. ASSUME webrtc # NoSession, NEW a \in Actions, ~Opening(a), Queue' = Append(q, a)
        PROVE  ~Opens(Append(q, a)) /\ sessions = 1 /\ Append(q, a) \in Seq(Actions)
    BY <2>2, Added DEF ScreenBacked
  <2> QED
    BY <2>1, <2>2
<1>2. /\ Orderly(Queue)' /\ Named(Queue, webrtc.role)'
      /\ ~Opens(Queue)' /\ (Ends(Queue)' => sessions = 1)
  BY <1>1, ShutBacked DEF Orderly, Named, Opens, Ends
<1>3. webrtc'.link = "none" /\ webrtc'.role = "none"
  BY DEF NoSession
<1> QED
  BY <1>2, <1>3 DEF ScreenBacked, SessionStates

LEMMA LibraryBacked ==
    ASSUME TrustInv, ScreenBacked, LinkUp \/ LinkDown \/ SendFrame PROVE ScreenBacked'
<1>1. webrtc.peer \in Peers \cup {NoPeer} /\ Queue \in Seq(Actions)
  BY QueueTypes DEF TrustInv, SessionTrusted, RelayTrusted
<1>2. CASE LinkUp
  <2>1. webrtc.role \in {"host", "viewer"} /\ webrtc.link = "checking"
    BY <1>2 DEF LinkUp, TrustInv, SessionTrusted
  <2> DEFINE a == Do(webrtc.role, webrtc.peer)
  <2>2. a \in Actions /\ a.do = webrtc.role /\ Opening(a)
    BY <1>1, <2>1, DoIsAction DEF Deeds, Opening
  <2>3. Queue' = Append(Queue, a)
    BY <1>2, <2>2, Pushed, QueueGrows DEF LinkUp
  <2>4. ~Opens(Queue) /\ ~Ends(Queue) /\ state \notin SessionStates
    BY <2>1 DEF ScreenBacked, LinkSeen, SessionStates
  <2>5. ~Ending(a)
    BY <2>1, <2>2 DEF Ending
  <2> HIDE DEF a
  <2>6. Orderly(Append(Queue, a)) /\ Named(Append(Queue, a), webrtc.role)
        /\ ~Ends(Append(Queue, a))
    BY <1>1, <2>2, <2>4, <2>5, Added DEF ScreenBacked
  <2>7. webrtc' = [webrtc EXCEPT !.link = "up"]
        /\ UNCHANGED <<state, sessions, host, viewer, input>>
    BY <1>2 DEF LinkUp, window, counters
  <2>8. webrtc'.link = "up" /\ webrtc'.role = webrtc.role
    BY <2>7 DEF TrustInv, SessionTrusted
  <2>9. webrtc # NoSession
    BY <2>1 DEF NoSession
  <2>10. Orderly(Queue)' /\ Named(Queue, webrtc.role)' /\ ~Ends(Queue)'
    BY <2>3, <2>6, <2>8 DEF Orderly, Named, Ends
  <2> QED
    BY <2>4, <2>7, <2>8, <2>9, <2>10 DEF ScreenBacked, LinkSeen, SessionStates
<1>3. CASE LinkDown
  <2> DEFINE a == Do("disconnect", webrtc.peer)
  <2>1. a \in Actions /\ Ending(a) /\ ~Opening(a)
    BY <1>1, DoIsAction DEF Deeds, Opening, Ending
  <2>2. Queue' = Append(Queue, a)
    BY <1>3, <2>1, Pushed, QueueGrows DEF LinkDown
  <2> HIDE DEF a
  <2>3. /\ Orderly(Append(Queue, a)) /\ Named(Append(Queue, a), webrtc.role)
        /\ Opens(Append(Queue, a)) => Opens(Queue)
    BY <1>1, <2>1, Added DEF ScreenBacked
  <2>4. PICK next \in {"disconnected", "failed"} : webrtc' = [webrtc EXCEPT !.link = next]
    BY <1>3 DEF LinkDown
  <2>5. webrtc'.link \in {"disconnected", "failed"} /\ webrtc'.role = webrtc.role
    BY <2>4 DEF TrustInv, SessionTrusted
  <2>6. webrtc # NoSession /\ UNCHANGED <<state, sessions, host, viewer, input>>
    BY <1>3 DEF LinkDown, window, counters, NoSession
  <2>7. Orderly(Queue)' /\ Named(Queue, webrtc.role)' /\ (Opens(Queue)' => Opens(Queue))
    BY <2>2, <2>3, <2>5 DEF Orderly, Named, Opens
  <2> QED
    BY <2>5, <2>6, <2>7 DEF ScreenBacked, LinkSeen
<1>4. CASE SendFrame
  <2>1. Queue' = Queue
    BY <1>4 DEF SendFrame, Queue
  <2> QED
    BY <1>4, <2>1, StaysBacked DEF SendFrame, window, objects, counters
<1> QED
  BY <1>2, <1>3, <1>4

LEMMA ArrivesBacked == ASSUME TrustInv, ScreenBacked, Arrives PROVE ScreenBacked'
<1>1. UNCHANGED <<webrtc, sessions, input, state, host, viewer>>
  BY DEF Arrives, RequestArrives, AcceptArrives, RefusalArrives, OfferArrives,
     AnswerArrives, Receive, SignalingLost, SignalingBack, window, objects, counters
<1>2. CASE SignalingBack
  <2>1. Queue' = Queue
    BY <1>2 DEF SignalingBack, Queue
  <2> QED
    BY <1>1, <2>1, StaysBacked
<1>3. CASE ~SignalingBack
  <2>1. PICK what \in {"request", "accepted", "refused", "offer", "answer", "lost"},
             p \in Peers \cup {NoPeer} :
            Push(Do(what, p)) /\ UNCHANGED batch
    BY <1>3 DEF Arrives, RequestArrives, AcceptArrives, RefusalArrives, OfferArrives,
       AnswerArrives, Receive, SignalingLost
  <2>2. /\ Do(what, p) \in Actions /\ ~Opening(Do(what, p)) /\ ~Ending(Do(what, p))
    BY DoIsAction DEF Deeds, Opening, Ending
  <2>3. Queue' = Append(Queue, Do(what, p))
    BY <2>1, <2>2, Pushed, QueueGrows
  <2> QED
    BY <1>1, <2>2, <2>3, StaysBacked
<1> QED
  BY <1>2, <1>3

\* A description starts the checks of a session that has reported nothing yet.
LEMMA DescriptionBacked ==
    ASSUME TrustInv, ScreenBacked, NEW role, NEW p, RemoteDescription(p, role),
           Queue # <<>>, Queue' = Tail(Queue),
           UNCHANGED <<state, sessions, host, viewer, input>>
    PROVE  ScreenBacked'
<1>1. CASE webrtc' = webrtc
  BY <1>1, StaysBacked
<1>2. CASE webrtc.link = "new" /\ webrtc' = [webrtc EXCEPT !.link = "checking", !.remote = p]
  <2>1. webrtc'.link = "checking" /\ webrtc'.role = webrtc.role /\ webrtc # NoSession
    BY <1>2 DEF TrustInv, SessionTrusted, NoSession
  <2>2. ~Opens(Queue) /\ ~Ends(Queue) /\ state \notin SessionStates
    BY <1>2 DEF ScreenBacked, LinkSeen, SessionStates
  <2>3. ~Opens(Tail(Queue)) /\ ~Ends(Tail(Queue)) /\ Tail(Queue) \in Seq(Actions)
    BY <2>2, QueueTypes, Shorter
  <2>4. Orderly(Queue)' /\ Named(Queue, webrtc.role)' /\ ~Opens(Queue)' /\ ~Ends(Queue)'
    BY <2>3, ShutBacked DEF Orderly, Named, Opens, Ends
  <2> QED
    BY <2>1, <2>2, <2>4 DEF ScreenBacked, SessionStates
<1> QED
  BY <1>1, <1>2 DEF RemoteDescription

LEMMA RunBacked ==
    ASSUME TrustInv, ScreenBacked, RunAction, sessions' <= 1 PROVE ScreenBacked'
<1> DEFINE do == Head(batch).do
           p == Head(batch).peer
<1>1. /\ Queue # <<>> /\ Head(Queue) = Head(batch) /\ Head(batch) \in Actions
      /\ UNCHANGED pending => Queue' = Tail(Queue)
      /\ \A a \in Actions : pending' = Append(pending, a) =>
             Queue' = Append(Tail(Queue), a)
  BY QueueShrinks DEF RunAction
<1>2. Handle(do, p)
  BY DEF RunAction
<1>3. (Opening(Head(Queue)) <=> do \in {"host", "viewer"})
      /\ (Ending(Head(Queue)) <=> do = "disconnect") /\ do = Head(Queue).do
  BY <1>1 DEF Opening, Ending
<1> HIDE DEF do, p
<1>4. /\ Tail(Queue) \in Seq(Actions)
      /\ Ends(Tail(Queue)) => Ends(Queue)
      /\ do \in {"host", "viewer", "disconnect"} => ~Opens(Tail(Queue))
      /\ do \in {"host", "viewer"} => Opens(Queue) /\ do = webrtc.role
      /\ Named(Tail(Queue), webrtc.role) /\ Orderly(Tail(Queue))
  BY <1>1, <1>3, QueueTypes, Shorter DEF ScreenBacked
<1>5. CASE UNCHANGED <<pending, webrtc, sessions, input, host, viewer>>
           /\ (state' = state \/ state' \notin SessionStates)
  BY <1>1, <1>5, StaysBacked
<1>6. CASE do = "accepted" /\ StartViewer(p) /\ UNCHANGED <<pending, host, input>>
  <2>1. CASE viewer' = "running" /\ StartAsViewer(p) /\ UNCHANGED state
    BY <1>1, <1>6, <2>1, NewBacked DEF StartAsViewer
  <2>2. CASE viewer' = "failed" /\ state' = "DASHBOARD" /\ UNCHANGED <<webrtc, sessions>>
    BY <1>1, <1>6, <2>2, StaysBacked DEF SessionStates
  <2> QED
    BY <1>6, <2>1, <2>2 DEF StartViewer
<1>7. CASE \E role : /\ RemoteDescription(p, role)
                     /\ UNCHANGED <<pending, state, sessions, host, viewer, input>>
  BY <1>1, <1>7, DescriptionBacked
<1>8. CASE /\ do \in {"host", "viewer"} /\ UNCHANGED <<pending, webrtc, sessions, host, viewer>>
           /\ state' = (IF do = "host" THEN "SESSION_HOST" ELSE "SESSION_VIEWER")
           /\ do = "viewer" => input'
  <2>1. webrtc.role = do /\ webrtc.link \in LinkSeen /\ ~Opens(Tail(Queue))
    BY <1>4, <1>8 DEF ScreenBacked
  <2>2. Orderly(Queue)' /\ Named(Queue, webrtc.role)' /\ ~Opens(Queue)'
        /\ (Ends(Queue)' => Ends(Queue))
    BY <1>1, <1>4, <1>8, <2>1 DEF Orderly, Named, Opens, Ends
  <2> QED
    BY <1>8, <2>1, <2>2 DEF ScreenBacked
<1>9. CASE do = "disconnect" /\ DisconnectSession
  <2>1. webrtc' = NoSession /\ sessions' = sessions /\ state' \notin SessionStates
    BY <1>9 DEF DisconnectSession, SessionStates
  <2>2. Do("disconnect", webrtc.peer) \in Actions /\ ~Opening(Do("disconnect", webrtc.peer))
    BY DoIsAction DEF Deeds, Opening, TrustInv, SessionTrusted, RelayTrusted
  <2>3. \/ Queue' = Tail(Queue)
        \/ webrtc # NoSession /\ Queue' = Append(Tail(Queue), Do("disconnect", webrtc.peer))
    BY <1>1, <1>9, <2>2, Closed DEF DisconnectSession
  <2> QED
    BY <1>4, <1>9, <2>1, <2>2, <2>3, EndBacked
<1> QED
  BY <1>2, <1>5, <1>6, <1>7, <1>8, <1>9 DEF Handle, objects, SessionStates

LEMMA LoopBacked ==
    ASSUME TrustInv, BatchRun, ScreenBacked, Loop, sessions' <= 1 PROVE ScreenBacked'
<1>1. CASE Drain
  BY <1>1, DrainQueue, StaysBacked DEF Drain, window, objects, counters
<1>2. CASE Update
  <2>1. Queue' = Queue
    BY <1>2 DEF Update, Queue
  <2>2. UNCHANGED <<webrtc, sessions, input, host, viewer>>
        /\ (state' = state \/ state' \notin SessionStates)
    BY <1>2 DEF Update, objects, counters, SessionStates
  <2> QED
    BY <2>1, <2>2, StaysBacked
<1> QED
  BY <1>1, <1>2, RunBacked DEF Loop

LEMMA UserBacked ==
    ASSUME TrustInv, ScreenBacked, User, sessions' <= 1 PROVE ScreenBacked'
<1>1. ASSUME UNCHANGED <<pending, batch>> PROVE Queue' = Queue
  BY <1>1 DEF Queue
<1>2. ASSUME NEW p \in Peers, Connect(p) PROVE ScreenBacked'
  BY <1>1, <1>2, StaysBacked DEF Connect, Event, objects, SessionStates
<1>3. CASE Cancel \/ Reject \/ Quit
  BY <1>1, <1>3, StaysBacked DEF Cancel, Reject, Quit, Event, window, objects, counters,
     SessionStates
<1>4. CASE Accept
  <2>1. Queue' = Queue /\ UNCHANGED <<state, viewer, input>>
    BY <1>1, <1>4 DEF Accept, Event
  <2>2. CASE host' = "running" /\ StartAsHost(from)
    BY <2>1, <2>2, NewBacked DEF StartAsHost
  <2>3. CASE host' = "failed" /\ UNCHANGED <<webrtc, sessions>>
    BY <2>1, <2>3, StaysBacked
  <2> QED
    BY <1>4, <2>2, <2>3 DEF Accept
<1>5. CASE Escape /\ UNCHANGED <<pending, state, objects, sessions>>
  BY <1>1, <1>5, StaysBacked DEF Escape, Event, objects
<1>6. CASE Escape /\ DisconnectSession /\ state \in SessionStates
  <2>1. webrtc' = NoSession /\ sessions' = sessions /\ state' \notin SessionStates
        /\ batch' = batch
    BY <1>6 DEF Escape, Event, DisconnectSession, SessionStates
  <2>2. Do("disconnect", webrtc.peer) \in Actions /\ ~Opening(Do("disconnect", webrtc.peer))
    BY DoIsAction DEF Deeds, Opening, TrustInv, SessionTrusted, RelayTrusted
  <2>3. \/ Queue' = Queue
        \/ webrtc # NoSession /\ Queue' = Append(Queue, Do("disconnect", webrtc.peer))
    BY <1>1, <1>6, <2>1, <2>2, Closed, QueueGrows DEF DisconnectSession
  <2>4. ~Opens(Queue)
    BY <1>6 DEF ScreenBacked
  <2> QED
    BY <2>1, <2>2, <2>3, <2>4, QueueTypes, EndBacked
<1> QED
  BY <1>2, <1>3, <1>4, <1>5, <1>6 DEF User, Escape, SessionStates

LEMMA FirstInductive == TrustInv /\ BatchRun /\ FirstInv /\ [Next]_vars => FirstInv'
<1> SUFFICES ASSUME TrustInv, BatchRun, FirstInv, [Next]_vars, sessions' <= 1, Running'
             PROVE  ScreenBacked'
  BY DEF FirstInv
<1>1. ~Shutdown
  BY DEF Shutdown, JoinReconnect, CloseSession, StopSessions, ReleaseSignaling, Running
<1>2. Running
  BY <1>1 DEF Next, Running, Arrives, RequestArrives, AcceptArrives, RefusalArrives,
     OfferArrives, AnswerArrives, Receive, SignalingLost, SignalingBack, LinkUp, LinkDown,
     SendFrame, User, Connect, Cancel, Accept, Reject, Escape, Quit, Event, Loop, Drain,
     RunAction, Update, vars
<1>3. sessions' = sessions \/ sessions' = sessions + 1
  BY <1>1 DEF Next, Arrives, RequestArrives, AcceptArrives, RefusalArrives,
     OfferArrives, AnswerArrives, Receive, SignalingLost, SignalingBack, LinkUp, LinkDown,
     SendFrame, User, Connect, Cancel, Accept, Reject, Escape, Quit, Event, Loop, Drain,
     RunAction, Handle, StartViewer, StartAsViewer, StartAsHost, NewSession,
     DisconnectSession, Update, vars, counters, objects
<1>4. sessions <= 1
  BY <1>3 DEF TrustInv
<1>5. ScreenBacked
  BY <1>2, <1>4 DEF FirstInv
<1>6. CASE UNCHANGED vars
  <2>1. Queue' = Queue
    BY <1>6 DEF vars, Queue
  <2> QED
    BY <1>5, <1>6, <2>1, StaysBacked DEF vars, window, objects, counters
<1> QED
  BY <1>1, <1>5, <1>6, ArrivesBacked, LibraryBacked, UserBacked, LoopBacked DEF Next

LEMMA InitFirst == Init => FirstInv /\ BatchRun
<1> SUFFICES ASSUME Init PROVE ScreenBacked /\ BatchRun
  BY DEF FirstInv
<1>1. Queue = <<>>
  BY DEF Init, Queue
<1>2. Orderly(Queue) /\ Named(Queue, webrtc.role) /\ ~Opens(Queue) /\ ~Ends(Queue)
  BY <1>1 DEF Orderly, Named, Opens, Ends
<1> QED
  BY <1>2 DEF Init, ScreenBacked, BatchRun, NoSession, SessionStates

SessionInv == TrustInv /\ ShutdownInv /\ AppTypes /\ BatchRun /\ Credit /\ FirstInv

LEMMA SessionInvariant == Spec => []SessionInv
<1>1. Init => SessionInv
  BY InitTrusted, InitShutdown, InitTypes, InitCredit, InitFirst DEF SessionInv
<1>2. SessionInv /\ [Next]_vars => SessionInv'
  BY TrustInductive, ShutdownInductive, TypesInductive, BatchInductive, CreditInductive,
     FirstInductive DEF SessionInv
<1> QED
  BY <1>1, <1>2, PTL DEF Spec

\* Types, and how many sessions there can be: the queue, the dialog and the relay
\* never hold more calls than the clicks and requests that made them.
THEOREM AppTypeCorrect == Spec => []TypeOK
<1>1. ASSUME SessionInv PROVE TypeOK
  <2>1. TrustInv /\ ShutdownInv /\ AppTypes /\ Credit
    BY <1>1 DEF SessionInv
  <2>2. /\ sessions \in Nat /\ Owed \in 0..1 /\ Waiting \in Nat
        /\ Cardinality(asked) \in Nat /\ asks \in 0..MaxAsks /\ requests \in 0..MaxRequests
        /\ webrtc.id \in Nat
    BY <2>1, Amounts DEF AppTypes
  <2>3. sessions \in 0..(MaxAsks + MaxRequests) /\ webrtc.id \in 0..(MaxAsks + MaxRequests)
    <3>1. sessions + Owed + Waiting + Cardinality(asked) <= asks + requests
          /\ webrtc.id <= sessions
      BY <2>1 DEF Credit
    <3> QED
      BY <2>2, <3>1, AppAssumption
  <2>4. webrtc \in [id : 0..(MaxAsks + MaxRequests),
                   role : {"none", "host", "viewer"},
                   peer : Peers \cup {NoPeer}, remote : Peers \cup {NoPeer},
                   link : {"none", "new", "checking", "up", "disconnected",
                           "failed"}]
    BY <2>1, <2>3 DEF TrustInv, SessionTrusted, RelayTrusted
  <2>5. pending \in Seq(Actions) /\ batch \in Seq(Actions)
    BY <2>1, QueueTypes
  <2>6. /\ asked \subseteq Peers /\ offering \subseteq Peers /\ answering \subseteq Peers
        /\ invited \subseteq Peers /\ reached \subseteq Peers
        /\ dialog \in BOOLEAN /\ from \in Peers \cup {NoPeer}
    BY <2>1 DEF TrustInv, RelayTrusted, DialogNamesPeer
  <2>7. ui \in {"wait", "messages", "drain", "join", "close", "stop", "release", "ended"}
    BY <2>1 DEF ShutdownInv, TornDown, Phases
  <2> QED
    BY <2>1, <2>3, <2>4, <2>5, <2>6, <2>7 DEF AppTypes, TypeOK
<1> QED
  BY <1>1, SessionInvariant, PTL

\* As long as there was no second session and no failed start, the screen that the
\* user sees a session on has that session behind it, in whatever order the link,
\* the relay and the user act.
THEOREM ScreenHasSession == Spec => []AppInv
<1>1. ASSUME SessionInv PROVE FirstSessionIsBehind
  <2> SUFFICES ASSUME sessions = 1, host # "failed", viewer # "failed",
                      ui \in {"wait", "messages", "drain"}
               PROVE  /\ state = "SESSION_HOST" => webrtc.role = "host" /\ host = "running"
                      /\ state = "SESSION_VIEWER" =>
                             webrtc.role = "viewer" /\ viewer = "running" /\ input
    BY DEF FirstSessionIsBehind
  <2>1. ScreenBacked /\ AppTypes
    BY <1>1 DEF SessionInv, FirstInv, Running
  <2> QED
    BY <2>1 DEF ScreenBacked, AppTypes
<1> QED
  BY <1>1, AppTypeCorrect, SessionInvariant, PTL DEF AppInv

=============================================================================
