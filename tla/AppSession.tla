------------------------------ MODULE AppSession ------------------------------
(***************************************************************************)
(* The application, src/src/ui/app.cpp, as one of two parties of a         *)
(* connection: its UI thread (run, the click handlers, the actions drained *)
(* from pendingActions_, shutdown), the reader thread of the signaling     *)
(* client and the library's threads under WebRtcSession, which only queue  *)
(* actions, and the host's encode thread, which sends frames.              *)
(*                                                                         *)
(* Peers run the same program: one that was asked answers at most once, it *)
(* sends an offer only after it accepted, an answer only after an offer.   *)
(* One click that hits two layers of the window is two events in a row.    *)
(* A webrtcSession_ is a record; `id` numbers them and is not in the code. *)
(***************************************************************************)
EXTENDS Integers, Sequences

CONSTANTS
    Peers,
    NoPeer,
    Timeout,        \* updates of a connecting UI in 30 s
    MaxAsks,        \* bound: clicks on Connect
    MaxRequests,    \* bound: incoming connection requests
    MaxKeys,        \* bound: presses of Escape
    MaxPending      \* bound: queued actions

ASSUME AppAssumption ==
    /\ NoPeer \notin Peers
    /\ Timeout \in Nat \ {0} /\ MaxPending \in Nat \ {0}
    /\ MaxAsks \in Nat /\ MaxRequests \in Nat /\ MaxKeys \in Nat

VARIABLES
    ui,         \* where the UI thread is: "wait" for a message or wakeEvent_,
                \* "messages", "drain", "update"; in shutdown() "join",
                \* "close", "stop", "release", "ended"
    wake,       \* wakeEvent_
    pending,    \* pendingActions_
    batch,      \* toRun
    state,      \* state_
    glWindow,   \* the OpenGL window is shown
    elapsed,    \* connectTimeoutSec_
    dialog,     \* showConnectionDialog_
    from,       \* pendingConnectionFrom_
    webrtc,     \* webrtcSession_
    host,       \* hostSession_: "none", "running", "failed" to start
    viewer,     \* viewerSession_: likewise
    input,      \* inputHandler_ is there
    online,     \* the signaling connection is up
    threads,    \* the reader, the background thread: {"signaling", "reconnect"}
    asked,      \* peers that may still answer our request
    offering,   \* peers that accepted and may send an offer
    answering,  \* peers that got our offer and may answer it
    invited,    \* history: peers this user asked or accepted
    reached,    \* history: peers that frames of our screen were sent to
    sessions, asks, requests, keys      \* counters

window   == <<state, glWindow, elapsed, dialog, from>>
objects  == <<webrtc, host, viewer, input>>
relay    == <<asked, offering, answering>>
history  == <<invited, reached>>
counters == <<sessions, asks, requests, keys>>
vars == <<ui, wake, pending, batch, window, objects, online, threads, relay,
          history, counters>>

NoSession == [id |-> 0, role |-> "none", peer |-> NoPeer, remote |-> NoPeer,
              link |-> "none"]

Init ==
    /\ ui = "wait" /\ wake = FALSE /\ pending = <<>> /\ batch = <<>>
    /\ state = "DASHBOARD" /\ glWindow = FALSE /\ elapsed = 0
    /\ dialog = FALSE /\ from = NoPeer
    /\ webrtc = NoSession /\ host = "none" /\ viewer = "none" /\ input = FALSE
    /\ online = TRUE /\ threads = {"signaling", "reconnect"}
    /\ asked = {} /\ offering = {} /\ answering = {}
    /\ invited = {} /\ reached = {}
    /\ sessions = 0 /\ asks = 0 /\ requests = 0 /\ keys = 0

---------------------------------------------------------------------------
(* Other threads queue actions for the UI thread.                          *)

Do(what, peer) == [do |-> what, peer |-> peer]

\* Mistake: queueAction() without SetEvent(), PostMessage().
PushSilently(action) ==
    /\ Len(pending) < MaxPending
    /\ pending' = Append(pending, action)
    /\ UNCHANGED wake

Push(action) ==
    /\ Len(pending) < MaxPending
    /\ pending' = Append(pending, action)
    /\ wake' = TRUE

\* A callback of the signaling client, on its reader thread.
Receive(action) ==
    /\ "signaling" \in threads /\ online
    /\ Push(action)
    /\ UNCHANGED <<ui, batch, window, objects, online, threads, history,
                   sessions, asks, keys>>

RequestArrives(p) ==
    /\ requests < MaxRequests
    /\ requests' = requests + 1
    /\ Receive(Do("request", p))
    /\ UNCHANGED relay

\* The peers run this program, which answers a request once.  The callback does
\* not compare the sender with whom was asked: nothing here does either, and an
\* answer may come after the timeout, Cancel or another request.
AcceptArrives(p) ==
    /\ p \in asked
    /\ asked' = asked \ {p} /\ offering' = offering \cup {p}
    /\ Receive(Do("accepted", p))
    /\ UNCHANGED <<answering, requests>>

\* A rejection, or the relay's USER_OFFLINE.
RefusalArrives(p) ==
    /\ p \in asked
    /\ asked' = asked \ {p}
    /\ Receive(Do("refused", p))
    /\ UNCHANGED <<offering, answering, requests>>

OfferArrives(p) ==
    /\ p \in offering
    /\ offering' = offering \ {p}
    /\ Receive(Do("offer", p))
    /\ UNCHANGED <<asked, answering, requests>>

AnswerArrives(p) ==
    /\ p \in answering
    /\ answering' = answering \ {p}
    /\ Receive(Do("answer", p))
    /\ UNCHANGED <<asked, offering, requests>>

SignalingLost ==
    /\ online' = FALSE
    /\ "signaling" \in threads /\ online
    /\ Push(Do("lost", NoPeer))
    /\ UNCHANGED <<ui, batch, window, objects, threads, relay, history,
                   counters>>

SignalingBack ==
    /\ "reconnect" \in threads /\ ~online
    /\ online' = TRUE
    /\ UNCHANGED <<ui, wake, pending, batch, window, objects, threads, relay,
                   history, counters>>

\* onStateChange, on the library's thread.
LinkUp ==
    /\ webrtc.link = "checking"
    /\ webrtc' = [webrtc EXCEPT !.link = "up"]
    /\ Push(Do(webrtc.role, webrtc.peer))
    /\ UNCHANGED <<ui, batch, window, host, viewer, input, online, threads,
                   relay, history, counters>>

\* Disconnected, and Failed after that: each calls onDisconnected_.
LinkDown ==
    /\ \E next \in {"disconnected", "failed"} :
          /\ \/ webrtc.link \in {"checking", "up"}
             \/ webrtc.link = "disconnected" /\ next = "failed"
          /\ webrtc' = [webrtc EXCEPT !.link = next]
    /\ Push(Do("disconnect", webrtc.peer))
    /\ UNCHANGED <<ui, batch, window, host, viewer, input, online, threads,
                   relay, history, counters>>

\* The channels open with the connection; a viewer's arrive by onDataChannel().
ChannelOpen == webrtc.link = "up"

\* The send callback, on the encode thread: sendVideo() to whatever session there
\* is, once its channel is open.
SendFrame ==
    /\ host = "running" /\ webrtc # NoSession /\ ChannelOpen
    /\ reached' = reached \cup {webrtc.remote}
    /\ UNCHANGED <<ui, wake, pending, batch, window, objects, online, threads,
                   relay, invited, counters>>

---------------------------------------------------------------------------
(* Sessions.  close() may report the state Closed before it returns; a     *)
(* session that is replaced has its callback cleared first.                *)

NewSession(role, p) ==
    /\ sessions' = sessions + 1
    /\ webrtc' = [id |-> sessions + 1, role |-> role, peer |-> p,
                  remote |-> NoPeer, link |-> "new"]

StartAsHost(p) ==
    /\ NewSession("host", p)
    /\ answering' = answering \cup {p}

StartAsViewer(p) == NewSession("viewer", p)

Close(reports) ==
    IF webrtc # NoSession /\ reports
    THEN Push(Do("disconnect", webrtc.peer))
    ELSE UNCHANGED <<pending, wake>>

\* Mistake: disconnectSession() that leaves the host session.
DisconnectHalf ==
    /\ \E reports \in BOOLEAN : Close(reports)
    /\ webrtc' = NoSession /\ viewer' = "none" /\ input' = FALSE
    /\ state' = "DASHBOARD"
    /\ UNCHANGED <<host, sessions>>

\* Mistake: disconnectSession() that leaves state_ to its callers.
DisconnectQuietly ==
    /\ \E reports \in BOOLEAN : Close(reports)
    /\ webrtc' = NoSession /\ host' = "none" /\ viewer' = "none"
    /\ input' = FALSE
    /\ UNCHANGED <<state, sessions>>

DisconnectSession ==
    /\ \E reports \in BOOLEAN : Close(reports)
    /\ webrtc' = NoSession /\ host' = "none" /\ viewer' = "none"
    /\ input' = FALSE
    /\ state' = "DASHBOARD"
    /\ UNCHANGED sessions

\* The action queued by the acceptance callback of connectToPeer().
StartViewer(p) ==
    /\ elapsed' = 0
    /\ \/ /\ viewer' = "running"
          /\ StartAsViewer(p)
          /\ UNCHANGED state
       \/ /\ viewer' = "failed" /\ state' = "DASHBOARD"
          /\ UNCHANGED <<webrtc, sessions>>

\* onRemoteDescription(): the library refuses one that does not fit.
RemoteDescription(p, role) ==
    webrtc' = IF webrtc.link = "new" /\ webrtc.role = role
              THEN [webrtc EXCEPT !.link = "checking", !.remote = p]
              ELSE webrtc

---------------------------------------------------------------------------
(* The UI thread: drainPendingActions().                                   *)

\* MsgWaitForMultipleObjects() blocks for ever unless connecting; a viewer polls.
Awake == ui = "messages" \/ wake \/ state \in {"CONNECTING", "SESSION_VIEWER"}

Drain ==
    /\ ui \in {"wait", "messages"} /\ Awake
    /\ ui' = "drain" /\ batch' = pending /\ pending' = <<>>
    /\ wake' = (wake /\ (ui = "messages" \/ state = "SESSION_VIEWER"))
    /\ UNCHANGED <<window, objects, online, threads, relay, history, counters>>

HandleConnectionRequest(p) == from' = p /\ dialog' = TRUE

Handle(do, p) ==
    \/ /\ do = "request"
       /\ HandleConnectionRequest(p)
       /\ UNCHANGED <<pending, wake, state, elapsed, objects, sessions>>
    \/ /\ do = "accepted"
       /\ StartViewer(p)
       /\ UNCHANGED <<pending, wake, dialog, from, host, input>>
    \/ /\ do = "refused" \/ (do = "lost" /\ state = "CONNECTING")
       /\ state' = "DASHBOARD" /\ elapsed' = 0
       /\ UNCHANGED <<pending, wake, dialog, from, objects, sessions>>
    \/ /\ do = "lost" /\ state # "CONNECTING"
       /\ UNCHANGED <<pending, wake, dialog, from, state, elapsed, objects,
                      sessions>>
    \/ /\ do = "offer" \/ do = "answer"
       /\ RemoteDescription(p, IF do = "offer" THEN "viewer" ELSE "host")
       /\ UNCHANGED <<pending, wake, dialog, from, state, elapsed, host, viewer,
                      input, sessions>>
    \/ /\ do = "host"
       /\ state' = "SESSION_HOST"
       /\ UNCHANGED <<pending, wake, dialog, from, elapsed, objects, sessions>>
    \/ /\ do = "viewer"
       /\ state' = "SESSION_VIEWER" /\ input' = TRUE
       /\ UNCHANGED <<pending, wake, dialog, from, elapsed, webrtc, host,
                      viewer, sessions>>
    \/ /\ do = "disconnect"
       /\ DisconnectSession
       /\ UNCHANGED <<dialog, from, elapsed>>

\* Mistake: handleConnectionRequest() answers without the user.
RunActionAtOnce ==
    /\ ui = "drain" /\ batch # <<>>
    /\ IF Head(batch).do = "request"
       THEN /\ host' = "running" /\ NewSession("host", Head(batch).peer)
            /\ UNCHANGED <<pending, wake, state, elapsed, dialog, from, viewer,
                           input>>
       ELSE Handle(Head(batch).do, Head(batch).peer)
    /\ batch' = Tail(batch)
    /\ UNCHANGED <<ui, glWindow, online, threads, relay, history, asks,
                   requests, keys>>

RunAction ==
    /\ ui = "drain" /\ batch # <<>>
    /\ Handle(Head(batch).do, Head(batch).peer)
    /\ batch' = Tail(batch)
    /\ UNCHANGED <<ui, glWindow, online, threads, relay, history, asks,
                   requests, keys>>

\* Mistake: run() without the timeout.
UpdateForEver ==
    /\ ui = "drain" /\ batch = <<>>
    /\ ui' = "wait"
    /\ glWindow' = (state = "SESSION_VIEWER")
    /\ UNCHANGED <<state, elapsed, wake, pending, batch, dialog, from, objects,
                   online, threads, relay, history, counters>>

\* The rest of the loop in run(): the timeout, then the change of window.
Update ==
    /\ ui = "drain" /\ batch = <<>>
    /\ ui' = "wait"
    /\ IF state = "CONNECTING" /\ elapsed < Timeout
       THEN elapsed' = elapsed + 1 /\ UNCHANGED state
       ELSE IF state = "CONNECTING"
            THEN elapsed' = 0 /\ state' = "DASHBOARD"
            ELSE UNCHANGED <<elapsed, state>>
    /\ glWindow' = (state' = "SESSION_VIEWER")
    /\ UNCHANGED <<wake, pending, batch, dialog, from, objects, online,
                   threads, relay, history, counters>>

---------------------------------------------------------------------------
(* The UI thread: the user.  While a viewer has an input handler, clicks   *)
(* and keys are forwarded and handled no further.                          *)

Forwarding == input /\ state = "SESSION_VIEWER"

Event ==
    /\ ui \in {"wait", "messages"}
    /\ ui' = "messages"
    /\ UNCHANGED <<batch, glWindow, online, threads>>

Connect(p) ==
    /\ Event /\ state = "DASHBOARD" /\ online
    /\ asks < MaxAsks
    /\ asks' = asks + 1
    /\ asked' = asked \cup {p} /\ invited' = invited \cup {p}
    /\ elapsed' = 0 /\ state' = "CONNECTING"
    /\ UNCHANGED <<wake, pending, dialog, from, objects, offering, answering,
                   reached, sessions, requests, keys>>

Cancel ==
    /\ Event /\ state = "CONNECTING"
    /\ state' = "DASHBOARD"
    /\ UNCHANGED <<wake, pending, elapsed, dialog, from, objects, relay,
                   history, counters>>

Accept ==
    /\ Event /\ dialog /\ ~Forwarding
    /\ dialog' = FALSE
    /\ \/ /\ host' = "running"
          /\ StartAsHost(from)
          /\ invited' = invited \cup {from}
       \/ /\ host' = "failed"
          /\ UNCHANGED <<webrtc, sessions, answering, invited>>
    /\ UNCHANGED <<wake, pending, state, elapsed, from, viewer, input, asked,
                   offering, reached, asks, requests, keys>>

Reject ==
    /\ Event /\ dialog /\ ~Forwarding
    /\ dialog' = FALSE
    /\ UNCHANGED <<wake, pending, state, elapsed, from, objects, relay,
                   history, counters>>

Escape ==
    /\ Event /\ keys < MaxKeys
    /\ keys' = keys + 1
    /\ IF state \in {"SESSION_HOST", "SESSION_VIEWER"} /\ ~Forwarding
       THEN DisconnectSession
       ELSE UNCHANGED <<wake, pending, state, objects, sessions>>
    /\ UNCHANGED <<elapsed, dialog, from, relay, history, asks, requests>>

---------------------------------------------------------------------------
(* WM_QUIT, and shutdown().                                                *)

Quit ==
    /\ ui \in {"wait", "messages"}
    /\ ui' = "join"
    /\ UNCHANGED <<wake, pending, batch, window, objects, online, threads,
                   relay, history, counters>>

JoinReconnect ==
    /\ ui = "join" /\ ui' = "close"
    /\ threads' = threads \ {"reconnect"}
    /\ UNCHANGED <<wake, pending, batch, window, objects, online, relay,
                   history, counters>>

\* Mistake: shutdown() that releases the signaling client before the sessions.
CloseLate ==
    /\ ui = "close" /\ ui' = "stop"
    /\ threads' = threads \ {"signaling"} /\ online' = FALSE
    /\ UNCHANGED <<wake, pending, batch, window, objects, relay, history,
                   counters>>

CloseSession ==
    /\ ui = "close" /\ ui' = "stop"
    /\ \E reports \in BOOLEAN : Close(reports)
    /\ webrtc' = NoSession /\ input' = FALSE
    /\ UNCHANGED <<batch, window, host, viewer, online, threads, relay,
                   history, counters>>

StopSessions ==
    /\ ui = "stop" /\ ui' = "release"
    /\ host' = "none" /\ viewer' = "none"
    /\ UNCHANGED <<wake, pending, batch, window, webrtc, input, online,
                   threads, relay, history, counters>>

ReleaseSignaling ==
    /\ ui = "release" /\ ui' = "ended"
    /\ threads' = threads \ {"signaling"} /\ online' = FALSE
    /\ UNCHANGED <<wake, pending, batch, window, objects, relay, history,
                   counters>>

Shutdown == JoinReconnect \/ CloseSession \/ StopSessions \/ ReleaseSignaling

---------------------------------------------------------------------------

Arrives ==
    \/ \E p \in Peers : \/ RequestArrives(p) \/ AcceptArrives(p)
                        \/ RefusalArrives(p) \/ OfferArrives(p)
                        \/ AnswerArrives(p)
    \/ SignalingLost \/ SignalingBack

User == (\E p \in Peers : Connect(p)) \/ Cancel \/ Accept \/ Reject \/ Escape
        \/ Quit

Loop == Drain \/ RunAction \/ Update

Next == Arrives \/ LinkUp \/ LinkDown \/ SendFrame \/ User \/ Loop \/ Shutdown

Spec == Init /\ [][Next]_vars

\* The UI thread runs as long as the program does.
LiveSpec == Spec /\ WF_vars(Drain) /\ WF_vars(RunAction) /\ WF_vars(Update)
                 /\ WF_vars(Shutdown)

---------------------------------------------------------------------------
(* Properties.                                                             *)

Actions == [do : {"request", "accepted", "refused", "offer", "answer", "lost",
                  "host", "viewer", "disconnect"},
            peer : Peers \cup {NoPeer}]

\* The type invariant.
TypeOK ==
    /\ ui \in {"wait", "messages", "drain", "join", "close", "stop", "release",
               "ended"}
    /\ wake \in BOOLEAN /\ glWindow \in BOOLEAN /\ dialog \in BOOLEAN
    /\ input \in BOOLEAN /\ online \in BOOLEAN
    /\ pending \in Seq(Actions) /\ Len(pending) <= MaxPending
    /\ batch \in Seq(Actions)
    /\ state \in {"DASHBOARD", "CONNECTING", "SESSION_HOST", "SESSION_VIEWER"}
    /\ elapsed \in 0..Timeout
    /\ from \in Peers \cup {NoPeer}
    /\ webrtc \in [id : 0..(MaxAsks + MaxRequests),
                   role : {"none", "host", "viewer"},
                   peer : Peers \cup {NoPeer}, remote : Peers \cup {NoPeer},
                   link : {"none", "new", "checking", "up", "disconnected",
                           "failed"}]
    /\ host \in {"none", "running", "failed"}
    /\ viewer \in {"none", "running", "failed"}
    /\ threads \subseteq {"signaling", "reconnect"}
    /\ asked \subseteq Peers /\ offering \subseteq Peers
    /\ answering \subseteq Peers
    /\ invited \subseteq Peers /\ reached \subseteq Peers
    /\ sessions \in 0..(MaxAsks + MaxRequests)
    /\ asks \in 0..MaxAsks /\ requests \in 0..MaxRequests /\ keys \in 0..MaxKeys

\* Whatever requests, late answers and descriptions arrive in whatever order,
\* the library connects this computer, and the encode thread sends its screen,
\* only to peers that this user asked or accepted.
OnlyInvited == reached \cup ({webrtc.peer, webrtc.remote} \ {NoPeer}) \subseteq invited

\* While the UI runs, the screen is captured only for a session that can be
\* lost: a running host session has a WebRTC session whose end stops it.
HostHasSession == host = "running" => webrtc # NoSession \/ ui = "stop"

\* shutdown(): what a WebRTC session and the background thread point to is
\* destroyed after them, and so is the encode thread's `this`.
SignalingOutlives ==
    webrtc # NoSession \/ host = "running" \/ "reconnect" \in threads
        => "signaling" \in threads

\* As long as there was no second session and no failed start, the screen that
\* the user sees a session on has that session behind it.
FirstSessionIsBehind ==
    sessions = 1 /\ host # "failed" /\ viewer # "failed"
        /\ ui \in {"wait", "messages", "drain"} =>
        /\ state = "SESSION_HOST" => webrtc.role = "host" /\ host = "running"
        /\ state = "SESSION_VIEWER" =>
               webrtc.role = "viewer" /\ viewer = "running" /\ input

AppInv == TypeOK /\ FirstSessionIsBehind

\* Connecting ends: in a session, by an answer, a cancellation or the timeout,
\* however late the answers are and however often they come.
ConnectingEnds == state = "CONNECTING" ~> state # "CONNECTING" \/ ui = "ended"

\* A session whose link is lost is closed or replaced, although the UI thread may
\* be blocked for ever in its wait and the state may be any by then.
LostSessionEnds ==
    webrtc.link \in {"disconnected", "failed"} ~>
        webrtc.link \notin {"disconnected", "failed"}

=============================================================================
