--------------------------- MODULE SignalingClient ---------------------------
(***************************************************************************)
(* One SignalingClient object, src/src/signaling/signaling_client.cpp, and *)
(* the threads that share it:                                              *)
(*   - its owner, which calls connect() followed by registerUser(), and    *)
(*     disconnect(), one call at a time: a program's thread, or App::init, *)
(*     then the App's reconnect thread, then App::shutdown, which join one *)
(*     another;                                                            *)
(*   - its receive thread, which also reconnects (tryReconnect).           *)
(* The relay server answers, drops connections and is at times out of      *)
(* reach.  A link is one TCP connection; only the newest one is in use.    *)
(***************************************************************************)
EXTENDS Integers, Sequences

CONSTANTS
    MaxAttempts,        \* MAX_RECONNECT_ATTEMPTS
    MaxLinks,           \* bound: connections made
    MaxFails,           \* bound: failed connection attempts before that
    MaxInbox            \* bound: unread messages on a link

ASSUME BoundsAssumption ==
    /\ MaxAttempts \in Nat /\ MaxLinks \in Nat /\ MaxFails \in Nat
    /\ MaxInbox \in Nat \ {0}

VARIABLES
    owner,          \* where the owner is
    again,          \* disconnect() was called by connect()
    rx,             \* where receiveThread_ is: "none" is not joinable,
                    \* "done" has left receiveLoop and waits for join()
    msg,            \* the message taken by recv(): its type and its link
    attempt,        \* `attempt` in tryReconnect
    autoReconnect,  \* autoReconnect_, set before the first connect()
    user,           \* how the owner calls connect() after the first time:
                    \* "app" whenever it is not connected, "program" at any
                    \* time, "careful" only after a disconnect()
    validId,        \* the id it registers is one
    running, connected, registered,     \* the flags of that name
    late,           \* registered_ was set after running_ had been cleared
    hasId,          \* userId_.valid()
    open,           \* channel_.isOpen()
    link,           \* the newest link, 0 before the first
    acked,          \* the link whose register_ok was handled last
    alive,          \* the server's end of the link is there
    asked,          \* what the server has to answer on the link, in order
    known,          \* the server has the user registered on the link
    net, buf,       \* unread messages: in the kernel, in recvBuf_
    fails,          \* failed attempts so far
    terminated      \* std::terminate() ended the program

flags   == <<running, connected, registered, late>>
server  == <<alive, asked, known>>
channel == <<open, link, net, buf>>
clientVars    == <<owner, again, rx, msg, attempt, flags, hasId, channel, acked,
             server, fails, terminated, autoReconnect, user, validId>>

ClientInit ==
    /\ owner = "idle" /\ again = FALSE
    /\ rx = "none" /\ msg = [type |-> "none", link |-> 0] /\ attempt = 0
    /\ autoReconnect \in BOOLEAN
    /\ user \in {"app", "program", "careful"}
    /\ validId \in BOOLEAN /\ (user = "app" => validId)
    /\ running = FALSE /\ connected = FALSE /\ registered = FALSE
    /\ late = FALSE /\ hasId = FALSE
    /\ open = FALSE /\ link = 0 /\ net = <<>> /\ buf = <<>>
    /\ acked = 0
    /\ alive = FALSE /\ asked = <<>> /\ known = FALSE
    /\ fails = 0 /\ terminated = FALSE

IsConnected == connected /\ open

---------------------------------------------------------------------------
(* The channel.                                                            *)

Close ==
    /\ open' = FALSE /\ net' = <<>> /\ buf' = <<>>
    /\ UNCHANGED link

\* channel_.connect() on one of the ports succeeds ...
NewLink ==
    /\ link < MaxLinks
    /\ link' = link + 1 /\ open' = TRUE
    /\ net' = <<>> /\ buf' = <<>>
    /\ alive' = TRUE /\ asked' = <<>> /\ known' = FALSE
    /\ UNCHANGED fails

\* ... or on none.
NoLink ==
    /\ fails < MaxFails \/ link = MaxLinks
    /\ fails' = IF fails < MaxFails THEN fails + 1 ELSE fails
    /\ open' = FALSE
    /\ UNCHANGED <<link, net, buf, server>>

\* sendJson() on the link; the result is ignored.  A request that is still to
\* be answered is not counted twice.
Pending(type) == \E i \in 1..Len(asked) : asked[i] = type

Send(type) ==
    /\ asked' = IF open /\ alive /\ ~Pending(type) THEN Append(asked, type)
                                                 ELSE asked
    /\ UNCHANGED <<alive, known>>

---------------------------------------------------------------------------
(* The owner.                                                              *)

\* App: `if (!signaling_->isConnected()) tryConnectSignaling()`, whenever the
\* background thread looks.
OwnerCall ==
    /\ owner = "idle"
    /\ user = "app" => ~IsConnected
    /\ user = "careful" => rx = "none"
    /\ owner' = "connect"
    /\ UNCHANGED <<again, rx, msg, attempt, flags, hasId, channel, acked,
                   server, fails, terminated>>

ClearFlags ==
    /\ running' = FALSE /\ connected' = FALSE
    /\ registered' = FALSE /\ late' = FALSE

\* connect(): `if (connected_) disconnect()`.
OwnerEnter ==
    /\ owner = "connect"
    /\ IF connected
       THEN ClearFlags /\ owner' = "closing" /\ again' = TRUE
       ELSE UNCHANGED <<flags, again>> /\ owner' = "dial"
    /\ UNCHANGED <<rx, msg, attempt, hasId, channel, acked, server, fails,
                   terminated>>

OwnerDial ==
    /\ owner = "dial"
    /\ \/ NewLink /\ owner' = "start"
       \/ NoLink /\ owner' = "idle"
    /\ UNCHANGED <<again, rx, msg, attempt, flags, hasId, acked, terminated>>

\* receiveThread_ = std::thread(...): assigning to a joinable std::thread calls
\* std::terminate().
OwnerStart ==
    /\ owner = "start"
    /\ running' = TRUE /\ connected' = TRUE
    /\ IF rx = "none"
       THEN rx' = "top" /\ owner' = "register" /\ UNCHANGED terminated
       ELSE terminated' = TRUE /\ UNCHANGED <<rx, owner>>
    /\ UNCHANGED <<again, msg, attempt, registered, late, hasId, channel,
                   acked, server, fails>>

OwnerRegister ==
    /\ owner = "register"
    /\ IF connected THEN hasId' = validId /\ Send("register")
                    ELSE UNCHANGED <<hasId, server>>
    /\ owner' = "idle"
    /\ UNCHANGED <<again, rx, msg, attempt, flags, channel, acked, fails,
                   terminated>>

\* disconnect(): the three flags, then the channel, then join().
OwnerDisconnect ==
    /\ owner = "idle" /\ link > 0
    /\ ClearFlags
    /\ owner' = "closing" /\ again' = FALSE
    /\ UNCHANGED <<rx, msg, attempt, hasId, channel, acked, server, fails,
                   terminated>>

OwnerClose ==
    /\ owner = "closing"
    /\ Close
    /\ owner' = "joining"
    /\ UNCHANGED <<again, rx, msg, attempt, flags, hasId, acked, server, fails,
                   terminated>>

OwnerJoin ==
    /\ owner = "joining" /\ rx \in {"none", "done"}
    /\ rx' = "none"
    /\ owner' = IF again THEN "dial" ELSE IF user = "app" THEN "gone" ELSE "idle"
    /\ UNCHANGED <<again, msg, attempt, flags, hasId, channel, acked, server,
                   fails, terminated>>

---------------------------------------------------------------------------
(* receiveLoop.                                                            *)

\* Mutant: the loop does not look at running_.
RxTopForever ==
    /\ rx = "top"
    /\ rx' = "beat"
    /\ UNCHANGED <<owner, again, msg, attempt, flags, hasId, channel, acked,
                   server, fails, terminated>>

RxTop ==
    /\ rx = "top"
    /\ rx' = IF running THEN "beat" ELSE "done"
    /\ UNCHANGED <<owner, again, msg, attempt, flags, hasId, channel, acked,
                   server, fails, terminated>>

\* A heartbeat when the user is registered and 30 s are over ...
RxBeat ==
    /\ rx = "beat" /\ rx' = "check"
    /\ registered /\ Send("heartbeat")
    /\ UNCHANGED <<owner, again, msg, attempt, flags, hasId, channel, acked,
                   fails, terminated>>

\* ... or none, since they are not.
RxNoBeat ==
    /\ rx = "beat" /\ rx' = "check"
    /\ UNCHANGED <<owner, again, msg, attempt, flags, hasId, channel, acked,
                   server, fails, terminated>>

\* Mutant: only the link is noted as lost, not the registration.
LoseLinkOnly ==
    /\ connected' = FALSE
    /\ rx' = "lost"
    /\ UNCHANGED <<running, registered, late>>

LoseLink ==
    /\ connected' = FALSE /\ registered' = FALSE /\ late' = FALSE
    /\ rx' = "lost"
    /\ UNCHANGED running

RxCheck ==
    /\ rx = "check"
    /\ IF open THEN rx' = "poll" /\ UNCHANGED flags ELSE LoseLink
    /\ UNCHANGED <<owner, again, msg, attempt, hasId, channel, acked, server,
                   fails, terminated>>

\* pollRead(100) looks at the socket, not at recvBuf_.
Readable == open /\ (net # <<>> \/ ~alive)

RxPoll ==
    /\ rx = "poll"
    /\ rx' = IF Readable THEN "recv" ELSE "top"
    /\ UNCHANGED <<owner, again, msg, attempt, flags, hasId, channel, acked,
                   server, fails, terminated>>

\* recv(): end-of-file before anything buffered; then one message, if any.
RxRecv ==
    /\ rx = "recv"
    /\ IF open /\ net = <<>> /\ ~alive
       THEN LoseLink /\ UNCHANGED <<msg, channel>>
       ELSE IF open /\ buf \o net # <<>>
       THEN /\ msg' = [type |-> Head(buf \o net), link |-> link]
            /\ buf' = Tail(buf \o net) /\ net' = <<>>
            /\ rx' = "handle"
            /\ UNCHANGED <<flags, open, link>>
       ELSE rx' = "top" /\ UNCHANGED <<flags, msg, channel>>
    /\ UNCHANGED <<owner, again, attempt, hasId, acked, server, fails,
                   terminated>>

\* handleMessage(); the answers to a registration change the client itself.
RxHandle ==
    /\ rx = "handle" /\ rx' = "top"
    /\ CASE msg.type = "register_ok" ->
              registered' = TRUE /\ late' = ~running /\ acked' = msg.link
         [] msg.type = "register_fail" ->
              registered' = FALSE /\ late' = FALSE /\ UNCHANGED acked
         [] OTHER -> UNCHANGED <<registered, late, acked>>
    /\ UNCHANGED <<owner, again, msg, attempt, running, connected, hasId,
                   channel, server, fails, terminated>>

\* After the disconnected callback: `autoReconnect_ && running_`.
RxLost ==
    /\ rx = "lost"
    /\ rx' = IF autoReconnect /\ running THEN "wait" ELSE "done"
    /\ attempt' = 0
    /\ UNCHANGED <<owner, again, msg, flags, hasId, channel, acked, server,
                   fails, terminated>>

\* tryReconnect(): the pause before an attempt ...
RxWait ==
    /\ rx = "wait"
    /\ rx' = IF attempt < MaxAttempts /\ running THEN "retry" ELSE "done"
    /\ UNCHANGED <<owner, again, msg, attempt, flags, hasId, channel, acked,
                   server, fails, terminated>>

\* ... `if (!running_) return false`, else the old channel is closed ...
RxRetry ==
    /\ rx = "retry"
    /\ IF running THEN rx' = "dial" /\ Close
                  ELSE rx' = "done" /\ UNCHANGED channel
    /\ UNCHANGED <<owner, again, msg, attempt, flags, hasId, acked, server,
                   fails, terminated>>

\* ... and the ports are tried.
RxDial ==
    /\ rx = "dial"
    /\ \/ NewLink /\ rx' = "mark" /\ UNCHANGED attempt
       \/ NoLink /\ rx' = "wait" /\ attempt' = attempt + 1
    /\ UNCHANGED <<owner, again, msg, flags, hasId, acked, terminated>>

\* Mutant: the reconnected client does not register again.
RxMarkSilent ==
    /\ rx = "mark" /\ rx' = "top"
    /\ connected' = TRUE
    /\ UNCHANGED <<owner, again, msg, attempt, running, registered, late, hasId,
                   channel, acked, server, fails, terminated>>

RxMark ==
    /\ rx = "mark" /\ rx' = "top"
    /\ connected' = TRUE
    /\ IF hasId THEN Send("register") ELSE UNCHANGED server
    /\ UNCHANGED <<owner, again, msg, attempt, running, registered, late, hasId,
                   channel, acked, fails, terminated>>

---------------------------------------------------------------------------
(* The relay server at the other end, as SignalingServer behaves.          *)

Unread == Len(net) + Len(buf)

Answer(request) ==
    IF request = "heartbeat" THEN "heartbeat_ack"
    ELSE IF validId THEN "register_ok" ELSE "register_fail"

ServerAnswers ==
    /\ open /\ alive /\ Unread < MaxInbox
    /\ asked # <<>> /\ asked' = Tail(asked)
    /\ known' = (known \/ Answer(Head(asked)) = "register_ok")
    /\ net' = Append(net, Answer(Head(asked)))
    /\ UNCHANGED <<owner, again, rx, msg, attempt, flags, hasId, open, link,
                   buf, acked, alive, fails, terminated>>

\* It relays what other users send to this one.
ServerRelays ==
    /\ open /\ alive /\ known /\ Unread < MaxInbox
    /\ net' = Append(net, "relayed")
    /\ UNCHANGED <<owner, again, rx, msg, attempt, flags, hasId, open, link,
                   buf, acked, server, fails, terminated>>

\* The link ends.  The last one of the instance stays.
LinkEnds ==
    /\ open /\ alive /\ link < MaxLinks
    /\ alive' = FALSE /\ asked' = <<>> /\ known' = FALSE
    /\ UNCHANGED <<owner, again, rx, msg, attempt, flags, hasId, channel, acked,
                   fails, terminated>>

---------------------------------------------------------------------------
OwnerStep ==
    \/ OwnerEnter \/ OwnerDial \/ OwnerStart \/ OwnerRegister
    \/ OwnerClose \/ OwnerJoin

RxStep ==
    \/ RxTop \/ RxBeat \/ RxNoBeat \/ RxCheck \/ RxPoll \/ RxRecv \/ RxHandle
    \/ RxLost \/ RxWait \/ RxRetry \/ RxDial \/ RxMark

Alive == ~terminated /\ UNCHANGED <<autoReconnect, user, validId>>

ClientNext ==
    /\ Alive
    /\ \/ OwnerCall \/ OwnerDisconnect \/ OwnerStep
       \/ RxStep
       \/ ServerAnswers \/ ServerRelays \/ LinkEnds

ClientSpec == ClientInit /\ [][ClientNext]_clientVars

\* The threads run, the background thread keeps looking, the server answers;
\* 30 s pass again and again, so a heartbeat is sent.
ClientFairness ==
    /\ WF_clientVars(Alive /\ RxStep)
    /\ SF_clientVars(Alive /\ RxBeat)
    /\ WF_clientVars(Alive /\ OwnerStep)
    /\ WF_clientVars(Alive /\ user = "app" /\ OwnerCall)
    /\ WF_clientVars(Alive /\ ServerAnswers)
ClientLiveSpec == ClientSpec /\ ClientFairness

---------------------------------------------------------------------------
(* Properties.                                                             *)

Answers == {"register_ok", "register_fail", "heartbeat_ack"}

\* The type invariant.
ClientTypeOK ==
    /\ owner \in {"idle", "connect", "dial", "start", "register", "closing",
                  "joining", "gone"}
    /\ rx \in {"none", "top", "beat", "check", "poll", "recv", "handle", "lost",
               "wait", "retry", "dial", "mark", "done"}
    /\ msg \in [type : Answers \cup {"none", "relayed"}, link : 0..MaxLinks]
    /\ user \in {"app", "program", "careful"}
    /\ {autoReconnect, validId, again, running, connected, registered, late,
        hasId, open, alive, known, terminated} \subseteq BOOLEAN
    /\ asked \in Seq({"register", "heartbeat"})
    /\ attempt \in 0..MaxAttempts /\ fails \in 0..MaxFails
    /\ link \in 0..MaxLinks /\ acked \in 0..link
    /\ net \in Seq(Answers \cup {"relayed"})
    /\ buf \in Seq(Answers \cup {"relayed"})

\* isRegistered() speaks of the connection in use, for an owner that calls
\* disconnect() before it connects again, with one exception: a register_ok the
\* receive thread had in hand when disconnect() cleared the flags sets the flag
\* once more (`late`), and the next connection keeps it until an answer or the
\* loss of the link.
RegisteredIsCurrent ==
    user = "careful" /\ registered /\ ~late => acked = link

ClientInv == ClientTypeOK /\ RegisteredIsCurrent

\* The App's client, which was given an id, is registered again after every loss
\* of the connection, unless it is told to disconnect: "Handles automatic
\* reconnection on disconnect."
ComesBack ==
    (user = "app" /\ autoReconnect /\ hasId /\ running /\ ~registered)
        ~> (registered \/ ~running)

\* What an owner that calls disconnect() before it connects again is promised:
\* the client registers on the connection in use, or stops after
\* MAX_RECONNECT_ATTEMPTS failed attempts.  An answer that was late on an older
\* connection does not count.
Served == registered /\ acked = link
GaveUp == rx = "done" /\ attempt = MaxAttempts
ComesBackAlone ==
    (user = "careful" /\ autoReconnect /\ hasId /\ running /\ ~Served)
        ~> (Served \/ ~running \/ GaveUp)

\* disconnect() returns: the receive thread notices, wherever it is.
DisconnectReturns == (owner = "joining") ~> (owner # "joining")

\* Once disconnect() has returned, isConnected() is false.
DisconnectDisconnects ==
    owner \in {"idle", "gone"} /\ rx = "none" => ~IsConnected

=============================================================================
