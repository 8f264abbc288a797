--------------------------- MODULE SignalingServer ---------------------------
(***************************************************************************)
(* The relay ("signaling") server: src/src/signaling/signaling_server.cpp, *)
(* over the receive path of TcpChannel (tcp_channel.cpp).                  *)
(*                                                                         *)
(* One server thread runs serverLoop: accept at most one connection, give  *)
(* every channel of clients_ one visit (one recv, at most one message      *)
(* handled), purge silent users when the 30 s period is over, start again. *)
(* Between any two steps of that thread the peers connect, send, read,     *)
(* close, reset or vanish, time passes, and the owner calls stop().        *)
(*                                                                         *)
(* A connection is modelled from both ends: peer, acked and out are what   *)
(* the remote program sees; open, buf and net are the server's TcpChannel: *)
(* isOpen(), the messages already in recvBuf_, and the messages that wait  *)
(* in the kernel.  The byte layout of messages is left to TcpFraming.      *)
(***************************************************************************)
EXTENDS Integers, Sequences, Functions

CONSTANTS
    Ids,            \* user ids, numbered in the order of the std::map users_
    Conns,          \* TCP connections
    NoConn,         \* "no entry" in users_
    MayRegister,    \* MayRegister[c]: the ids the program behind c registers
    Dialog,         \* which of connect_request, connect_accept,
                    \* connect_reject, sdp_offer, sdp_answer, ice_candidate
                    \* the peers of this instance use
    StaleAfter,     \* HEARTBEAT_TIMEOUT_SEC in purge periods of 30 s
    MaxQueue        \* bound: unread messages per direction of a connection

NoId == 0           \* an id that is empty or not 8 characters long

Silent  == {"connect_accept", "connect_reject"}
Forward == {"sdp_offer", "sdp_answer", "ice_candidate"}

ASSUME IdsAssumption == Ids \subseteq Nat \ {NoId}
ASSUME ConnsAssumption == NoConn \notin Conns
ASSUME MayRegisterAssumption ==
    MayRegister \in [Conns -> SUBSET (Ids \cup {NoId})]
ASSUME DialogAssumption ==
    Dialog \subseteq {"connect_request"} \cup Silent \cup Forward
ASSUME StaleAssumption == StaleAfter \in Nat \ {0}

VARIABLES
    pc,             \* where serverThread_ is: "off", "accept", "serve",
                    \* "purge", "exited"
    running,        \* running_
    backlog,        \* the listener's queue of connections to accept
    clients,        \* clients_
    cursor,         \* the index of the iterator `it` in clients_
    users,          \* users_: id -> channel, NoConn when absent
    age,            \* now - lastHeartbeat, in purge periods, capped
    purgeDue,       \* now - lastPurge >= 30 s
    open,           \* isOpen() of the server's channel
    buf,            \* whole messages in recvBuf_
    net,            \* messages the kernel holds for the server
    out,            \* messages on their way to the peer
    peer,           \* the remote end: "idle", "up", "closed", "reset", "gone"
    acked           \* ids the peer has seen register_ok for

registry == <<clients, cursor, users, age>>
control  == <<pc, running, backlog, purgeDue>>
wire     == <<open, buf, net>>
remote   == <<out, peer, acked>>
vars     == <<registry, control, wire, remote>>

MinOf(a, b) == IF a < b THEN a ELSE b

---------------------------------------------------------------------------
(* Messages.  Requests carry the JSON fields the handlers read; replies    *)
(* carry type and subject, and `for` records which user a relayed message  *)
(* was addressed to (the routing decision, which the JSON does not carry). *)

Requests ==
    [type : {"register", "heartbeat"}, id : Ids \cup {NoId}]
    \cup [type : {"connect_request"} \cup Silent, id : Ids, to : Ids]
    \cup [type : Forward, to : Ids]

RegisterMsg(id) == [type |-> "register", id |-> id]

Reply(type, id) == [type |-> type, id |-> id, for |-> NoId]
Relayed(type, from, to) == [type |-> type, id |-> from, for |-> to]

Replies ==
    [type : {"register_fail", "heartbeat_ack"}, id : {NoId}, for : {NoId}]
    \cup [type : {"register_ok", "user_offline"}, id : Ids, for : {NoId}]
    \cup [type : {"connect_request"} \cup Silent \cup Forward,
          id : Ids, for : Ids]

---------------------------------------------------------------------------
Init ==
    /\ pc = "off" /\ running = FALSE
    /\ backlog = <<>> /\ clients = <<>> /\ cursor = 1
    /\ users = [i \in Ids |-> NoConn]
    /\ age = [i \in Ids |-> 0]
    /\ purgeDue = FALSE
    /\ open = [c \in Conns |-> FALSE]
    /\ buf = [c \in Conns |-> <<>>]
    /\ net = [c \in Conns |-> <<>>]
    /\ out = [c \in Conns |-> <<>>]
    /\ peer = [c \in Conns |-> "idle"]
    /\ acked = [c \in Conns |-> {}]

---------------------------------------------------------------------------
(* TcpChannel as the server uses it.                                       *)

\* close() on every channel of S: the socket is gone, recvPos_ = 0.
CloseAll(S) ==
    /\ open' = [c \in Conns |-> open[c] /\ c \notin S]
    /\ buf' = [c \in Conns |-> IF c \in S THEN <<>> ELSE buf[c]]
    /\ net' = [c \in Conns |-> IF c \in S THEN <<>> ELSE net[c]]

\* recv() on c: one read takes all the kernel holds, one message leaves the
\* buffer; `closing` are the channels the handler of that message closes.
Receive(c, closing) ==
    /\ open' = [d \in Conns |-> open[d] /\ d \notin closing]
    /\ buf' = [d \in Conns |->
                 IF d \in closing THEN <<>>
                 ELSE IF d = c THEN Tail(buf[c] \o net[c]) ELSE buf[d]]
    /\ net' = [d \in Conns |->
                 IF d = c \/ d \in closing THEN <<>> ELSE net[d]]

\* sendJson(): fails silently on a closed channel and towards a dead peer.
Send(c, m) ==
    out' = IF open'[c] /\ peer[c] = "up"
           THEN [out EXCEPT ![c] = Append(@, m)] ELSE out

---------------------------------------------------------------------------
(* The handlers of handleClientMessage.                                    *)

Online(id) == users[id] # NoConn /\ open[users[id]]

\* The entries of users_ that use channel c, and the first in map order: what
\* findUserByChannel returns and what the clean-ups of serverLoop erase.
Using(c) == {i \in Ids : users[i] = c}
FirstUser(i, c) == i \in Using(c) /\ \A j \in Using(c) : i <= j

\* Mutant: the channel of a replaced registration stays open.
HandleRegisterKeepsOld(c, m) ==
    /\ Receive(c, {})
    /\ IF m.id = NoId
       THEN UNCHANGED <<users, age>> /\ Send(c, Reply("register_fail", NoId))
       ELSE /\ users' = [users EXCEPT ![m.id] = c]
            /\ age' = [age EXCEPT ![m.id] = 0]
            /\ Send(c, Reply("register_ok", m.id))

HandleRegister(c, m) ==
    IF m.id = NoId
    THEN /\ Receive(c, {})
         /\ Send(c, Reply("register_fail", NoId))
         /\ UNCHANGED <<users, age>>
    ELSE /\ Receive(c, {users[m.id]} \ {NoConn})
         /\ users' = [users EXCEPT ![m.id] = c]
         /\ age' = [age EXCEPT ![m.id] = 0]
         /\ Send(c, Reply("register_ok", m.id))

HandleHeartbeat(c, m) ==
    /\ Receive(c, {})
    /\ age' = [i \in Ids |-> IF i = m.id THEN 0 ELSE age[i]]
    /\ Send(c, Reply("heartbeat_ack", NoId))
    /\ UNCHANGED users

HandleConnectRequest(c, m) ==
    /\ Receive(c, {})
    /\ IF Online(m.to)
       THEN Send(users[m.to], Relayed(m.type, m.id, m.to))
       ELSE Send(c, Reply("user_offline", m.to))
    /\ UNCHANGED <<users, age>>

\* handleConnectAccept and handleConnectReject: dropped when the requester
\* is not online.
HandleConnectAnswer(c, m) ==
    /\ Receive(c, {})
    /\ IF Online(m.to)
       THEN Send(users[m.to], Relayed(m.type, m.id, m.to))
       ELSE UNCHANGED out
    /\ UNCHANGED <<users, age>>

\* handleSdpOffer, handleSdpAnswer and handleIceCandidate.
HandleForward(c, m) ==
    /\ Receive(c, {})
    /\ \/ Using(c) = {} /\ UNCHANGED out
       \/ \E from \in Ids :
             /\ FirstUser(from, c)
             /\ IF Online(m.to)
                THEN Send(users[m.to], Relayed(m.type, from, m.to))
                ELSE Send(c, Reply("user_offline", m.to))
    /\ UNCHANGED <<users, age>>

Handle(c, m) ==
    \/ m.type = "register" /\ HandleRegister(c, m)
    \/ m.type = "heartbeat" /\ HandleHeartbeat(c, m)
    \/ m.type = "connect_request" /\ HandleConnectRequest(c, m)
    \/ m.type \in Silent /\ HandleConnectAnswer(c, m)
    \/ m.type \in Forward /\ HandleForward(c, m)

---------------------------------------------------------------------------
(* serverLoop.                                                             *)

AtClient == pc = "serve" /\ cursor <= Len(clients)
Visited == clients[cursor]

\* pollRead() and accept() of the listener, which stop() may have closed since
\* running_ was read.
Accept ==
    /\ pc = "accept"
    /\ IF backlog = <<>> THEN UNCHANGED <<backlog, clients, open>>
       ELSE /\ clients' = Append(clients, Head(backlog))
            /\ open' = [open EXCEPT ![Head(backlog)] = TRUE]
            /\ backlog' = Tail(backlog)
    /\ pc' = "serve" /\ cursor' = 1
    /\ UNCHANGED <<running, users, age, purgeDue, buf, net, remote>>

\* The first users_ entry of channel c is erased and the search stops there.
EraseFirstUser(c) ==
    /\ users' = [i \in Ids |-> IF FirstUser(i, c) THEN NoConn ELSE users[i]]
    /\ age' = [i \in Ids |-> IF FirstUser(i, c) THEN 0 ELSE age[i]]

WithoutVisited ==
    SubSeq(clients, 1, cursor - 1) \o SubSeq(clients, cursor + 1, Len(clients))

\* Mutant: the channel is dropped and its user forgotten in users_.
DropVisitedKeepsUser ==
    /\ clients' = WithoutVisited
    /\ UNCHANGED <<control, cursor, users, age, remote>>

DropVisited ==
    /\ EraseFirstUser(Visited)
    /\ clients' = WithoutVisited
    /\ UNCHANGED <<control, cursor, remote>>

\* !client->isOpen(): a handler or the purge has closed this channel.
VisitClosed ==
    /\ AtClient /\ ~open[Visited]
    /\ DropVisited /\ UNCHANGED wire

\* recv() reads end-of-file before it looks at recvBuf_: DISCONNECTED.
VisitDisconnected ==
    /\ AtClient /\ open[Visited]
    /\ net[Visited] = <<>> /\ peer[Visited] = "closed"
    /\ DropVisited /\ CloseAll({Visited})

\* recv() returns SOCK_ERROR (connection reset): ignored, the channel stays;
\* the next read of that socket reports end-of-file.
VisitError ==
    /\ AtClient /\ open[Visited] /\ peer[Visited] = "reset"
    /\ peer' = [peer EXCEPT ![Visited] = "closed"]
    /\ cursor' = cursor + 1
    /\ UNCHANGED <<control, clients, users, age, wire, out, acked>>

CanRead(c) ==
    open[c] /\ peer[c] # "reset" /\ (peer[c] = "closed" => net[c] # <<>>)

\* Mutant: the loop drains one client before it turns to the next.
VisitMessageDrains ==
    /\ AtClient /\ CanRead(Visited)
    /\ buf[Visited] \o net[Visited] # <<>>
    /\ Handle(Visited, Head(buf[Visited] \o net[Visited]))
    /\ UNCHANGED <<control, clients, cursor, peer, acked>>

VisitMessage ==
    /\ AtClient /\ CanRead(Visited)
    /\ buf[Visited] \o net[Visited] # <<>>
    /\ Handle(Visited, Head(buf[Visited] \o net[Visited]))
    /\ cursor' = cursor + 1
    /\ UNCHANGED <<control, clients, peer, acked>>

VisitIdle ==
    /\ AtClient /\ CanRead(Visited)
    /\ buf[Visited] \o net[Visited] = <<>>
    /\ cursor' = cursor + 1
    /\ UNCHANGED <<control, clients, users, age, wire, remote>>

EndPass ==
    /\ pc = "serve" /\ cursor > Len(clients)
    /\ pc' = "purge"
    /\ UNCHANGED <<registry, running, backlog, purgeDue, wire, remote>>

\* Mutant: only users whose channel is already closed are purged.
StaleAndClosed ==
    {i \in Ids : users[i] # NoConn /\ age[i] >= StaleAfter /\ ~open[users[i]]}

Stale == {i \in Ids : users[i] # NoConn /\ age[i] >= StaleAfter}

\* Mutant: a purged user's channel stays open.
PurgeKeepsChannels ==
    /\ pc = "purge"
    /\ pc' = IF running THEN "accept" ELSE "exited"
    /\ LET gone == IF purgeDue THEN Stale ELSE {} IN
       /\ users' = [i \in Ids |-> IF i \in gone THEN NoConn ELSE users[i]]
       /\ age' = [i \in Ids |-> IF i \in gone THEN 0 ELSE age[i]]
    /\ purgeDue' = FALSE
    /\ UNCHANGED <<running, backlog, clients, cursor, wire, remote>>

\* The end of a turn of the loop: the purge if its 30 s are over, then
\* `while (running_)`.
Purge ==
    /\ pc = "purge"
    /\ pc' = IF running THEN "accept" ELSE "exited"
    /\ LET gone == IF purgeDue THEN Stale ELSE {} IN
       /\ CloseAll({users[i] : i \in gone})
       /\ users' = [i \in Ids |-> IF i \in gone THEN NoConn ELSE users[i]]
       /\ age' = [i \in Ids |-> IF i \in gone THEN 0 ELSE age[i]]
    /\ purgeDue' = FALSE
    /\ UNCHANGED <<running, backlog, clients, cursor, remote>>

---------------------------------------------------------------------------
(* start() and stop(), called by the owner's thread.  stop() waits in      *)
(* join() between StopBegin and StopEnd.                                   *)

Start ==
    /\ pc = "off" /\ ~running
    /\ running' = TRUE /\ pc' = "accept" /\ purgeDue' = FALSE
    /\ UNCHANGED <<registry, backlog, wire, remote>>

StopBegin ==
    /\ running
    /\ running' = FALSE /\ backlog' = <<>>
    /\ UNCHANGED <<registry, pc, purgeDue, wire, remote>>

\* Mutant: stop() clears clients_ without closing the channels.
StopEndForgets ==
    /\ pc = "exited" /\ pc' = "off"
    /\ clients' = <<>> /\ cursor' = 1
    /\ users' = [i \in Ids |-> NoConn]
    /\ age' = [i \in Ids |-> 0]
    /\ UNCHANGED <<running, backlog, purgeDue, wire, remote>>

StopEnd ==
    /\ pc = "exited" /\ pc' = "off"
    /\ CloseAll(Range(clients))
    /\ clients' = <<>> /\ cursor' = 1
    /\ users' = [i \in Ids |-> NoConn]
    /\ age' = [i \in Ids |-> 0]
    /\ UNCHANGED <<running, backlog, purgeDue, remote>>

\* One purge period passes.
Tick ==
    /\ pc \notin {"off", "exited"}
    /\ age' = [i \in Ids |-> IF users[i] = NoConn THEN 0
                              ELSE MinOf(age[i] + 1, StaleAfter)]
    /\ purgeDue' = TRUE
    /\ UNCHANGED <<clients, cursor, users, pc, running, backlog, wire, remote>>

---------------------------------------------------------------------------
(* The peers: programs that use SignalingClient at the other end.          *)

Connect(c) ==
    /\ running /\ peer[c] = "idle"
    /\ peer' = [peer EXCEPT ![c] = "up"]
    /\ backlog' = Append(backlog, c)
    /\ UNCHANGED <<registry, pc, running, purgeDue, wire, out, acked>>

\* registerUser() needs connected_, everything else registered_ as well.
PeerRequests(c) ==
    {RegisterMsg(i) : i \in MayRegister[c]}
    \cup [type : {"heartbeat"}, id : acked[c]]
    \cup [type : Dialog \ Forward, id : acked[c], to : Ids]
    \cup (IF acked[c] = {} THEN {} ELSE [type : Dialog \cap Forward, to : Ids])

Pending(c) == Range(buf[c]) \cup Range(net[c])

PeerSend(c, m) ==
    /\ peer[c] = "up" /\ (open[c] \/ c \in Range(backlog))
    /\ m.type = "register" => m \notin Pending(c)
    /\ Len(buf[c]) + Len(net[c]) < MaxQueue
    /\ \A d \in Conns : Len(out[d]) < MaxQueue
    /\ net' = [net EXCEPT ![c] = Append(@, m)]
    /\ UNCHANGED <<registry, control, open, buf, remote>>

PeerReceive(c) ==
    /\ peer[c] = "up" /\ out[c] # <<>>
    /\ out' = [out EXCEPT ![c] = Tail(@)]
    /\ acked' = [acked EXCEPT ![c] =
                   IF Head(out[c]).type = "register_ok"
                   THEN @ \cup {Head(out[c]).id}
                   ELSE IF Head(out[c]).type = "register_fail" THEN {} ELSE @]
    /\ UNCHANGED <<registry, control, wire, peer>>

\* close(): the server will read what was sent and then end-of-file.
PeerClose(c) ==
    /\ peer[c] = "up"
    /\ peer' = [peer EXCEPT ![c] = "closed"]
    /\ out' = [out EXCEPT ![c] = <<>>]
    /\ acked' = [acked EXCEPT ![c] = {}]
    /\ UNCHANGED <<registry, control, wire>>

\* close() with unread data makes the peer's kernel reset the connection:
\* what the server has not read is lost.
PeerReset(c) ==
    /\ peer[c] = "up" /\ out[c] # <<>>
    /\ peer' = [peer EXCEPT ![c] = "reset"]
    /\ out' = [out EXCEPT ![c] = <<>>]
    /\ acked' = [acked EXCEPT ![c] = {}]
    /\ net' = [net EXCEPT ![c] = <<>>]
    /\ UNCHANGED <<registry, control, open, buf>>

\* Power or network is lost: nothing ever reaches the server again.
PeerVanish(c) ==
    /\ peer[c] = "up"
    /\ peer' = [peer EXCEPT ![c] = "gone"]
    /\ out' = [out EXCEPT ![c] = <<>>]
    /\ acked' = [acked EXCEPT ![c] = {}]
    /\ UNCHANGED <<registry, control, wire>>

\* A connection neither end refers to any more; its slot may be used again.
Recycle(c) ==
    /\ peer[c] \in {"closed", "reset", "gone"}
    /\ c \notin Range(clients) /\ c \notin Range(backlog)
    /\ Using(c) = {}
    /\ peer' = [peer EXCEPT ![c] = "idle"]
    /\ net' = [net EXCEPT ![c] = <<>>]
    /\ UNCHANGED <<registry, control, open, buf, out, acked>>

---------------------------------------------------------------------------
ServerStep ==
    \/ Accept \/ VisitClosed \/ VisitDisconnected \/ VisitError
    \/ VisitMessage \/ VisitIdle \/ EndPass \/ Purge

PeerStep(c) ==
    \/ Connect(c) \/ PeerReceive(c) \/ PeerClose(c) \/ PeerReset(c)
    \/ PeerVanish(c) \/ Recycle(c)
    \/ \E m \in PeerRequests(c) : PeerSend(c, m)

Next ==
    \/ ServerStep
    \/ Start \/ StopBegin \/ StopEnd
    \/ Tick
    \/ \E c \in Conns : PeerStep(c)

Spec == Init /\ [][Next]_vars

\* The server thread keeps running, and a caller of stop() returns from join.
Fairness == WF_vars(ServerStep) /\ WF_vars(StopEnd)
LiveSpec == Spec /\ Fairness

---------------------------------------------------------------------------
(* Properties.                                                             *)

TypeOK ==
    /\ pc \in {"off", "accept", "serve", "purge", "exited"}
    /\ running \in BOOLEAN /\ purgeDue \in BOOLEAN
    /\ backlog \in Seq(Conns) /\ clients \in Seq(Conns)
    /\ cursor \in Nat \ {0}
    /\ users \in [Ids -> Conns \cup {NoConn}]
    /\ age \in [Ids -> 0..StaleAfter]
    /\ open \in [Conns -> BOOLEAN]
    /\ buf \in [Conns -> Seq(Requests)]
    /\ net \in [Conns -> Seq(Requests)]
    /\ out \in [Conns -> Seq(Replies)]
    /\ peer \in [Conns -> {"idle", "up", "closed", "reset", "gone"}]
    /\ acked \in [Conns -> SUBSET Ids]

\* c has been told, or is about to read, that it is registered as id.
Told(c, id) ==
    \/ id \in acked[c]
    \/ \E m \in Range(out[c]) : m.type = "register_ok" /\ m.id = id

\* A peer whose connection is alive and that was told "registered" is the one
\* the server routes that id to: however registrations, replacements, purges
\* and clean-ups interleave, no program is left believing it is reachable
\* while users_ has forgotten it or points elsewhere.
ToldIsOwner ==
    \A c \in Conns, id \in Ids : open[c] /\ Told(c, id) => users[id] = c

\* A relayed message sits on a live connection only if that connection still
\* owns the user the message was addressed to: a replaced or purged
\* registration never goes on hearing another program's dialogue.
OnlyOwnerHears ==
    \A c \in Conns : open[c] =>
        \A m \in Range(out[c]) : m.for # NoId => users[m.for] = c

\* Every entry of users_ uses a channel that serverLoop still visits, so that
\* its disconnect will be seen - provided the channel registers only one id:
\* both clean-ups erase one entry and stop.
RegisteredIsServed ==
    \A id \in Ids :
        users[id] # NoConn /\ MayRegister[users[id]] \ {NoId} = {id}
            => users[id] \in Range(clients)

\* The strengthening that makes ToldIsOwner and OnlyOwnerHears inductive.
\* A peer that is not up has read and been told nothing that still counts.
QuietWhenDown == \A c \in Conns : peer[c] # "up" => out[c] = <<>> /\ acked[c] = {}

\* A connection the server has not accepted yet is unknown to users_ ...
UnknownUntilAccepted ==
    \A c \in Conns : peer[c] = "idle" \/ c \in Range(backlog) =>
        ~open[c] /\ out[c] = <<>> /\ acked[c] = {} /\ Using(c) = {}

\* ... and waits once in the backlog.
BacklogOnce ==
    /\ \A i, j \in DOMAIN backlog : backlog[i] = backlog[j] => i = j
    /\ \A c \in Range(backlog) : peer[c] # "idle"

\* Every open channel is in clients_, so stop() closes it.
OpenIsListed == \A c \in Conns : open[c] => c \in Range(clients)

\* A connection only ever registers the ids of the program behind it.
OwnIdsOnly ==
    \A c \in Conns :
        /\ \A m \in Pending(c) : m.type = "register" => m.id \in MayRegister[c]
        /\ Using(c) \subseteq MayRegister[c]

IInv ==
    /\ TypeOK
    /\ QuietWhenDown /\ UnknownUntilAccepted /\ BacklogOnce
    /\ OpenIsListed /\ OwnIdsOnly
    /\ ToldIsOwner /\ OnlyOwnerHears /\ RegisteredIsServed

\* The server implements Presence: an id is owned by the open channel users_
\* gives it, and every step - a register that replaces an entry, a clean-up,
\* a purge of several users at once, stop() - is a Claim, a Sever or a Forget.
Owner == [i \in Ids |-> IF Online(i) THEN users[i] ELSE NoConn]
ToldPairs == {t \in Conns \X Ids : open[t[1]] /\ Told(t[1], t[2])}
P == INSTANCE Presence WITH owner <- Owner, told <- ToldPairs
PromisesKept == P!Spec

\* A REGISTER on an accepted or waiting connection is handled, or the
\* connection ends: no peer, however chatty, starves another one.
RegisterPending(c) ==
    \E i \in MayRegister[c] : RegisterMsg(i) \in Pending(c)
RegisterHandled ==
    \A c \in Conns :
        (RegisterPending(c) /\ c \in Range(clients)) ~> ~RegisterPending(c)

\* A user whose program closes its connection is removed without waiting for
\* the heartbeat timeout.
ClosedUserRemoved ==
    \A c \in Conns, id \in Ids :
        (users[id] = c /\ peer[c] = "closed" /\ MayRegister[c] \ {NoId} = {id})
            ~> users[id] # c

\* A user whose machine vanished without closing is removed once the
\* heartbeats stop, if time goes on.
VanishedUserRemoved ==
    WF_vars(Tick) =>
        \A c \in Conns, id \in Ids :
            (users[id] = c /\ peer[c] = "gone") ~> users[id] # c

=============================================================================
