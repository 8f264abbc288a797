------------------------ MODULE SignalingClientProofs ------------------------
(***************************************************************************)
(* What a SignalingClient promises an owner that calls disconnect() before *)
(* it calls connect() again, for every number of attempts, connections and *)
(* failures, and the types of its variables whoever owns it.               *)
(***************************************************************************)
EXTENDS SignalingClient, TLAPS

\* What the receive thread and the channel have to do with one another.
Channel ==
    /\ link \in Nat /\ acked \in Nat
    /\ rx = "handle" => msg.link = link
    /\ rx \in {"lost", "wait", "retry", "dial", "mark"} => ~registered

\* disconnect() joins the receive thread: connect() finds none.  From where it
\* clears the flags only a register_ok in hand sets registered_ again, and with
\* no receive thread no other can.
Joined ==
    /\ owner \in {"connect", "dial", "start"} => rx = "none"
    /\ owner \in {"closing", "joining"} => ~running /\ (registered => late)
    /\ rx = "none" => (registered => late)

Current == registered /\ ~late => acked = link

Calm == Channel /\ Joined /\ Current /\ ~terminated

IInv == user = "careful" => Calm

\* The invariant holds at the start.
LEMMA InitInvariant == ClientInit => IInv
  BY DEF ClientInit, IInv, Calm, Channel, Joined, Current

\* The owner's steps: it makes a link only where registered_, if set, is late.
LEMMA OwnerInvariant ==
    ASSUME user = "careful", UNCHANGED user, IInv, OwnerCall \/ OwnerDisconnect \/ OwnerStep
    PROVE  IInv'
<1> USE DEF IInv, Calm, Channel, Joined, Current, flags, channel, server
<1>1. CASE OwnerCall
  BY <1>1 DEF OwnerCall
<1>2. CASE OwnerDisconnect
  BY <1>2 DEF OwnerDisconnect, ClearFlags
<1>3. CASE OwnerEnter
  BY <1>3 DEF OwnerEnter, ClearFlags
<1>4. CASE OwnerDial
  BY <1>4, BoundsAssumption DEF OwnerDial, NewLink, NoLink
<1>5. CASE OwnerStart
  BY <1>5 DEF OwnerStart
<1>6. CASE OwnerRegister
  BY <1>6 DEF OwnerRegister, Send
<1>7. CASE OwnerClose
  BY <1>7 DEF OwnerClose, Close
<1>8. CASE OwnerJoin
  BY <1>8 DEF OwnerJoin
<1> QED
  BY <1>1, <1>2, <1>3, <1>4, <1>5, <1>6, <1>7, <1>8 DEF OwnerStep

\* The receive thread's steps: whatever replaces the link has cleared
\* registered_ on its way, and no other thread of this instance does.
LEMMA ReceiveInvariant ==
    ASSUME user = "careful", UNCHANGED user, IInv, RxStep
    PROVE  IInv'
<1> USE DEF IInv, Calm, Channel, Joined, Current, flags, channel, server
<1>1. CASE RxTop
  BY <1>1 DEF RxTop
<1>2. CASE RxBeat \/ RxNoBeat
  BY <1>2 DEF RxBeat, RxNoBeat, Send
<1>3. CASE RxCheck
  <2>1. CASE open
    BY <1>3, <2>1 DEF RxCheck
  <2>2. CASE ~open
    BY <1>3, <2>2 DEF RxCheck, LoseLink
  <2> QED
    BY <2>1, <2>2
<1>4. CASE RxPoll
  BY <1>4 DEF RxPoll
<1>5. CASE RxRecv
  <2> DEFINE message == [type |-> Head(buf \o net), link |-> link]
  <2>1. message.link = link
    OBVIOUS
  <2> HIDE DEF message
  <2>2. CASE open /\ net = <<>> /\ ~alive
    BY <1>5, <2>2 DEF RxRecv, LoseLink
  <2>3. CASE /\ ~(open /\ net = <<>> /\ ~alive)
             /\ open /\ buf \o net # <<>>
    <3>1. /\ msg' = message /\ rx = "recv" /\ rx' = "handle"
          /\ UNCHANGED <<flags, open, link, owner, again, acked, terminated>>
      BY <1>5, <2>3 DEF RxRecv, message
    <3> QED
      BY <2>1, <3>1
  <2>4. CASE /\ ~(open /\ net = <<>> /\ ~alive)
             /\ ~(open /\ buf \o net # <<>>)
    BY <1>5, <2>4 DEF RxRecv
  <2> QED
    BY <2>2, <2>3, <2>4
<1>6. CASE RxHandle
  BY <1>6 DEF RxHandle
<1>7. CASE RxLost
  BY <1>7 DEF RxLost
<1>8. CASE RxWait
  BY <1>8 DEF RxWait
<1>9. CASE RxRetry
  BY <1>9 DEF RxRetry, Close
<1>10. CASE RxDial
  BY <1>10, BoundsAssumption DEF RxDial, NewLink, NoLink
<1>11. CASE RxMark
  BY <1>11 DEF RxMark, Send
<1> QED
  BY <1>1, <1>2, <1>3, <1>4, <1>5, <1>6, <1>7, <1>8, <1>9, <1>10, <1>11
  DEF RxStep

\* Every step keeps the invariant.
LEMMA NextInvariant ==
    ASSUME IInv, [ClientNext]_clientVars
    PROVE  IInv'
<1>0. UNCHANGED user
  BY DEF ClientNext, Alive, clientVars
<1> SUFFICES ASSUME user = "careful"
             PROVE  IInv'
  BY <1>0 DEF IInv
<1>1. CASE OwnerCall \/ OwnerDisconnect \/ OwnerStep
  BY <1>0, <1>1, OwnerInvariant
<1>2. CASE RxStep
  BY <1>0, <1>2, ReceiveInvariant
<1>3. CASE ServerAnswers \/ ServerRelays \/ LinkEnds
  BY <1>0, <1>3 DEF ServerAnswers, ServerRelays, LinkEnds, IInv, Calm, Channel, Joined, Current,
              flags, channel, server
<1>4. CASE UNCHANGED clientVars
  BY <1>4 DEF clientVars, IInv, Calm, Channel, Joined, Current, flags, channel, server
<1> QED
  BY <1>1, <1>2, <1>3, <1>4 DEF ClientNext

\* isRegistered(), for an owner that calls disconnect() before it connects
\* again, speaks of the connection in use, however often tryReconnect() and the
\* owner replace it, but for an answer in hand while disconnect() waited.
THEOREM RegistrationIsCurrent == ClientSpec => []RegisteredIsCurrent
<1>1. ClientInit => IInv
  BY InitInvariant
<1>2. IInv /\ [ClientNext]_clientVars => IInv'
  BY NextInvariant
<1>3. IInv => RegisteredIsCurrent
  BY DEF IInv, Calm, Current, RegisteredIsCurrent
<1> QED
  BY <1>1, <1>2, <1>3, PTL DEF ClientSpec

---------------------------------------------------------------------------
(* The types.  tryReconnect() counts an attempt only after having tested   *)
(* that one is left, and a message is of the link in use or an older one.  *)

Counted ==
    /\ rx \in {"retry", "dial"} => attempt < MaxAttempts
    /\ msg.link <= link

ClientTypes == ClientTypeOK /\ Counted

\* A queue may be empty.
LEMMA EmptyIsQueue == <<>> \in Seq(Answers \cup {"relayed"})
BY SMT

LEMMA InitTypes == ClientInit => ClientTypes
<1> SUFFICES ASSUME ClientInit PROVE ClientTypes
  OBVIOUS
<1> USE DEF ClientInit
<1>1. /\ attempt \in 0..MaxAttempts /\ fails \in 0..MaxFails
      /\ link \in 0..MaxLinks /\ acked \in 0..link
  BY BoundsAssumption
<1>2. msg \in [type : Answers \cup {"none", "relayed"},
               link : 0..MaxLinks]
  BY BoundsAssumption
<1>3. Counted
  BY DEF Counted
<1>4. /\ user \in {"app", "program", "careful"}
      /\ {autoReconnect, validId, again, running, connected, registered, late,
          hasId, open, alive, known, terminated} \subseteq BOOLEAN
  OBVIOUS
<1>5. asked \in Seq({"register", "heartbeat"})
  OBVIOUS
<1> QED
  BY <1>1, <1>2, <1>3, <1>4, <1>5, EmptyIsQueue DEF ClientTypes, ClientTypeOK

\* A new connection and a failed attempt keep the counts within their bounds.
LEMMA LinkTypes ==
    ASSUME ClientTypeOK, NewLink \/ NoLink
    PROVE  /\ link' \in link..MaxLinks /\ fails' \in 0..MaxFails
           /\ {open', alive', known'} \subseteq BOOLEAN
           /\ asked' \in Seq({"register", "heartbeat"})
           /\ net' \in Seq(Answers \cup {"relayed"})
           /\ buf' \in Seq(Answers \cup {"relayed"})
<1> USE BoundsAssumption DEF ClientTypeOK
<1>1. CASE NewLink
  <2>1. link' \in link..MaxLinks /\ fails' = fails
    BY <1>1 DEF NewLink
  <2>2. {open', alive', known'} \subseteq BOOLEAN /\ asked' = <<>>
    BY <1>1 DEF NewLink
  <2>3. net' = <<>> /\ buf' = <<>>
    BY <1>1 DEF NewLink
  <2> QED
    BY <2>1, <2>2, <2>3, EmptyIsQueue
<1>2. CASE NoLink
  <2>1. link' = link /\ fails' \in 0..MaxFails
    BY <1>2 DEF NoLink
  <2>2. link' \in link..MaxLinks
    BY <2>1
  <2>3. open' = FALSE /\ UNCHANGED <<net, buf, alive, asked, known>>
    BY <1>2 DEF NoLink, server
  <2>4. {open', alive', known'} \subseteq BOOLEAN
    BY <2>3
  <2> QED
    BY <2>1, <2>2, <2>3, <2>4
<1> QED
  BY <1>1, <1>2

\* A request is one of the two, once more or not.
LEMMA SendTypes ==
    ASSUME ClientTypeOK, Send("register") \/ Send("heartbeat")
    PROVE  asked' \in Seq({"register", "heartbeat"}) /\ UNCHANGED <<alive, known>>
<1> DEFINE Requests == {"register", "heartbeat"}
<1>1. asked \in Seq(Requests)
  BY DEF ClientTypeOK
<1>2. Append(asked, "register") \in Seq(Requests) /\ Append(asked, "heartbeat") \in Seq(Requests)
  BY <1>1
<1> QED
  BY <1>1, <1>2 DEF Send

\* So are the answers.
LEMMA AnswerTypes ==
    ASSUME ClientTypeOK, asked # <<>>
    PROVE  /\ Tail(asked) \in Seq({"register", "heartbeat"})
           /\ Append(net, Answer(Head(asked))) \in Seq(Answers \cup {"relayed"})
<1>1. asked \in Seq({"register", "heartbeat"}) /\ net \in Seq(Answers \cup {"relayed"})
  BY DEF ClientTypeOK
<1>2. Tail(asked) \in Seq({"register", "heartbeat"})
  BY <1>1
<1>3. Answer(Head(asked)) \in Answers
  BY DEF Answer, Answers
<1> HIDE DEF Answer, Answers
<1> QED
  BY <1>1, <1>2, <1>3

\* The owner's steps keep the types.
LEMMA OwnerTypes ==
    ASSUME ClientTypes, Alive, OwnerCall \/ OwnerDisconnect \/ OwnerStep
    PROVE  ClientTypes'
<1> USE BoundsAssumption DEF ClientTypes, ClientTypeOK, Counted, Alive, flags, channel, server
<1>1. CASE OwnerCall
  BY <1>1 DEF OwnerCall
<1>2. CASE OwnerDisconnect
  BY <1>2 DEF OwnerDisconnect, ClearFlags
<1>3. CASE OwnerEnter
  BY <1>3 DEF OwnerEnter, ClearFlags
<1>4. CASE OwnerDial
  BY <1>4, LinkTypes DEF OwnerDial
<1>5. CASE OwnerStart
  BY <1>5 DEF OwnerStart
<1>6. CASE OwnerRegister
  <2>1. CASE connected
    BY <1>6, <2>1, SendTypes DEF OwnerRegister
  <2>2. CASE ~connected
    BY <1>6, <2>2 DEF OwnerRegister
  <2> QED
    BY <2>1, <2>2
<1>7. CASE OwnerClose
  BY <1>7, EmptyIsQueue DEF OwnerClose, Close
<1>8. CASE OwnerJoin
  BY <1>8 DEF OwnerJoin
<1> QED
  BY <1>1, <1>2, <1>3, <1>4, <1>5, <1>6, <1>7, <1>8 DEF OwnerStep

\* So do the receive thread's.
LEMMA ReceiveTypes ==
    ASSUME ClientTypes, Alive, RxStep
    PROVE  ClientTypes'
<1> USE BoundsAssumption DEF ClientTypes, ClientTypeOK, Counted, Alive, flags, channel, server
<1>1. CASE RxTop
  BY <1>1 DEF RxTop
<1>2. CASE RxBeat \/ RxNoBeat
  BY <1>2, SendTypes DEF RxBeat, RxNoBeat
<1>3. CASE RxCheck
  <2>1. CASE open
    BY <1>3, <2>1 DEF RxCheck
  <2>2. CASE ~open
    BY <1>3, <2>2 DEF RxCheck, LoseLink
  <2> QED
    BY <2>1, <2>2
<1>4. CASE RxPoll
  BY <1>4 DEF RxPoll
<1>5. CASE RxRecv
  <2>1. CASE open /\ net = <<>> /\ ~alive
    BY <1>5, <2>1 DEF RxRecv, LoseLink
  <2>2. CASE /\ ~(open /\ net = <<>> /\ ~alive)
             /\ open /\ buf \o net # <<>>
    <3> DEFINE Types == Answers \cup {"relayed"}
               unread == buf \o net
    <3>1. unread \in Seq(Types) /\ unread # <<>>
      BY <2>2
    <3>2. Head(unread) \in Types /\ Tail(unread) \in Seq(Types)
      BY <3>1
    <3>3. msg' = [type |-> Head(unread), link |-> link] /\ buf' = Tail(unread)
      BY <1>5, <2>2 DEF RxRecv
    <3>4. /\ msg' \in [type : Answers \cup {"none", "relayed"},
                       link : 0..MaxLinks]
          /\ msg'.link <= link
          /\ buf' \in Seq(Types)
      BY <3>2, <3>3
    <3>5. /\ net' = <<>> /\ rx' = "handle"
          /\ UNCHANGED <<owner, again, attempt, flags, hasId, open, link, acked,
                         server, fails, terminated>>
      BY <1>5, <2>2 DEF RxRecv
    <3> QED
      BY <3>4, <3>5
  <2>3. CASE /\ ~(open /\ net = <<>> /\ ~alive)
             /\ ~(open /\ buf \o net # <<>>)
    BY <1>5, <2>3 DEF RxRecv
  <2> QED
    BY <2>1, <2>2, <2>3
<1>6. CASE RxHandle
  <2>1. msg.link \in 0..link
    OBVIOUS
  <2>2. /\ rx' = "top" /\ acked' \in 0..link
        /\ registered' \in BOOLEAN /\ late' \in BOOLEAN
        /\ UNCHANGED <<owner, again, msg, attempt, running, connected, hasId,
                       channel, server, fails, terminated>>
    BY <1>6, <2>1 DEF RxHandle
  <2> QED
    BY <2>2
<1>7. CASE RxLost
  BY <1>7 DEF RxLost
<1>8. CASE RxWait
  BY <1>8 DEF RxWait
<1>9. CASE RxRetry
  BY <1>9, EmptyIsQueue DEF RxRetry, Close
<1>10. CASE RxDial
  <2>1. /\ link' \in link..MaxLinks /\ fails' \in 0..MaxFails
        /\ {open', alive', known'} \subseteq BOOLEAN
        /\ asked' \in Seq({"register", "heartbeat"})
        /\ net' \in Seq(Answers \cup {"relayed"})
        /\ buf' \in Seq(Answers \cup {"relayed"})
    BY <1>10, LinkTypes DEF RxDial
  <2>2. /\ rx' \in {"mark", "wait"} /\ attempt' \in 0..MaxAttempts
        /\ UNCHANGED <<owner, again, msg, flags, hasId, acked, terminated>>
    BY <1>10 DEF RxDial
  <2>3. msg.link <= link' /\ acked' \in 0..MaxLinks
    BY <2>1, <2>2
  <2> QED
    BY <2>1, <2>2, <2>3
<1>11. CASE RxMark
  BY <1>11, SendTypes DEF RxMark
<1> QED
  BY <1>1, <1>2, <1>3, <1>4, <1>5, <1>6, <1>7, <1>8, <1>9, <1>10, <1>11
  DEF RxStep

\* So do the server's.
LEMMA ServerTypes ==
    ASSUME ClientTypes, Alive, ServerAnswers \/ ServerRelays \/ LinkEnds
    PROVE  ClientTypes'
<1> USE DEF ClientTypes, ClientTypeOK, Counted, Alive, flags, channel, server
<1>1. CASE ServerAnswers
  BY <1>1, AnswerTypes DEF ServerAnswers
<1>2. CASE ServerRelays
  BY <1>2 DEF ServerRelays
<1>3. CASE LinkEnds
  <2>1. /\ alive' = FALSE /\ asked' = <<>> /\ known' = FALSE
        /\ UNCHANGED <<owner, again, rx, msg, attempt, flags, hasId, channel, acked,
                       fails, terminated>>
    BY <1>3 DEF LinkEnds
  <2>2. asked' \in Seq({"register", "heartbeat"})
    BY <2>1
  <2>3. ClientTypeOK'
    BY <2>1, <2>2
  <2> QED
    BY <2>1, <2>3
<1> QED
  BY <1>1, <1>2, <1>3

\* All the runs check of a client's states holds for any number of attempts,
\* connections and failures: its variables keep their types, whoever calls
\* connect() and when, and isRegistered() speaks of the connection in use to an
\* owner that calls disconnect() first.
THEOREM ClientInvariant == ClientSpec => []ClientInv
<1>1. ClientInit => ClientTypes
  BY InitTypes
<1>2. ClientTypes /\ [ClientNext]_clientVars => ClientTypes'
  <2> SUFFICES ASSUME ClientTypes, [ClientNext]_clientVars PROVE ClientTypes'
    OBVIOUS
  <2>1. CASE ClientNext
    BY <2>1, OwnerTypes, ReceiveTypes, ServerTypes DEF ClientNext
  <2>2. CASE UNCHANGED clientVars
    BY <2>2 DEF clientVars, ClientTypes, ClientTypeOK, Counted, flags, channel, server
  <2> QED
    BY <2>1, <2>2
<1>3. ClientTypes /\ RegisteredIsCurrent => ClientInv
  BY DEF ClientTypes, ClientInv
<1> QED
  BY <1>1, <1>2, <1>3, RegistrationIsCurrent, PTL DEF ClientSpec

=============================================================================
