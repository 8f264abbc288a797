----------------------- MODULE SignalingServerProofs -----------------------
(***************************************************************************)
(* Proofs about SignalingServer, for every set of ids and connections,     *)
(* every MayRegister and every queue bound.                                *)
(***************************************************************************)
EXTENDS SignalingServer, TLAPS

---------------------------------------------------------------------------
(* Sequences as the loop and the queues use them.                          *)

\* Appending adds exactly one element.
LEMMA ListedAppend ==
    ASSUME NEW S, NEW s \in Seq(S), NEW e \in S
    PROVE  /\ Append(s, e) \in Seq(S)
           /\ Range(Append(s, e)) = Range(s) \cup {e}
  <1> DEFINE r == Append(s, e)
  <1>1. /\ r \in Seq(S) /\ Len(r) = Len(s) + 1 /\ r[Len(s) + 1] = e
        /\ \A k \in 1..Len(s) : r[k] = s[k]
    OBVIOUS
  <1> HIDE DEF r
  <1>2. \A k \in 1..Len(r) : k \in 1..Len(s) \/ k = Len(s) + 1
    BY <1>1
  <1>3. \A x \in Range(r) : x \in Range(s) \cup {e}
    BY <1>1, <1>2 DEF Range
  <1>4. \A x \in Range(s) \cup {e} : x \in Range(r)
    <2>1. \A k \in 1..Len(s) : k \in 1..Len(r)
      BY <1>1
    <2>2. Len(s) + 1 \in 1..Len(r)
      BY <1>1
    <2> QED BY <1>1, <2>1, <2>2 DEF Range
  <1> QED BY <1>1, <1>3, <1>4 DEF r

\* A concatenation holds the elements of both parts.
LEMMA ListedConcat ==
    ASSUME NEW S, NEW s \in Seq(S), NEW t \in Seq(S)
    PROVE  /\ s \o t \in Seq(S)
           /\ \A x \in Range(s \o t) : x \in Range(s) \cup Range(t)
  BY DEF Range

\* Head and Tail of a queue come from the queue.
LEMMA ListedTail ==
    ASSUME NEW S, NEW s \in Seq(S), s # <<>>
    PROVE  /\ Head(s) \in S /\ Tail(s) \in Seq(S)
           /\ Head(s) \in Range(s)
           /\ \A x \in Range(Tail(s)) : x \in Range(s)
  BY DEF Range

\* Length and elements of a concatenation, by position.
LEMMA ConcatIndex ==
    ASSUME NEW S, NEW s \in Seq(S), NEW t \in Seq(S)
    PROVE  /\ s \o t \in Seq(S) /\ Len(s \o t) = Len(s) + Len(t)
           /\ \A k \in 1..Len(s) : (s \o t)[k] = s[k]
           /\ \A k \in 1..Len(t) : (s \o t)[Len(s) + k] = t[k]
  OBVIOUS

\* Erasing the element under the iterator leaves every other one.
LEMMA ListedRemove ==
    ASSUME NEW S, NEW s \in Seq(S), NEW i \in 1..Len(s)
    PROVE  LET r == SubSeq(s, 1, i - 1) \o SubSeq(s, i + 1, Len(s)) IN
           /\ r \in Seq(S)
           /\ \A x \in Range(s) : x # s[i] => x \in Range(r)
  <1> DEFINE a == SubSeq(s, 1, i - 1)
             b == SubSeq(s, i + 1, Len(s))
             r == a \o b
  <1>1. /\ a \in Seq(S) /\ Len(a) = i - 1
        /\ \A k \in 1..(i - 1) : a[k] = s[k]
    OBVIOUS
  <1>2. /\ b \in Seq(S) /\ Len(b) = Len(s) - i
        /\ \A k \in 1..(Len(s) - i) : b[k] = s[k + i]
    OBVIOUS
  <1> HIDE DEF a, b
  <1>3. r \in Seq(S) /\ Len(r) = Len(s) - 1
    <2>1. r \in Seq(S) /\ Len(r) = Len(a) + Len(b)
      BY <1>1, <1>2, ConcatIndex
    <2>2. Len(s) \in Nat /\ i \in Int
      OBVIOUS
    <2> HIDE DEF r
    <2> QED BY <2>1, <2>2, <1>1, <1>2
  <1>4. ASSUME NEW k \in 1..Len(s), k # i
        PROVE  \E j \in 1..Len(r) : r[j] = s[k]
    <2>1. CASE k < i
      <3>1. k \in 1..Len(r) /\ k \in 1..Len(a)
        BY <2>1, <1>1, <1>3
      <3>2. r[k] = a[k]
        BY <3>1, <1>1, <1>2, ConcatIndex
      <3> QED BY <3>1, <3>2, <1>1, <2>1
    <2>2. CASE k > i
      <3>1. k - 1 \in 1..Len(r) /\ k - i \in 1..Len(b)
        BY <2>2, <1>2, <1>3
      <3>2. r[Len(a) + (k - i)] = b[k - i]
        BY <3>1, <1>1, <1>2, ConcatIndex
      <3>4. Len(a) + (k - i) = k - 1
        BY <1>1
      <3>3. b[k - i] = s[k]
        BY <3>1, <1>2
      <3> QED BY <3>1, <3>2, <3>3, <3>4
    <2> QED BY <2>1, <2>2, <1>4
  <1>5. ASSUME NEW x \in Range(s), x # s[i]
        PROVE  x \in Range(r)
    <2>1. PICK k \in 1..Len(s) : x = s[k]
      BY <1>5 DEF Range
    <2>2. PICK j \in 1..Len(r) : r[j] = s[k]
      BY <1>4, <1>5, <2>1
    <2> QED BY <2>1, <2>2, <1>3 DEF Range
  <1> QED BY <1>3, <1>5 DEF a, b

---------------------------------------------------------------------------
(* What the channel operations do to the variables they touch.             *)

WireType ==
    /\ open \in [Conns -> BOOLEAN]
    /\ buf \in [Conns -> Seq(Requests)]
    /\ net \in [Conns -> Seq(Requests)]

LEMMA CloseAllEffect ==
    ASSUME TypeOK, NEW S, CloseAll(S)
    PROVE  /\ WireType'
           /\ \A c \in Conns : open'[c] <=> open[c] /\ c \notin S
           /\ \A c \in Conns : \A m \in Pending(c)' : m \in Pending(c)
  <1>2. Range(<<>>) = {}
    BY DEF Range
  <1>3. WireType'
    BY DEF CloseAll, TypeOK, WireType
  <1>4. \A c \in Conns : open'[c] <=> open[c] /\ c \notin S
    BY DEF CloseAll, TypeOK
  <1>5. ASSUME NEW c \in Conns, NEW m \in Pending(c)'
        PROVE  m \in Pending(c)
    <2>1. m \in Range(buf'[c]) \/ m \in Range(net'[c])
      BY <1>5 DEF Pending
    <2>2. CASE c \in S
      BY <2>1, <2>2, <1>2 DEF CloseAll
    <2>3. CASE c \notin S
      BY <2>1, <2>3 DEF CloseAll, Pending
    <2> QED BY <2>2, <2>3
  <1> QED BY <1>3, <1>4, <1>5

LEMMA ReceiveEffect ==
    ASSUME TypeOK, NEW c \in Conns, NEW S, Receive(c, S),
           buf[c] \o net[c] # <<>>
    PROVE  /\ WireType'
           /\ \A d \in Conns : open'[d] <=> open[d] /\ d \notin S
           /\ \A d \in Conns : \A m \in Pending(d)' : m \in Pending(d)
           /\ Head(buf[c] \o net[c]) \in Requests
           /\ Head(buf[c] \o net[c]) \in Pending(c)
  <1> DEFINE all == buf[c] \o net[c]
  <1>1. /\ all \in Seq(Requests)
        /\ \A m \in Range(all) : m \in Pending(c)
    BY ListedConcat DEF TypeOK, Pending
  <1>2. /\ Head(all) \in Requests /\ Tail(all) \in Seq(Requests)
        /\ Head(all) \in Range(all)
        /\ \A m \in Range(Tail(all)) : m \in Range(all)
    BY <1>1, ListedTail
  <1> HIDE DEF all
  <1>3. open' = [d \in Conns |-> open[d] /\ d \notin S]
    BY DEF Receive
  <1>4. /\ buf' = [d \in Conns |-> IF d \in S THEN <<>>
                                   ELSE IF d = c THEN Tail(all) ELSE buf[d]]
        /\ net' = [d \in Conns |-> IF d = c \/ d \in S THEN <<>> ELSE net[d]]
    BY DEF Receive, all
  <1>5. WireType'
    BY <1>2, <1>3, <1>4 DEF TypeOK, WireType
  <1>6. Range(<<>>) = {}
    BY DEF Range
  <1>7. ASSUME NEW d \in Conns, NEW m \in Pending(d)'
        PROVE  m \in Pending(d)
    <2>1. m \in Range(buf'[d]) \/ m \in Range(net'[d])
      BY <1>7 DEF Pending
    <2>2. CASE d = c
      BY <2>1, <2>2, <1>1, <1>2, <1>4, <1>6
    <2>3. CASE d # c
      BY <2>1, <2>3, <1>4, <1>6 DEF Pending
    <2> QED BY <2>2, <2>3
  <1> QED BY <1>1, <1>2, <1>3, <1>5, <1>7 DEF all

\* A send adds at most its message, and only on a channel that is still open
\* towards a peer that is up.
LEMMA SendEffect ==
    ASSUME TypeOK, NEW c \in Conns, NEW m \in Replies, Send(c, m)
    PROVE  /\ out' \in [Conns -> Seq(Replies)]
           /\ \A d \in Conns : \A x \in Range(out'[d]) :
                 x \in Range(out[d]) \/ (d = c /\ x = m)
           /\ \A d \in Conns : peer[d] # "up" => out'[d] = out[d]
           /\ \A d \in Conns : ~open'[d] => out'[d] = out[d]
  <1>1. CASE out' = out
    BY <1>1 DEF TypeOK
  <1>2. CASE open'[c] /\ peer[c] = "up" /\ out' = [out EXCEPT ![c] = Append(@, m)]
    <2>1. /\ Append(out[c], m) \in Seq(Replies)
          /\ Range(Append(out[c], m)) = Range(out[c]) \cup {m}
      BY ListedAppend DEF TypeOK
    <2> QED BY <1>2, <2>1 DEF TypeOK
  <1> QED BY <1>1, <1>2 DEF Send

---------------------------------------------------------------------------
(* Type correctness.                                                       *)

\* Each kind of message has the fields its handler reads.
LEMMA RequestFields ==
    ASSUME NEW m \in Requests
    PROVE  /\ m.type = "register" => m.id \in Ids \cup {NoId}
           /\ m.type \in {"connect_request"} \cup Silent => m.id \in Ids /\ m.to \in Ids
           /\ m.type \in Forward => m.to \in Ids
  BY DEF Requests, Silent, Forward

\* Everything the handlers send is a reply.
LEMMA RepliesSent ==
    /\ Reply("register_fail", NoId) \in Replies
    /\ Reply("heartbeat_ack", NoId) \in Replies
    /\ \A i \in Ids : Reply("register_ok", i) \in Replies
    /\ \A i \in Ids : Reply("user_offline", i) \in Replies
    /\ \A i, j \in Ids : \A t \in {"connect_request"} \cup Silent \cup Forward :
          Relayed(t, i, j) \in Replies
  BY DEF Replies, Reply, Relayed, Silent, Forward

\* What any handler does, for the proofs that do not care which one it was.
HandlerType ==
    /\ WireType'
    /\ out' \in [Conns -> Seq(Replies)]
    /\ users' \in [Ids -> Conns \cup {NoConn}]
    /\ age' \in [Ids -> 0..StaleAfter]

LEMMA HandleTypes ==
    ASSUME TypeOK, NEW c \in Conns, buf[c] \o net[c] # <<>>,
           Handle(c, Head(buf[c] \o net[c]))
    PROVE  HandlerType
  <1> DEFINE m == Head(buf[c] \o net[c])
  <1>1. ASSUME NEW S, Receive(c, S)
        PROVE  WireType' /\ m \in Requests
    BY <1>1, ReceiveEffect
  <1> HIDE DEF m
  <1>2. ASSUME NEW d \in Conns, NEW r \in Replies, Send(d, r)
        PROVE  out' \in [Conns -> Seq(Replies)]
    BY <1>2, SendEffect
  <1>3. users \in [Ids -> Conns \cup {NoConn}] /\ age \in [Ids -> 0..StaleAfter]
        /\ out \in [Conns -> Seq(Replies)] /\ 0 \in 0..StaleAfter
    BY StaleAssumption DEF TypeOK
  <1>4. \A i \in Ids : Online(i) => users[i] \in Conns
    BY <1>3 DEF Online
  <1>5. CASE m.type = "register" /\ HandleRegister(c, m)
    <2>1. CASE m.id = NoId
      BY <1>5, <2>1, <1>1, <1>2, <1>3, RepliesSent DEF HandleRegister, HandlerType
    <2>2. CASE m.id # NoId
      <3>1. m \in Requests /\ WireType'
        BY <1>5, <2>2, <1>1 DEF HandleRegister
      <3>2. m.id \in Ids
        BY <3>1, <1>5, <2>2, RequestFields
      <3>3. out' \in [Conns -> Seq(Replies)]
        BY <1>5, <2>2, <3>2, <1>2, RepliesSent DEF HandleRegister
      <3>4. /\ users' = [users EXCEPT ![m.id] = c]
            /\ age' = [age EXCEPT ![m.id] = 0]
        BY <1>5, <2>2 DEF HandleRegister
      <3> QED BY <3>1, <3>2, <3>3, <3>4, <1>3 DEF HandlerType
    <2> QED BY <2>1, <2>2
  <1>6. CASE m.type = "heartbeat" /\ HandleHeartbeat(c, m)
    BY <1>6, <1>1, <1>2, <1>3, RepliesSent DEF HandleHeartbeat, HandlerType
  <1>7. CASE m.type = "connect_request" /\ HandleConnectRequest(c, m)
    <2>1. WireType' /\ m.id \in Ids /\ m.to \in Ids
      BY <1>7, <1>1, RequestFields DEF HandleConnectRequest
    <2>2. out' \in [Conns -> Seq(Replies)]
      BY <1>7, <2>1, <1>2, <1>4, RepliesSent DEF HandleConnectRequest
    <2> QED BY <1>7, <2>1, <2>2, <1>3 DEF HandleConnectRequest, HandlerType
  <1>8. CASE m.type \in Silent /\ HandleConnectAnswer(c, m)
    <2>1. WireType' /\ m.id \in Ids /\ m.to \in Ids
      BY <1>8, <1>1, RequestFields DEF HandleConnectAnswer
    <2>2. out' \in [Conns -> Seq(Replies)]
      BY <1>8, <2>1, <1>2, <1>3, <1>4, RepliesSent DEF HandleConnectAnswer
    <2> QED BY <1>8, <2>1, <2>2, <1>3 DEF HandleConnectAnswer, HandlerType
  <1>9. CASE m.type \in Forward /\ HandleForward(c, m)
    <2>1. WireType' /\ m.to \in Ids
      BY <1>9, <1>1, RequestFields DEF HandleForward
    <2>2. out' \in [Conns -> Seq(Replies)]
      BY <1>9, <2>1, <1>2, <1>3, <1>4, RepliesSent DEF HandleForward
    <2> QED BY <1>9, <2>1, <2>2, <1>3 DEF HandleForward, HandlerType
  <1> QED BY <1>5, <1>6, <1>7, <1>8, <1>9 DEF Handle, m

\* The messages of the two requests a peer composes itself.
LEMMA PeerRequestsTyped ==
    ASSUME TypeOK, NEW c \in Conns
    PROVE  PeerRequests(c) \subseteq Requests
  <1>1. acked[c] \subseteq Ids /\ MayRegister[c] \subseteq Ids \cup {NoId}
    BY MayRegisterAssumption DEF TypeOK
  <1>2. Dialog \ Forward \subseteq {"connect_request"} \cup Silent
    BY DialogAssumption
  <1>3. {RegisterMsg(i) : i \in MayRegister[c]} \subseteq Requests
    BY <1>1 DEF RegisterMsg, Requests
  <1>4. [type : {"heartbeat"}, id : acked[c]] \subseteq Requests
    BY <1>1 DEF Requests
  <1>5. [type : Dialog \ Forward, id : acked[c], to : Ids] \subseteq Requests
    BY <1>1, <1>2 DEF Requests
  <1>6. [type : Dialog \cap Forward, to : Ids] \subseteq Requests
    BY DEF Requests
  <1> QED BY <1>3, <1>4, <1>5, <1>6 DEF PeerRequests

---------------------------------------------------------------------------
(* The inductive invariant.                                                *)

\* The registry side of a handled message: the handler may close channels and
\* give ids of channel c to c, and never leaves a told peer without its id.
HandlerKeeps(c) ==
    /\ \A d \in Conns : open'[d] => open[d]
    /\ \A d \in Conns : \A m \in Pending(d)' : m \in Pending(d)
    /\ \A d \in Conns : peer[d] # "up" \/ ~open'[d] => out'[d] = out[d]
    /\ \A i \in Ids : users'[i] = users[i]
                      \/ (users'[i] = c /\ i \in MayRegister[c])
    /\ \A d \in Conns, i \in Ids :
          open'[d] /\ (i \in acked[d] \/ \E x \in Range(out'[d]) :
                                          x.type = "register_ok" /\ x.id = i)
              => users'[i] = d
    /\ \A d \in Conns : open'[d] =>
          \A x \in Range(out'[d]) : x.for # NoId => users'[x.for] = d

\* A handler that sends one reply that registers nobody, to the owner of the
\* user it is for, and leaves users_ alone.
LEMMA RelayKeeps ==
    ASSUME IInv, NEW c \in Conns, buf[c] \o net[c] # <<>>, Receive(c, {}),
           users' = users, NEW d \in Conns, NEW r \in Replies,
           r.type # "register_ok", r.for # NoId => users[r.for] = d,
           Send(d, r)
    PROVE  HandlerKeeps(c)
  <1>1. TypeOK /\ ToldIsOwner /\ OnlyOwnerHears
    BY DEF IInv
  <1>2. /\ \A e \in Conns : open'[e] <=> open[e]
        /\ \A e \in Conns : \A m \in Pending(e)' : m \in Pending(e)
    <2> DEFINE S == {}
    <2>1. S = {} /\ Receive(c, S)
      OBVIOUS
    <2> HIDE DEF S
    <2>2. /\ \A e \in Conns : open'[e] <=> open[e] /\ e \notin S
          /\ \A e \in Conns : \A m \in Pending(e)' : m \in Pending(e)
      BY <1>1, <2>1, ReceiveEffect
    <2> QED BY <2>1, <2>2
  <1>3. /\ \A e \in Conns : \A x \in Range(out'[e]) :
              x \in Range(out[e]) \/ (e = d /\ x = r)
        /\ \A e \in Conns : peer[e] # "up" => out'[e] = out[e]
        /\ \A e \in Conns : ~open'[e] => out'[e] = out[e]
    BY <1>1, SendEffect
  <1>4. ASSUME NEW e \in Conns, NEW i \in Ids, open'[e],
               i \in acked[e] \/ \E x \in Range(out'[e]) :
                                    x.type = "register_ok" /\ x.id = i
        PROVE  users'[i] = e
    BY <1>1, <1>2, <1>3, <1>4 DEF ToldIsOwner, Told
  <1>5. ASSUME NEW e \in Conns, open'[e], NEW x \in Range(out'[e]), x.for # NoId
        PROVE  users'[x.for] = e
    BY <1>1, <1>2, <1>3, <1>5 DEF OnlyOwnerHears
  <1> QED BY <1>2, <1>3, <1>4, <1>5 DEF HandlerKeeps

\* The same when the handler sends nothing.
LEMMA SilenceKeeps ==
    ASSUME IInv, NEW c \in Conns, buf[c] \o net[c] # <<>>, Receive(c, {}),
           users' = users, out' = out
    PROVE  HandlerKeeps(c)
  <1>1. TypeOK /\ ToldIsOwner /\ OnlyOwnerHears
    BY DEF IInv
  <1>2. /\ \A e \in Conns : open'[e] <=> open[e]
        /\ \A e \in Conns : \A m \in Pending(e)' : m \in Pending(e)
    <2> DEFINE S == {}
    <2>1. S = {} /\ Receive(c, S)
      OBVIOUS
    <2> HIDE DEF S
    <2>2. /\ \A e \in Conns : open'[e] <=> open[e] /\ e \notin S
          /\ \A e \in Conns : \A m \in Pending(e)' : m \in Pending(e)
      BY <1>1, <2>1, ReceiveEffect
    <2> QED BY <2>1, <2>2
  <1> QED BY <1>1, <1>2 DEF HandlerKeeps, ToldIsOwner, Told, OnlyOwnerHears

\* register: the previous channel of the id is closed, so nobody else that
\* was told it owns the id is still open.
LEMMA RegisterKeeps ==
    ASSUME IInv, NEW c \in Conns, buf[c] \o net[c] # <<>>,
           Head(buf[c] \o net[c]).type = "register",
           HandleRegister(c, Head(buf[c] \o net[c]))
    PROVE  HandlerKeeps(c)
  <1> DEFINE m == Head(buf[c] \o net[c])
  <1>1. TypeOK /\ ToldIsOwner /\ OnlyOwnerHears /\ OwnIdsOnly
    BY DEF IInv
  <1>2. CASE m.id = NoId
    BY <1>2, RelayKeeps, RepliesSent DEF HandleRegister, Reply
  <1>3. CASE m.id # NoId
    <2> DEFINE S == {users[m.id]} \ {NoConn}
    <2>1. Receive(c, S) /\ users' = [users EXCEPT ![m.id] = c]
          /\ Send(c, Reply("register_ok", m.id))
      BY <1>3 DEF HandleRegister
    <2>2. /\ \A e \in Conns : open'[e] <=> open[e] /\ e \notin S
          /\ \A e \in Conns : \A x \in Pending(e)' : x \in Pending(e)
          /\ m \in Requests /\ m \in Pending(c)
      BY <1>1, <2>1, ReceiveEffect
    <2> HIDE DEF m
    <2>3. m.id \in Ids /\ m.id \in MayRegister[c]
      BY <1>1, <1>3, <2>2, RequestFields DEF OwnIdsOnly, m
    <2>4. /\ \A e \in Conns : \A x \in Range(out'[e]) :
                x \in Range(out[e]) \/ (e = c /\ x = Reply("register_ok", m.id))
          /\ \A e \in Conns : peer[e] # "up" => out'[e] = out[e]
          /\ \A e \in Conns : ~open'[e] => out'[e] = out[e]
      BY <1>1, <2>1, <2>3, SendEffect, RepliesSent
    <2>5. \A i \in Ids : users'[i] = IF i = m.id THEN c ELSE users[i]
      BY <1>1, <2>1, <2>3 DEF TypeOK
    <2>6. \A e \in Conns : open'[e] /\ users[m.id] = e => FALSE
      BY <2>2, ConnsAssumption
    <2>7. ASSUME NEW e \in Conns, NEW i \in Ids, open'[e],
                 i \in acked[e] \/ \E x \in Range(out'[e]) :
                                      x.type = "register_ok" /\ x.id = i
          PROVE  users'[i] = e
      <3>1. Told(e, i) \/ (e = c /\ i = m.id)
        BY <2>4, <2>7 DEF Told, Reply
      <3>2. Told(e, i) => users[i] = e
        BY <1>1, <2>2, <2>7 DEF ToldIsOwner
      <3> QED BY <3>1, <3>2, <2>5, <2>6, <2>7
    <2>8. ASSUME NEW e \in Conns, open'[e], NEW x \in Range(out'[e]), x.for # NoId
          PROVE  users'[x.for] = e
      <3>1. x \in Range(out[e])
        BY <2>4, <2>8 DEF Reply
      <3>2. users[x.for] = e
        BY <1>1, <2>2, <2>8, <3>1 DEF OnlyOwnerHears
      <3>3. x \in Replies
        BY <3>1, <1>1 DEF TypeOK, Range
      <3>4. x.for \in Ids
        BY <2>8, <3>3 DEF Replies
      <3> QED BY <3>2, <3>4, <2>5, <2>6, <2>8
    <2> QED BY <2>2, <2>3, <2>4, <2>5, <2>7, <2>8 DEF HandlerKeeps
  <1> QED BY <1>2, <1>3

LEMMA HandleKeeps ==
    ASSUME IInv, NEW c \in Conns, buf[c] \o net[c] # <<>>,
           Handle(c, Head(buf[c] \o net[c]))
    PROVE  HandlerKeeps(c)
  <1> DEFINE m == Head(buf[c] \o net[c])
  <1>1. TypeOK
    BY DEF IInv
  <1>2. ASSUME Receive(c, {}) PROVE m \in Requests
    BY <1>1, <1>2, ReceiveEffect
  <1>3. \A i \in Ids : Online(i) => users[i] \in Conns
    BY <1>1 DEF Online, TypeOK
  <1>4. ASSUME NEW t \in {"connect_request"} \cup Silent \cup Forward,
               NEW i \in Ids, NEW j \in Ids
        PROVE  /\ Relayed(t, i, j) \in Replies
               /\ Relayed(t, i, j).type # "register_ok"
               /\ Relayed(t, i, j).for = j
    BY <1>4, RepliesSent DEF Relayed, Silent, Forward
  <1>5. ASSUME NEW j \in Ids
        PROVE  /\ Reply("user_offline", j) \in Replies
               /\ Reply("user_offline", j).type # "register_ok"
               /\ Reply("user_offline", j).for = NoId
    BY <1>5, RepliesSent DEF Reply
  <1>6. CASE m.type = "register" /\ HandleRegister(c, m)
    BY <1>6, RegisterKeeps
  <1>7. CASE m.type = "heartbeat" /\ HandleHeartbeat(c, m)
    BY <1>7, RelayKeeps, RepliesSent DEF HandleHeartbeat, Reply
  <1>8. CASE m.type = "connect_request" /\ HandleConnectRequest(c, m)
    <2>1. /\ Receive(c, {}) /\ users' = users
          /\ IF Online(m.to) THEN Send(users[m.to], Relayed(m.type, m.id, m.to))
             ELSE Send(c, Reply("user_offline", m.to))
      BY <1>8 DEF HandleConnectRequest
    <2> HIDE DEF m
    <2>2. m.id \in Ids /\ m.to \in Ids
      BY <2>1, <1>2, <1>8, RequestFields
    <2>3. CASE Online(m.to)
      BY <2>1, <2>2, <2>3, <1>3, <1>4, <1>8, RelayKeeps
    <2>4. CASE ~Online(m.to)
      BY <2>1, <2>2, <2>4, <1>5, RelayKeeps
    <2> QED BY <2>3, <2>4
  <1>9. CASE m.type \in Silent /\ HandleConnectAnswer(c, m)
    <2>1. /\ Receive(c, {}) /\ users' = users
          /\ IF Online(m.to) THEN Send(users[m.to], Relayed(m.type, m.id, m.to))
             ELSE out' = out
      BY <1>9 DEF HandleConnectAnswer
    <2> HIDE DEF m
    <2>2. m.id \in Ids /\ m.to \in Ids
      BY <2>1, <1>2, <1>9, RequestFields
    <2>3. CASE Online(m.to)
      BY <2>1, <2>2, <2>3, <1>3, <1>4, <1>9, RelayKeeps
    <2>4. CASE ~Online(m.to)
      BY <2>1, <2>4, SilenceKeeps
    <2> QED BY <2>3, <2>4
  <1>10. CASE m.type \in Forward /\ HandleForward(c, m)
    <2>1. Receive(c, {}) /\ users' = users
      BY <1>10 DEF HandleForward
    <2>2. \/ out' = out
          \/ \E from \in Ids :
               IF Online(m.to) THEN Send(users[m.to], Relayed(m.type, from, m.to))
               ELSE Send(c, Reply("user_offline", m.to))
      BY <1>10 DEF HandleForward
    <2> HIDE DEF m
    <2>3. m.to \in Ids
      BY <2>1, <1>2, <1>10, RequestFields
    <2>4. CASE out' = out
      BY <2>1, <2>4, SilenceKeeps
    <2>5. ASSUME NEW from \in Ids, Online(m.to),
                 Send(users[m.to], Relayed(m.type, from, m.to))
          PROVE  HandlerKeeps(c)
      BY <2>1, <2>3, <2>5, <1>3, <1>4, <1>10, RelayKeeps
    <2>6. ASSUME Send(c, Reply("user_offline", m.to))
          PROVE  HandlerKeeps(c)
      BY <2>1, <2>3, <2>6, <1>5, RelayKeeps
    <2> QED BY <2>2, <2>4, <2>5, <2>6
  <1> QED BY <1>6, <1>7, <1>8, <1>9, <1>10 DEF Handle

USE DEF registry, control, wire, remote

LEMMA InitIInv == Init => IInv
  <1> SUFFICES ASSUME Init PROVE IInv
    OBVIOUS
  <1>1. Range(<<>>) = {}
    BY DEF Range
  <1>2. TypeOK
    <2>1. \A S : <<>> \in Seq(S)
      OBVIOUS
    <2>2. 0 \in 0..StaleAfter /\ 1 \in Nat \ {0}
      BY StaleAssumption
    <2>3. /\ pc \in {"off", "accept", "serve", "purge", "exited"}
          /\ running \in BOOLEAN /\ purgeDue \in BOOLEAN
          /\ backlog \in Seq(Conns) /\ clients \in Seq(Conns)
          /\ cursor \in Nat \ {0}
      BY <2>1, <2>2 DEF Init
    <2>4. /\ users \in [Ids -> Conns \cup {NoConn}]
          /\ age \in [Ids -> 0..StaleAfter]
          /\ open \in [Conns -> BOOLEAN]
      BY <2>2 DEF Init
    <2>5. /\ buf \in [Conns -> Seq(Requests)]
          /\ net \in [Conns -> Seq(Requests)]
          /\ out \in [Conns -> Seq(Replies)]
      BY <2>1 DEF Init
    <2>6. /\ peer \in [Conns -> {"idle", "up", "closed", "reset", "gone"}]
          /\ acked \in [Conns -> SUBSET Ids]
      BY DEF Init
    <2> QED BY <2>3, <2>4, <2>5, <2>6 DEF TypeOK
  <1>3. \A c \in Conns : Using(c) = {}
    BY ConnsAssumption DEF Init, Using
  <1>4. QuietWhenDown /\ UnknownUntilAccepted /\ BacklogOnce /\ OpenIsListed
    BY <1>1, <1>3 DEF Init, QuietWhenDown, UnknownUntilAccepted, BacklogOnce, OpenIsListed
  <1>5. OwnIdsOnly
    BY <1>1, <1>3 DEF Init, OwnIdsOnly, Pending
  <1>6. ToldIsOwner /\ OnlyOwnerHears /\ RegisteredIsServed
    BY DEF Init, ToldIsOwner, OnlyOwnerHears, RegisteredIsServed
  <1> QED BY <1>2, <1>4, <1>5, <1>6 DEF IInv

\* Steps of the loop that move the iterator or the program counter only.
ControlOnly ==
    /\ pc' \in {"off", "accept", "serve", "purge", "exited"}
    /\ running' \in BOOLEAN /\ purgeDue' \in BOOLEAN
    /\ backlog' \in {backlog, <<>>}
    /\ cursor' \in Nat \ {0} /\ age' \in [Ids -> 0..StaleAfter]
    /\ UNCHANGED <<clients, users, wire, out, acked>>
    /\ \/ peer' = peer
       \/ \E c \in Conns : peer[c] = "reset" /\ peer' = [peer EXCEPT ![c] = "closed"]

LEMMA ControlOnlyKeeps == IInv /\ ControlOnly => IInv'
  <1> SUFFICES ASSUME IInv, ControlOnly PROVE IInv'
    OBVIOUS
  <1>1. Range(<<>>) = {} /\ DOMAIN <<>> = {}
    BY DEF Range
  <1>2. /\ TypeOK /\ QuietWhenDown /\ UnknownUntilAccepted /\ BacklogOnce
        /\ OpenIsListed /\ OwnIdsOnly /\ ToldIsOwner /\ OnlyOwnerHears
        /\ RegisteredIsServed
    BY DEF IInv
  <1>3. /\ peer' \in [Conns -> {"idle", "up", "closed", "reset", "gone"}]
        /\ \A c \in Conns : peer'[c] = "idle" <=> peer[c] = "idle"
        /\ \A c \in Conns : peer'[c] = "up" <=> peer[c] = "up"
    BY <1>2 DEF ControlOnly, TypeOK
  <1>4. TypeOK'
    <2>1. backlog' \in Seq(Conns)
      <3>1. CASE backlog' = <<>>
        BY <3>1
      <3>2. CASE backlog' = backlog
        BY <3>2, <1>2 DEF TypeOK
      <3> QED BY <3>1, <3>2 DEF ControlOnly
    <2>2. /\ clients' \in Seq(Conns) /\ users' \in [Ids -> Conns \cup {NoConn}]
          /\ open' \in [Conns -> BOOLEAN]
          /\ buf' \in [Conns -> Seq(Requests)]
          /\ net' \in [Conns -> Seq(Requests)]
          /\ out' \in [Conns -> Seq(Replies)]
          /\ acked' \in [Conns -> SUBSET Ids]
      BY <1>2 DEF ControlOnly, TypeOK
    <2> QED BY <1>3, <2>1, <2>2 DEF ControlOnly, TypeOK
  <1>5. QuietWhenDown'
    BY <1>2, <1>3 DEF ControlOnly, QuietWhenDown
  <1>6. UnknownUntilAccepted'
    BY <1>1, <1>2, <1>3 DEF ControlOnly, UnknownUntilAccepted, Using
  <1>7. BacklogOnce'
    <2>1. CASE backlog' = <<>>
      BY <2>1, <1>1 DEF BacklogOnce
    <2>2. CASE backlog' = backlog
      <3>1. \A c \in Range(backlog) : c \in Conns
        BY <1>2 DEF TypeOK, Range
      <3> QED BY <2>2, <3>1, <1>2, <1>3 DEF BacklogOnce
    <2> QED BY <2>1, <2>2 DEF ControlOnly
  <1>8. OpenIsListed' /\ RegisteredIsServed'
    BY <1>2 DEF ControlOnly, OpenIsListed, RegisteredIsServed
  <1>9. OwnIdsOnly'
    BY <1>2 DEF ControlOnly, OwnIdsOnly, Pending, Using
  <1>10. ToldIsOwner' /\ OnlyOwnerHears'
    BY <1>2 DEF ControlOnly, ToldIsOwner, Told, OnlyOwnerHears
  <1> QED BY <1>4, <1>5, <1>6, <1>7, <1>8, <1>9, <1>10 DEF IInv

LEMMA ControlSteps ==
    ASSUME IInv, VisitError \/ VisitIdle \/ EndPass \/ Start
                 \/ StopBegin \/ Tick
    PROVE  ControlOnly
  <1>1. TypeOK /\ 0 \in 0..StaleAfter
    BY StaleAssumption DEF IInv
  <1>2. CASE VisitError
    <2>1. Visited \in Conns
      BY <1>1, <1>2 DEF VisitError, AtClient, Visited, TypeOK
    <2>2. cursor' \in Nat \ {0}
      BY <1>1, <1>2 DEF VisitError, TypeOK
    <2>3. \E c \in Conns : peer[c] = "reset" /\ peer' = [peer EXCEPT ![c] = "closed"]
      BY <1>2, <2>1 DEF VisitError
    <2>4. UNCHANGED <<pc, running, backlog, purgeDue, age>>
          /\ UNCHANGED <<clients, users, wire, out, acked>>
      BY <1>2 DEF VisitError
    <2> QED BY <1>1, <2>2, <2>3, <2>4 DEF ControlOnly, TypeOK
  <1>3. CASE VisitIdle
    BY <1>1, <1>3 DEF VisitIdle, ControlOnly, TypeOK
  <1>4. CASE EndPass \/ Start \/ StopBegin
    BY <1>1, <1>4 DEF EndPass, Start, StopBegin, ControlOnly, TypeOK
  <1>5. CASE Tick
    <2>1. \A i \in Ids : MinOf(age[i] + 1, StaleAfter) \in 0..StaleAfter
      BY <1>1, StaleAssumption DEF TypeOK, MinOf
    <2> QED BY <1>1, <1>5, <2>1 DEF Tick, ControlOnly, TypeOK
  <1> QED BY <1>2, <1>3, <1>4, <1>5

\* Steps that end channels and erase registrations: every channel that stays
\* open keeps its place in clients_ and all its entries in users_.
Cleanup ==
    /\ WireType'
    /\ pc' \in {"off", "accept", "serve", "purge", "exited"}
    /\ purgeDue' \in BOOLEAN /\ clients' \in Seq(Conns)
    /\ cursor' \in Nat \ {0}
    /\ users' \in [Ids -> Conns \cup {NoConn}]
    /\ age' \in [Ids -> 0..StaleAfter]
    /\ \A i \in Ids : users'[i] = users[i] \/ users'[i] = NoConn
    /\ \A c \in Conns : open'[c] =>
          open[c] /\ c \in Range(clients') /\ \A i \in Using(c) : users'[i] = c
    /\ \A c \in Conns : \A m \in Pending(c)' : m \in Pending(c)
    /\ RegisteredIsServed'
    /\ UNCHANGED <<running, backlog, remote>>

LEMMA CleanupKeeps == IInv /\ Cleanup => IInv'
  <1> SUFFICES ASSUME IInv, Cleanup PROVE IInv'
    OBVIOUS
  <1>1. /\ TypeOK /\ QuietWhenDown /\ UnknownUntilAccepted /\ BacklogOnce
        /\ OwnIdsOnly /\ ToldIsOwner /\ OnlyOwnerHears
    BY DEF IInv
  <1>2. TypeOK'
    BY <1>1 DEF Cleanup, WireType, TypeOK
  <1>3. QuietWhenDown' /\ BacklogOnce' /\ OpenIsListed' /\ RegisteredIsServed'
    BY <1>1 DEF Cleanup, QuietWhenDown, BacklogOnce, OpenIsListed
  <1>4. \A c \in Conns : \A i \in Using(c)' : i \in Using(c)
    BY ConnsAssumption DEF Cleanup, Using
  <1>5. UnknownUntilAccepted' /\ OwnIdsOnly'
    <2>1. UnknownUntilAccepted'
      <3> SUFFICES ASSUME NEW c \in Conns, peer[c] = "idle" \/ c \in Range(backlog)
                   PROVE  ~open'[c] /\ out[c] = <<>> /\ acked[c] = {} /\ Using(c)' = {}
        BY DEF Cleanup, UnknownUntilAccepted
      <3> QED BY <1>1, <1>4 DEF Cleanup, UnknownUntilAccepted
    <2>2. OwnIdsOnly'
      BY <1>1, <1>4 DEF Cleanup, OwnIdsOnly
    <2> QED BY <2>1, <2>2
  <1>6. ToldIsOwner'
    BY <1>1 DEF Cleanup, ToldIsOwner, Told, Using
  <1>7. OnlyOwnerHears'
    <2> SUFFICES ASSUME NEW c \in Conns, open'[c], NEW m \in Range(out[c]), m.for # NoId
                 PROVE  users'[m.for] = c
      BY DEF Cleanup, OnlyOwnerHears
    <2>1. users[m.for] = c
      BY <1>1 DEF Cleanup, OnlyOwnerHears
    <2>2. m \in Replies
      BY <1>1 DEF TypeOK, Range
    <2>3. m.for \in Ids
      BY <2>2 DEF Replies
    <2> QED BY <2>1, <2>3 DEF Cleanup, Using
  <1> QED BY <1>2, <1>3, <1>5, <1>6, <1>7 DEF IInv

\* The channel under the iterator leaves clients_ with its first user.
LEMMA DropSteps == ASSUME IInv, VisitClosed \/ VisitDisconnected PROVE Cleanup
  <1> DEFINE v == Visited
             rest == SubSeq(clients, 1, cursor - 1)
                       \o SubSeq(clients, cursor + 1, Len(clients))
  <1>1. TypeOK /\ OpenIsListed /\ OwnIdsOnly /\ RegisteredIsServed
    BY DEF IInv
  <1>2. AtClient /\ DropVisited
    BY DEF VisitClosed, VisitDisconnected
  <1>3. cursor \in 1..Len(clients) /\ clients \in Seq(Conns) /\ v = clients[cursor]
    BY <1>1, <1>2 DEF AtClient, TypeOK, Visited
  <1>4. v \in Conns
    BY <1>3
  <1>5. /\ rest \in Seq(Conns)
        /\ \A x \in Range(clients) : x # v => x \in Range(rest)
    BY <1>3, ListedRemove
  <1>6. clients' = rest
    BY <1>2 DEF DropVisited, WithoutVisited
  <1>7. /\ WireType'
        /\ \A c \in Conns : open'[c] => open[c] /\ c # v
        /\ \A c \in Conns : \A m \in Pending(c)' : m \in Pending(c)
    <2>1. CASE VisitClosed
      BY <2>1, <1>1 DEF VisitClosed, WireType, TypeOK, Pending
    <2>2. CASE VisitDisconnected
      <3> DEFINE S == {Visited}
      <3>1. CloseAll(S)
        BY <2>2 DEF VisitDisconnected
      <3>2. v \in S
        OBVIOUS
      <3> HIDE DEF S, v
      <3> QED BY <3>1, <3>2, <1>1, CloseAllEffect
    <2> QED BY <2>1, <2>2
  <1> HIDE DEF rest, v
  <1>8. /\ users' = [i \in Ids |-> IF FirstUser(i, v) THEN NoConn ELSE users[i]]
        /\ age' = [i \in Ids |-> IF FirstUser(i, v) THEN 0 ELSE age[i]]
        /\ UNCHANGED <<pc, running, backlog, purgeDue, cursor, remote>>
    BY <1>2 DEF DropVisited, EraseFirstUser, v
  <1>9. /\ users' \in [Ids -> Conns \cup {NoConn}] /\ age' \in [Ids -> 0..StaleAfter]
        /\ \A i \in Ids : users'[i] = users[i] \/ users'[i] = NoConn
        /\ \A i \in Ids : users[i] # v => users'[i] = users[i]
    BY <1>1, <1>8, StaleAssumption DEF TypeOK, FirstUser, Using
  <1>10. \A c \in Conns : open'[c] =>
            c \in Range(clients') /\ \A i \in Using(c) : users'[i] = c
    BY <1>1, <1>5, <1>6, <1>7, <1>9 DEF OpenIsListed, Using
  <1>11. RegisteredIsServed'
    <2> SUFFICES ASSUME NEW i \in Ids, users'[i] # NoConn,
                        MayRegister[users'[i]] \ {NoId} = {i}
                 PROVE  users'[i] \in Range(clients')
      BY DEF RegisteredIsServed
    <2>1. users'[i] = users[i] /\ users[i] \in Range(clients) /\ users[i] \in Conns
      BY <1>1, <1>9 DEF RegisteredIsServed, TypeOK
    <2>2. CASE users[i] = v
      <3>1. \A j \in Using(v) : j = i
        BY <1>1, <1>4, <2>1, <2>2, IdsAssumption DEF OwnIdsOnly, Using
      <3>2. FirstUser(i, v)
        BY <2>2, <3>1, IdsAssumption DEF FirstUser, Using
      <3> QED BY <3>2, <1>8
    <2> QED BY <2>1, <2>2, <1>5, <1>6
  <1> QED BY <1>1, <1>5, <1>6, <1>7, <1>8, <1>9, <1>10, <1>11 DEF Cleanup, TypeOK

LEMMA PurgeStep == ASSUME IInv, Purge PROVE Cleanup
  <1> DEFINE gone == IF purgeDue THEN Stale ELSE {}
             S == {users[i] : i \in gone}
  <1>1. TypeOK /\ OpenIsListed /\ RegisteredIsServed
    BY DEF IInv
  <1>2. /\ CloseAll(S)
        /\ users' = [i \in Ids |-> IF i \in gone THEN NoConn ELSE users[i]]
        /\ age' = [i \in Ids |-> IF i \in gone THEN 0 ELSE age[i]]
        /\ pc' \in {"accept", "exited"} /\ purgeDue' = FALSE
        /\ UNCHANGED <<running, backlog, clients, cursor, remote>>
    BY DEF Purge
  <1>3. \A i \in gone : users[i] \in S
    OBVIOUS
  <1> HIDE DEF gone, S
  <1>4. /\ WireType'
        /\ \A c \in Conns : open'[c] => open[c] /\ c \notin S
        /\ \A c \in Conns : \A m \in Pending(c)' : m \in Pending(c)
    BY <1>1, <1>2, CloseAllEffect
  <1>5. /\ users' \in [Ids -> Conns \cup {NoConn}] /\ age' \in [Ids -> 0..StaleAfter]
        /\ \A i \in Ids : users'[i] = users[i] \/ users'[i] = NoConn
        /\ \A i \in Ids : i \notin gone => users'[i] = users[i]
    BY <1>1, <1>2, StaleAssumption DEF TypeOK
  <1>6. \A c \in Conns : open'[c] =>
           c \in Range(clients') /\ \A i \in Using(c) : users'[i] = c
    BY <1>1, <1>2, <1>3, <1>4, <1>5 DEF OpenIsListed, Using
  <1>7. RegisteredIsServed'
    BY <1>1, <1>2, <1>5 DEF RegisteredIsServed
  <1> QED BY <1>1, <1>2, <1>4, <1>5, <1>6, <1>7 DEF Cleanup, TypeOK

\* stop() closes clients_, which holds every open channel.
LEMMA StopEndStep == ASSUME IInv, StopEnd PROVE Cleanup
  <1> DEFINE S == Range(clients)
  <1>1. TypeOK /\ OpenIsListed
    BY DEF IInv
  <1>2. /\ CloseAll(S) /\ pc' = "off" /\ clients' = <<>> /\ cursor' = 1
        /\ users' = [i \in Ids |-> NoConn] /\ age' = [i \in Ids |-> 0]
        /\ UNCHANGED <<running, backlog, purgeDue, remote>>
    BY DEF StopEnd
  <1>3. \A c \in Conns : open[c] => c \in S
    BY <1>1 DEF OpenIsListed
  <1> HIDE DEF S
  <1>4. /\ WireType' /\ \A c \in Conns : ~open'[c]
        /\ \A c \in Conns : \A m \in Pending(c)' : m \in Pending(c)
    BY <1>1, <1>2, <1>3, CloseAllEffect
  <1>5. <<>> \in Seq(Conns)
    OBVIOUS
  <1>6. clients' \in Seq(Conns) /\ cursor' \in Nat \ {0}
        /\ age' \in [Ids -> 0..StaleAfter]
        /\ users' \in [Ids -> Conns \cup {NoConn}]
        /\ \A i \in Ids : users'[i] = NoConn
    BY <1>2, <1>5, StaleAssumption
  <1>7. RegisteredIsServed'
    BY <1>6 DEF RegisteredIsServed
  <1> QED BY <1>1, <1>2, <1>4, <1>6, <1>7 DEF Cleanup, TypeOK

\* One message of the visited channel is handled.
LEMMA VisitMessageKeeps == ASSUME IInv, VisitMessage PROVE IInv'
  <1> DEFINE v == Visited
  <1>1. /\ TypeOK /\ QuietWhenDown /\ UnknownUntilAccepted /\ BacklogOnce
        /\ OpenIsListed /\ OwnIdsOnly /\ RegisteredIsServed
    BY DEF IInv
  <1>2. v \in Conns /\ v \in Range(clients) /\ open[v]
    BY <1>1 DEF VisitMessage, CanRead, AtClient, Visited, TypeOK, Range
  <1>3. buf[v] \o net[v] # <<>> /\ Handle(v, Head(buf[v] \o net[v]))
        /\ cursor' = cursor + 1 /\ UNCHANGED <<control, clients, peer, acked>>
    BY DEF VisitMessage
  <1> HIDE DEF v
  <1>4. HandlerType /\ HandlerKeeps(v)
    BY <1>1, <1>2, <1>3, HandleTypes, HandleKeeps
  <1>5. TypeOK'
    <2>1. cursor' \in Nat \ {0}
      BY <1>1, <1>3 DEF TypeOK
    <2> QED BY <2>1, <1>1, <1>3, <1>4 DEF HandlerType, WireType, TypeOK
  <1>6. QuietWhenDown' /\ BacklogOnce' /\ OpenIsListed'
    BY <1>1, <1>3, <1>4 DEF HandlerKeeps, QuietWhenDown, BacklogOnce, OpenIsListed
  <1>7. UnknownUntilAccepted'
    <2> SUFFICES ASSUME NEW c \in Conns, peer[c] = "idle" \/ c \in Range(backlog)
                 PROVE  ~open'[c] /\ out'[c] = <<>> /\ acked[c] = {} /\ Using(c)' = {}
      BY <1>3 DEF UnknownUntilAccepted
    <2>1. ~open[c] /\ out[c] = <<>> /\ acked[c] = {} /\ Using(c) = {} /\ c # v
      BY <1>1, <1>2 DEF UnknownUntilAccepted
    <2> QED BY <2>1, <1>4 DEF HandlerKeeps, Using
  <1>8. OwnIdsOnly'
    BY <1>1, <1>4 DEF HandlerKeeps, OwnIdsOnly, Using
  <1>9. ToldIsOwner' /\ OnlyOwnerHears'
    BY <1>3, <1>4 DEF HandlerKeeps, ToldIsOwner, Told, OnlyOwnerHears
  <1>10. RegisteredIsServed'
    BY <1>1, <1>2, <1>3, <1>4 DEF HandlerKeeps, RegisteredIsServed
  <1> QED BY <1>5, <1>6, <1>7, <1>8, <1>9, <1>10 DEF IInv

\* A queue without repetitions stays one when its head leaves or a new element
\* joins.
LEMMA DistinctTail ==
    ASSUME NEW S, NEW s \in Seq(S), s # <<>>,
           \A i, j \in DOMAIN s : s[i] = s[j] => i = j
    PROVE  /\ \A i, j \in DOMAIN Tail(s) : Tail(s)[i] = Tail(s)[j] => i = j
           /\ Head(s) \notin Range(Tail(s))
  <1> DEFINE t == Tail(s)
  <1>1. /\ DOMAIN t = 1..(Len(s) - 1) /\ DOMAIN s = 1..Len(s)
        /\ \A k \in 1..(Len(s) - 1) : t[k] = s[k + 1]
        /\ Head(s) = s[1] /\ Len(s) \in Nat
    OBVIOUS
  <1> HIDE DEF t
  <1>2. \A i, j \in DOMAIN t : t[i] = t[j] => i = j
    BY <1>1
  <1>3. ASSUME NEW k \in DOMAIN t PROVE t[k] # Head(s)
    <2>1. /\ k \in 1..(Len(s) - 1) /\ t[k] = s[k + 1]
          /\ k + 1 \in DOMAIN s /\ 1 \in DOMAIN s /\ k + 1 # 1
      BY <1>1, <1>3
    <2>2. s[k + 1] # s[1]
      BY <2>1
    <2> QED BY <2>1, <2>2, <1>1
  <1>4. Head(s) \notin Range(t)
    BY <1>3 DEF Range
  <1> QED BY <1>2, <1>4 DEF t

LEMMA DistinctAppend ==
    ASSUME NEW S, NEW s \in Seq(S), NEW e \in S, e \notin Range(s),
           \A i, j \in DOMAIN s : s[i] = s[j] => i = j
    PROVE  \A i, j \in DOMAIN Append(s, e) :
              Append(s, e)[i] = Append(s, e)[j] => i = j
  <1> DEFINE t == Append(s, e)
  <1>1. /\ DOMAIN t = 1..(Len(s) + 1) /\ DOMAIN s = 1..Len(s)
        /\ \A k \in 1..Len(s) : t[k] = s[k]
        /\ t[Len(s) + 1] = e /\ Len(s) \in Nat
    OBVIOUS
  <1>2. \A k \in 1..Len(s) : s[k] # e
    BY DEF Range
  <1> HIDE DEF t
  <1>3. \A i, j \in DOMAIN t : t[i] = t[j] => i = j
    BY <1>1, <1>2
  <1> QED BY <1>3 DEF t

\* accept() moves a connection nobody knows from the backlog to clients_.
LEMMA AcceptKeeps == ASSUME IInv, Accept PROVE IInv'
  <1>1. /\ TypeOK /\ QuietWhenDown /\ UnknownUntilAccepted /\ BacklogOnce
        /\ OpenIsListed /\ OwnIdsOnly /\ ToldIsOwner /\ OnlyOwnerHears
        /\ RegisteredIsServed
    BY DEF IInv
  <1>2. /\ pc' = "serve" /\ cursor' = 1
        /\ UNCHANGED <<running, users, age, purgeDue, buf, net, remote>>
    BY DEF Accept
  <1>3. CASE backlog = <<>>
    <2>1. UNCHANGED <<backlog, clients, open>>
      BY <1>3 DEF Accept
    <2>2. ControlOnly
      BY <1>1, <1>2, <2>1 DEF ControlOnly, TypeOK
    <2> QED BY <2>2, ControlOnlyKeeps
  <1>4. CASE backlog # <<>>
    <2> DEFINE h == Head(backlog)
    <2>1. /\ clients' = Append(clients, h) /\ backlog' = Tail(backlog)
          /\ open' = [open EXCEPT ![h] = TRUE]
      BY <1>4 DEF Accept
    <2>2. /\ h \in Conns /\ Tail(backlog) \in Seq(Conns) /\ h \in Range(backlog)
          /\ \A x \in Range(Tail(backlog)) : x \in Range(backlog)
      BY <1>1, <1>4, ListedTail DEF TypeOK
    <2>3. /\ \A i, j \in DOMAIN Tail(backlog) :
                Tail(backlog)[i] = Tail(backlog)[j] => i = j
          /\ h \notin Range(Tail(backlog))
      BY <1>1, <1>4, DistinctTail DEF TypeOK, BacklogOnce
    <2> HIDE DEF h
    <2>4. clients' \in Seq(Conns) /\ Range(clients') = Range(clients) \cup {h}
      BY <1>1, <2>1, <2>2, ListedAppend DEF TypeOK
    <2>5. /\ open' \in [Conns -> BOOLEAN]
          /\ \A c \in Conns : open'[c] <=> open[c] \/ c = h
      BY <1>1, <2>1, <2>2 DEF TypeOK
    <2>6. peer[h] # "idle" /\ out[h] = <<>> /\ acked[h] = {}
      BY <1>1, <2>2 DEF BacklogOnce, UnknownUntilAccepted
    <2>7. Range(<<>>) = {}
      BY DEF Range
    <2>8. TypeOK'
      <3>1. /\ clients' \in Seq(Conns) /\ backlog' \in Seq(Conns)
            /\ open' \in [Conns -> BOOLEAN]
        BY <2>1, <2>2, <2>4, <2>5
      <3> QED
        BY <1>1, <1>2, <3>1 DEF TypeOK
    <2>9. UnknownUntilAccepted'
      BY <1>1, <1>2, <2>1, <2>2, <2>3, <2>5, <2>6 DEF UnknownUntilAccepted, Using
    <2>10. BacklogOnce'
      BY <1>1, <1>2, <2>1, <2>2, <2>3 DEF BacklogOnce
    <2>11. QuietWhenDown' /\ OpenIsListed' /\ RegisteredIsServed'
      BY <1>1, <1>2, <2>4, <2>5 DEF QuietWhenDown, OpenIsListed, RegisteredIsServed
    <2>12. OwnIdsOnly'
      BY <1>1, <1>2 DEF OwnIdsOnly, Pending, Using
    <2>13. ToldIsOwner'
      BY <1>1, <1>2, <2>5, <2>6, <2>7 DEF ToldIsOwner, Told
    <2>14. OnlyOwnerHears'
      BY <1>1, <1>2, <2>5, <2>6, <2>7 DEF OnlyOwnerHears
    <2> QED BY <2>8, <2>9, <2>10, <2>11, <2>12, <2>13, <2>14 DEF IInv
  <1> QED BY <1>3, <1>4

\* A new connection waits in the backlog, unknown to everyone.
LEMMA ConnectKeeps == ASSUME IInv, NEW c \in Conns, Connect(c) PROVE IInv'
  <1>1. /\ TypeOK /\ QuietWhenDown /\ UnknownUntilAccepted /\ BacklogOnce
        /\ OpenIsListed /\ OwnIdsOnly /\ ToldIsOwner /\ OnlyOwnerHears
        /\ RegisteredIsServed
    BY DEF IInv
  <1>2. /\ peer[c] = "idle" /\ peer' = [peer EXCEPT ![c] = "up"]
        /\ backlog' = Append(backlog, c)
        /\ UNCHANGED <<registry, pc, running, purgeDue, wire, out, acked>>
    BY DEF Connect
  <1>3. c \notin Range(backlog)
    BY <1>1, <1>2 DEF BacklogOnce
  <1>4. backlog' \in Seq(Conns) /\ Range(backlog') = Range(backlog) \cup {c}
    BY <1>1, <1>2, ListedAppend DEF TypeOK
  <1>5. \A i, j \in DOMAIN backlog' : backlog'[i] = backlog'[j] => i = j
    <2> DEFINE new == Append(backlog, c)
    <2>1. /\ backlog \in Seq(Conns)
          /\ \A i, j \in DOMAIN backlog : backlog[i] = backlog[j] => i = j
      BY <1>1 DEF TypeOK, BacklogOnce
    <2>2. \A i, j \in DOMAIN new : new[i] = new[j] => i = j
      BY <2>1, <1>3, DistinctAppend
    <2>3. backlog' = new
      BY <1>2
    <2> HIDE DEF new
    <2> QED BY <2>2, <2>3
  <1>6. /\ peer' \in [Conns -> {"idle", "up", "closed", "reset", "gone"}]
        /\ \A d \in Conns : peer'[d] = IF d = c THEN "up" ELSE peer[d]
    BY <1>1, <1>2 DEF TypeOK
  <1>7. TypeOK'
    BY <1>1, <1>2, <1>4, <1>6 DEF TypeOK
  <1>8. QuietWhenDown' /\ UnknownUntilAccepted'
    BY <1>1, <1>2, <1>4, <1>6 DEF QuietWhenDown, UnknownUntilAccepted, Using
  <1>9. BacklogOnce'
    <2>1. \A d \in Range(backlog) : d \in Conns
      BY <1>1 DEF TypeOK, Range
    <2> QED BY <2>1, <1>1, <1>4, <1>5, <1>6 DEF BacklogOnce
  <1>10. OpenIsListed' /\ OwnIdsOnly' /\ RegisteredIsServed'
    BY <1>1, <1>2 DEF OpenIsListed, OwnIdsOnly, Pending, Using, RegisteredIsServed
  <1>11. ToldIsOwner' /\ OnlyOwnerHears'
    BY <1>1, <1>2 DEF ToldIsOwner, Told, OnlyOwnerHears
  <1> QED BY <1>7, <1>8, <1>9, <1>10, <1>11 DEF IInv

\* Steps of the peers: the server's own state stays, and what a peer was told
\* or hears can only shrink or move from the wire into its state.
RemoteOnly ==
    /\ UNCHANGED <<registry, control, open, buf>>
    /\ net' \in [Conns -> Seq(Requests)]
    /\ out' \in [Conns -> Seq(Replies)]
    /\ peer' \in [Conns -> {"idle", "up", "closed", "reset", "gone"}]
    /\ acked' \in [Conns -> SUBSET Ids]
    /\ \A d \in Conns : \A m \in Range(net'[d]) :
          m \in Range(net[d]) \/ (m.type = "register" => m.id \in MayRegister[d])
    /\ \A d \in Conns : \A m \in Range(out'[d]) : m \in Range(out[d])
    /\ \A d \in Conns, i \in Ids : Told(d, i)' => Told(d, i)
    /\ QuietWhenDown' /\ UnknownUntilAccepted'
    /\ \A d \in Range(backlog) : peer'[d] # "idle"

LEMMA RemoteOnlyKeeps == IInv /\ RemoteOnly => IInv'
  <1> SUFFICES ASSUME IInv, RemoteOnly PROVE IInv'
    OBVIOUS
  <1>1. /\ TypeOK /\ BacklogOnce /\ OpenIsListed /\ OwnIdsOnly /\ ToldIsOwner
        /\ OnlyOwnerHears /\ RegisteredIsServed
    BY DEF IInv
  <1>2. TypeOK'
    BY <1>1 DEF RemoteOnly, TypeOK
  <1>3. BacklogOnce' /\ OpenIsListed' /\ RegisteredIsServed'
    BY <1>1 DEF RemoteOnly, BacklogOnce, OpenIsListed, RegisteredIsServed
  <1>4. OwnIdsOnly'
    <2> SUFFICES ASSUME NEW d \in Conns
                 PROVE  /\ \A m \in Pending(d)' : m.type = "register" => m.id \in MayRegister[d]
                        /\ Using(d)' \subseteq MayRegister[d]
      BY DEF OwnIdsOnly
    <2>1. Using(d)' = Using(d)
      BY DEF RemoteOnly, Using
    <2>2. ASSUME NEW m \in Pending(d)', m.type = "register"
          PROVE  m.id \in MayRegister[d]
      BY <1>1, <2>2 DEF RemoteOnly, OwnIdsOnly, Pending
    <2> QED BY <2>1, <2>2, <1>1 DEF OwnIdsOnly
  <1>5. ToldIsOwner' /\ OnlyOwnerHears'
    BY <1>1 DEF RemoteOnly, ToldIsOwner, OnlyOwnerHears
  <1> QED BY <1>2, <1>3, <1>4, <1>5 DEF IInv, RemoteOnly

\* The connection ends at the peer's side, or its slot is used again.
LEMMA PeerEnds ==
    ASSUME IInv, NEW c \in Conns,
           PeerClose(c) \/ PeerReset(c) \/ PeerVanish(c) \/ Recycle(c)
    PROVE  RemoteOnly
  <1>1. /\ TypeOK /\ QuietWhenDown /\ UnknownUntilAccepted /\ BacklogOnce
        /\ OpenIsListed
    BY DEF IInv
  <1>2. <<>> \in Seq(Requests) /\ <<>> \in Seq(Replies) /\ Range(<<>>) = {}
    BY DEF Range
  <1>3. UNCHANGED <<registry, control, open, buf>>
    BY DEF PeerClose, PeerReset, PeerVanish, Recycle
  <1>4. net' = net \/ net' = [net EXCEPT ![c] = <<>>]
    BY DEF PeerClose, PeerReset, PeerVanish, Recycle
  <1>5. /\ net' \in [Conns -> Seq(Requests)]
        /\ \A d \in Conns : \A m \in Range(net'[d]) : m \in Range(net[d])
    <2>1. CASE net' = net
      BY <2>1, <1>1 DEF TypeOK
    <2>2. CASE net' = [net EXCEPT ![c] = <<>>]
      BY <2>2, <1>1, <1>2 DEF TypeOK
    <2> QED BY <2>1, <2>2, <1>4
  <1>6. CASE PeerClose(c) \/ PeerReset(c) \/ PeerVanish(c)
    <2>1. /\ peer[c] = "up"
          /\ out' = [out EXCEPT ![c] = <<>>]
          /\ acked' = [acked EXCEPT ![c] = {}]
      BY <1>6 DEF PeerClose, PeerReset, PeerVanish
    <2>2. /\ peer' \in [Conns -> {"idle", "up", "closed", "reset", "gone"}]
          /\ \A d \in Conns : d # c => peer'[d] = peer[d]
          /\ peer'[c] # "idle"
      <3>1. \E p \in {"closed", "reset", "gone"} : peer' = [peer EXCEPT ![c] = p]
        BY <1>6 DEF PeerClose, PeerReset, PeerVanish
      <3> QED BY <3>1, <1>1 DEF TypeOK
    <2>3. /\ out' \in [Conns -> Seq(Replies)] /\ acked' \in [Conns -> SUBSET Ids]
          /\ out'[c] = <<>> /\ acked'[c] = {}
          /\ \A d \in Conns : d # c => out'[d] = out[d] /\ acked'[d] = acked[d]
      BY <2>1, <1>1, <1>2 DEF TypeOK
    <2>4. /\ \A d \in Conns : \A m \in Range(out'[d]) : m \in Range(out[d])
          /\ \A d \in Conns, i \in Ids : Told(d, i)' => Told(d, i)
      BY <2>3, <1>2 DEF Told
    <2>5. QuietWhenDown'
      BY <1>1, <2>2, <2>3 DEF QuietWhenDown
    <2>6. UnknownUntilAccepted'
      <3> SUFFICES ASSUME NEW d \in Conns, peer'[d] = "idle" \/ d \in Range(backlog)
                   PROVE  ~open[d] /\ out'[d] = <<>> /\ acked'[d] = {} /\ Using(d) = {}
        BY <1>3 DEF UnknownUntilAccepted, Using
      <3>1. peer[d] = "idle" \/ d \in Range(backlog)
        BY <2>2
      <3> QED BY <3>1, <1>1, <2>3 DEF UnknownUntilAccepted
    <2>7. \A d \in Range(backlog) : peer'[d] # "idle"
      <3>1. \A d \in Range(backlog) : d \in Conns
        BY <1>1 DEF TypeOK, Range
      <3> QED BY <3>1, <1>1, <2>2 DEF BacklogOnce
    <2> QED BY <1>3, <1>5, <2>2, <2>3, <2>4, <2>5, <2>6, <2>7 DEF RemoteOnly
  <1>7. CASE Recycle(c)
    <2>1. /\ peer[c] # "up" /\ c \notin Range(clients) /\ c \notin Range(backlog)
          /\ Using(c) = {} /\ peer' = [peer EXCEPT ![c] = "idle"]
          /\ UNCHANGED <<out, acked>>
      BY <1>7 DEF Recycle
    <2>2. /\ peer' \in [Conns -> {"idle", "up", "closed", "reset", "gone"}]
          /\ \A d \in Conns : peer'[d] = IF d = c THEN "idle" ELSE peer[d]
      BY <2>1, <1>1 DEF TypeOK
    <2>3. ~open[c] /\ out[c] = <<>> /\ acked[c] = {}
      BY <2>1, <1>1 DEF QuietWhenDown, OpenIsListed
    <2>4. QuietWhenDown' /\ UnknownUntilAccepted'
      BY <1>1, <1>3, <2>1, <2>2, <2>3 DEF QuietWhenDown, UnknownUntilAccepted, Using
    <2>5. \A d \in Range(backlog) : peer'[d] # "idle"
      <3>1. \A d \in Range(backlog) : d \in Conns
        BY <1>1 DEF TypeOK, Range
      <3> QED BY <3>1, <1>1, <2>1, <2>2 DEF BacklogOnce
    <2>6. /\ out' \in [Conns -> Seq(Replies)] /\ acked' \in [Conns -> SUBSET Ids]
          /\ \A d \in Conns : \A m \in Range(out'[d]) : m \in Range(out[d])
          /\ \A d \in Conns, i \in Ids : Told(d, i)' => Told(d, i)
      BY <1>1, <2>1 DEF TypeOK, Told
    <2> QED BY <1>3, <1>5, <2>2, <2>4, <2>5, <2>6 DEF RemoteOnly
  <1> QED BY <1>6, <1>7

\* A peer sends only requests of its own, and registers only its own ids.
LEMMA PeerSends ==
    ASSUME IInv, NEW c \in Conns, NEW m \in PeerRequests(c), PeerSend(c, m)
    PROVE  RemoteOnly
  <1>1. /\ TypeOK /\ QuietWhenDown /\ UnknownUntilAccepted /\ BacklogOnce
    BY DEF IInv
  <1>2. m \in Requests
    BY <1>1, PeerRequestsTyped
  <1>3. m.type = "register" => m.id \in MayRegister[c]
    <2>1. Dialog \ Forward \subseteq {"connect_request", "connect_accept", "connect_reject"}
      BY DialogAssumption DEF Silent
    <2> QED BY <2>1 DEF PeerRequests, RegisterMsg, Forward
  <1>4. /\ net' = [net EXCEPT ![c] = Append(@, m)]
        /\ UNCHANGED <<registry, control, open, buf, remote>>
    BY DEF PeerSend
  <1>5. /\ Append(net[c], m) \in Seq(Requests)
        /\ Range(Append(net[c], m)) = Range(net[c]) \cup {m}
    BY <1>1, <1>2, ListedAppend DEF TypeOK
  <1>6. /\ net' \in [Conns -> Seq(Requests)]
        /\ \A d \in Conns : \A x \in Range(net'[d]) :
              x \in Range(net[d]) \/ (x.type = "register" => x.id \in MayRegister[d])
    BY <1>1, <1>3, <1>4, <1>5 DEF TypeOK
  <1>7. /\ QuietWhenDown' /\ UnknownUntilAccepted'
        /\ \A d \in Range(backlog) : peer'[d] # "idle"
    BY <1>1, <1>4 DEF QuietWhenDown, UnknownUntilAccepted, BacklogOnce, Using
  <1> QED BY <1>1, <1>4, <1>6, <1>7 DEF RemoteOnly, TypeOK, Told

\* A peer reads a reply; a register_ok it reads was on its way to it.
LEMMA PeerReceives ==
    ASSUME IInv, NEW c \in Conns, PeerReceive(c) PROVE RemoteOnly
  <1>1. /\ TypeOK /\ QuietWhenDown /\ UnknownUntilAccepted /\ BacklogOnce
    BY DEF IInv
  <1> DEFINE h == Head(out[c])
             t == Tail(out[c])
             a == IF h.type = "register_ok" THEN acked[c] \cup {h.id}
                  ELSE IF h.type = "register_fail" THEN {} ELSE acked[c]
  <1>2. /\ peer[c] = "up" /\ out[c] # <<>>
        /\ out' = [out EXCEPT ![c] = t] /\ acked' = [acked EXCEPT ![c] = a]
        /\ UNCHANGED <<registry, control, wire, peer>>
    BY DEF PeerReceive
  <1>3. /\ h \in Replies /\ t \in Seq(Replies) /\ h \in Range(out[c])
        /\ \A x \in Range(t) : x \in Range(out[c])
    BY <1>1, <1>2, ListedTail DEF TypeOK
  <1>4. h.type = "register_ok" => h.id \in Ids
    <2> HIDE DEF h
    <2> QED BY <1>3 DEF Replies, Silent, Forward
  <1>5. /\ a \in SUBSET Ids
        /\ \A i \in a : i \in acked[c] \/ (h.type = "register_ok" /\ i = h.id)
    BY <1>1, <1>4 DEF TypeOK
  <1> HIDE DEF h, t, a
  <1>6. /\ out' \in [Conns -> Seq(Replies)] /\ acked' \in [Conns -> SUBSET Ids]
        /\ out'[c] = t /\ acked'[c] = a
        /\ \A d \in Conns : d # c => out'[d] = out[d] /\ acked'[d] = acked[d]
    BY <1>1, <1>2, <1>3, <1>5 DEF TypeOK
  <1>7. \A d \in Conns : \A m \in Range(out'[d]) : m \in Range(out[d])
    BY <1>3, <1>6
  <1>8. ASSUME NEW d \in Conns, NEW i \in Ids, Told(d, i)'
        PROVE  Told(d, i)
    BY <1>3, <1>5, <1>6, <1>8 DEF Told
  <1>9. QuietWhenDown'
    BY <1>1, <1>2, <1>6 DEF QuietWhenDown
  <1>10. UnknownUntilAccepted'
    <2>1. \A d \in Conns : peer[d] = "idle" \/ d \in Range(backlog) => d # c
      BY <1>1, <1>2 DEF UnknownUntilAccepted
    <2> QED BY <2>1, <1>1, <1>2, <1>6 DEF UnknownUntilAccepted, Using
  <1> QED BY <1>1, <1>2, <1>6, <1>7, <1>8, <1>9, <1>10
          DEF RemoteOnly, TypeOK, BacklogOnce

---------------------------------------------------------------------------
(* The theorems.                                                           *)

LEMMA NextKeeps == IInv /\ [Next]_vars => IInv'
  <1> SUFFICES ASSUME IInv, [Next]_vars PROVE IInv'
    OBVIOUS
  <1>1. ASSUME Accept PROVE IInv'
    BY <1>1, AcceptKeeps
  <1>2. ASSUME VisitClosed \/ VisitDisconnected PROVE IInv'
    BY <1>2, DropSteps, CleanupKeeps
  <1>3. ASSUME VisitMessage PROVE IInv'
    BY <1>3, VisitMessageKeeps
  <1>4. ASSUME VisitError \/ VisitIdle \/ EndPass \/ Start
               \/ StopBegin \/ Tick
        PROVE  IInv'
    BY <1>4, ControlSteps, ControlOnlyKeeps
  <1>5. ASSUME Purge PROVE IInv'
    BY <1>5, PurgeStep, CleanupKeeps
  <1>6. ASSUME StopEnd PROVE IInv'
    BY <1>6, StopEndStep, CleanupKeeps
  <1>7. ASSUME NEW c \in Conns, PeerStep(c) PROVE IInv'
    <2>1. ASSUME Connect(c) PROVE IInv'
      BY <2>1, ConnectKeeps
    <2>2. ASSUME PeerClose(c) \/ PeerReset(c) \/ PeerVanish(c) \/ Recycle(c)
          PROVE  IInv'
      BY <2>2, PeerEnds, RemoteOnlyKeeps
    <2>3. ASSUME PeerReceive(c) PROVE IInv'
      BY <2>3, PeerReceives, RemoteOnlyKeeps
    <2>4. ASSUME NEW m \in PeerRequests(c), PeerSend(c, m) PROVE IInv'
      BY <2>4, PeerSends, RemoteOnlyKeeps
    <2> QED BY <1>7, <2>1, <2>2, <2>3, <2>4 DEF PeerStep
  <1>8. ASSUME UNCHANGED vars PROVE IInv'
    <2>1. IInv' <=> IInv
      BY <1>8 DEF IInv, vars, TypeOK, QuietWhenDown, UnknownUntilAccepted,
                  BacklogOnce, OpenIsListed, OwnIdsOnly, ToldIsOwner, Told,
                  OnlyOwnerHears, RegisteredIsServed, Using, Pending
    <2> QED BY <2>1
  <1> QED BY <1>1, <1>2, <1>3, <1>4, <1>5, <1>6, <1>7, <1>8 DEF Next, ServerStep

THEOREM Invariance == Spec => []IInv
  <1> QED BY InitIInv, NextKeeps, PTL DEF Spec

\* Every variable keeps its type.
THEOREM TypeCorrectness == Spec => []TypeOK
  <1>1. IInv => TypeOK
    BY DEF IInv
  <1> QED BY <1>1, Invariance, PTL

\* A program that was told it is registered, and whose connection lives, is
\* where users_ routes its id: for any number of connections and ids.
THEOREM ToldOwnership == Spec => []ToldIsOwner
  <1>1. IInv => ToldIsOwner
    BY DEF IInv
  <1> QED BY <1>1, Invariance, PTL

\* A relayed message only ever sits on the connection that owns its addressee.
THEOREM RoutingPrivacy == Spec => []OnlyOwnerHears
  <1>1. IInv => OnlyOwnerHears
    BY DEF IInv
  <1> QED BY <1>1, Invariance, PTL

\* No registration of a one-id connection outlives its place in clients_.
THEOREM ServedRegistrations == Spec => []RegisteredIsServed
  <1>1. IInv => RegisteredIsServed
    BY DEF IInv
  <1> QED BY <1>1, Invariance, PTL

---------------------------------------------------------------------------
(* SignalingServer implements Presence: every step of the server thread,   *)
(* of start() and stop() and of the peers is a Sever, a Claim, a Forget or *)
(* a stutter of the abstract specification.                                *)

USE DEF registry, control, wire, remote

\* Owner and ToldPairs, point by point.
LEMMA OwnerIs ==
    /\ Owner = [i \in Ids |-> IF Online(i) THEN users[i] ELSE NoConn]
    /\ \A i \in Ids : Owner[i] = IF Online(i) THEN users[i] ELSE NoConn
    /\ \A t \in Conns \X Ids : t \in ToldPairs <=> open[t[1]] /\ Told(t[1], t[2])
  BY DEF Owner, ToldPairs

LEMMA OwnerIsNext ==
    /\ Owner' = [i \in Ids |-> IF Online(i)' THEN users'[i] ELSE NoConn]
    /\ \A i \in Ids : Owner'[i] = IF Online(i)' THEN users'[i] ELSE NoConn
    /\ \A t \in Conns \X Ids : t \in ToldPairs' <=> open'[t[1]] /\ Told(t[1], t[2])'
  BY DEF Owner, ToldPairs

\* Nothing owned or told changes.
LEMMA Stutters ==
    ASSUME \A i \in Ids : Online(i)' <=> Online(i),
           \A i \in Ids : Online(i) => users'[i] = users[i],
           \A c \in Conns, i \in Ids :
              open'[c] /\ Told(c, i)' <=> open[c] /\ Told(c, i)
    PROVE  UNCHANGED <<Owner, ToldPairs>>
  <1>1. Owner' = Owner
    BY DEF Owner
  <1>2. ToldPairs' = ToldPairs
    BY DEF ToldPairs
  <1> QED BY <1>1, <1>2

\* Steps of the iterator and of the program counter.
LEMMA ControlStutters ==
    ASSUME IInv, ControlOnly PROVE UNCHANGED <<Owner, ToldPairs>>
  BY DEF ControlOnly, Owner, ToldPairs, Online, Told

\* A connection is accepted before anybody is registered on it.
LEMMA AcceptStutters ==
    ASSUME IInv, Accept PROVE UNCHANGED <<Owner, ToldPairs>>
  <1>1. TypeOK /\ UnknownUntilAccepted
    BY DEF IInv
  <1>2. UNCHANGED <<users, out, acked>>
    BY DEF Accept
  <1>3. CASE backlog = <<>>
    BY <1>2, <1>3 DEF Accept, Owner, ToldPairs, Online, Told
  <1>4. CASE backlog # <<>>
    <2> DEFINE h == Head(backlog)
    <2>1. open' = [open EXCEPT ![h] = TRUE]
      BY <1>4 DEF Accept
    <2>2. h \in Conns /\ h \in Range(backlog)
      BY <1>1, <1>4, ListedTail DEF TypeOK
    <2> HIDE DEF h
    <2>3. \A c \in Conns : c # h => open'[c] = open[c]
      BY <1>1, <2>1 DEF TypeOK
    <2>4. Using(h) = {} /\ out[h] = <<>> /\ acked[h] = {} /\ Range(<<>>) = {}
      BY <1>1, <2>2 DEF UnknownUntilAccepted, Range
    <2>5. \A i \in Ids : users[i] # NoConn => users[i] \in Conns /\ users[i] # h
      BY <1>1, <2>4 DEF TypeOK, Using
    <2>6. \A i \in Ids : Online(i)' <=> Online(i)
      BY <1>2, <2>3, <2>5 DEF Online
    <2>7. \A i \in Ids : ~Told(h, i)
      BY <2>4 DEF Told
    <2>8. \A c \in Conns, i \in Ids :
             open'[c] /\ Told(c, i)' <=> open[c] /\ Told(c, i)
      BY <1>2, <2>3, <2>7 DEF Told
    <2> QED BY <1>2, <2>6, <2>8, Stutters
  <1> QED BY <1>3, <1>4

\* Clean-ups, purges and stop() sever the channels they close, all at once.
LEMMA CleanupSevers ==
    ASSUME IInv, Cleanup PROVE \E S \in SUBSET Conns : P!Sever(S)
  <1> DEFINE S == {c \in Conns : open[c] /\ ~open'[c]}
  <1>1. TypeOK
    BY DEF IInv
  <1>2. S \in SUBSET Conns /\ NoConn \notin S
    BY ConnsAssumption
  <1>3. \A c \in Conns : open'[c] <=> open[c] /\ c \notin S
    BY <1>1 DEF Cleanup
  <1> HIDE DEF S
  <1>4. ASSUME NEW i \in Ids
        PROVE  (IF Online(i)' THEN users'[i] ELSE NoConn)
               = IF (IF Online(i) THEN users[i] ELSE NoConn) \in S THEN NoConn
                 ELSE IF Online(i) THEN users[i] ELSE NoConn
    <2>1. users[i] = NoConn \/ users[i] \in Conns
      BY <1>1 DEF TypeOK
    <2>2. users'[i] = users[i] \/ users'[i] = NoConn
      BY DEF Cleanup
    <2>3. users[i] \in Conns /\ open'[users[i]] => users'[i] = users[i]
      BY DEF Cleanup, Using
    <2>4. CASE users[i] = NoConn
      BY <2>2, <2>4, <1>2 DEF Online
    <2>5. CASE users[i] \in Conns /\ users[i] # NoConn
      BY <2>2, <2>3, <2>5, <1>2, <1>3 DEF Online
    <2> QED BY <2>1, <2>4, <2>5
  <1>5. Owner' = [i \in Ids |-> IF Owner[i] \in S THEN NoConn ELSE Owner[i]]
    BY <1>4, OwnerIs, OwnerIsNext
  <1>6. ToldPairs' = {t \in ToldPairs : t[1] \notin S}
    <2>1. \A c \in Conns, i \in Ids : Told(c, i)' <=> Told(c, i)
      BY DEF Cleanup, Told
    <2> QED BY <2>1, <1>3 DEF ToldPairs
  <1>7. P!Sever(S)
    BY <1>5, <1>6 DEF P!Sever, P!OwnersWithout, P!ToldWithout
  <1> QED BY <1>2, <1>7

\* What the peers do makes them forget at most.
LEMMA RemoteForgets == ASSUME IInv, RemoteOnly PROVE P!Forget
  <1>1. Owner' = Owner
    BY DEF RemoteOnly, Owner, Online
  <1>2. ToldPairs' \subseteq ToldPairs
    BY DEF RemoteOnly, ToldPairs
  <1> QED BY <1>1, <1>2 DEF P!Forget

\* A new connection waits, unknown.
LEMMA ConnectStutters ==
    ASSUME NEW c \in Conns, Connect(c) PROVE UNCHANGED <<Owner, ToldPairs>>
  BY DEF Connect, Owner, ToldPairs, Online, Told

\* A handler that sends at most one reply, which registers nobody.
LEMMA RelayForgets ==
    ASSUME TypeOK, NEW c \in Conns, buf[c] \o net[c] # <<>>, Receive(c, {}),
           UNCHANGED <<users, acked>>,
           \/ out' = out
           \/ \E d \in Conns, r \in Replies : r.type # "register_ok" /\ Send(d, r)
    PROVE  P!Forget
  <1>1. \A e \in Conns : open'[e] <=> open[e]
    <2> DEFINE S == {}
    <2>1. S = {} /\ Receive(c, S)
      OBVIOUS
    <2> HIDE DEF S
    <2>2. \A e \in Conns : open'[e] <=> open[e] /\ e \notin S
      BY <2>1, ReceiveEffect
    <2> QED BY <2>1, <2>2
  <1>2. Owner' = Owner
    <2>1. \A i \in Ids : users[i] # NoConn => users[i] \in Conns
      BY DEF TypeOK
    <2> QED BY <1>1, <2>1 DEF Owner, Online
  <1>3. \A e \in Conns : \A x \in Range(out'[e]) :
           x \in Range(out[e]) \/ x.type # "register_ok"
    <2>1. CASE out' = out
      BY <2>1
    <2>2. ASSUME NEW d \in Conns, NEW r \in Replies, r.type # "register_ok", Send(d, r)
          PROVE  \A e \in Conns : \A x \in Range(out'[e]) :
                    x \in Range(out[e]) \/ x.type # "register_ok"
      BY <2>2, SendEffect
    <2> QED BY <2>1, <2>2
  <1>4. ToldPairs' \subseteq ToldPairs
    BY <1>1, <1>3 DEF ToldPairs, Told
  <1> QED BY <1>2, <1>4 DEF P!Forget

\* A valid register severs the live owner of the id and makes the sender the
\* owner; on the owner's own channel it only severs.
LEMMA RegisterClaims ==
    ASSUME IInv, NEW c \in Conns, open[c], buf[c] \o net[c] # <<>>,
           Head(buf[c] \o net[c]).type = "register",
           Head(buf[c] \o net[c]).id # NoId,
           HandleRegister(c, Head(buf[c] \o net[c])), acked' = acked
    PROVE  \E id \in Ids : P!Claim(c, id)
  <1> DEFINE id == Head(buf[c] \o net[c]).id
             closing == {users[id]} \ {NoConn}
             severed == {Owner[id]} \ {NoConn}
             ok == Reply("register_ok", id)
  <1>1. TypeOK
    BY DEF IInv
  <1>2. /\ Receive(c, closing) /\ users' = [users EXCEPT ![id] = c]
        /\ Send(c, ok)
    BY DEF HandleRegister
  <1>3. /\ \A e \in Conns : open'[e] <=> open[e] /\ e \notin closing
        /\ Head(buf[c] \o net[c]) \in Requests
    BY <1>1, <1>2, ReceiveEffect
  <1>4. id \in Ids
    <2> DEFINE m == Head(buf[c] \o net[c])
    <2>1. m \in Requests /\ m.type = "register" /\ m.id # NoId
      BY <1>3
    <2> HIDE DEF m
    <2>2. m.id \in Ids
      BY <2>1, RequestFields
    <2> QED BY <2>2 DEF m
  <1> HIDE DEF id
  <1>5. \A e \in Conns : open'[e] <=> open[e] /\ e \notin severed
    <2>1. \A e \in Conns : open[e] => (e = users[id] <=> e = Owner[id])
      BY <1>4, OwnerIs, ConnsAssumption DEF Online
    <2> QED BY <1>3, <2>1, ConnsAssumption
  <1>6. \A i \in Ids : users'[i] = IF i = id THEN c ELSE users[i]
    BY <1>1, <1>2, <1>4 DEF TypeOK
  <1>7. \A i \in Ids : users[i] # NoConn => users[i] \in Conns
    BY <1>1 DEF TypeOK
  <1>8. NoConn \notin severed /\ c # NoConn
    BY ConnsAssumption
  <1>9. Owner[id] \in Conns \cup {NoConn}
    BY <1>4, <1>7, OwnerIs DEF Online
  <1> HIDE DEF severed
  <1>10. ASSUME NEW i \in Ids, users'[i] = users[i]
         PROVE  Owner'[i] = IF Owner[i] \in severed THEN NoConn ELSE Owner[i]
    <2>1. CASE users[i] = NoConn
      BY <1>8, <1>10, <2>1, OwnerIs, OwnerIsNext DEF Online
    <2>2. CASE users[i] # NoConn
      BY <1>5, <1>7, <1>8, <1>10, <2>2, OwnerIs, OwnerIsNext DEF Online
    <2> QED BY <2>1, <2>2
  <1>11. CASE Owner[id] = c
    <2>1. severed = {c} /\ users[id] = c
      BY <1>4, <1>8, <1>11, OwnerIs DEF severed
    <2>2. \A i \in Ids : users'[i] = users[i]
      BY <1>6, <2>1
    <2>3. out' = out
      BY <1>2, <1>5, <2>1 DEF Send
    <2>4. Owner' = [i \in Ids |-> IF Owner[i] \in {c} THEN NoConn ELSE Owner[i]]
      BY <1>10, <2>1, <2>2, OwnerIsNext
    <2>5. ToldPairs' = {t \in ToldPairs : t[1] \notin {c}}
      BY <1>5, <2>1, <2>3 DEF ToldPairs, Told
    <2>6. P!Claim(c, id)
      BY <1>11, <2>4, <2>5 DEF P!Claim, P!Sever, P!OwnersWithout, P!ToldWithout
    <2> QED BY <1>4, <2>6
  <1>12. CASE Owner[id] # c
    <2>1. c \notin severed /\ open'[c]
      BY <1>5, <1>12 DEF severed
    <2>2. users'[id] = c /\ \A i \in Ids : i # id => users'[i] = users[i]
      BY <1>4, <1>6
    <2>3. Owner'[id] = c
      BY <1>4, <1>8, <2>1, <2>2, OwnerIsNext DEF Online
    <2>4. Owner' = [[i \in Ids |-> IF Owner[i] \in severed THEN NoConn ELSE Owner[i]]
                      EXCEPT ![id] = c]
      BY <1>4, <1>10, <2>2, <2>3, OwnerIsNext
    <2>5. \/ ToldPairs' = {t \in ToldPairs : t[1] \notin severed}
          \/ ToldPairs' = {t \in ToldPairs : t[1] \notin severed} \cup {<<c, id>>}
      <3>1. CASE out' = out
        BY <1>5, <3>1 DEF ToldPairs, Told
      <3>2. CASE out' = [out EXCEPT ![c] = Append(@, ok)]
        <4>1. ok \in Replies /\ ok.type = "register_ok" /\ ok.id = id
          BY <1>4, RepliesSent DEF Reply
        <4> HIDE DEF ok
        <4>2. Range(Append(out[c], ok)) = Range(out[c]) \cup {ok}
          BY <1>1, <4>1, ListedAppend DEF TypeOK
        <4>3. \A e \in Conns : Range(out'[e]) =
                 IF e = c THEN Range(out[e]) \cup {ok} ELSE Range(out[e])
          BY <1>1, <3>2, <4>2 DEF TypeOK
        <4>4. \A e \in Conns, i \in Ids :
                 Told(e, i)' <=> Told(e, i) \/ (e = c /\ i = id)
          BY <4>1, <4>3 DEF Told
        <4>5. \A e \in Conns, i \in Ids : <<e, i>> \in ToldPairs' <=>
                 (<<e, i>> \in ToldPairs /\ e \notin severed) \/ (e = c /\ i = id)
          BY <1>5, <2>1, <4>4 DEF ToldPairs
        <4>6. ToldPairs \subseteq Conns \X Ids /\ ToldPairs' \subseteq Conns \X Ids
          BY DEF ToldPairs
        <4> QED BY <1>4, <4>5, <4>6
      <3> QED BY <1>2, <3>1, <3>2 DEF Send
    <2>6. P!Claim(c, id)
      BY <1>12, <2>4, <2>5 DEF P!Claim, P!OwnersWithout, P!ToldWithout, severed
    <2> QED BY <1>4, <2>6
  <1> QED BY <1>11, <1>12

\* A handled message is a claim, or changes nothing the peers can rely on.
LEMMA MessageMaps == ASSUME IInv, VisitMessage PROVE P!Next
  <1> DEFINE v == Visited
             m == Head(buf[v] \o net[v])
  <1>1. TypeOK
    BY DEF IInv
  <1>2. v \in Conns /\ open[v]
    BY <1>1 DEF VisitMessage, CanRead, AtClient, Visited, TypeOK
  <1>3. /\ buf[v] \o net[v] # <<>> /\ Handle(v, m)
        /\ acked' = acked
    BY DEF VisitMessage
  <1> HIDE DEF v
  <1>4. ASSUME NEW j \in Ids
        PROVE  /\ Reply("user_offline", j) \in Replies
               /\ Reply("user_offline", j).type # "register_ok"
    BY <1>4, RepliesSent DEF Reply
  <1>5. ASSUME NEW t \in {"connect_request"} \cup Silent \cup Forward,
               NEW i \in Ids, NEW j \in Ids
        PROVE  Relayed(t, i, j) \in Replies /\ Relayed(t, i, j).type # "register_ok"
    BY <1>5, RepliesSent DEF Relayed, Silent, Forward
  <1>6. \A i \in Ids : Online(i) => users[i] \in Conns
    BY <1>1 DEF Online, TypeOK
  <1>7. ASSUME Receive(v, {}) PROVE m \in Requests
    BY <1>1, <1>2, <1>3, <1>7, ReceiveEffect
  <1>8. ASSUME Receive(v, {}), users' = users,
               \/ out' = out
               \/ \E d \in Conns, r \in Replies : r.type # "register_ok" /\ Send(d, r)
        PROVE  P!Next
    BY <1>1, <1>2, <1>3, <1>8, RelayForgets DEF P!Next
  <1>9. CASE m.type = "register" /\ HandleRegister(v, m)
    <2>1. CASE m.id = NoId
      <3>1. /\ Reply("register_fail", NoId) \in Replies
            /\ Reply("register_fail", NoId).type # "register_ok"
        BY RepliesSent DEF Reply
      <3> QED BY <1>2, <1>8, <1>9, <2>1, <3>1 DEF HandleRegister
    <2>2. CASE m.id # NoId
      BY <1>2, <1>3, <1>9, <2>2, RegisterClaims DEF P!Next
    <2> QED BY <2>1, <2>2
  <1>10. CASE m.type = "heartbeat" /\ HandleHeartbeat(v, m)
    <2>1. /\ Reply("heartbeat_ack", NoId) \in Replies
          /\ Reply("heartbeat_ack", NoId).type # "register_ok"
      BY RepliesSent DEF Reply
    <2> QED BY <1>2, <1>8, <1>10, <2>1 DEF HandleHeartbeat
  <1>11. CASE m.type = "connect_request" /\ HandleConnectRequest(v, m)
    <2>1. /\ Receive(v, {}) /\ users' = users
          /\ IF Online(m.to) THEN Send(users[m.to], Relayed(m.type, m.id, m.to))
             ELSE Send(v, Reply("user_offline", m.to))
      BY <1>11 DEF HandleConnectRequest
    <2> HIDE DEF m
    <2>2. m.id \in Ids /\ m.to \in Ids
      BY <2>1, <1>7, <1>11, RequestFields
    <2> QED BY <1>2, <1>4, <1>5, <1>6, <1>8, <1>11, <2>1, <2>2
  <1>12. CASE m.type \in Silent /\ HandleConnectAnswer(v, m)
    <2>1. /\ Receive(v, {}) /\ users' = users
          /\ IF Online(m.to) THEN Send(users[m.to], Relayed(m.type, m.id, m.to))
             ELSE out' = out
      BY <1>12 DEF HandleConnectAnswer
    <2> HIDE DEF m
    <2>2. m.id \in Ids /\ m.to \in Ids
      BY <2>1, <1>7, <1>12, RequestFields
    <2> QED BY <1>2, <1>5, <1>6, <1>8, <1>12, <2>1, <2>2
  <1>13. CASE m.type \in Forward /\ HandleForward(v, m)
    <2>1. Receive(v, {}) /\ users' = users
      BY <1>13 DEF HandleForward
    <2>2. \/ out' = out
          \/ \E from \in Ids :
               IF Online(m.to) THEN Send(users[m.to], Relayed(m.type, from, m.to))
               ELSE Send(v, Reply("user_offline", m.to))
      BY <1>13 DEF HandleForward
    <2> HIDE DEF m
    <2>3. m.to \in Ids
      BY <2>1, <1>7, <1>13, RequestFields
    <2> QED BY <1>2, <1>4, <1>5, <1>6, <1>8, <1>13, <2>1, <2>2, <2>3
  <1> QED BY <1>3, <1>9, <1>10, <1>11, <1>12, <1>13 DEF Handle, m

\* Initially nobody owns anything.
LEMMA InitMaps == Init => P!Init
  <1> SUFFICES ASSUME Init PROVE P!Init
    OBVIOUS
  <1>1. Owner = [i \in Ids |-> NoConn]
    BY DEF Init, Owner, Online
  <1>2. ToldPairs = {}
    BY DEF Init, ToldPairs
  <1> QED BY <1>1, <1>2 DEF P!Init

LEMMA NextMaps == IInv /\ [Next]_vars => [P!Next]_(P!vars)
  <1> SUFFICES ASSUME IInv, [Next]_vars
               PROVE  P!Next \/ UNCHANGED <<Owner, ToldPairs>>
    BY DEF P!vars
  <1>1. ASSUME Cleanup PROVE P!Next
    BY <1>1, CleanupSevers DEF P!Next
  <1>2. ASSUME RemoteOnly PROVE P!Next
    BY <1>2, RemoteForgets DEF P!Next
  <1>3. CASE VisitClosed \/ VisitDisconnected \/ Purge \/ StopEnd
    BY <1>1, <1>3, DropSteps, PurgeStep, StopEndStep
  <1>4. CASE VisitError \/ VisitIdle \/ EndPass \/ Start
             \/ StopBegin \/ Tick
    BY <1>4, ControlSteps, ControlStutters
  <1>5. CASE Accept
    BY <1>5, AcceptStutters
  <1>6. CASE VisitMessage
    BY <1>6, MessageMaps
  <1>7. ASSUME NEW c \in Conns, PeerStep(c)
        PROVE  P!Next \/ UNCHANGED <<Owner, ToldPairs>>
    <2>1. CASE Connect(c)
      BY <2>1, ConnectStutters
    <2>2. CASE PeerClose(c) \/ PeerReset(c) \/ PeerVanish(c) \/ Recycle(c)
      BY <1>2, <2>2, PeerEnds
    <2>3. CASE PeerReceive(c)
      BY <1>2, <2>3, PeerReceives
    <2>4. ASSUME NEW m \in PeerRequests(c), PeerSend(c, m) PROVE P!Next
      BY <1>2, <2>4, PeerSends
    <2> QED BY <1>7, <2>1, <2>2, <2>3, <2>4 DEF PeerStep
  <1>8. CASE UNCHANGED vars
    BY <1>8 DEF vars, Owner, ToldPairs, Online, Told
  <1> QED BY <1>3, <1>4, <1>5, <1>6, <1>7, <1>8 DEF Next, ServerStep

\* The relay server keeps the promises of Presence, for any number of ids and
\* connections and however the peers, stop() and the server thread interleave.
THEOREM Implementation == Spec => PromisesKept
  <1> QED BY InitMaps, NextMaps, Invariance, PTL DEF Spec, PromisesKept, P!Spec

=============================================================================
