------------------------------ MODULE TcpFraming ------------------------------
(***************************************************************************)
(* Messages over TcpChannel, src/src/signaling/tcp_channel.cpp, byte by    *)
(* byte: send() on the threads of one program, recv() and pollRead() in    *)
(* the loop of the other.                                                  *)
(*                                                                         *)
(* Message k is the k-th that took the channel's send lock; started[k] is  *)
(* its payload length.  A byte is the pair <<k, i>>: byte i of message k,  *)
(* the first HeaderSize of which are the serialised ControlHeader.         *)
(***************************************************************************)
EXTENDS Integers, Sequences

CONSTANTS
    Senders,        \* of the sending program
    HeaderSize,     \* ControlHeader::SIZE
    Lengths,        \* payload lengths
    BufferSize,     \* the initial size of recvBuf_ (64 KiB)
    PipeSize,       \* bytes TCP holds between the two programs
    MaxMessages     \* bound: messages sent

ASSUME SizesAssumption ==
    /\ HeaderSize \in Nat \ {0} /\ PipeSize \in Nat \ {0}
    /\ BufferSize \in Nat /\ BufferSize >= HeaderSize
    /\ Lengths \subseteq Nat /\ MaxMessages \in Nat

VARIABLES
    started,        \* payload lengths of the messages sent so far
    sender,         \* sender[t]: the message t is sending, 0 if none
    lock,           \* sendMutex_ is held
    left,           \* bytes of the current sendRaw() still to be sent
    part,           \* which of the two sendRaw() calls: "header", "payload"
    pipe,           \* the bytes in it
    failed,         \* the messages whose send() returned SOCK_ERROR
    closed,         \* the sender has closed its socket
    polls,          \* the receiver calls pollRead() before recv(), as the
                    \* client does; the server does not
    receiver,       \* "poll", "recv", "over"
    recvBuf,        \* recvBuf_ up to recvPos_
    size,           \* recvBuf_.size()
    delivered       \* what recv() has returned

sending == <<started, sender, lock, left, part, failed, closed>>
receiving == <<polls, receiver, recvBuf, size, delivered>>
framingVars == <<sending, pipe, receiving>>

Bytes(k, from, to) == [i \in 1..(to - from + 1) |-> <<k, from + i - 1>>]
Whole(k) == Bytes(k, 1, HeaderSize + started[k])

FramingInit ==
    /\ started = <<>> /\ sender = [t \in Senders |-> 0]
    /\ lock = FALSE /\ left = 0 /\ part = "header"
    /\ pipe = <<>> /\ failed = {} /\ closed = FALSE
    /\ polls \in BOOLEAN
    /\ receiver = IF polls THEN "poll" ELSE "recv"
    /\ recvBuf = <<>> /\ size = BufferSize /\ delivered = <<>>

---------------------------------------------------------------------------
(* send().                                                                 *)

\* Mutant: the header is sent before the lock is taken.
SendBeginUnlocked(t) ==
    /\ sender[t] = 0 /\ ~closed
    /\ Len(started) < MaxMessages
    /\ \E length \in Lengths : started' = Append(started, length)
    /\ sender' = [sender EXCEPT ![t] = Len(started')]
    /\ lock' = TRUE /\ part' = "header" /\ left' = HeaderSize
    /\ UNCHANGED <<failed, closed, pipe, receiving>>

SendBegin(t) ==
    /\ sender[t] = 0 /\ ~lock /\ ~closed
    /\ Len(started) < MaxMessages
    /\ \E length \in Lengths : started' = Append(started, length)
    /\ sender' = [sender EXCEPT ![t] = Len(started')]
    /\ lock' = TRUE /\ part' = "header" /\ left' = HeaderSize
    /\ UNCHANGED <<failed, closed, pipe, receiving>>

\* ::send() takes any number of bytes that the pipe has room for.
SendSome(t) ==
    /\ sender[t] # 0 /\ left > 0
    /\ LET k == sender[t]
           end == IF part = "header" THEN HeaderSize ELSE HeaderSize + started[k]
       IN \E n \in 1..left :
             /\ Len(pipe) + n <= PipeSize
             /\ pipe' = pipe \o Bytes(k, end - left + 1, end - left + n)
             /\ left' = left - n
    /\ UNCHANGED <<started, sender, lock, part, failed, closed, receiving>>

\* The header is out: `if (length > 0 && data)` the payload follows.
SendPayload(t) ==
    /\ sender[t] # 0 /\ left = 0 /\ part = "header"
    /\ part' = "payload" /\ left' = started[sender[t]]
    /\ UNCHANGED <<started, sender, lock, failed, closed, pipe, receiving>>

SendEnd(t) ==
    /\ sender[t] # 0 /\ left = 0 /\ part = "payload"
    /\ sender' = [sender EXCEPT ![t] = 0] /\ lock' = FALSE
    /\ UNCHANGED <<started, left, part, failed, closed, pipe, receiving>>

\* The pipe stays full for 5 s: send() returns SOCK_ERROR where it is.
SendTimeout(t) ==
    /\ sender[t] # 0 /\ left > 0 /\ Len(pipe) = PipeSize
    /\ sender' = [sender EXCEPT ![t] = 0] /\ lock' = FALSE /\ left' = 0
    /\ failed' = failed \cup {sender[t]}
    /\ UNCHANGED <<started, part, closed, pipe, receiving>>

CloseSender ==
    /\ ~lock /\ ~closed
    /\ closed' = TRUE
    /\ UNCHANGED <<started, sender, lock, left, part, failed, pipe, receiving>>

---------------------------------------------------------------------------
(* pollRead() and recv(), and the loop around them.                        *)

SocketReadable == pipe # <<>> \/ closed

\* `if (!channel_.pollRead(100)) continue;`
Poll ==
    /\ receiver = "poll" /\ SocketReadable
    /\ receiver' = "recv"
    /\ UNCHANGED <<sending, pipe, polls, recvBuf, size, delivered>>

\* A valid header leads the bytes b.
HeaderAt(b) ==
    /\ Len(b) >= HeaderSize
    /\ \A i \in 1..HeaderSize : b[i] = <<b[1][1], i>>
Total(b) == HeaderSize + started[b[1][1]]
Complete(b) == HeaderAt(b) /\ Len(b) >= Total(b)

Again == UNCHANGED polls /\ receiver' = IF polls THEN "poll" ELSE "recv"

\* One read of what the kernel holds and the buffer has room for.
Room == size - Len(recvBuf)

Taken == IF Len(pipe) <= Room THEN Len(pipe) ELSE Room
Filled == recvBuf \o SubSeq(pipe, 1, Taken)
ReadSome == pipe' = SubSeq(pipe, Taken + 1, Len(pipe))

\* End-of-file comes before the buffer is looked at.
AtEnd == Room > 0 /\ pipe = <<>> /\ closed

RecvDisconnected ==
    /\ receiver = "recv" /\ AtEnd
    /\ receiver' = "over"
    /\ UNCHANGED <<sending, pipe, polls, recvBuf, size, delivered>>

RecvMessage ==
    /\ receiver = "recv" /\ ~AtEnd /\ Complete(Filled)
    /\ ReadSome
    /\ delivered' = Append(delivered, SubSeq(Filled, 1, Total(Filled)))
    /\ recvBuf' = SubSeq(Filled, Total(Filled) + 1, Len(Filled))
    /\ Again
    /\ UNCHANGED <<sending, size>>

\* Mutant: the buffer does not grow.
RecvPartialFixed ==
    /\ receiver = "recv" /\ ~AtEnd /\ ~Complete(Filled)
    /\ ReadSome
    /\ recvBuf' = Filled
    /\ Again
    /\ UNCHANGED <<sending, size, delivered>>

\* Too little, and the buffer grows for a long message; or no header, an
\* error that both loops ignore.
RecvPartial ==
    /\ receiver = "recv" /\ ~AtEnd /\ ~Complete(Filled)
    /\ ReadSome
    /\ recvBuf' = Filled
    /\ size' = IF HeaderAt(Filled) /\ Total(Filled) > size
               THEN Total(Filled) ELSE size
    /\ Again
    /\ UNCHANGED <<sending, delivered>>

---------------------------------------------------------------------------
SenderStep(t) ==
    SendSome(t) \/ SendPayload(t) \/ SendEnd(t) \/ SendTimeout(t)
ReceiverStep == Poll \/ RecvDisconnected \/ RecvMessage \/ RecvPartial

FramingNext ==
    \/ \E t \in Senders : SendBegin(t) \/ SenderStep(t)
    \/ CloseSender
    \/ ReceiverStep

FramingSpec == FramingInit /\ [][FramingNext]_framingVars

\* A send that has begun goes on; the receiving loop runs for ever.
FramingLiveSpec ==
    /\ FramingSpec
    /\ \A t \in Senders : WF_framingVars(SenderStep(t))
    /\ WF_framingVars(ReceiverStep)

---------------------------------------------------------------------------
(* Properties.                                                             *)

\* The type invariant.
FramingTypeOK ==
    /\ started \in Seq(Lengths) /\ Len(started) <= MaxMessages
    /\ sender \in [Senders -> 0..MaxMessages]
    /\ lock \in BOOLEAN /\ closed \in BOOLEAN
    /\ failed \subseteq 1..MaxMessages
    /\ left \in Nat /\ part \in {"header", "payload"}
    /\ Len(pipe) <= PipeSize
    /\ polls \in BOOLEAN
    /\ receiver \in {"poll", "recv", "over"}
    /\ size \in Nat /\ Len(recvBuf) <= size

\* recv() returns the messages in the order in which send() took them, each
\* whole, none twice, none missing in between, up to the first that failed.
InOrder ==
    \A k \in 1..Len(delivered) :
        failed \cap 1..k = {} => k <= Len(started) /\ delivered[k] = Whole(k)

FramingInv == FramingTypeOK /\ InOrder

\* "Try to receive a complete message": whatever recv() returns is one of the
\* messages that send() was given.
Genuine ==
    \A k \in 1..Len(delivered) :
        \E m \in 1..Len(started) : delivered[k] = Whole(m)

\* "Returns true if data is available": pollRead() does not hide a message that
\* recv() would return.
PollTells == receiver = "poll" /\ Complete(recvBuf) => SocketReadable

\* A message that send() has sent, with all before it, is received by a loop
\* that does not poll, unless the sender closes.
Received ==
    \A k \in 1..MaxMessages :
        (/\ ~polls /\ Len(started) >= k /\ failed \cap 1..k = {}
         /\ \A t \in Senders : sender[t] # k)
            ~> (Len(delivered) >= k \/ closed)

=============================================================================
