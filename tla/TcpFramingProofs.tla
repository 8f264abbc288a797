-------------------------- MODULE TcpFramingProofs --------------------------
(***************************************************************************)
(* TcpFraming, for any senders, payload lengths, sizes of header, buffer   *)
(* and pipe: up to the first send that was given up, recv() returns the    *)
(* messages whole and in the order of the send lock, however the bytes     *)
(* were split and joined on their way.                                     *)
(***************************************************************************)
EXTENDS TcpFraming, SequenceTheorems, TLAPS

Byte == Nat \X Nat
Extent(k) == HeaderSize + started[k]

---------------------------------------------------------------------------
(* The lock and the types.                                                 *)

\* Who sends holds the lock and sends the latest message.
Locked ==
    /\ \A t \in Senders : sender[t] # 0 => lock /\ sender[t] = Len(started)
    /\ \A t, u \in Senders : sender[t] # 0 /\ sender[u] # 0 => t = u

\* What is left of the call of sendRaw() under way.
Remaining ==
    /\ ~lock => left = 0
    /\ lock => /\ Len(started) > 0 /\ Len(started) \notin failed
               /\ left <= IF part = "header" THEN HeaderSize
                                             ELSE started[Len(started)]

\* Only bytes of messages that were started are on their way.
Known ==
    /\ recvBuf \in Seq(Byte) /\ pipe \in Seq(Byte)
    /\ \A i \in 1..Len(recvBuf) : recvBuf[i][1] \in 1..Len(started)
    /\ \A i \in 1..Len(pipe) : pipe[i][1] \in 1..Len(started)

FramingTypes ==
    /\ FramingTypeOK /\ Locked /\ Remaining /\ Known
    /\ failed \subseteq 1..Len(started)
    /\ delivered \in Seq(Seq(Byte))

LEMMA LengthsKnown ==
    ASSUME FramingTypes
    PROVE  /\ Len(started) \in Nat /\ HeaderSize \in Nat /\ HeaderSize > 0
           /\ \A k \in 1..Len(started) : /\ started[k] \in Nat
                                         /\ Extent(k) \in Nat
                                         /\ Extent(k) >= HeaderSize
<1>1. started \in Seq(Lengths) /\ Lengths \subseteq Nat /\ HeaderSize \in Nat \ {0}
  BY SizesAssumption DEF FramingTypes, FramingTypeOK
<1>2. ASSUME NEW k \in 1..Len(started) PROVE started[k] \in Nat
  BY <1>1, ElementOfSeq
<1> QED
  BY <1>1, <1>2 DEF Extent

\* What one message adds to the list of them.
LEMMA Started ==
    ASSUME FramingTypes, NEW length \in Lengths, started' = Append(started, length)
    PROVE  /\ started' \in Seq(Lengths) /\ Len(started') = Len(started) + 1
           /\ \A k \in 1..Len(started) : started'[k] = started[k]
           /\ started'[Len(started) + 1] = length
BY DEF FramingTypes, FramingTypeOK

LEMMA BytesAre ==
    ASSUME NEW k \in Nat, NEW from \in Nat, NEW n \in Nat
    PROVE  /\ Bytes(k, from + 1, from + n) \in Seq(Byte)
           /\ Len(Bytes(k, from + 1, from + n)) = n
           /\ \A i \in 1..n : Bytes(k, from + 1, from + n)[i] = <<k, from + i>>
<1> DEFINE B == [i \in 1..n |-> <<k, from + i>>]
<1>1. Bytes(k, from + 1, from + n) = B
  <2>1. (from + n) - (from + 1) + 1 = n
    OBVIOUS
  <2>2. \A i \in 1..n : (from + 1) + i - 1 = from + i
    OBVIOUS
  <2> QED
    BY <2>1, <2>2 DEF Bytes
<1>2. B \in [1..n -> Byte]
  BY DEF Byte
<1>3. B \in Seq(Byte) /\ Len(B) = n
  BY <1>2
<1> QED
  BY <1>1, <1>3

LEMMA InitTypes == FramingInit => FramingTypes
<1> SUFFICES ASSUME FramingInit PROVE FramingTypes
  OBVIOUS
<1> USE SizesAssumption DEF FramingInit
<1>1. started \in Seq(Lengths) /\ Len(started) = 0 /\ delivered \in Seq(Seq(Byte))
  OBVIOUS
<1>2. recvBuf \in Seq(Byte) /\ pipe \in Seq(Byte) /\ Len(recvBuf) = 0 /\ Len(pipe) = 0
  OBVIOUS
<1>3. sender \in [Senders -> 0..MaxMessages]
  OBVIOUS
<1>4. receiver \in {"poll", "recv", "over"}
  OBVIOUS
<1>5. Locked
  BY DEF Locked
<1>6. Remaining
  BY DEF Remaining
<1>7. Known
  BY <1>2 DEF Known
<1>8. /\ lock = FALSE /\ closed = FALSE /\ left = 0 /\ part = "header" /\ failed = {}
      /\ polls \in BOOLEAN /\ size = BufferSize
  OBVIOUS
<1> HIDE DEF FramingInit
<1>9. /\ left \in Nat /\ size \in Nat /\ Len(recvBuf) <= size /\ Len(pipe) <= PipeSize
      /\ Len(started) <= MaxMessages
  BY <1>1, <1>2, <1>8
<1>10. lock \in BOOLEAN /\ closed \in BOOLEAN /\ part \in {"header", "payload"}
  BY <1>8
<1>11. failed \subseteq 1..MaxMessages /\ failed \subseteq 1..Len(started)
  BY <1>8
<1> QED
  BY <1>1, <1>2, <1>3, <1>4, <1>5, <1>6, <1>7, <1>8, <1>9, <1>10, <1>11
  DEF FramingTypes, FramingTypeOK

\* send().
LEMMA BeginTypes ==
    ASSUME FramingTypes, NEW t \in Senders, SendBegin(t)
    PROVE  FramingTypes'
<1>1. PICK length \in Lengths : started' = Append(started, length)
  BY DEF SendBegin
<1>2. /\ Len(started) \in Nat /\ started' \in Seq(Lengths)
      /\ Len(started') = Len(started) + 1 /\ Len(started') <= MaxMessages
  BY <1>1, Started, LengthsKnown, SizesAssumption DEF SendBegin
<1>3. /\ ~lock /\ lock' = TRUE /\ part' = "header" /\ left' = HeaderSize
      /\ sender' = [sender EXCEPT ![t] = Len(started')]
      /\ UNCHANGED <<failed, closed, pipe, polls, receiver, recvBuf, size, delivered>>
  BY DEF SendBegin, receiving
<1>4. sender' \in [Senders -> 0..MaxMessages]
  BY <1>2, <1>3 DEF FramingTypes, FramingTypeOK
<1>5. Locked'
  BY <1>2, <1>3 DEF FramingTypes, FramingTypeOK, Locked
<1>6. Remaining'
  <2>1. Len(started') > 0 /\ Len(started') \notin failed'
    BY <1>2, <1>3 DEF FramingTypes
  <2>2. left' <= HeaderSize
    BY <1>3, SizesAssumption
  <2> QED
    BY <1>3, <2>1, <2>2 DEF Remaining
<1>7. Known' /\ failed' \subseteq 1..Len(started')
  BY <1>2, <1>3 DEF FramingTypes, Known
<1>8. left' \in Nat
  BY <1>3, SizesAssumption
<1> QED
  BY <1>2, <1>3, <1>4, <1>5, <1>6, <1>7, <1>8 DEF FramingTypes, FramingTypeOK

\* Where the call of sendRaw() under way will end.
End == IF part = "header" THEN HeaderSize ELSE Extent(Len(started))

LEMMA SomeTypes ==
    ASSUME FramingTypes, NEW t \in Senders, SendSome(t)
    PROVE  /\ FramingTypes'
           /\ \E n \in 1..left :
                 /\ left' = left - n
                 /\ pipe' = pipe \o Bytes(Len(started), End - left + 1, End - left + n)
<1>0. /\ Len(started) \in Nat /\ Len(started) > 0 /\ lock /\ sender[t] = Len(started)
      /\ left \in Nat /\ started[Len(started)] \in Nat /\ HeaderSize \in Nat
  BY LengthsKnown DEF SendSome, FramingTypes, FramingTypeOK, Locked, Remaining
<1>1. PICK n \in 1..left :
          /\ Len(pipe) + n <= PipeSize
          /\ pipe' = pipe \o Bytes(Len(started), End - left + 1, End - left + n)
          /\ left' = left - n
  BY <1>0 DEF SendSome, End, Extent
<1>2. UNCHANGED <<started, sender, lock, part, failed, closed, polls, receiver,
                  recvBuf, size, delivered>>
  BY DEF SendSome, receiving
<1>3. End - left \in Nat
  BY <1>0 DEF End, Extent, FramingTypes, Remaining
<1> DEFINE added == Bytes(Len(started), End - left + 1, End - left + n)
<1>4. /\ added \in Seq(Byte) /\ Len(added) = n
      /\ \A i \in 1..n : added[i] = <<Len(started), End - left + i>>
  <2>1. n \in Nat
    BY <1>0, <1>1
  <2>2. PICK from \in Nat : from = End - left
    BY <1>3
  <2>3. added = Bytes(Len(started), from + 1, from + n)
    BY <2>2
  <2> HIDE DEF added
  <2>4. /\ Bytes(Len(started), from + 1, from + n) \in Seq(Byte)
        /\ Len(Bytes(Len(started), from + 1, from + n)) = n
        /\ \A i \in 1..n : Bytes(Len(started), from + 1, from + n)[i] = <<Len(started), from + i>>
    <3>1. Len(started) \in Nat
      BY <1>0
    <3> QED
      BY <2>1, <3>1, BytesAre
  <2> QED
    BY <2>2, <2>3, <2>4
<1> HIDE DEF added
<1>a. pipe' = pipe \o added
  BY <1>1 DEF added
<1>5. pipe \in Seq(Byte)
  BY DEF FramingTypes, Known
<1>6. /\ pipe' \in Seq(Byte) /\ Len(pipe') = Len(pipe) + n /\ Len(pipe) \in Nat
      /\ \A i \in 1..Len(pipe') : pipe'[i] = IF i <= Len(pipe) THEN pipe[i]
                                              ELSE added[i - Len(pipe)]
  <2>1. /\ pipe \o added \in Seq(Byte)
        /\ Len(pipe \o added) = Len(pipe) + Len(added)
        /\ \A i \in 1..(Len(pipe) + Len(added)) :
              (pipe \o added)[i] = IF i <= Len(pipe) THEN pipe[i] ELSE added[i - Len(pipe)]
    BY <1>4, <1>5, ConcatProperties
  <2> QED
    BY <1>a, <1>4, <1>5, <2>1
<1>7. \A i \in 1..Len(pipe') : pipe'[i][1] \in 1..Len(started)
  <2> SUFFICES ASSUME NEW i \in 1..Len(pipe') PROVE pipe'[i][1] \in 1..Len(started)
    OBVIOUS
  <2>1. CASE i <= Len(pipe)
    BY <1>6, <2>1 DEF FramingTypes, Known
  <2>2. CASE i > Len(pipe)
    <3>1. i - Len(pipe) \in 1..n
      BY <1>1, <1>6, <2>2
    <3>2. pipe'[i] = added[i - Len(pipe)]
      BY <1>6, <2>2
    <3>3. added[i - Len(pipe)][1] = Len(started)
      BY <1>4, <3>1
    <3>4. Len(started) \in 1..Len(started)
      BY <1>0
    <3> QED
      BY <3>2, <3>3, <3>4
  <2> QED
    BY <1>6, <2>1, <2>2
<1>8. Known'
  BY <1>2, <1>6, <1>7 DEF FramingTypes, Known
<1>9. left' \in Nat /\ Remaining' /\ Len(pipe') <= PipeSize
  BY <1>0, <1>1, <1>2, <1>6 DEF FramingTypes, Remaining
<1>10. Locked'
  BY <1>2 DEF FramingTypes, Locked
<1>11. FramingTypes'
  BY <1>2, <1>8, <1>9, <1>10 DEF FramingTypes, FramingTypeOK
<1> QED
  BY <1>1, <1>11

LEMMA SendTypes ==
    ASSUME FramingTypes, NEW t \in Senders,
           SendPayload(t) \/ SendEnd(t) \/ SendTimeout(t)
    PROVE  FramingTypes'
<1> USE LengthsKnown DEF FramingTypes, FramingTypeOK, Locked, Remaining, Known,
        sending, receiving
<1>1. CASE SendPayload(t)
  <2>1. /\ part' = "payload" /\ left' = started[sender[t]]
        /\ sender[t] # 0 /\ sender[t] = Len(started) /\ lock /\ Len(started) > 0
        /\ UNCHANGED <<started, sender, lock, failed, closed, pipe, receiving>>
    BY <1>1 DEF SendPayload
  <2>2. started[Len(started)] \in Nat
    BY <2>1
  <2>3. Remaining' /\ left' \in Nat /\ part' \in {"header", "payload"}
    BY <2>1, <2>2
  <2> QED
    BY <2>1, <2>3
<1>2. CASE SendEnd(t)
  <2>1. /\ sender' = [sender EXCEPT ![t] = 0] /\ lock' = FALSE /\ sender[t] # 0
        /\ left' = 0 /\ UNCHANGED <<started, part, failed, closed, pipe, receiving>>
    BY <1>2 DEF SendEnd
  <2>2. sender' \in [Senders -> 0..MaxMessages] /\ \A u \in Senders : sender'[u] = 0
    <3>1. \A u \in Senders : u # t => sender[u] = 0
      BY <2>1 DEF Locked
    <3>2. 0 \in 0..MaxMessages
      BY SizesAssumption
    <3> QED
      BY <2>1, <3>1, <3>2
  <2>3. Locked' /\ Remaining'
    BY <2>1, <2>2
  <2> QED
    BY <2>1, <2>2, <2>3
<1>3. CASE SendTimeout(t)
  <2>1. /\ sender' = [sender EXCEPT ![t] = 0] /\ lock' = FALSE /\ sender[t] # 0
        /\ left' = 0 /\ failed' = failed \cup {sender[t]}
        /\ UNCHANGED <<started, part, closed, pipe, receiving>>
    BY <1>3 DEF SendTimeout
  <2>2. sender' \in [Senders -> 0..MaxMessages] /\ \A u \in Senders : sender'[u] = 0
    <3>1. \A u \in Senders : u # t => sender[u] = 0
      BY <2>1 DEF Locked
    <3>2. 0 \in 0..MaxMessages
      BY SizesAssumption
    <3> QED
      BY <2>1, <3>1, <3>2
  <2>3. Locked' /\ Remaining'
    BY <2>1, <2>2
  <2>4. sender[t] = Len(started) /\ sender[t] \in 1..Len(started)
    BY <2>1
  <2>5. failed' \subseteq 1..Len(started) /\ failed' \subseteq 1..MaxMessages
    <3>1. Len(started) \in Nat /\ Len(started) <= MaxMessages /\ MaxMessages \in Nat
      BY SizesAssumption
    <3>2. sender[t] \in 1..MaxMessages
      BY <2>4, <3>1
    <3> QED
      BY <2>1, <2>4, <3>2
  <2> QED
    BY <2>1, <2>2, <2>3, <2>5
<1> QED
  BY <1>1, <1>2, <1>3
---------------------------------------------------------------------------
(* recv().                                                                 *)

\* The bytes on their way, those in recvBuf_ first.
Held == Len(recvBuf) + Len(pipe)
At(i) == IF i <= Len(recvBuf) THEN recvBuf[i] ELSE pipe[i - Len(recvBuf)]

\* What recvBuf_ holds after a read are the first of them, and it has room.
LEMMA FilledIs ==
    ASSUME FramingTypes
    PROVE  /\ Taken \in 0..Len(pipe) /\ Len(pipe) \in Nat /\ Len(recvBuf) \in Nat
           /\ Filled \in Seq(Byte)
           /\ Len(Filled) = Len(recvBuf) + Taken /\ Len(Filled) <= size
           /\ \A i \in 1..Len(Filled) : Filled[i] = At(i) /\ Filled[i][1] \in 1..Len(started)
<1> DEFINE front == SubSeq(pipe, 1, Taken)
<1>1. /\ recvBuf \in Seq(Byte) /\ pipe \in Seq(Byte)
      /\ size \in Nat /\ Len(recvBuf) <= size
  BY DEF FramingTypes, FramingTypeOK, Known
<1>2. Taken \in 0..Len(pipe) /\ Len(recvBuf) + Taken <= size
      /\ Len(pipe) \in Nat /\ Len(recvBuf) \in Nat
  BY <1>1 DEF Taken, Room
<1>3. \A i \in 1..Taken : pipe[i] \in Byte
  BY <1>1, <1>2, ElementOfSeq
<1>4. PICK n \in Nat : n = Taken
  BY <1>2
<1>5. /\ SubSeq(pipe, 1, n) \in Seq(Byte)
      /\ Len(SubSeq(pipe, 1, n)) = IF 1 <= n THEN n - 1 + 1 ELSE 0
      /\ \A i \in 1..(n - 1 + 1) : SubSeq(pipe, 1, n)[i] = pipe[1 + i - 1]
  BY <1>3, <1>4, SubSeqProperties
<1>6. front = SubSeq(pipe, 1, n)
  BY <1>4
<1>7. front \in Seq(Byte) /\ Len(front) = Taken /\ \A i \in 1..Taken : front[i] = pipe[i]
  BY <1>2, <1>4, <1>5, <1>6
<1>8. Filled = recvBuf \o front
  BY DEF Filled
<1> HIDE DEF front
<1>9. /\ Filled \in Seq(Byte) /\ Len(Filled) = Len(recvBuf) + Taken
      /\ \A i \in 1..(Len(recvBuf) + Taken) :
            Filled[i] = IF i <= Len(recvBuf) THEN recvBuf[i] ELSE front[i - Len(recvBuf)]
  <2>1. /\ recvBuf \o front \in Seq(Byte)
        /\ Len(recvBuf \o front) = Len(recvBuf) + Len(front)
        /\ \A i \in 1..(Len(recvBuf) + Len(front)) :
              (recvBuf \o front)[i] =
                  IF i <= Len(recvBuf) THEN recvBuf[i] ELSE front[i - Len(recvBuf)]
    BY <1>1, <1>7, ConcatProperties
  <2> QED
    BY <1>7, <1>8, <2>1
<1>10. ASSUME NEW i \in 1..Len(Filled)
       PROVE  Filled[i] = At(i) /\ Filled[i][1] \in 1..Len(started)
  <2>1. CASE i <= Len(recvBuf)
    BY <1>2, <1>9, <2>1 DEF At, FramingTypes, Known
  <2>2. CASE i > Len(recvBuf)
    <3>1. i - Len(recvBuf) \in 1..Taken /\ i - Len(recvBuf) \in 1..Len(pipe)
      BY <1>2, <1>9, <2>2
    <3>2. Filled[i] = pipe[i - Len(recvBuf)]
      BY <1>2, <1>7, <1>9, <2>2, <3>1
    <3> QED
      BY <1>2, <2>2, <3>1, <3>2 DEF At, FramingTypes, Known
  <2> QED
    BY <1>2, <1>9, <2>1, <2>2
<1> QED
  BY <1>2, <1>9, <1>10

\* What the pipe holds after a read is the rest of it.
LEMMA RestIs ==
    ASSUME FramingTypes, ReadSome
    PROVE  /\ pipe' \in Seq(Byte) /\ Len(pipe') = Len(pipe) - Taken
           /\ \A i \in 1..(Len(pipe) - Taken) : pipe'[i] = pipe[Taken + i]
<1>1. Taken \in 0..Len(pipe) /\ Len(pipe) \in Nat /\ pipe \in Seq(Byte)
  BY FilledIs DEF FramingTypes, Known
<1>2. \A i \in (Taken + 1)..Len(pipe) : pipe[i] \in Byte
  BY <1>1, ElementOfSeq
<1>3. PICK m \in Int, n \in Int : m = Taken + 1 /\ n = Len(pipe)
  BY <1>1
<1>4. /\ SubSeq(pipe, m, n) \in Seq(Byte)
      /\ Len(SubSeq(pipe, m, n)) = IF m <= n THEN n - m + 1 ELSE 0
      /\ \A i \in 1..(n - m + 1) : SubSeq(pipe, m, n)[i] = pipe[m + i - 1]
  BY <1>2, <1>3, SubSeqProperties
<1>5. pipe' = SubSeq(pipe, m, n)
  BY <1>3 DEF ReadSome
<1> QED
  BY <1>1, <1>3, <1>4, <1>5

\* A header is that of a message that was started.
LEMMA HeaderIs ==
    ASSUME FramingTypes, HeaderAt(Filled)
    PROVE  /\ Len(Filled) >= HeaderSize /\ Filled[1][1] \in 1..Len(started)
           /\ Total(Filled) = Extent(Filled[1][1])
           /\ Total(Filled) \in Nat /\ Total(Filled) > 0
<1>1. Len(Filled) >= HeaderSize /\ Len(Filled) \in Nat /\ 1 \in 1..Len(Filled)
  BY FilledIs, LengthsKnown DEF HeaderAt
<1>2. Filled[1][1] \in 1..Len(started)
  BY <1>1, FilledIs
<1> QED
  BY <1>1, <1>2, LengthsKnown DEF Total, Extent

\* A message taken out of the buffer: its bytes, and what stays.
LEMMA MessageIs ==
    ASSUME FramingTypes, RecvMessage
    PROVE  LET total == Total(Filled)
               message == SubSeq(Filled, 1, total) IN
           /\ total \in Nat /\ total > 0 /\ total <= Len(Filled)
           /\ message \in Seq(Byte) /\ Len(message) = total
           /\ \A i \in 1..total : message[i] = At(i)
           /\ delivered' = Append(delivered, message)
           /\ recvBuf' \in Seq(Byte) /\ Len(recvBuf') = Len(Filled) - total
           /\ \A i \in 1..(Len(Filled) - total) : recvBuf'[i] = At(total + i)
<1> DEFINE total == Total(Filled)
           message == SubSeq(Filled, 1, total)
<1>1. HeaderAt(Filled) /\ Len(Filled) >= total
  BY DEF RecvMessage, Complete
<1>2. /\ Filled \in Seq(Byte) /\ Len(Filled) \in Nat
      /\ \A i \in 1..Len(Filled) : Filled[i] = At(i) /\ Filled[i] \in Byte
  BY FilledIs, ElementOfSeq
<1>3. total \in Nat /\ total > 0
  BY <1>1, HeaderIs
<1>4. PICK n \in Int, m \in Int, l \in Int : n = total /\ m = total + 1 /\ l = Len(Filled)
  BY <1>2, <1>3
<1>5. /\ SubSeq(Filled, 1, n) \in Seq(Byte)
      /\ Len(SubSeq(Filled, 1, n)) = IF 1 <= n THEN n - 1 + 1 ELSE 0
      /\ \A i \in 1..(n - 1 + 1) : SubSeq(Filled, 1, n)[i] = Filled[1 + i - 1]
  <2>1. \A i \in 1..n : Filled[i] \in Byte
    BY <1>1, <1>2, <1>3, <1>4
  <2> QED
    BY <2>1, SubSeqProperties
<1>6. /\ SubSeq(Filled, m, l) \in Seq(Byte)
      /\ Len(SubSeq(Filled, m, l)) = IF m <= l THEN l - m + 1 ELSE 0
      /\ \A i \in 1..(l - m + 1) : SubSeq(Filled, m, l)[i] = Filled[m + i - 1]
  <2>1. \A i \in m..l : Filled[i] \in Byte
    BY <1>1, <1>2, <1>3, <1>4
  <2> QED
    BY <2>1, SubSeqProperties
<1>7. message = SubSeq(Filled, 1, n) /\ recvBuf' = SubSeq(Filled, m, l)
      /\ delivered' = Append(delivered, message)
  BY <1>4 DEF RecvMessage
<1>8. message \in Seq(Byte) /\ Len(message) = total /\ \A i \in 1..total : message[i] = At(i)
  <2> HIDE DEF total, message
  <2> QED
    BY <1>1, <1>2, <1>3, <1>4, <1>5, <1>7
<1>9. /\ recvBuf' \in Seq(Byte) /\ Len(recvBuf') = Len(Filled) - total
      /\ \A i \in 1..(Len(Filled) - total) : recvBuf'[i] = At(total + i)
  <2> HIDE DEF total, message
  <2> QED
    BY <1>1, <1>2, <1>3, <1>4, <1>6, <1>7
<1> HIDE DEF total, message
<1>10. total <= Len(Filled)
  BY <1>1, <1>2, <1>3
<1> QED
  BY <1>3, <1>7, <1>8, <1>9, <1>10 DEF total, message

\* Bytes that were known stay so, wherever they are.
LEMMA KnownStays ==
    ASSUME FramingTypes, NEW b \in Seq(Byte), NEW from \in Nat,
           from + Len(b) <= Len(Filled),
           \A i \in 1..Len(b) : b[i] = At(from + i)
    PROVE  \A i \in 1..Len(b) : b[i][1] \in 1..Len(started)
<1> SUFFICES ASSUME NEW i \in 1..Len(b) PROVE b[i][1] \in 1..Len(started)
  OBVIOUS
<1>1. from + i \in 1..Len(Filled)
  BY FilledIs
<1> QED
  BY <1>1, FilledIs

LEMMA ReceiveTypes ==
    ASSUME FramingTypes, ReceiverStep
    PROVE  FramingTypes'
<1> USE DEF FramingTypes
<1>1. CASE Poll
  BY <1>1 DEF Poll, sending, FramingTypeOK, Locked, Remaining, Known
<1>2. CASE RecvDisconnected
  BY <1>2 DEF RecvDisconnected, sending, FramingTypeOK, Locked, Remaining, Known
<1>3. CASE RecvMessage \/ RecvPartial
  <2>1. /\ ReadSome /\ UNCHANGED <<sending, polls>> /\ receiver' \in {"poll", "recv"}
    BY <1>3 DEF RecvMessage, RecvPartial, Again
  <2>2. /\ pipe' \in Seq(Byte) /\ Len(pipe') <= PipeSize
        /\ \A i \in 1..Len(pipe') : pipe'[i][1] \in 1..Len(started)
    <3>1. Taken \in 0..Len(pipe) /\ Len(pipe) \in Nat /\ Len(pipe) <= PipeSize
      BY FilledIs DEF FramingTypeOK
    <3>2. \A i \in 1..(Len(pipe) - Taken) : Taken + i \in 1..Len(pipe)
      BY <3>1
    <3>3. /\ pipe' \in Seq(Byte) /\ Len(pipe') = Len(pipe) - Taken
          /\ \A i \in 1..(Len(pipe) - Taken) : pipe'[i] = pipe[Taken + i]
      BY <2>1, RestIs
    <3>4. \A i \in 1..Len(pipe) : pipe[i][1] \in 1..Len(started)
      BY DEF Known
    <3>5. Len(pipe') <= PipeSize
      BY <3>1, <3>3, SizesAssumption
    <3>6. \A i \in 1..Len(pipe') : pipe'[i][1] \in 1..Len(started)
      BY <3>2, <3>3, <3>4
    <3> QED
      BY <3>3, <3>5, <3>6
  <2>3. /\ size' \in Nat /\ Len(recvBuf') <= size' /\ recvBuf' \in Seq(Byte)
        /\ \A i \in 1..Len(recvBuf') : recvBuf'[i][1] \in 1..Len(started)
        /\ delivered' \in Seq(Seq(Byte))
    <3>1. CASE RecvMessage
      <4>1. PICK total \in Nat : total = Total(Filled)
        BY <3>1, MessageIs
      <4>2. /\ total > 0 /\ total <= Len(Filled) /\ Len(Filled) \in Nat
            /\ recvBuf' \in Seq(Byte) /\ Len(recvBuf') = Len(Filled) - total
            /\ \A i \in 1..Len(recvBuf') : recvBuf'[i] = At(total + i)
        <5>1. Len(Filled) \in Nat
          BY FilledIs
        <5>2. /\ total > 0 /\ total <= Len(Filled)
              /\ recvBuf' \in Seq(Byte) /\ Len(recvBuf') = Len(Filled) - total
              /\ \A i \in 1..(Len(Filled) - total) : recvBuf'[i] = At(total + i)
          BY <3>1, <4>1, MessageIs
        <5> QED
          BY <5>1, <5>2
      <4>3. size' = size /\ size \in Nat /\ Len(Filled) <= size
        BY <3>1, FilledIs DEF RecvMessage, FramingTypeOK
      <4>4. \A i \in 1..Len(recvBuf') : recvBuf'[i][1] \in 1..Len(started)
        <5>1. total + Len(recvBuf') <= Len(Filled)
          BY <4>2
        <5> QED
          BY <4>2, <5>1, KnownStays
      <4>5. delivered' \in Seq(Seq(Byte))
        <5>1. PICK message \in Seq(Byte) : delivered' = Append(delivered, message)
          BY <3>1, MessageIs
        <5> QED
          BY <5>1
      <4> QED
        BY <4>2, <4>3, <4>4, <4>5
    <3>2. CASE RecvPartial
      <4>1. recvBuf' = Filled /\ UNCHANGED delivered
        BY <3>2 DEF RecvPartial
      <4>2. size' \in Nat /\ size' >= size /\ size \in Nat
        BY <3>2, HeaderIs DEF RecvPartial, FramingTypeOK
      <4> QED
        BY <4>1, <4>2, FilledIs
    <3> QED
      BY <1>3, <3>1, <3>2
  <2> QED
    BY <2>1, <2>2, <2>3 DEF sending, FramingTypeOK, Locked, Remaining, Known
<1> QED
  BY <1>1, <1>2, <1>3 DEF ReceiverStep

LEMMA NextTypes ==
    ASSUME FramingTypes, [FramingNext]_framingVars
    PROVE  FramingTypes'
<1>1. CASE UNCHANGED framingVars
  BY <1>1 DEF framingVars, sending, receiving, FramingTypes, FramingTypeOK, Locked,
      Remaining, Known
<1>2. CASE CloseSender
  BY <1>2 DEF CloseSender, receiving, FramingTypes, FramingTypeOK, Locked, Remaining, Known
<1>3. ASSUME NEW t \in Senders, SendBegin(t) \/ SenderStep(t)
      PROVE  FramingTypes'
  BY <1>3, BeginTypes, SomeTypes, SendTypes DEF SenderStep
<1> QED
  BY <1>1, <1>2, <1>3, ReceiveTypes DEF FramingNext
---------------------------------------------------------------------------
(* The order of the bytes.                                                 *)

\* No send up to the k-th has been given up.
Sound(k) == failed \cap 1..k = {}

\* The bytes of message k that have gone into the pipe.
Put(k) == IF lock /\ k = Len(started) THEN End - left ELSE Extent(k)

Awaited == Len(delivered) + 1

\* Places in the stream are added and compared.
LEMMA Regroup ==
    ASSUME NEW a \in Int, NEW b \in Int, NEW c \in Int
    PROVE  a + c - b = (a - b) + c /\ a - b \in Int
OBVIOUS

LEMMA Beyond ==
    ASSUME NEW u \in Int, NEW from \in Int, NEW held \in Nat, NEW j \in Int, NEW n \in Int,
           held = u + from, from + 1 <= j, j <= from + n
    PROVE  from + ((u + j) - held) = j /\ u + j \in 1..(held + n)
OBVIOUS

\* at[k] is where message k begins in the stream of all bytes.
Offsets(at) ==
    /\ at \in [1..(Len(started) + 1) -> Nat]
    /\ \A k \in 1..Len(started) : at[k + 1] = at[k] + Extent(k)
    /\ \A k, l \in 1..(Len(started) + 1) : k <= l => at[k] <= at[l]

\* What was put of each sound message is where it belongs, and while all are
\* sound nothing else is on its way.
Placed(at) ==
    /\ \A k \in Awaited..Len(started) : Sound(k) =>
          \A j \in 1..Put(k) : /\ at[k] - at[Awaited] + j <= Held
                               /\ At(at[k] - at[Awaited] + j) = <<k, j>>
    /\ Sound(Len(started)) =>
          /\ Awaited <= Len(started) + 1
          /\ lock => Held = at[Len(started)] + Put(Len(started)) - at[Awaited]
          /\ ~lock => Held = at[Len(started) + 1] - at[Awaited]

Ordered == \E at \in [1..(Len(started) + 1) -> Nat] : Offsets(at) /\ Placed(at)

FramingIInv == FramingTypes /\ InOrder /\ Ordered

\* What went into the pipe of a message is not more than the message.
LEMMA PutIs ==
    ASSUME FramingTypes, NEW k \in 1..Len(started)
    PROVE  Put(k) \in 0..Extent(k) /\ Extent(k) > 0
<1>1. Len(started) \in Nat /\ started[k] \in Nat /\ Extent(k) \in Nat /\ Extent(k) >= HeaderSize
      /\ HeaderSize \in Nat /\ HeaderSize > 0
  BY LengthsKnown
<1>2. CASE lock /\ k = Len(started)
  <2>1. left \in Nat /\ left <= IF part = "header" THEN HeaderSize ELSE started[k]
    BY <1>2 DEF FramingTypes, FramingTypeOK, Remaining
  <2>2. CASE part = "header"
    BY <1>1, <1>2, <2>1, <2>2 DEF Put, End
  <2>3. CASE part # "header"
    BY <1>1, <1>2, <2>1, <2>3 DEF Put, End, Extent
  <2> QED
    BY <2>2, <2>3
<1>3. CASE ~(lock /\ k = Len(started))
  BY <1>1, <1>3 DEF Put
<1> QED
  BY <1>2, <1>3

LEMMA InitOrder == FramingInit => InOrder /\ Ordered
<1> SUFFICES ASSUME FramingInit PROVE InOrder /\ Ordered
  OBVIOUS
<1>1. Len(started) = 0 /\ Len(delivered) = 0 /\ Held = 0 /\ ~lock /\ Awaited = 1
  BY DEF FramingInit, Held, Awaited
<1>2. PICK at \in [1..(Len(started) + 1) -> Nat] : at = [k \in 1..(Len(started) + 1) |-> 1]
  OBVIOUS
<1>3. Offsets(at)
  BY <1>1, <1>2 DEF Offsets
<1>4. at[1] = 1
  BY <1>1, <1>2
<1>5. Placed(at)
  BY <1>1, <1>4 DEF Placed
<1> QED
  BY <1>1, <1>3, <1>5 DEF InOrder, Ordered

\* A step that leaves the bytes, the messages and what was put as they are.
LEMMA OrderUntouched ==
    ASSUME FramingTypes, InOrder, Ordered,
           UNCHANGED <<started, delivered, failed>>, Held' = Held,
           \A i \in 1..Held : At(i)' = At(i),
           \A k \in 1..Len(started) : Put(k)' = Put(k),
           IF lock THEN lock' \/ Put(Len(started)) = Extent(Len(started)) ELSE ~lock'
    PROVE  InOrder' /\ Ordered'
<1>1. PICK at \in [1..(Len(started) + 1) -> Nat] : Offsets(at) /\ Placed(at)
  BY DEF Ordered
<1>2. Len(started) \in Nat /\ Len(delivered) \in Nat /\ Awaited' = Awaited /\ Awaited \in Nat \ {0}
  BY DEF FramingTypes, FramingTypeOK, Awaited
<1>3. Offsets(at)'
  BY <1>1 DEF Offsets, Extent
<1>4. ASSUME NEW k \in Awaited..Len(started), Sound(k), NEW j \in 1..Put(k)
      PROVE  /\ at[k] - at[Awaited] + j <= Held'
             /\ At(at[k] - at[Awaited] + j)' = <<k, j>>
  <2>1. at[k] - at[Awaited] + j <= Held /\ At(at[k] - at[Awaited] + j) = <<k, j>>
    BY <1>1, <1>4 DEF Placed
  <2>2. k \in 1..Len(started) /\ Put(k) \in Nat
    BY <1>2, PutIs
  <2>3. at[k] \in Nat /\ at[Awaited] \in Nat /\ at[Awaited] <= at[k]
    <3>1. /\ Awaited \in 1..(Len(started) + 1) /\ k \in 1..(Len(started) + 1)
          /\ Awaited <= k
      BY <1>2
    <3> QED
      BY <1>1, <3>1 DEF Offsets
  <2>4. PICK i \in 1..Held : i = at[k] - at[Awaited] + j
    BY <2>1, <2>2, <2>3
  <2>5. At(i)' = At(i) /\ At(i) = <<k, j>> /\ i <= Held'
    BY <2>1, <2>4
  <2> QED
    BY <1>2, <2>4, <2>5 DEF At
<1>5. \A k \in Awaited..Len(started) : k \in 1..Len(started)
  BY <1>2
<1>6. ASSUME Sound(Len(started))
      PROVE  /\ Awaited <= Len(started) + 1
             /\ lock' => Held' = at[Len(started)] + Put(Len(started))' - at[Awaited]
             /\ ~lock' => Held' = at[Len(started) + 1] - at[Awaited]
  <2>1. /\ Awaited <= Len(started) + 1
        /\ lock => Held = at[Len(started)] + Put(Len(started)) - at[Awaited]
        /\ ~lock => Held = at[Len(started) + 1] - at[Awaited]
    BY <1>1, <1>6 DEF Placed
  <2>2. CASE lock
    <3>1. Len(started) \in 1..Len(started)
      BY <1>2, <2>2 DEF FramingTypes, Remaining
    <3>2. at[Len(started) + 1] = at[Len(started)] + Extent(Len(started))
      BY <1>1, <3>1 DEF Offsets
    <3> QED
      <4>1. Held' = at[Len(started)] + Put(Len(started)) - at[Awaited]
        BY <2>1, <2>2
      <4>2. Put(Len(started))' = Put(Len(started))
        BY <3>1
      <4>3. ~lock' => Held' = at[Len(started) + 1] - at[Awaited]
        <5>1. CASE lock'
          BY <5>1
        <5>2. CASE ~lock'
          <6>1. Put(Len(started)) = Extent(Len(started))
            BY <2>2, <5>2
          <6>2. at[Len(started) + 1] = at[Len(started)] + Put(Len(started))
            BY <3>2, <6>1
          <6>4. PICK before \in Nat, put \in Nat, from \in Nat :
                    /\ before = at[Len(started)] /\ put = Put(Len(started))
                    /\ from = at[Awaited]
            <7>1. Awaited \in 1..(Len(started) + 1) /\ Len(started) \in 1..(Len(started) + 1)
              BY <1>2, <2>1, <3>1
            <7>2. Put(Len(started)) \in Nat
              BY <3>1, PutIs
            <7> QED
              BY <7>1, <7>2
          <6>3. Held' = at[Len(started) + 1] - at[Awaited]
            <7>1. Held' = before + put - from
              BY <4>1, <6>4
            <7>2. at[Len(started) + 1] = before + put
              BY <6>2, <6>4
            <7>3. at[Len(started) + 1] - from = before + put - from
              BY <7>2
            <7> QED
              BY <6>4, <7>1, <7>3
          <6> QED
            BY <6>3
        <5> QED
          BY <5>1, <5>2
      <4> QED
        BY <2>1, <4>1, <4>2, <4>3
  <2>3. CASE ~lock
    BY <2>1, <2>3
  <2> QED
    BY <2>1, <2>2, <2>3
<1>7. Placed(at)'
  BY <1>2, <1>4, <1>5, <1>6 DEF Placed, Sound
<1>8. InOrder'
  BY DEF InOrder, Whole
<1> QED
  BY <1>1, <1>3, <1>7, <1>8 DEF Ordered
LEMMA BeginOrder ==
    ASSUME FramingTypes, InOrder, Ordered, NEW t \in Senders, SendBegin(t)
    PROVE  InOrder' /\ Ordered'
<1>1. PICK length \in Lengths : started' = Append(started, length)
  BY DEF SendBegin
<1>2. /\ Len(started) \in Nat /\ Len(started') = Len(started) + 1
      /\ \A k \in 1..Len(started) : started'[k] = started[k]
      /\ started'[Len(started) + 1] = length
      /\ length \in Nat /\ HeaderSize \in Nat
  BY <1>1, Started, LengthsKnown, SizesAssumption
<1>3. /\ ~lock /\ lock' /\ part' = "header" /\ left' = HeaderSize
      /\ UNCHANGED <<failed, pipe, recvBuf, delivered>>
  BY DEF SendBegin, receiving
<1>4. \A k \in 1..Len(started) : /\ Extent(k)' = Extent(k) /\ Extent(k) \in Nat
                                 /\ Put(k) = Extent(k) /\ Put(k)' = Extent(k)
  <2> SUFFICES ASSUME NEW k \in 1..Len(started)
               PROVE  /\ Extent(k)' = Extent(k) /\ Extent(k) \in Nat
                      /\ Put(k) = Extent(k) /\ Put(k)' = Extent(k)
    OBVIOUS
  <2>1. Extent(k)' = Extent(k) /\ Extent(k) \in Nat
    BY <1>2, LengthsKnown DEF Extent
  <2>2. k # Len(started')
    BY <1>2
  <2> QED
    BY <1>3, <2>1, <2>2 DEF Put
<1>5. Put(Len(started))' = 0 /\ Extent(Len(started))' = HeaderSize + length
  BY <1>2, <1>3 DEF Put, End, Extent
<1>6. PICK at \in [1..(Len(started) + 1) -> Nat] : Offsets(at) /\ Placed(at)
  BY DEF Ordered
<1>7. PICK new \in [1..(Len(started') + 1) -> Nat] :
          new = [k \in 1..(Len(started') + 1) |->
                    IF k <= Len(started) + 1 THEN at[k]
                    ELSE at[Len(started) + 1] + HeaderSize + length]
  <2>1. at[Len(started) + 1] + HeaderSize + length \in Nat
    BY <1>2
  <2>2. \A k \in 1..(Len(started') + 1) :
            (IF k <= Len(started) + 1 THEN at[k]
             ELSE at[Len(started) + 1] + HeaderSize + length) \in Nat
    BY <1>2, <2>1
  <2> QED
    BY <2>2
<1>8. /\ \A k \in 1..(Len(started) + 1) : new[k] = at[k] /\ at[k] \in Nat
      /\ new[Len(started) + 2] = at[Len(started) + 1] + HeaderSize + length
      /\ \A k, l \in 1..(Len(started) + 1) : k <= l => at[k] <= at[l]
      /\ \A k \in 1..Len(started) : at[k + 1] = at[k] + Extent(k)
  BY <1>2, <1>6, <1>7 DEF Offsets
<1>9. Offsets(new)'
  <2>1. ASSUME NEW k \in 1..Len(started') PROVE new[k + 1] = new[k] + Extent(k)'
    <3>1. CASE k = Len(started')
      <4>1. k = Len(started) + 1 /\ k + 1 = Len(started) + 2 /\ k \in 1..(Len(started) + 1)
        BY <1>2, <3>1
      <4>2. Extent(k)' = HeaderSize + length
        BY <1>2, <3>1, <4>1 DEF Extent
      <4> QED
        BY <1>2, <1>8, <4>1, <4>2
    <3>2. CASE k # Len(started')
      <4>1. k \in 1..Len(started) /\ k \in 1..(Len(started) + 1) /\ k + 1 \in 1..(Len(started) + 1)
        BY <1>2, <3>2
      <4> QED
        BY <1>4, <1>8, <4>1
    <3> QED
      BY <3>1, <3>2
  <2>2. ASSUME NEW k \in 1..(Len(started') + 1), NEW l \in 1..(Len(started') + 1), k <= l
        PROVE  new[k] <= new[l]
    <3>1. CASE l <= Len(started) + 1
      <4>1. k \in 1..(Len(started) + 1) /\ l \in 1..(Len(started) + 1)
        BY <1>2, <2>2, <3>1
      <4> QED
        BY <1>8, <2>2, <4>1
    <3>2. CASE l = Len(started) + 2 /\ k <= Len(started) + 1
      <4>1. at[k] <= at[Len(started) + 1] /\ at[k] \in Nat /\ at[Len(started) + 1] \in Nat
        BY <1>2, <1>8, <2>2, <3>2
      <4> QED
        BY <1>2, <1>8, <2>2, <3>2, <4>1
    <3>3. CASE l = Len(started) + 2 /\ k = Len(started) + 2
      BY <1>2, <1>7, <3>3
    <3> QED
      BY <1>2, <2>2, <3>1, <3>2, <3>3
  <2> QED
    BY <2>1, <2>2 DEF Offsets
<1>10. /\ Held' = Held /\ Awaited' = Awaited /\ Awaited \in Nat \ {0}
       /\ \A i : At(i)' = At(i)
  BY <1>3 DEF Held, Awaited, At, FramingTypes
<1>11. ASSUME NEW k \in Awaited..Len(started'), Sound(k), NEW j \in 1..Put(k)'
       PROVE  /\ new[k] - new[Awaited] + j <= Held
              /\ At(new[k] - new[Awaited] + j) = <<k, j>>
  <2>1. k # Len(started')
    BY <1>5, <1>11
  <2>2. /\ k \in Awaited..Len(started) /\ k \in 1..Len(started)
        /\ k \in 1..(Len(started) + 1) /\ Awaited \in 1..(Len(started) + 1)
    BY <1>2, <1>10, <2>1
  <2>3. new[k] = at[k] /\ new[Awaited] = at[Awaited] /\ j \in 1..Put(k)
    BY <1>4, <1>8, <2>2
  <2> QED
    BY <1>6, <1>11, <2>2, <2>3 DEF Placed
<1>12. ASSUME Sound(Len(started'))
       PROVE  /\ Awaited <= Len(started') + 1
              /\ Held = new[Len(started')] + Put(Len(started))' - new[Awaited]
  <2>1. Sound(Len(started))
    BY <1>2, <1>12 DEF Sound
  <2>2. Awaited <= Len(started) + 1 /\ Held = at[Len(started) + 1] - at[Awaited]
    BY <1>3, <1>6, <2>1 DEF Placed
  <2>3. /\ Awaited \in 1..(Len(started) + 1) /\ Len(started) + 1 \in 1..(Len(started) + 1)
        /\ Awaited <= Len(started') + 1
    BY <1>2, <1>10, <2>2
  <2> QED
    BY <1>2, <1>5, <1>8, <2>2, <2>3
<1>13. Placed(new)'
  <2>1. \A k \in Awaited'..Len(started') : Sound(k)' =>
            \A j \in 1..Put(k)' : /\ new[k] - new[Awaited'] + j <= Held'
                                  /\ At(new[k] - new[Awaited] + j)' = <<k, j>>
    <3> SUFFICES ASSUME NEW k \in Awaited'..Len(started'), Sound(k)', NEW j \in 1..Put(k)'
                 PROVE  /\ new[k] - new[Awaited'] + j <= Held'
                        /\ At(new[k] - new[Awaited] + j)' = <<k, j>>
      OBVIOUS
    <3>1. Sound(k) /\ k \in Awaited..Len(started')
      BY <1>3, <1>10 DEF Sound
    <3>2. /\ new[k] - new[Awaited] + j <= Held
          /\ At(new[k] - new[Awaited] + j) = <<k, j>>
      BY <1>11, <3>1
    <3> QED
      BY <1>3, <1>10, <3>2 DEF At
  <2>2. lock' /\ (Sound(Len(started))' => Sound(Len(started')))
    BY <1>3 DEF Sound
  <2>3. Sound(Len(started')) =>
            /\ Awaited' <= Len(started') + 1
            /\ Held' = new[Len(started')] + Put(Len(started))' - new[Awaited']
    BY <1>10, <1>12
  <2> QED
    BY <2>1, <2>2, <2>3 DEF Placed
<1>14. InOrder'
  <2> SUFFICES ASSUME NEW k \in 1..Len(delivered), failed \cap 1..k = {}
               PROVE  k <= Len(started') /\ delivered[k] = Whole(k)'
    BY <1>3 DEF InOrder
  <2>1. k <= Len(started) /\ delivered[k] = Whole(k) /\ k \in 1..Len(started)
    BY <1>2 DEF InOrder, FramingTypes
  <2> QED
    BY <1>2, <2>1 DEF Whole
<1> QED
  BY <1>9, <1>13, <1>14 DEF Ordered

LEMMA SomeOrder ==
    ASSUME FramingTypes, InOrder, Ordered, NEW t \in Senders, SendSome(t)
    PROVE  InOrder' /\ Ordered'
<1>1. PICK n \in 1..left :
          /\ left' = left - n
          /\ pipe' = pipe \o Bytes(Len(started), End - left + 1, End - left + n)
  BY SomeTypes
<1>2. /\ Len(started) \in Nat /\ Len(started) \in 1..Len(started) /\ lock
      /\ left \in Nat /\ n \in Nat /\ n > 0
  BY <1>1, LengthsKnown DEF SendSome, FramingTypes, FramingTypeOK, Locked, Remaining
<1>3. UNCHANGED <<started, lock, part, failed, recvBuf, delivered>>
  BY DEF SendSome, receiving
<1>4. Put(Len(started)) = End - left /\ End - left \in Nat
  BY <1>2, PutIs DEF Put
<1>5. Put(Len(started))' = Put(Len(started)) + n
  <2>1. End \in Nat
    BY LengthsKnown, <1>2 DEF End
  <2> QED
    BY <1>1, <1>2, <1>3, <1>4, <2>1 DEF Put, End, Extent
<1>6. \A k \in 1..Len(started) : k # Len(started) => Put(k)' = Put(k)
  BY <1>3 DEF Put, Extent
<1>7. PICK from \in Nat : from = Put(Len(started))
  BY <1>4
<1>8. /\ pipe \in Seq(Byte) /\ recvBuf \in Seq(Byte)
      /\ Len(pipe) \in Nat /\ Len(recvBuf) \in Nat
  BY DEF FramingTypes, Known
<1>9. /\ Len(pipe') = Len(pipe) + n
      /\ \A i \in 1..Len(pipe) : pipe'[i] = pipe[i]
      /\ \A i \in 1..n : pipe'[Len(pipe) + i] = <<Len(started), from + i>>
  <2>1. PICK added : added = Bytes(Len(started), from + 1, from + n)
    OBVIOUS
  <2>2. /\ added \in Seq(Byte) /\ Len(added) = n
        /\ \A i \in 1..n : added[i] = <<Len(started), from + i>>
    <3>1. Len(started) \in Nat /\ from \in Nat /\ n \in Nat
      BY <1>2, <1>7
    <3>2. /\ Bytes(Len(started), from + 1, from + n) \in Seq(Byte)
          /\ Len(Bytes(Len(started), from + 1, from + n)) = n
          /\ \A i \in 1..n : Bytes(Len(started), from + 1, from + n)[i]
                                = <<Len(started), from + i>>
      BY <3>1, BytesAre
    <3> QED
      BY <2>1, <3>2
  <2>3. pipe' = pipe \o added
    BY <1>1, <1>4, <1>7, <2>1
  <2>4. /\ Len(pipe \o added) = Len(pipe) + Len(added)
        /\ \A i \in 1..(Len(pipe) + Len(added)) :
              (pipe \o added)[i] = IF i <= Len(pipe) THEN pipe[i] ELSE added[i - Len(pipe)]
    BY <1>8, <2>2, ConcatProperties
  <2>5. \A i \in 1..n : Len(pipe) + i \in 1..(Len(pipe) + n) /\ ~(Len(pipe) + i <= Len(pipe))
                        /\ (Len(pipe) + i) - Len(pipe) = i
    BY <1>2, <1>8
  <2>6. \A i \in 1..Len(pipe) : i \in 1..(Len(pipe) + n) /\ i <= Len(pipe)
    BY <1>2, <1>8
  <2> QED
    BY <2>2, <2>3, <2>4, <2>5, <2>6
<1>10. /\ Held \in Nat /\ Held' = Held + n
       /\ \A i \in 1..Held : At(i)' = At(i)
       /\ \A x \in (Held + 1)..(Held + n) : At(x)' = <<Len(started), from + (x - Held)>>
  <2>1. Held \in Nat /\ Held' = Held + n
    BY <1>2, <1>3, <1>8, <1>9 DEF Held
  <2>2. ASSUME NEW i \in 1..Held PROVE At(i)' = At(i)
    <3>1. CASE i <= Len(recvBuf)
      BY <1>3, <3>1 DEF At
    <3>2. CASE ~(i <= Len(recvBuf))
      <4>1. i - Len(recvBuf) \in 1..Len(pipe)
        BY <1>8, <3>2 DEF Held
      <4> QED
        BY <1>3, <1>9, <3>2, <4>1 DEF At
    <3> QED
      BY <3>1, <3>2
  <2>3. ASSUME NEW x \in (Held + 1)..(Held + n)
        PROVE  At(x)' = <<Len(started), from + (x - Held)>>
    <3>1. ~(x <= Len(recvBuf)) /\ x - Held \in 1..n
          /\ x - Len(recvBuf) = Len(pipe) + (x - Held)
      BY <1>2, <1>8, <2>1 DEF Held
    <3> QED
      BY <1>3, <1>9, <3>1 DEF At
  <2> QED
    BY <2>1, <2>2, <2>3
<1>11. PICK at \in [1..(Len(started) + 1) -> Nat] : Offsets(at) /\ Placed(at)
  BY DEF Ordered
<1>12. Offsets(at)'
  BY <1>3, <1>11 DEF Offsets, Extent
<1>13. Awaited' = Awaited /\ Awaited \in Nat \ {0}
  BY <1>3 DEF Awaited, FramingTypes
<1>17. Sound(Len(started)) => /\ Awaited <= Len(started) + 1
                              /\ Held = at[Len(started)] + from - at[Awaited]
  <2> SUFFICES ASSUME Sound(Len(started))
               PROVE  /\ Awaited <= Len(started) + 1
                      /\ Held = at[Len(started)] + from - at[Awaited]
    OBVIOUS
  <2>1. lock
    BY <1>2
  <2>2. /\ Awaited <= Len(started) + 1
        /\ Held = at[Len(started)] + Put(Len(started)) - at[Awaited]
    BY <1>11, <2>1 DEF Placed
  <2> QED
    BY <1>7, <2>2
<1>14. ASSUME NEW k \in Awaited..Len(started), Sound(k), NEW j \in 1..Put(k)'
       PROVE  \E x \in 1..Held' : x = at[k] - at[Awaited] + j /\ At(x)' = <<k, j>>
  <2>1. /\ Awaited \in 1..(Len(started) + 1) /\ k \in 1..(Len(started) + 1)
        /\ k \in 1..Len(started) /\ Awaited <= k
    BY <1>2, <1>13
  <2>2. /\ at[k] \in Nat /\ at[Awaited] \in Nat /\ at[Awaited] <= at[k]
        /\ Put(k) \in Nat
    <3>1. Put(k) \in Nat
      BY <2>1, PutIs, LengthsKnown
    <3>2. at[k] \in Nat /\ at[Awaited] \in Nat /\ at[Awaited] <= at[k]
      BY <1>11, <2>1 DEF Offsets
    <3> QED
      BY <3>1, <3>2
  <2>3. CASE j <= Put(k)
    <3>1. j \in 1..Put(k)
      BY <2>2, <2>3
    <3>2. at[k] - at[Awaited] + j <= Held /\ At(at[k] - at[Awaited] + j) = <<k, j>>
      BY <1>11, <1>14, <3>1 DEF Placed
    <3>3. PICK x \in 1..Held : x = at[k] - at[Awaited] + j
      BY <2>2, <3>1, <3>2
    <3> QED
      BY <1>2, <1>10, <3>2, <3>3
  <2>4. CASE ~(j <= Put(k))
    <3>1. k = Len(started)
      BY <1>6, <2>1, <2>2, <2>4
    <3>a. Sound(Len(started))
      BY <1>14, <3>1
    <3>b. Held = at[k] + from - at[Awaited]
      BY <1>17, <3>1, <3>a
    <3>c. j \in (from + 1)..(from + n)
      <4>1. n \in Nat /\ from \in Nat /\ Put(k) = from
        BY <1>2, <1>7, <3>1
      <4>2. Put(k)' = from + n
        BY <1>5, <1>3, <1>7, <3>1
      <4> QED
        BY <2>4, <4>1, <4>2
    <3>2. Held = at[k] + from - at[Awaited] /\ j \in (from + 1)..(from + n)
      BY <3>b, <3>c
    <3>d. PICK u \in Int : u = at[k] - at[Awaited] /\ Held = u + from
      <4>1. PICK here \in Nat, first \in Nat : here = at[k] /\ first = at[Awaited]
        BY <2>2
      <4>2. Held = here + from - first
        BY <3>b, <4>1
      <4>3. here + from - first = (here - first) + from /\ here - first \in Int
        BY Regroup
      <4> QED
        BY <4>1, <4>2, <4>3
    <3>3. PICK x \in (Held + 1)..(Held + n) : x = at[k] - at[Awaited] + j
      <4>1. n \in Nat /\ Held \in Nat /\ from \in Nat
        BY <1>2, <1>7, <1>10
      <4>2. at[k] - at[Awaited] + j \in (Held + 1)..(Held + n)
        <5>3. PICK i \in 1..n : j = from + i
          BY <3>2, <4>1
        <5>4. u + j \in (Held + 1)..(Held + n)
          BY <3>d, <4>1, <5>3
        <5> QED
          BY <3>d, <5>4
      <4> QED
        BY <4>2
    <3>4. At(x)' = <<k, from + (x - Held)>> /\ from + (x - Held) = j /\ x \in 1..Held'
      <4>1. n \in Nat /\ Held \in Nat /\ from \in Nat /\ Held' = Held + n
        BY <1>2, <1>7, <1>10
      <4>2. from + (x - Held) = j /\ x \in 1..Held'
        <5>4. j \in Int /\ from + 1 <= j /\ j <= from + n
          BY <3>2, <4>1
        <5>3. x = u + j
          BY <3>3, <3>d
        <5>5. from + ((u + j) - Held) = j /\ u + j \in 1..(Held + n)
          <6>1. PICK held \in Nat : held = Held
            BY <4>1
          <6>2. held = u + from
            BY <3>d, <6>1
          <6>3. from + ((u + j) - held) = j /\ u + j \in 1..(held + n)
            BY <5>4, <6>2, Beyond
          <6> QED
            BY <6>1, <6>3
        <5> QED
          BY <4>1, <5>3, <5>5
      <4> QED
        BY <1>10, <3>1, <3>3, <4>2
    <3> QED
      BY <3>3, <3>4
  <2> QED
    BY <2>3, <2>4
<1>15. ASSUME Sound(Len(started))
       PROVE  /\ Awaited <= Len(started) + 1
              /\ Held' = at[Len(started)] + Put(Len(started))' - at[Awaited]
  <2>1. /\ Awaited <= Len(started) + 1
        /\ Held = at[Len(started)] + from - at[Awaited]
    BY <1>15, <1>17
  <2>2. at[Len(started)] \in Nat /\ at[Awaited] \in Nat
    BY <1>2, <1>13, <2>1
  <2> QED
    <3>1. Put(Len(started))' = from + n /\ n \in Nat /\ from \in Nat
      BY <1>2, <1>5, <1>7
    <3>2. Held' = at[Len(started)] + from - at[Awaited] + n
      BY <1>10, <2>1
    <3>3. Held' = at[Len(started)] + (from + n) - at[Awaited]
      BY <2>2, <3>1, <3>2
    <3> QED
      BY <2>1, <3>1, <3>3
<1>16. Placed(at)'
  <2>1. ASSUME NEW k \in Awaited..Len(started), Sound(k), NEW j \in 1..Put(k)'
        PROVE  /\ at[k] - at[Awaited'] + j <= Held'
               /\ At(at[k] - at[Awaited] + j)' = <<k, j>>
    <3>1. PICK x \in 1..Held' : x = at[k] - at[Awaited] + j /\ At(x)' = <<k, j>>
      BY <1>14, <2>1
    <3> QED
      BY <1>2, <1>10, <1>13, <3>1 DEF At
  <2> QED
    <3>1. \A k \in Awaited'..Len(started') : Sound(k)' =>
              \A j \in 1..Put(k)' : /\ at[k] - at[Awaited'] + j <= Held'
                                    /\ At(at[k] - at[Awaited] + j)' = <<k, j>>
      BY <1>3, <1>13, <2>1 DEF Sound
    <3>2. lock' /\ (Sound(Len(started))' <=> Sound(Len(started)))
      BY <1>2, <1>3 DEF Sound
    <3>3. Sound(Len(started)) =>
              /\ Awaited' <= Len(started') + 1
              /\ Held' = at[Len(started')] + Put(Len(started))' - at[Awaited']
      BY <1>3, <1>13, <1>15
    <3> QED
      BY <3>1, <3>2, <3>3 DEF Placed
<1>18. InOrder'
  BY <1>3 DEF InOrder, Whole
<1> QED
  BY <1>3, <1>11, <1>12, <1>16, <1>18 DEF Ordered
\* The two calls of sendRaw() follow one another, and the lock is let go of when
\* all bytes of the message were put.
LEMMA EndOrder ==
    ASSUME FramingTypes, InOrder, Ordered, NEW t \in Senders, SendPayload(t) \/ SendEnd(t)
    PROVE  InOrder' /\ Ordered'
<1>1. /\ lock /\ left = 0 /\ Len(started) \in Nat /\ Len(started) \in 1..Len(started)
      /\ sender[t] = Len(started)
  BY LengthsKnown DEF SendPayload, SendEnd, FramingTypes, FramingTypeOK, Locked, Remaining
<1>2. UNCHANGED <<started, failed, pipe, recvBuf, delivered>>
  BY DEF SendPayload, SendEnd, receiving
<1>3. Held' = Held /\ \A i \in 1..Held : At(i)' = At(i)
  BY <1>2 DEF Held, At
<1>4. \A k \in 1..Len(started) : k # Len(started) => Put(k)' = Put(k)
  BY <1>2 DEF Put, Extent
<1>5. Extent(Len(started))' = Extent(Len(started)) /\ Extent(Len(started)) \in Nat
  BY <1>1, <1>2, LengthsKnown DEF Extent
<1>6. CASE SendPayload(t)
  <2>1. lock' /\ part = "header" /\ part' = "payload" /\ left' = started[Len(started)]
    BY <1>1, <1>6 DEF SendPayload
  <2>2. Put(Len(started)) = HeaderSize /\ HeaderSize \in Nat
    BY <1>1, <2>1, LengthsKnown DEF Put, End
  <2>3. Put(Len(started))' = HeaderSize
    <3>1. started[Len(started)] \in Nat
      BY <1>1, LengthsKnown
    <3>2. Put(Len(started))' = Extent(Len(started)) - started[Len(started)]
      BY <1>2, <1>5, <2>1 DEF Put, End
    <3> QED
      BY <2>2, <3>1, <3>2 DEF Extent
  <2>4. \A k \in 1..Len(started) : Put(k)' = Put(k)
    BY <1>2, <1>4, <2>2, <2>3
  <2> QED
    BY <1>1, <1>2, <1>3, <2>1, <2>4, OrderUntouched
<1>7. CASE SendEnd(t)
  <2>1. ~lock' /\ part = "payload"
    BY <1>7 DEF SendEnd
  <2>2. Put(Len(started)) = Extent(Len(started))
    BY <1>1, <1>5, <2>1 DEF Put, End
  <2>3. Put(Len(started))' = Extent(Len(started))
    BY <1>5, <2>1 DEF Put
  <2>4. \A k \in 1..Len(started) : Put(k)' = Put(k)
    BY <1>2, <1>4, <2>2, <2>3
  <2> QED
    BY <1>1, <1>2, <1>3, <2>2, <2>4, OrderUntouched
<1> QED
  BY <1>6, <1>7

\* A send that is given up: the message is not sound, those before it are as
\* they were.
LEMMA TimeoutOrder ==
    ASSUME FramingTypes, InOrder, Ordered, NEW t \in Senders, SendTimeout(t)
    PROVE  InOrder' /\ Ordered'
<1>1. /\ lock /\ ~lock' /\ Len(started) \in Nat /\ Len(started) \in 1..Len(started)
      /\ failed' = failed \cup {Len(started)}
  BY LengthsKnown DEF SendTimeout, FramingTypes, FramingTypeOK, Locked, Remaining
<1>2. UNCHANGED <<started, pipe, recvBuf, delivered>>
  BY DEF SendTimeout, receiving
<1>3. PICK at \in [1..(Len(started) + 1) -> Nat] : Offsets(at) /\ Placed(at)
  BY DEF Ordered
<1>4. Offsets(at)'
  BY <1>2, <1>3 DEF Offsets, Extent
<1>5. /\ Held' = Held /\ Awaited' = Awaited /\ Awaited \in Nat \ {0}
      /\ \A i : At(i)' = At(i)
  BY <1>2 DEF Held, Awaited, At, FramingTypes
<1>6. ~Sound(Len(started))'
  BY <1>1, <1>2 DEF Sound
<1>7. ASSUME NEW k \in Awaited..Len(started), Sound(k)', NEW j \in 1..Put(k)'
      PROVE  /\ at[k] - at[Awaited] + j <= Held
             /\ At(at[k] - at[Awaited] + j) = <<k, j>>
  <2>1. k # Len(started) /\ Sound(k)
    BY <1>1, <1>6, <1>7 DEF Sound
  <2>2. Put(k)' = Put(k)
    BY <1>2, <2>1 DEF Put, Extent
  <2> QED
    BY <1>3, <1>7, <2>1, <2>2 DEF Placed
<1>8. Placed(at)'
  <2> SUFFICES ASSUME NEW k \in Awaited'..Len(started'), Sound(k)', NEW j \in 1..Put(k)'
               PROVE  /\ at[k] - at[Awaited'] + j <= Held'
                      /\ At(at[k] - at[Awaited] + j)' = <<k, j>>
    BY <1>6 DEF Placed
  <2>1. /\ at[k] - at[Awaited] + j <= Held
        /\ At(at[k] - at[Awaited] + j) = <<k, j>>
    BY <1>2, <1>5, <1>7
  <2> QED
    BY <1>2, <1>5, <2>1 DEF At
<1>9. InOrder'
  BY <1>1, <1>2 DEF InOrder, Whole
<1> QED
  BY <1>2, <1>3, <1>4, <1>8, <1>9 DEF Ordered

\* A read, and a message taken away or none: the other bytes move up.
LEMMA MovedUp ==
    ASSUME FramingTypes, ReadSome, NEW total \in Nat, total <= Len(Filled),
           recvBuf' \in Seq(Byte), Len(recvBuf') = Len(Filled) - total,
           \A i \in 1..(Len(Filled) - total) : recvBuf'[i] = At(total + i)
    PROVE  /\ Held \in Nat /\ Held' = Held - total /\ Len(Filled) <= Held
           /\ \A i \in 1..(Held - total) : At(i)' = At(total + i)
<1>1. /\ Taken \in 0..Len(pipe) /\ Len(pipe) \in Nat /\ Len(recvBuf) \in Nat
      /\ Len(Filled) = Len(recvBuf) + Taken
  BY FilledIs
<1>2. /\ Len(pipe') = Len(pipe) - Taken
      /\ \A i \in 1..(Len(pipe) - Taken) : pipe'[i] = pipe[Taken + i]
  BY RestIs
<1>3. Held \in Nat /\ Held' = Held - total /\ Len(Filled) <= Held
  BY <1>1, <1>2 DEF Held
<1>4. ASSUME NEW i \in 1..(Held - total) PROVE At(i)' = At(total + i)
  <2>1. CASE i <= Len(recvBuf')
    <3>1. i \in 1..(Len(Filled) - total)
      BY <1>1, <1>3, <2>1
    <3> QED
      BY <2>1, <3>1 DEF At
  <2>2. CASE ~(i <= Len(recvBuf'))
    <3>1. /\ i - Len(recvBuf') \in 1..(Len(pipe) - Taken)
          /\ Taken + (i - Len(recvBuf')) = (total + i) - Len(recvBuf)
          /\ ~(total + i <= Len(recvBuf))
      BY <1>1, <1>3, <2>2 DEF Held
    <3>2. At(i)' = pipe'[i - Len(recvBuf')]
      BY <2>2 DEF At
    <3> QED
      BY <1>2, <3>1, <3>2 DEF At
  <2> QED
    BY <2>1, <2>2
<1> QED
  BY <1>3, <1>4
\* recv() without a message.
LEMMA PartialOrder ==
    ASSUME FramingTypes, InOrder, Ordered, RecvPartial
    PROVE  InOrder' /\ Ordered'
<1>1. /\ ReadSome /\ recvBuf' = Filled /\ UNCHANGED delivered
      /\ UNCHANGED <<started, lock, left, part, failed>>
  BY DEF RecvPartial, sending
<1>2. /\ Filled \in Seq(Byte) /\ Len(Filled) \in Nat
      /\ \A i \in 1..Len(Filled) : Filled[i] = At(0 + i)
  BY FilledIs
<1>3. /\ Held \in Nat /\ Held' = Held - 0 /\ \A i \in 1..(Held - 0) : At(i)' = At(0 + i)
  <2>1. 0 <= Len(Filled) /\ Len(recvBuf') = Len(Filled) - 0 /\ Len(Filled) - 0 = Len(Filled)
    BY <1>1, <1>2
  <2>2. \A i \in 1..(Len(Filled) - 0) : recvBuf'[i] = At(0 + i)
    BY <1>1, <1>2, <2>1
  <2> QED
    BY <1>1, <1>2, <2>1, <2>2, MovedUp
<1>4. Held' = Held /\ \A i \in 1..Held : At(i)' = At(i)
  BY <1>3
<1>5. \A k \in 1..Len(started) : Put(k)' = Put(k)
  BY <1>1 DEF Put, End, Extent
<1> QED
  BY <1>1, <1>4, <1>5, OrderUntouched

\* The awaited message, if it is sound: it is there as a whole, and it is what
\* recv() returns.
LEMMA AwaitedIs ==
    ASSUME FramingTypes, Ordered, RecvMessage, Sound(Awaited)
    PROVE  /\ Awaited \in 1..Len(started)
           /\ Total(Filled) = Extent(Awaited)
           /\ \A j \in 1..Extent(Awaited) : At(j) = <<Awaited, j>>
<1>1. PICK at \in [1..(Len(started) + 1) -> Nat] : Offsets(at) /\ Placed(at)
  BY DEF Ordered
<1>2. Len(started) \in Nat /\ Awaited \in Nat \ {0}
  BY LengthsKnown DEF Awaited, FramingTypes
<1>3. PICK total \in Nat : total = Total(Filled) /\ total > 0 /\ total <= Len(Filled)
  BY MessageIs
<1>4. Held \in Nat /\ Held >= total
  <2>1. /\ Taken \in 0..Len(pipe) /\ Len(pipe) \in Nat /\ Len(recvBuf) \in Nat
        /\ Len(Filled) = Len(recvBuf) + Taken
    BY FilledIs
  <2> QED
    BY <1>3, <2>1 DEF Held
<1>5. Awaited \in 1..Len(started)
  <2> SUFFICES ASSUME Awaited > Len(started) PROVE FALSE
    BY <1>2
  <2>1. Sound(Len(started))
    BY <1>2 DEF Sound
  <2>2. /\ Awaited <= Len(started) + 1
        /\ lock => Held = at[Len(started)] + Put(Len(started)) - at[Awaited]
        /\ ~lock => Held = at[Len(started) + 1] - at[Awaited]
    BY <1>1, <2>1 DEF Placed
  <2>3. Awaited = Len(started) + 1 /\ at[Awaited] \in Nat
    BY <1>2, <2>2
  <2>4. CASE lock
    <3>1. Len(started) \in 1..Len(started)
      BY <1>2, <2>4 DEF FramingTypes, Remaining
    <3>2. PICK before \in Nat, put \in Nat, extent \in Nat :
              /\ before = at[Len(started)] /\ put = Put(Len(started))
              /\ extent = Extent(Len(started)) /\ put <= extent
      <4>1. Put(Len(started)) \in 0..Extent(Len(started)) /\ Extent(Len(started)) \in Nat
        BY <3>1, PutIs, LengthsKnown
      <4>2. at[Len(started)] \in Nat
        BY <1>2, <3>1
      <4> QED
        BY <4>1, <4>2
    <3>3. at[Awaited] = before + extent
      BY <1>1, <2>3, <3>1, <3>2 DEF Offsets
    <3>4. Held = before + put - (before + extent)
      BY <2>2, <2>4, <3>2, <3>3
    <3>5. Held <= 0
      BY <3>2, <3>4
    <3> QED
      BY <1>3, <1>4, <3>5
  <2>5. CASE ~lock
    <3>1. Held = at[Awaited] - at[Awaited]
      BY <2>2, <2>3, <2>5
    <3> QED
      BY <1>3, <1>4, <2>3, <3>1
  <2> QED
    BY <2>4, <2>5
<1>6. PICK put \in Nat, extent \in Nat :
          put = Put(Awaited) /\ extent = Extent(Awaited) /\ put <= extent /\ extent > 0
  BY <1>5, PutIs, LengthsKnown
<1>7. put = extent \/ put = Held
  <2>1. CASE lock /\ Awaited = Len(started)
    <3>1. Held = at[Awaited] + Put(Awaited) - at[Awaited]
      BY <1>1, <2>1 DEF Placed
    <3>2. at[Awaited] \in Nat
      BY <1>2, <1>5
    <3>3. Held = at[Awaited] + put - at[Awaited]
      BY <1>6, <3>1
    <3> QED
      BY <3>2, <3>3
  <2>2. CASE ~(lock /\ Awaited = Len(started))
    BY <1>6, <2>2 DEF Put
  <2> QED
    BY <2>1, <2>2
<1>8. \A j \in 1..put : At(j) = <<Awaited, j>>
  <2>1. Awaited \in Awaited..Len(started)
    BY <1>5
  <2>2. \A j \in 1..put : At(at[Awaited] - at[Awaited] + j) = <<Awaited, j>>
    BY <1>1, <1>6, <2>1 DEF Placed
  <2>3. \A j \in 1..put : at[Awaited] - at[Awaited] + j = j
    BY <1>2, <1>5
  <2> QED
    BY <2>2, <2>3
<1>9. total = extent
  <2>1. put >= 1
    BY <1>3, <1>4, <1>6, <1>7
  <2>2. At(1) = <<Awaited, 1>>
    BY <1>8, <2>1
  <2>3. Filled[1] = At(1)
    <3>1. 1 \in 1..Len(Filled)
      BY <1>3, FilledIs
    <3> QED
      BY <3>1, FilledIs
  <2>4. Filled[1][1] = Awaited
    BY <2>2, <2>3
  <2>5. HeaderAt(Filled)
    BY DEF RecvMessage, Complete
  <2> QED
    BY <1>3, <1>6, <2>4, <2>5, HeaderIs
<1>10. put = extent
  BY <1>4, <1>6, <1>7, <1>9
<1> QED
  BY <1>3, <1>5, <1>6, <1>8, <1>9, <1>10

\* recv() with a message.
LEMMA MessageOrder ==
    ASSUME FramingTypes, InOrder, Ordered, RecvMessage
    PROVE  InOrder' /\ Ordered'
<1>1. PICK at \in [1..(Len(started) + 1) -> Nat] : Offsets(at) /\ Placed(at)
  BY DEF Ordered
<1>2. ReadSome /\ UNCHANGED <<started, lock, left, part, failed>>
  BY DEF RecvMessage, sending
<1>3. PICK total \in Nat, message \in Seq(Byte) :
          /\ total = Total(Filled) /\ total <= Len(Filled)
          /\ Len(message) = total /\ \A i \in 1..total : message[i] = At(i)
          /\ delivered' = Append(delivered, message)
          /\ recvBuf' \in Seq(Byte) /\ Len(recvBuf') = Len(Filled) - total
          /\ \A i \in 1..(Len(Filled) - total) : recvBuf'[i] = At(total + i)
  BY MessageIs
<1>4. /\ Len(started) \in Nat /\ Len(delivered) \in Nat /\ Awaited \in Nat \ {0}
      /\ Awaited = Len(delivered) + 1 /\ Len(delivered') = Awaited
      /\ \A k \in 1..Len(delivered) : delivered'[k] = delivered[k]
      /\ delivered'[Awaited] = message
      /\ Awaited' = Awaited + 1
  BY <1>3, LengthsKnown DEF Awaited, FramingTypes
<1>5. /\ Held \in Nat /\ Held' = Held - total
      /\ \A i \in 1..(Held - total) : At(i)' = At(total + i)
  BY <1>2, <1>3, MovedUp
<1>6. \A k : Put(k)' = Put(k)
  BY <1>2 DEF Put, End, Extent
<1>7. Offsets(at)'
  BY <1>1, <1>2 DEF Offsets, Extent
<1>8. CASE ~Sound(Awaited)
  <2>1. \A k \in (Awaited + 1)..Len(started) : ~Sound(k)
    BY <1>4, <1>8 DEF Sound
  <2>2. ~Sound(Len(started))
    BY <1>4, <1>8 DEF Sound, FramingTypes
  <2>3. Placed(at)'
    <3>1. \A k \in Awaited'..Len(started') : ~Sound(k)'
      BY <1>2, <1>4, <2>1 DEF Sound
    <3>2. ~Sound(Len(started))'
      BY <1>2, <2>2 DEF Sound
    <3> QED
      BY <3>1, <3>2 DEF Placed
  <2>4. InOrder'
    <3> SUFFICES ASSUME NEW k \in 1..Len(delivered'), failed' \cap 1..k = {}
                 PROVE  k <= Len(started') /\ delivered'[k] = Whole(k)'
      BY DEF InOrder
    <3>1. k # Awaited
      BY <1>2, <1>8 DEF Sound
    <3>2. k \in 1..Len(delivered) /\ failed \cap 1..k = {}
      BY <1>2, <1>4, <3>1
    <3> QED
      BY <1>2, <1>4, <3>2 DEF InOrder, Whole
  <2> QED
    BY <1>2, <1>1, <1>7, <2>3, <2>4 DEF Ordered
<1>9. CASE Sound(Awaited)
  <2>1. /\ Awaited \in 1..Len(started) /\ total = Extent(Awaited)
        /\ \A j \in 1..total : At(j) = <<Awaited, j>>
    BY <1>3, <1>9, AwaitedIs
  <2>2. /\ at[Awaited] \in Nat /\ at[Awaited + 1] \in Nat
        /\ at[Awaited + 1] = at[Awaited] + total
    BY <1>1, <1>4, <2>1 DEF Offsets
  <2>3. ASSUME NEW k \in (Awaited + 1)..Len(started), Sound(k), NEW j \in 1..Put(k)
        PROVE  \E x \in 1..Held' : x = at[k] - at[Awaited + 1] + j /\ At(x)' = <<k, j>>
    <3>1. /\ k \in Awaited..Len(started) /\ k \in 1..Len(started)
          /\ k \in 1..(Len(started) + 1) /\ Awaited + 1 \in 1..(Len(started) + 1)
          /\ Awaited + 1 <= k
      BY <1>4, <2>1
    <3>2. at[k] - at[Awaited] + j <= Held /\ At(at[k] - at[Awaited] + j) = <<k, j>>
      BY <1>1, <2>3, <3>1 DEF Placed
    <3>3. at[k] \in Nat /\ at[Awaited + 1] <= at[k] /\ Put(k) \in Nat
      BY <1>1, <3>1, PutIs DEF Offsets
    <3>4. PICK here \in Nat, first \in Nat, next \in Nat, held \in Nat :
              here = at[k] /\ first = at[Awaited] /\ next = at[Awaited + 1] /\ held = Held
      BY <1>5, <2>2, <3>3
    <3>5. here - first + j <= held /\ At(here - first + j) = <<k, j>>
      BY <3>2, <3>4
    <3>6. next <= here
      BY <3>3, <3>4
    <3>7. next = first + total
      BY <2>2, <3>4
    <3>8. j \in Nat \ {0}
      BY <3>3
    <3>9. PICK x \in 1..(held - total) : x = here - next + j
      BY <3>5, <3>6, <3>7, <3>8
    <3>10. total + x = here - first + j
      BY <3>7, <3>8, <3>9
    <3>11. At(x)' = At(total + x)
      BY <1>5, <3>4, <3>9
    <3>12. At(x)' = <<k, j>>
      BY <3>5, <3>10, <3>11
    <3>13. x \in 1..Held'
      BY <1>5, <3>4, <3>9
    <3>14. x = at[k] - at[Awaited + 1] + j
      BY <3>4, <3>9
    <3> QED
      BY <3>12, <3>13, <3>14
  <2>4. ASSUME Sound(Len(started))
        PROVE  /\ Awaited + 1 <= Len(started) + 1
               /\ lock => Held' = at[Len(started)] + Put(Len(started)) - at[Awaited + 1]
               /\ ~lock => Held' = at[Len(started) + 1] - at[Awaited + 1]
    <3>1. /\ lock => Held = at[Len(started)] + Put(Len(started)) - at[Awaited]
          /\ ~lock => Held = at[Len(started) + 1] - at[Awaited]
      BY <1>1, <2>4 DEF Placed
    <3>2. PICK put \in Nat, before \in Nat, after \in Nat :
              /\ put = Put(Len(started)) /\ before = at[Len(started)]
              /\ after = at[Len(started) + 1]
      <4>1. Len(started) \in 1..Len(started)
        BY <1>4, <2>1
      <4>2. Put(Len(started)) \in Nat
        BY <4>1, PutIs, LengthsKnown
      <4>3. at[Len(started)] \in Nat /\ at[Len(started) + 1] \in Nat
        BY <1>4, <4>1
      <4> QED
        BY <4>2, <4>3
    <3>a. PICK first \in Nat, next \in Nat :
              first = at[Awaited] /\ next = at[Awaited + 1] /\ next = first + total
      BY <2>2
    <3>3. CASE lock
      <4>1. Held = before + put - first
        BY <3>1, <3>2, <3>3, <3>a
      <4>2. Held' = before + put - next
        <5>1. before + put - next = before + put - first - total
          BY <3>a
        <5> QED
          BY <1>5, <4>1, <5>1
      <4>3. Held' = before + put - at[Awaited + 1]
        BY <3>a, <4>2
      <4> QED
        BY <1>4, <2>1, <3>2, <3>3, <4>3
    <3>4. CASE ~lock
      <4>1. Held = after - first
        BY <3>1, <3>2, <3>4, <3>a
      <4>2. Held' = after - next
        <5>1. after - next = after - first - total
          BY <3>a
        <5> QED
          BY <1>5, <4>1, <5>1
      <4>3. Held' = after - at[Awaited + 1]
        BY <3>a, <4>2
      <4> QED
        BY <1>4, <2>1, <3>2, <3>4, <4>3
    <3> QED
      BY <3>3, <3>4
  <2>5. Placed(at)'
    <3>1. \A k \in Awaited'..Len(started') : Sound(k)' =>
              \A j \in 1..Put(k)' : /\ at[k] - at[Awaited'] + j <= Held'
                                    /\ At(at[k] - at[Awaited] + j)' = <<k, j>>
      <4> SUFFICES ASSUME NEW k \in Awaited'..Len(started'), Sound(k)', NEW j \in 1..Put(k)'
                   PROVE  /\ at[k] - at[Awaited'] + j <= Held'
                          /\ At(at[k] - at[Awaited] + j)' = <<k, j>>
        OBVIOUS
      <4>1. k \in (Awaited + 1)..Len(started) /\ Sound(k) /\ j \in 1..Put(k)
        BY <1>2, <1>4, <1>6 DEF Sound
      <4>2. PICK x \in 1..Held' : x = at[k] - at[Awaited + 1] + j /\ At(x)' = <<k, j>>
        BY <2>3, <4>1
      <4>3. x = at[k] - at[Awaited'] + j
        BY <1>4, <4>2
      <4>4. x <= Held'
        <5>1. Held' \in Int
          BY <1>5
        <5> QED
          BY <4>2, <5>1
      <4>5. At(x)' = <<k, j>>
        BY <4>2
      <4>6. At(at[k] - at[Awaited] + j)' = <<k, j>>
        BY <4>3, <4>5 DEF At
      <4> QED
        BY <4>3, <4>4, <4>6
    <3>2. Sound(Len(started))' =>
              /\ Awaited' <= Len(started') + 1
              /\ lock' => Held' = at[Len(started')] + Put(Len(started))' - at[Awaited']
              /\ ~lock' => Held' = at[Len(started') + 1] - at[Awaited']
      <4>1. Sound(Len(started))' => Sound(Len(started))
        BY <1>2 DEF Sound
      <4>2. Put(Len(started))' = Put(Len(started))
        BY <1>2, <1>6
      <4> QED
        BY <1>2, <1>4, <2>4, <4>1, <4>2
    <3> QED
      BY <3>1, <3>2 DEF Placed
  <2>6. message = Whole(Awaited)
    <3>1. Whole(Awaited) = Bytes(Awaited, 0 + 1, 0 + total)
      BY <1>4, <2>1 DEF Whole, Extent
    <3>2. /\ Bytes(Awaited, 0 + 1, 0 + total) \in Seq(Byte)
          /\ Len(Bytes(Awaited, 0 + 1, 0 + total)) = total
          /\ \A i \in 1..total : Bytes(Awaited, 0 + 1, 0 + total)[i] = <<Awaited, 0 + i>>
      <4>1. Awaited \in Nat /\ 0 \in Nat /\ total \in Nat
        BY <1>4
      <4> QED
        BY <4>1, BytesAre
    <3>4. ASSUME NEW i \in 1..Len(message)
          PROVE  message[i] = Whole(Awaited)[i]
      <4>1. i \in 1..total
        BY <1>3
      <4>2. message[i] = <<Awaited, i>>
        BY <1>3, <2>1, <4>1
      <4>3. Whole(Awaited)[i] = <<Awaited, 0 + i>>
        BY <3>1, <3>2, <4>1
      <4>4. 0 + i = i
        BY <4>1
      <4> QED
        BY <4>2, <4>3, <4>4
    <3>5. Whole(Awaited) \in Seq(Byte) /\ Len(Whole(Awaited)) = Len(message)
      BY <1>3, <3>1, <3>2
    <3> QED
      BY <3>4, <3>5, SeqEqual
  <2>7. InOrder'
    <3> SUFFICES ASSUME NEW k \in 1..Len(delivered'), failed' \cap 1..k = {}
                 PROVE  k <= Len(started') /\ delivered'[k] = Whole(k)'
      BY DEF InOrder
    <3>1. CASE k = Awaited
      BY <1>2, <1>4, <2>1, <2>6, <3>1 DEF Whole
    <3>2. CASE k # Awaited
      <4>1. k \in 1..Len(delivered) /\ failed \cap 1..k = {}
        BY <1>2, <1>4, <3>2
      <4> QED
        BY <1>2, <1>4, <4>1 DEF InOrder, Whole
    <3> QED
      BY <3>1, <3>2
  <2> QED
    BY <1>1, <1>2, <1>7, <2>5, <2>7 DEF Ordered
<1> QED
  BY <1>8, <1>9

LEMMA NextOrder ==
    ASSUME FramingTypes, InOrder, Ordered, [FramingNext]_framingVars
    PROVE  InOrder' /\ Ordered'
<1>1. CASE Poll \/ RecvDisconnected \/ CloseSender \/ UNCHANGED framingVars
  <2>1. UNCHANGED <<started, lock, left, part, failed, pipe, recvBuf, delivered>>
    BY <1>1 DEF Poll, RecvDisconnected, CloseSender, framingVars, sending, receiving
  <2>2. Held' = Held /\ \A i \in 1..Held : At(i)' = At(i)
    BY <2>1 DEF Held, At
  <2>3. \A k \in 1..Len(started) : Put(k)' = Put(k)
    BY <2>1 DEF Put, End, Extent
  <2> QED
    BY <2>1, <2>2, <2>3, OrderUntouched
<1>2. ASSUME NEW t \in Senders, SendBegin(t) \/ SenderStep(t)
      PROVE  InOrder' /\ Ordered'
  BY <1>2, BeginOrder, SomeOrder, EndOrder, TimeoutOrder DEF SenderStep
<1> QED
  BY <1>1, <1>2, PartialOrder, MessageOrder DEF FramingNext, ReceiverStep

\* For any number of sending threads and any splitting of the bytes: recv()
\* returns the messages in the order in which send() took the lock, each whole,
\* none twice, none missing in between, up to the first that was given up.
THEOREM FramingInvariant == FramingSpec => []FramingInv
<1>1. FramingInit => FramingIInv
  BY InitTypes, InitOrder DEF FramingIInv
<1>2. FramingIInv /\ [FramingNext]_framingVars => FramingIInv'
  BY NextTypes, NextOrder DEF FramingIInv
<1>3. FramingIInv => FramingInv
  BY DEF FramingIInv, FramingTypes, FramingInv
<1> QED
  BY <1>1, <1>2, <1>3, PTL DEF FramingSpec

=============================================================================
