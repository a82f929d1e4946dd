--------------------------- MODULE StreamsProofs ---------------------------
(* What holds of the frames and streams of one connection for every set of
   messages, every limit and every number of streams. *)
EXTENDS Streams, TLAPS

\* No payload has 4 GiB or more: from there on the length in front of it wraps.
FitsInFourBytes(n) == n \div 16777216 < 256
PayloadsFit == \A m \in Messages : FitsInFourBytes(Len(Payload[m]))

-----------------------------------------------------------------------------
(* The inductive invariants *)

StreamTypes == [msg : Messages, sent : Nat, finished : BOOLEAN]

Typed ==
    /\ streams \in Seq(StreamTypes)
    /\ \A i \in DOMAIN streams : streams[i].sent <= Len(Encode(streams[i].msg))
    /\ listener \in {"select", "reading", "ended"}
    /\ accepted \in 0 .. Len(streams)
    /\ listener = "reading" => accepted > 0
    /\ forwarded \in Seq(Messages)
    /\ closed \in BOOLEAN

\* The listener leaves a stream when it has finished, or for its size.
LeftForAReason ==
    ~closed => \A i \in Settled : streams[i].finished \/ streams[i].sent > Limit

\* The inductive invariant without the content of the frames ...
Inv == Typed /\ ListenerSurvives

\* ... and with it.
OrderInv == Inv /\ LeftForAReason /\ WholeInOrder

-----------------------------------------------------------------------------
(* Frames *)

\* What a sequence over a set holds.
LEMMA SeqElement ==
    ASSUME NEW S, NEW s \in Seq(S), NEW i \in DOMAIN s
    PROVE  s[i] \in S
  OBVIOUS

\* A byte is a number.
LEMMA ByteIsNat ==
    ASSUME NEW b \in Byte
    PROVE  b \in Nat
  BY DEF Byte

\* Two sequences in a row.
LEMMA Joined ==
    ASSUME NEW S, NEW s \in Seq(S), NEW t \in Seq(S)
    PROVE  /\ s \o t \in Seq(S) /\ Len(s \o t) = Len(s) + Len(t)
           /\ \A i \in 1 .. Len(s) : (s \o t)[i] = s[i]
           /\ \A i \in 1 .. Len(t) : (s \o t)[Len(s) + i] = t[i]
  OBVIOUS

\* A piece of a sequence.
LEMMA Piece ==
    ASSUME NEW S, NEW s \in Seq(S), NEW a \in 1 .. Len(s) + 1, NEW b \in a - 1 .. Len(s)
    PROVE  /\ SubSeq(s, a, b) \in Seq(S) /\ Len(SubSeq(s, a, b)) = b - a + 1
           /\ \A i \in 1 .. b - a + 1 : SubSeq(s, a, b)[i] = s[a + i - 1]
  OBVIOUS

\* Two sequences of the same length and elements.
LEMMA SameSeq ==
    ASSUME NEW S, NEW s \in Seq(S), NEW t \in Seq(S), Len(s) = Len(t),
           \A i \in 1 .. Len(s) : s[i] = t[i]
    PROVE  s = t
  OBVIOUS

\* The length in front of a frame is four bytes.
LEMMA HeaderTyped ==
    ASSUME NEW n \in Nat
    PROVE  BigEndian(n) \in Seq(Byte) /\ Len(BigEndian(n)) = 4
  <1>1. \A k \in Nat : k % 256 \in Byte
    BY DEF Byte
  <1>2. n \div 16777216 \in Nat /\ n \div 65536 \in Nat /\ n \div 256 \in Nat
    BY SMT
  <1> QED
    BY <1>1, <1>2, SMT DEF BigEndian

\* Below 4 GiB the length survives the conversion to u32 and back.
LEMMA LengthSurvives ==
    ASSUME NEW n \in Nat, FitsInFourBytes(n)
    PROVE  FromBigEndian(BigEndian(n)) = n
  <1> DEFINE a == n \div 16777216
             b == n \div 65536
             c == n \div 256
  <1>1. a \in Nat /\ b \in Nat /\ c \in Nat /\ a % 256 = a
    BY SMT DEF FitsInFourBytes
  <1>2. n = 256 * c + (n % 256)
    BY SMT
  <1>3. c = 256 * b + (c % 256)
    BY SMT
  <1>4. b = 256 * a + (b % 256)
    BY SMT
  <1>5. FromBigEndian(BigEndian(n)) = (a % 256) * 16777216 + (b % 256) * 65536 + (c % 256) * 256 + (n % 256)
    BY SMT DEF FromBigEndian, BigEndian
  <1>6. b % 256 \in Nat /\ c % 256 \in Nat /\ n % 256 \in Nat
    BY <1>1, SMT
  <1> HIDE DEF a, b, c
  <1> QED
    BY <1>1, <1>2, <1>3, <1>4, <1>5, <1>6, SMT

\* What a frame consists of.
LEMMA FrameTyped ==
    ASSUME NEW m \in Messages
    PROVE  /\ Payload[m] \in Seq(Byte) /\ Len(Payload[m]) \in Nat
           /\ Encode(m) \in Seq(Byte) /\ Len(Encode(m)) = 4 + Len(Payload[m])
           /\ \A i \in 1 .. 4 : Encode(m)[i] = BigEndian(Len(Payload[m]))[i]
           /\ \A i \in 1 .. Len(Payload[m]) : Encode(m)[4 + i] = Payload[m][i]
  <1>1. Payload[m] \in Seq(Byte) /\ Len(Payload[m]) \in Nat
    BY PayloadAssumption DEF PayloadAssumption
  <1>2. PICK h \in Seq(Byte) : h = BigEndian(Len(Payload[m])) /\ Len(h) = 4
    BY <1>1, HeaderTyped
  <1>3. Encode(m) = h \o Payload[m]
    BY <1>2 DEF Encode
  <1>4. PICK d \in Seq(Byte) : d = Payload[m]
    BY <1>1
  <1>5. /\ h \o d \in Seq(Byte) /\ Len(h \o d) = Len(h) + Len(d)
        /\ \A i \in 1 .. Len(h) : (h \o d)[i] = h[i]
        /\ \A i \in 1 .. Len(d) : (h \o d)[Len(h) + i] = d[i]
    BY Joined
  <1>6. /\ h \o d \in Seq(Byte) /\ Len(h \o d) = 4 + Len(d)
        /\ \A i \in 1 .. 4 : (h \o d)[i] = h[i]
        /\ \A i \in 1 .. Len(d) : (h \o d)[4 + i] = d[i]
    BY <1>2, <1>5
  <1> QED
    BY <1>1, <1>2, <1>3, <1>4, <1>6

\* The length that stands in front of four bytes or more.
LEMMA LengthTyped ==
    ASSUME NEW buf \in Seq(Byte), Len(buf) >= 4
    PROVE  FromBigEndian(SubSeq(buf, 1, 4)) \in Nat
  <1>1. 4 \in 0 .. Len(buf) /\ 1 \in 1 .. Len(buf) + 1
    OBVIOUS
  <1>2. SubSeq(buf, 1, 4) \in Seq(Byte) /\ Len(SubSeq(buf, 1, 4)) = 4
    BY <1>1, Piece
  <1>3. ASSUME NEW i \in 1 .. 4 PROVE SubSeq(buf, 1, 4)[i] \in Nat
    <2>1. i \in DOMAIN SubSeq(buf, 1, 4)
      BY <1>2
    <2>2. SubSeq(buf, 1, 4)[i] \in Byte
      BY <1>2, <2>1, SeqElement
    <2> QED
      BY <2>2, ByteIsNat
  <1>4. PICK t : t = SubSeq(buf, 1, 4) /\ t[1] \in Nat /\ t[2] \in Nat /\ t[3] \in Nat /\ t[4] \in Nat
    <2>1. PICK t : t = SubSeq(buf, 1, 4)
      OBVIOUS
    <2>2. \A i \in 1 .. 4 : t[i] \in Nat
      BY <1>3, <2>1
    <2>3. 1 \in 1 .. 4 /\ 2 \in 1 .. 4 /\ 3 \in 1 .. 4 /\ 4 \in 1 .. 4
      OBVIOUS
    <2>4. t[1] \in Nat /\ t[2] \in Nat /\ t[3] \in Nat /\ t[4] \in Nat
      BY <2>2, <2>3
    <2> QED
      BY <2>1, <2>4
  <1>5. PICK a \in Nat, b \in Nat, c \in Nat, d \in Nat : a = t[1] /\ b = t[2] /\ c = t[3] /\ d = t[4]
    BY <1>4
  <1>6. FromBigEndian(t) = a * 16777216 + b * 65536 + c * 256 + d
    BY <1>5 DEF FromBigEndian
  <1>7. a * 16777216 + b * 65536 + c * 256 + d \in Nat
    BY SMT
  <1> QED
    BY <1>4, <1>6, <1>7

\* decode_frame slices no buffer past its end, whatever it is given.
LEMMA DecodeFrameReturns ==
    ASSUME NEW buf \in Seq(Byte)
    PROVE  DecodeFrame(buf).kind # "panic"
  <1>1. CASE Len(buf) < 4
    BY <1>1 DEF DecodeFrame, Incomplete
  <1>2. CASE Len(buf) >= 4
    <2> DEFINE len == FromBigEndian(SubSeq(buf, 1, 4))
    <2>1. len \in Nat /\ Len(buf) \in Nat /\ ~(Len(buf) < 4)
      BY <1>2, LengthTyped
    <2>2. DecodeFrame(buf) = IF Len(buf) < 4 + len THEN Incomplete ELSE DecodeBody(buf, len)
      BY <2>1 DEF DecodeFrame
    <2> HIDE DEF len
    <2>3. CASE Len(buf) < 4 + len
      BY <2>2, <2>3 DEF Incomplete
    <2>4. CASE 4 + len <= Len(buf)
      <3>1. DecodeFrame(buf) = Decode(SubSeq(buf, 5, 4 + len))
        BY <2>1, <2>2, <2>4 DEF DecodeBody
      <3>2. \A data : Decode(data).kind # "panic"
        BY DEF Decode, Decoded, Undecodable
      <3> QED
        BY <3>1, <3>2
    <2> QED
      BY <2>1, <2>3, <2>4
  <1> QED
    BY <1>1, <1>2

\* A frame that has arrived whole is the message it was made of.
LEMMA WholeFrameDecodes ==
    ASSUME PayloadsFit, NEW m \in Messages
    PROVE  DecodeFrame(SubSeq(Encode(m), 1, Len(Encode(m)))) = Decoded(m)
  <1> DEFINE data == Payload[m]
             n == Len(data)
             buf == SubSeq(Encode(m), 1, Len(Encode(m)))
             head == SubSeq(buf, 1, 4)
             body == SubSeq(buf, 5, 4 + n)
  <1>1. /\ data \in Seq(Byte) /\ n \in Nat
        /\ Encode(m) \in Seq(Byte) /\ Len(Encode(m)) = 4 + n
        /\ \A i \in 1 .. 4 : Encode(m)[i] = BigEndian(n)[i]
        /\ \A i \in 1 .. n : Encode(m)[4 + i] = data[i]
    BY FrameTyped
  <1>2. buf = Encode(m)
    BY <1>1
  <1>3. head = BigEndian(n)
    <2>1. 4 \in 0 .. Len(buf) /\ 1 \in 1 .. Len(buf) + 1
      BY <1>1, <1>2
    <2>2. /\ head \in Seq(Byte) /\ Len(head) = 4
          /\ \A i \in 1 .. 4 : head[i] = buf[1 + i - 1]
      BY <1>1, <1>2, <2>1, Piece
    <2>3. BigEndian(n) \in Seq(Byte) /\ Len(BigEndian(n)) = 4
      BY <1>1, HeaderTyped
    <2>4. \A i \in 1 .. 4 : head[i] = BigEndian(n)[i]
      BY <1>1, <1>2, <2>2
    <2> HIDE DEF head
    <2> QED
      BY <2>2, <2>3, <2>4, SameSeq
  <1>4. FromBigEndian(head) = n
    <2>1. FitsInFourBytes(n)
      BY DEF PayloadsFit
    <2> HIDE DEF n
    <2>2. FromBigEndian(BigEndian(n)) = n
      BY <1>1, <2>1, LengthSurvives, SMT
    <2> QED
      BY <1>3, <2>2
  <1>5. body = data
    <2>1. 5 \in 1 .. Len(buf) + 1 /\ 4 + n \in 4 .. Len(buf)
      BY <1>1, <1>2
    <2>2. /\ body \in Seq(Byte) /\ Len(body) = n
          /\ \A i \in 1 .. n : body[i] = buf[5 + i - 1]
      BY <1>1, <1>2, <2>1, Piece
    <2>3. \A i \in 1 .. n : body[i] = data[i]
      BY <1>1, <1>2, <2>2
    <2> HIDE DEF body, data
    <2> QED
      BY <1>1, <2>2, <2>3, SameSeq DEF n
  <1>6. DecodeFrame(buf) = Decode(body)
    <2> HIDE DEF head, body
    <2>1. Len(buf) = 4 + n /\ ~(Len(buf) < 4) /\ ~(Len(buf) < 4 + n)
      BY <1>1, <1>2
    <2>2. DecodeFrame(buf) = DecodeBody(buf, n)
      BY <1>1, <1>4, <2>1 DEF DecodeFrame, head
    <2> QED
      BY <1>1, <2>1, <2>2 DEF DecodeBody, body
  <1>7. Decode(data) = Decoded(m)
    <2>1. IsPrefix(data, data)
      BY <1>1 DEF IsPrefix
    <2>2. \A k \in Messages : IsPrefix(Payload[k], data) => k = m
      BY PayloadAssumption DEF PayloadAssumption
    <2>3. (CHOOSE k \in Messages : IsPrefix(Payload[k], data)) = m
      BY <2>1, <2>2
    <2> QED
      BY <2>1, <2>3 DEF Decode
  <1> QED
    BY <1>5, <1>6, <1>7

\* What has arrived of a frame that broke off is no message.
LEMMA BrokenFrameIsNone ==
    ASSUME PayloadsFit, NEW m \in Messages, NEW sent \in Nat, sent < Len(Encode(m))
    PROVE  DecodeFrame(SubSeq(Encode(m), 1, sent)) = Incomplete
  <1> DEFINE n == Len(Payload[m])
             buf == SubSeq(Encode(m), 1, sent)
             head == SubSeq(buf, 1, 4)
  <1>1. /\ n \in Nat
        /\ Encode(m) \in Seq(Byte) /\ Len(Encode(m)) = 4 + n
        /\ \A i \in 1 .. 4 : Encode(m)[i] = BigEndian(n)[i]
    BY FrameTyped
  <1>2. /\ buf \in Seq(Byte) /\ Len(buf) = sent
        /\ \A i \in 1 .. sent : buf[i] = Encode(m)[i]
    <2>1. 1 \in 1 .. Len(Encode(m)) + 1 /\ sent \in 0 .. Len(Encode(m))
      BY <1>1
    <2>2. /\ buf \in Seq(Byte) /\ Len(buf) = sent - 1 + 1
          /\ \A i \in 1 .. sent - 1 + 1 : buf[i] = Encode(m)[1 + i - 1]
      BY <1>1, <2>1, Piece
    <2> HIDE DEF buf
    <2> QED
      BY <2>2
  <1> HIDE DEF buf
  <1>3. CASE sent < 4
    BY <1>2, <1>3 DEF DecodeFrame, buf
  <1>4. CASE sent >= 4
    <2>1. 4 \in 0 .. Len(buf) /\ 1 \in 1 .. Len(buf) + 1
      BY <1>2, <1>4
    <2>2. /\ head \in Seq(Byte) /\ Len(head) = 4
          /\ \A i \in 1 .. 4 : head[i] = buf[1 + i - 1]
      BY <1>2, <2>1, Piece
    <2>3. BigEndian(n) \in Seq(Byte) /\ Len(BigEndian(n)) = 4
      BY <1>1, HeaderTyped
    <2>4. \A i \in 1 .. 4 : head[i] = BigEndian(n)[i]
      BY <1>1, <1>2, <1>4, <2>2
    <2>5. head = BigEndian(n)
      <3> HIDE DEF head
      <3> QED
        BY <2>2, <2>3, <2>4, SameSeq
    <2>6. FromBigEndian(head) = n
      <3>1. FitsInFourBytes(n)
        BY DEF PayloadsFit
      <3> HIDE DEF n
      <3>2. FromBigEndian(BigEndian(n)) = n
        BY <1>1, <3>1, LengthSurvives, SMT
      <3> QED
        BY <2>5, <3>2
    <2>7. ~(Len(buf) < 4) /\ Len(buf) < 4 + n
      BY <1>1, <1>2, <1>4
    <2> HIDE DEF n
    <2> QED
      BY <2>6, <2>7 DEF DecodeFrame, buf
  <1> QED
    BY <1>3, <1>4

-----------------------------------------------------------------------------
(* Steps: types, and the life of the listener *)

\* Appending to a sequence over a set.
LEMMA AppendTyped ==
    ASSUME NEW S, NEW s \in Seq(S), NEW e \in S
    PROVE  /\ Append(s, e) \in Seq(S) /\ Len(Append(s, e)) = Len(s) + 1
           /\ DOMAIN Append(s, e) = DOMAIN s \cup {Len(s) + 1}
           /\ Append(s, e)[Len(s) + 1] = e
           /\ \A i \in DOMAIN s : Append(s, e)[i] = s[i]
  OBVIOUS

\* One element of a sequence changes.
LEMMA ElementTyped ==
    ASSUME NEW S, NEW s \in Seq(S), NEW i \in DOMAIN s, NEW e \in S
    PROVE  LET t == [s EXCEPT ![i] = e]
           IN  /\ t \in Seq(S) /\ Len(t) = Len(s) /\ DOMAIN t = DOMAIN s
               /\ \A j \in DOMAIN s : t[j] = IF j = i THEN e ELSE s[j]
  OBVIOUS

\* A stream that has got more of its frame, and one that has finished.
LEMMA StreamChanges ==
    ASSUME NEW r \in StreamTypes
    PROVE  /\ \A n \in Nat : /\ [r EXCEPT !.sent = n] \in StreamTypes
                             /\ [r EXCEPT !.sent = n].msg = r.msg
                             /\ [r EXCEPT !.sent = n].sent = n
           /\ [r EXCEPT !.finished = TRUE] \in StreamTypes
           /\ [r EXCEPT !.finished = TRUE].msg = r.msg
           /\ [r EXCEPT !.finished = TRUE].sent = r.sent
  BY DEF StreamTypes

\* What a step of a sender does to its stream: to no other one, and never to its message.
LEMMA SendEffect ==
    ASSUME Typed, NEW i \in DOMAIN streams, SendStep(i)
    PROVE  /\ ~closed /\ UNCHANGED <<listener, accepted, forwarded, closed>>
           /\ streams' \in Seq(StreamTypes) /\ Len(streams') = Len(streams)
           /\ \A j \in DOMAIN streams : streams'[j].msg = streams[j].msg
           /\ \A j \in DOMAIN streams : j # i => streams'[j] = streams[j]
           /\ ~streams[i].finished
           /\ streams[i].sent <= streams'[i].sent
           /\ streams'[i].sent <= Len(Encode(streams[i].msg))
  <1>1. streams \in Seq(StreamTypes) /\ streams[i] \in StreamTypes
    BY SeqElement DEF Typed
  <1>2. /\ streams[i].msg \in Messages /\ streams[i].sent \in Nat /\ streams[i].finished \in BOOLEAN
    BY <1>1 DEF StreamTypes
  <1>3. /\ Len(Encode(streams[i].msg)) \in Nat /\ streams[i].sent <= Len(Encode(streams[i].msg))
    BY <1>2, FrameTyped DEF Typed
  <1>4. ~closed /\ ~streams[i].finished /\ UNCHANGED <<listener, accepted, forwarded, closed>>
    BY DEF SendStep, WriteSome, FinishStream, AbandonStream
  <1>5. PICK e \in StreamTypes :
           /\ streams' = [streams EXCEPT ![i] = e]
           /\ e.msg = streams[i].msg /\ streams[i].sent <= e.sent
           /\ e.sent <= Len(Encode(streams[i].msg))
    <2>1. CASE WriteSome(i)
      <3>1. PICK n \in (streams[i].sent + 1) .. Len(Encode(streams[i].msg)) :
               streams' = [streams EXCEPT ![i].sent = n]
        BY <2>1 DEF WriteSome
      <3>2. n \in Nat /\ streams[i].sent <= n /\ n <= Len(Encode(streams[i].msg))
        BY <1>2, <1>3, <3>1
      <3>3. streams' = [streams EXCEPT ![i] = [streams[i] EXCEPT !.sent = n]]
        BY <3>1
      <3>4. PICK e \in StreamTypes :
               e = [streams[i] EXCEPT !.sent = n] /\ e.msg = streams[i].msg /\ e.sent = n
        BY <1>1, <3>2, StreamChanges
      <3> QED
        BY <3>2, <3>3, <3>4
    <2>2. CASE FinishStream(i) \/ AbandonStream(i)
      <3>1. streams' = [streams EXCEPT ![i] = [streams[i] EXCEPT !.finished = TRUE]]
        BY <2>2 DEF FinishStream, AbandonStream
      <3>2. PICK e \in StreamTypes : /\ e = [streams[i] EXCEPT !.finished = TRUE]
                                     /\ e.msg = streams[i].msg /\ e.sent = streams[i].sent
        BY <1>1, StreamChanges
      <3>3. streams[i].sent <= e.sent /\ e.sent <= Len(Encode(streams[i].msg))
        <4>1. PICK n \in Nat : n = streams[i].sent
          BY <1>2
        <4> QED
          BY <1>3, <3>2, <4>1
      <3>4. streams' = [streams EXCEPT ![i] = e]
        BY <3>1, <3>2
      <3> QED
        BY <3>2, <3>3, <3>4
    <2> QED
      BY <2>1, <2>2 DEF SendStep
  <1>6. /\ streams' \in Seq(StreamTypes) /\ Len(streams') = Len(streams)
        /\ \A j \in DOMAIN streams : streams'[j] = IF j = i THEN e ELSE streams[j]
    BY <1>1, <1>5, ElementTyped
  <1> QED
    BY <1>4, <1>5, <1>6

\* What has arrived of the stream that the listener reads.
LEMMA ReceivedTyped ==
    ASSUME Typed, accepted > 0
    PROVE  /\ accepted \in DOMAIN streams
           /\ streams[accepted].msg \in Messages /\ streams[accepted].sent \in Nat
           /\ Received \in Seq(Byte) /\ Len(Received) = streams[accepted].sent
  <1>1. accepted \in DOMAIN streams /\ streams \in Seq(StreamTypes)
    BY DEF Typed
  <1>2. streams[accepted] \in StreamTypes
    BY <1>1, SeqElement
  <1>3. streams[accepted].msg \in Messages /\ streams[accepted].sent \in Nat
    BY <1>2 DEF StreamTypes
  <1>4. streams[accepted].sent <= Len(Encode(streams[accepted].msg))
    BY <1>1 DEF Typed
  <1>5. PICK f \in Seq(Byte) : f = Encode(streams[accepted].msg)
    BY <1>3, FrameTyped
  <1>6. PICK n \in Nat : n = streams[accepted].sent /\ n <= Len(f)
    BY <1>3, <1>4, <1>5
  <1>7. 1 \in 1 .. Len(f) + 1 /\ n \in 0 .. Len(f)
    BY <1>6
  <1>8. SubSeq(f, 1, n) \in Seq(Byte) /\ Len(SubSeq(f, 1, n)) = n
    BY <1>6, <1>7, Piece
  <1> QED
    BY <1>1, <1>3, <1>5, <1>6, <1>8 DEF Received

\* Before anything is opened the types are right.
LEMMA InitTyped == Init => Inv
  <1> SUFFICES ASSUME Init PROVE Inv
    OBVIOUS
  <1>1. /\ streams = <<>> /\ listener = "select" /\ accepted = 0 /\ forwarded = <<>> /\ closed = FALSE
    BY DEF Init
  <1>2. streams \in Seq(StreamTypes) /\ DOMAIN streams = {} /\ Len(streams) = 0 /\ forwarded \in Seq(Messages)
    BY <1>1
  <1>3. accepted \in 0 .. Len(streams)
    BY <1>1, <1>2
  <1>4. Typed
    BY <1>1, <1>2, <1>3 DEF Typed
  <1> QED
    BY <1>1, <1>4 DEF Inv, ListenerSurvives

\* Every step keeps them, and none of a living connection ends the listener.
LEMMA NextTyped == Inv /\ [Next]_vars => Inv'
  <1> SUFFICES ASSUME Inv, [Next]_vars PROVE Inv'
    OBVIOUS
  <1> USE DEF Inv
  <1>1. ASSUME NEW m \in Messages, OpenStream(m) PROVE Inv'
    <2> DEFINE e == [msg |-> m, sent |-> 0, finished |-> FALSE]
    <2>1. streams' = Append(streams, e) /\ UNCHANGED <<listener, accepted, forwarded, closed>>
      BY <1>1 DEF OpenStream
    <2>2. e \in StreamTypes /\ e.sent = 0 /\ e.msg = m
      BY DEF StreamTypes
    <2> HIDE DEF e
    <2>3. /\ streams' \in Seq(StreamTypes) /\ Len(streams') = Len(streams) + 1
          /\ DOMAIN streams' = DOMAIN streams \cup {Len(streams) + 1}
          /\ streams'[Len(streams) + 1] = e
          /\ \A i \in DOMAIN streams : streams'[i] = streams[i]
      BY <2>1, <2>2, AppendTyped DEF Typed
    <2>4. ASSUME NEW i \in DOMAIN streams' PROVE streams'[i].sent <= Len(Encode(streams'[i].msg))
      <3>1. CASE i \in DOMAIN streams
        BY <2>3, <3>1 DEF Typed
      <3>2. CASE i = Len(streams) + 1
        <4>1. Len(Encode(m)) \in Nat
          BY FrameTyped
        <4> QED
          BY <2>2, <2>3, <3>2, <4>1
      <3> QED
        BY <2>3, <3>1, <3>2
    <2>5. accepted' \in 0 .. Len(streams')
      BY <2>1, <2>3 DEF Typed
    <2> QED
      BY <2>1, <2>3, <2>4, <2>5 DEF Typed, ListenerSurvives
  <1>2. ASSUME NEW i \in DOMAIN streams, SendStep(i) PROVE Inv'
    <2>1. /\ UNCHANGED <<listener, accepted, forwarded, closed>>
          /\ streams' \in Seq(StreamTypes) /\ Len(streams') = Len(streams)
          /\ \A j \in DOMAIN streams : streams'[j].msg = streams[j].msg
          /\ \A j \in DOMAIN streams : j # i => streams'[j] = streams[j]
          /\ streams'[i].sent <= Len(Encode(streams[i].msg))
      BY <1>2, SendEffect
    <2>2. DOMAIN streams' = DOMAIN streams
      BY <2>1 DEF Typed
    <2>3. \A j \in DOMAIN streams' : streams'[j].sent <= Len(Encode(streams'[j].msg))
      BY <2>1, <2>2 DEF Typed
    <2> QED
      BY <2>1, <2>3 DEF Typed, ListenerSurvives
  <1>3. CASE CloseConnection
    BY <1>3 DEF CloseConnection, Typed, ListenerSurvives
  <1>4. CASE AcceptStream
    <2>1. PICK i \in accepted + 1 .. Len(streams) : TRUE
      BY <1>4 DEF AcceptStream
    <2>2. accepted' = accepted + 1 /\ listener' = "reading" /\ UNCHANGED <<streams, forwarded, closed>>
      BY <1>4 DEF AcceptStream
    <2>3. accepted' \in 0 .. Len(streams) /\ accepted' > 0
      BY <2>1, <2>2 DEF Typed
    <2> QED
      BY <2>2, <2>3 DEF Typed, ListenerSurvives
  <1>5. CASE ReadToEnd
    <2>1. /\ listener = "reading" /\ UNCHANGED <<streams, accepted, closed>>
          /\ forwarded' = IF DecodeFrame(Received).kind = "message"
                          THEN Append(forwarded, DecodeFrame(Received).msg) ELSE forwarded
          /\ listener' = IF DecodeFrame(Received).kind = "panic" THEN "ended" ELSE "select"
      BY <1>5 DEF ReadToEnd
    <2>2. Received \in Seq(Byte)
      BY <2>1, ReceivedTyped DEF Typed
    <2>3. listener' = "select"
      BY <2>1, <2>2, DecodeFrameReturns
    <2>4. forwarded' \in Seq(Messages)
      <3>1. CASE DecodeFrame(Received).kind = "message"
        <4>1. DecodeFrame(Received).msg \in Messages
          <5>1. \A data : Decode(data).kind = "message" => Decode(data).msg \in Messages
            BY DEF Decode, Decoded, Undecodable
          <5>2. \/ DecodeFrame(Received) = Incomplete \/ DecodeFrame(Received) = Panic
                \/ \E data : DecodeFrame(Received) = Decode(data)
            BY DEF DecodeFrame, DecodeBody
          <5> QED
            BY <3>1, <5>1, <5>2 DEF Incomplete, Panic
        <4> QED
          BY <2>1, <3>1, <4>1, AppendTyped DEF Typed
      <3> QED
        BY <2>1, <3>1 DEF Typed
    <2> QED
      BY <2>1, <2>3, <2>4 DEF Typed, ListenerSurvives
  <1>6. CASE ReadFails
    BY <1>6 DEF ReadFails, Typed, ListenerSurvives
  <1>7. CASE ListenerEnds
    BY <1>7 DEF ListenerEnds, Typed, ListenerSurvives
  <1>8. CASE UNCHANGED vars
    BY <1>8 DEF vars, Typed, ListenerSurvives
  <1> QED
    BY <1>1, <1>2, <1>3, <1>4, <1>5, <1>6, <1>7, <1>8 DEF Next, ListenerStep

\* The invariant holds throughout.
LEMMA Invariance == Spec => []Inv
  BY InitTyped, NextTyped, PTL DEF Spec

\* No stream stops the listener, whatever bytes it carries and wherever it ends.
THEOREM NothingStopsTheListener == Spec => []ListenerSurvives
  <1>1. Inv => ListenerSurvives
    BY DEF Inv
  <1> QED
    BY <1>1, Invariance, PTL

-----------------------------------------------------------------------------
(* Steps: the order of the messages *)

\* A step that forwards nothing and leaves the whole streams as they are.
LEMMA OrderKept ==
    ASSUME WholeInOrder, closed' = FALSE => closed = FALSE, closed \in BOOLEAN, closed' \in BOOLEAN,
           UNCHANGED forwarded,
           ~closed' => /\ SettledWhole' = SettledWhole
                       /\ \A i \in SettledWhole : streams'[i].msg = streams[i].msg
    PROVE  WholeInOrder'
  <1> SUFFICES ASSUME ~closed'
               PROVE  \E at \in [DOMAIN forwarded' -> SettledWhole'] :
                         /\ ForwardedFrom(at)'
                         /\ \A i \in SettledWhole' : \E k \in DOMAIN forwarded' : at[k] = i
    BY DEF WholeInOrder
  <1>1. PICK at \in [DOMAIN forwarded -> SettledWhole] :
           /\ ForwardedFrom(at)
           /\ \A i \in SettledWhole : \E k \in DOMAIN forwarded : at[k] = i
    BY DEF WholeInOrder
  <1>2. \A k \in DOMAIN forwarded : at[k] \in SettledWhole
    BY <1>1
  <1>3. \A k \in DOMAIN forwarded : forwarded[k] = streams'[at[k]].msg
    BY <1>1, <1>2 DEF ForwardedFrom
  <1>4. \A k, l \in DOMAIN forwarded : k < l => at[k] < at[l]
    BY <1>1 DEF ForwardedFrom
  <1>5. ForwardedFrom(at)'
    BY <1>3, <1>4 DEF ForwardedFrom
  <1> QED
    BY <1>1, <1>5

\* Streams that the listener is done with, and the one it reads.
LEMMA SettledStreams ==
    ASSUME Typed
    PROVE  /\ Settled \subseteq DOMAIN streams
           /\ listener = "reading" => /\ accepted \notin Settled
                                      /\ \A i \in Settled : i < accepted
                                      /\ 1 .. accepted = Settled \cup {accepted}
           /\ listener # "reading" => Settled = 1 .. accepted
           /\ \A i \in Settled : i \in Nat
  BY DEF Typed, Settled

\* A stream is never whole again that the listener has left for its size.
LEMMA TooLongIsNotWhole ==
    ASSUME Typed, NEW i \in DOMAIN streams, streams[i].sent > Limit
    PROVE  ~Whole(i)
  <1>1. streams[i] \in StreamTypes
    BY SeqElement DEF Typed
  <1>2. streams[i].sent \in Nat /\ Limit \in Nat
    BY <1>1, BoundsAssumption DEF StreamTypes
  <1> QED
    BY <1>2 DEF Whole

\* The step of a sender.
LEMMA SendKeepsOrder ==
    ASSUME OrderInv, Inv', NEW i \in DOMAIN streams, SendStep(i)
    PROVE  LeftForAReason' /\ WholeInOrder'
  <1>1. /\ ~closed /\ UNCHANGED <<listener, accepted, forwarded, closed>>
        /\ streams' \in Seq(StreamTypes) /\ Len(streams') = Len(streams)
        /\ \A j \in DOMAIN streams : streams'[j].msg = streams[j].msg
        /\ \A j \in DOMAIN streams : j # i => streams'[j] = streams[j]
        /\ ~streams[i].finished
        /\ streams[i].sent <= streams'[i].sent
    BY SendEffect DEF OrderInv, Inv
  <1>2. Settled' = Settled /\ Settled \subseteq DOMAIN streams /\ DOMAIN streams' = DOMAIN streams
    BY <1>1, SettledStreams DEF Settled, OrderInv, Inv, Typed
  <1>3. i \in Settled => streams[i].sent > Limit /\ streams'[i].sent > Limit
    <2>1. streams[i] \in StreamTypes /\ streams'[i] \in StreamTypes
      BY <1>1, <1>2, SeqElement DEF OrderInv, Inv, Typed
    <2>2. streams[i].sent \in Nat /\ streams'[i].sent \in Nat /\ Limit \in Nat
      BY <2>1, BoundsAssumption DEF StreamTypes
    <2>3. i \in Settled => streams[i].sent > Limit
      BY <1>1 DEF OrderInv, LeftForAReason
    <2> QED
      BY <1>1, <2>2, <2>3
  <1>4. LeftForAReason'
    BY <1>1, <1>2, <1>3 DEF OrderInv, LeftForAReason
  <1>5. \A j \in Settled : Whole(j)' <=> Whole(j)
    <2> TAKE j \in Settled
    <2>1. CASE j = i
      <3>1. ~Whole(i)
        BY <1>3, <2>1, TooLongIsNotWhole DEF OrderInv, Inv
      <3>2. ~Whole(i)'
        <4>1. /\ streams'[i].sent > Limit /\ streams'[i].sent \in Nat /\ Limit \in Nat
          <5>1. streams'[i] \in StreamTypes
            BY <1>1, <1>2, SeqElement
          <5> QED
            BY <1>3, <2>1, <5>1, BoundsAssumption DEF StreamTypes
        <4> QED
          BY <4>1 DEF Whole
      <3> QED
        BY <2>1, <3>1, <3>2
    <2>2. CASE j # i
      BY <1>1, <1>2, <2>2 DEF Whole
    <2> QED
      BY <2>1, <2>2
  <1>6. SettledWhole' = SettledWhole
    BY <1>2, <1>5 DEF SettledWhole
  <1>7. \A j \in SettledWhole : streams'[j].msg = streams[j].msg
    BY <1>1, <1>2 DEF SettledWhole
  <1>8. WholeInOrder'
    BY <1>1, <1>6, <1>7, OrderKept DEF OrderInv, Inv, Typed
  <1> QED
    BY <1>4, <1>8

\* The listener is done with a stream: whole, it is forwarded; broken off, it is not.
LEMMA ReadKeepsOrder ==
    ASSUME PayloadsFit, OrderInv, Inv', ReadToEnd
    PROVE  LeftForAReason' /\ WholeInOrder'
  <1>1. /\ listener = "reading" /\ streams[accepted].finished /\ Len(Received) <= Limit
        /\ UNCHANGED <<streams, accepted, closed>>
        /\ forwarded' = IF DecodeFrame(Received).kind = "message"
                        THEN Append(forwarded, DecodeFrame(Received).msg) ELSE forwarded
        /\ listener' = IF DecodeFrame(Received).kind = "panic" THEN "ended" ELSE "select"
    BY DEF ReadToEnd
  <1>2. /\ accepted \in DOMAIN streams /\ streams[accepted].msg \in Messages
        /\ streams[accepted].sent \in Nat /\ Len(Received) = streams[accepted].sent
    BY <1>1, ReceivedTyped DEF OrderInv, Inv, Typed
  <1>3. /\ accepted \notin Settled /\ (\A i \in Settled : i \in Nat /\ i < accepted)
        /\ Settled' = Settled \cup {accepted}
    <2>1. listener' # "reading"
      BY <1>1
    <2>2. Settled' = 1 .. accepted
      BY <1>1, <2>1 DEF Settled
    <2> QED
      BY <1>1, <2>2, SettledStreams DEF OrderInv, Inv
  <1>4. LeftForAReason'
    BY <1>1, <1>3 DEF OrderInv, LeftForAReason
  <1>5. \A i : Whole(i)' <=> Whole(i)
    BY <1>1 DEF Whole
  <1> DEFINE m == streams[accepted].msg
             size == Len(Encode(m))
  <1>6. size \in Nat /\ streams[accepted].sent <= size /\ Limit \in Nat
    BY <1>2, FrameTyped, BoundsAssumption DEF OrderInv, Inv, Typed
  <1>7. CASE Whole(accepted)
    <2>1. DecodeFrame(Received) = Decoded(m)
      BY <1>2, <1>7, WholeFrameDecodes DEF Whole, Received
    <2>2. forwarded' = Append(forwarded, m) /\ forwarded \in Seq(Messages)
      BY <1>1, <2>1 DEF Decoded, OrderInv, Inv, Typed
    <2>3. SettledWhole' = SettledWhole \cup {accepted}
      BY <1>3, <1>5, <1>7 DEF SettledWhole
    <2>4. ASSUME ~closed'
          PROVE  \E at \in [DOMAIN forwarded' -> SettledWhole'] :
                    /\ ForwardedFrom(at)'
                    /\ \A i \in SettledWhole' : \E k \in DOMAIN forwarded' : at[k] = i
      <3>1. PICK at \in [DOMAIN forwarded -> SettledWhole] :
               /\ ForwardedFrom(at)
               /\ \A i \in SettledWhole : \E k \in DOMAIN forwarded : at[k] = i
        BY <1>1, <2>4 DEF OrderInv, WholeInOrder
      <3>2. PICK n \in Nat : n = Len(forwarded) /\ DOMAIN forwarded = 1 .. n
        BY <2>2
      <3>3. /\ DOMAIN forwarded' = 1 .. n + 1 /\ forwarded'[n + 1] = m
            /\ \A k \in 1 .. n : forwarded'[k] = forwarded[k]
        BY <1>2, <2>2, <3>2, AppendTyped
      <3>4. PICK new \in [1 .. n + 1 -> SettledWhole \cup {accepted}] :
               new = [k \in 1 .. n + 1 |-> IF k = n + 1 THEN accepted ELSE at[k]]
        <4>1. \A k \in 1 .. n + 1 : k # n + 1 => k \in 1 .. n
          BY <3>2
        <4> QED
          BY <3>1, <3>2, <4>1
      <3>5. new[n + 1] = accepted /\ \A k \in 1 .. n : new[k] = at[k]
        BY <3>2, <3>4
      <3>6. \A k \in 1 .. n : at[k] \in SettledWhole /\ at[k] \in Nat /\ at[k] < accepted
        BY <1>3, <3>1, <3>2 DEF SettledWhole
      <3>7. ForwardedFrom(new)'
        <4>1. ASSUME NEW k \in 1 .. n + 1 PROVE forwarded'[k] = streams[new[k]].msg
          <5>1. CASE k = n + 1
            BY <3>3, <3>5, <5>1
          <5>2. CASE k \in 1 .. n
            BY <3>1, <3>2, <3>3, <3>5, <5>2 DEF ForwardedFrom
          <5> QED
            BY <5>1, <5>2, <3>2
        <4>2. ASSUME NEW k \in 1 .. n + 1, NEW l \in 1 .. n + 1, k < l PROVE new[k] < new[l]
          <5>1. k \in 1 .. n
            BY <3>2, <4>2
          <5>2. CASE l = n + 1
            BY <3>5, <3>6, <5>1, <5>2
          <5>3. CASE l \in 1 .. n
            BY <3>1, <3>2, <3>5, <4>2, <5>1, <5>3 DEF ForwardedFrom
          <5> QED
            BY <3>2, <5>2, <5>3
        <4>3. streams' = streams
          BY <1>1
        <4>4. (\A k \in DOMAIN forwarded' : forwarded'[k] = streams'[new[k]].msg)
          BY <3>3, <4>1, <4>3
        <4>5. (\A k, l \in DOMAIN forwarded' : k < l => new[k] < new[l])
          BY <3>3, <4>2
        <4> QED
          BY <4>4, <4>5 DEF ForwardedFrom
      <3>8. \A i \in SettledWhole' : \E k \in 1 .. n + 1 : new[k] = i
        <4> TAKE i \in SettledWhole'
        <4>1. CASE i = accepted
          <5>1. n + 1 \in 1 .. n + 1
            BY <3>2
          <5> QED
            BY <3>5, <4>1, <5>1
        <4>2. CASE i \in SettledWhole
          <5>1. PICK k \in 1 .. n : at[k] = i
            BY <3>1, <3>2, <4>2
          <5>2. k \in 1 .. n + 1
            BY <3>2
          <5> QED
            BY <3>5, <5>1, <5>2
        <4> QED
          BY <2>3, <4>1, <4>2
      <3> QED
        BY <2>3, <3>3, <3>7, <3>8
    <2> QED
      BY <1>4, <2>4 DEF WholeInOrder
  <1>8. CASE ~Whole(accepted)
    <2>1. streams[accepted].sent < size
      BY <1>1, <1>2, <1>6, <1>8 DEF Whole
    <2>2. DecodeFrame(Received) = Incomplete
      BY <1>2, <2>1, BrokenFrameIsNone DEF Received
    <2>3. forwarded' = forwarded
      BY <1>1, <2>2 DEF Incomplete
    <2>4. SettledWhole' = SettledWhole
      BY <1>3, <1>5, <1>8 DEF SettledWhole
    <2>5. WholeInOrder'
      BY <1>1, <2>3, <2>4, OrderKept DEF OrderInv, Inv, Typed
    <2> QED
      BY <1>4, <2>5
  <1> QED
    BY <1>7, <1>8

\* Before anything is opened nothing is forwarded.
LEMMA InitOrder == Init => OrderInv
  <1> SUFFICES ASSUME Init PROVE OrderInv
    OBVIOUS
  <1>1. Settled = {} /\ SettledWhole = {} /\ DOMAIN forwarded = {}
    BY DEF Init, Settled, SettledWhole
  <1>2. [k \in {} |-> k] \in [DOMAIN forwarded -> SettledWhole]
    BY <1>1
  <1>3. WholeInOrder
    BY <1>1, <1>2 DEF WholeInOrder, ForwardedFrom
  <1> QED
    BY <1>1, <1>3, InitTyped DEF OrderInv, LeftForAReason

\* Every step keeps the order.
LEMMA NextOrder ==
    ASSUME PayloadsFit, OrderInv, [Next]_vars
    PROVE  OrderInv'
  <1>1. Inv /\ Inv' /\ Typed /\ Typed'
    BY NextTyped DEF OrderInv, Inv
  <1> SUFFICES LeftForAReason' /\ WholeInOrder'
    BY <1>1 DEF OrderInv
  <1>2. ASSUME NEW m \in Messages, OpenStream(m) PROVE LeftForAReason' /\ WholeInOrder'
    <2> DEFINE e == [msg |-> m, sent |-> 0, finished |-> FALSE]
    <2>1. streams' = Append(streams, e) /\ UNCHANGED <<listener, accepted, forwarded, closed>>
      BY <1>2 DEF OpenStream
    <2>2. e \in StreamTypes
      BY DEF StreamTypes
    <2> HIDE DEF e
    <2>3. \A i \in DOMAIN streams : streams'[i] = streams[i]
      BY <1>1, <2>1, <2>2, AppendTyped DEF Typed
    <2>4. Settled' = Settled /\ Settled \subseteq DOMAIN streams
      BY <1>1, <2>1, SettledStreams DEF Settled
    <2>5. \A i \in Settled : (Whole(i)' <=> Whole(i)) /\ streams'[i] = streams[i]
      BY <2>3, <2>4 DEF Whole
    <2>6. SettledWhole' = SettledWhole /\ \A i \in SettledWhole : streams'[i].msg = streams[i].msg
      BY <2>4, <2>5 DEF SettledWhole
    <2>7. LeftForAReason'
      BY <2>1, <2>4, <2>5 DEF OrderInv, LeftForAReason
    <2> QED
      BY <1>1, <2>1, <2>6, <2>7, OrderKept DEF OrderInv, Typed
  <1>3. ASSUME NEW i \in DOMAIN streams, SendStep(i) PROVE LeftForAReason' /\ WholeInOrder'
    BY <1>1, <1>3, SendKeepsOrder
  <1>4. CASE CloseConnection
    BY <1>4 DEF CloseConnection, LeftForAReason, WholeInOrder
  <1>5. CASE AcceptStream
    <2>1. /\ listener = "select" /\ listener' = "reading" /\ accepted' = accepted + 1
          /\ UNCHANGED <<streams, forwarded, closed>>
      BY <1>5 DEF AcceptStream
    <2>2. Settled' = Settled
      BY <1>1, <2>1 DEF Settled, Typed
    <2>3. \A i : Whole(i)' <=> Whole(i)
      BY <2>1 DEF Whole
    <2>4. SettledWhole' = SettledWhole
      BY <2>2, <2>3 DEF SettledWhole
    <2>5. WholeInOrder'
      BY <1>1, <2>1, <2>4, OrderKept DEF OrderInv, Typed
    <2> QED
      BY <2>1, <2>2, <2>5 DEF OrderInv, LeftForAReason
  <1>6. CASE ReadToEnd
    BY <1>1, <1>6, ReadKeepsOrder
  <1>7. CASE ReadFails
    <2>1. /\ listener = "reading" /\ listener' = "select" /\ (Len(Received) > Limit \/ closed)
          /\ UNCHANGED <<streams, accepted, forwarded, closed>>
      BY <1>7 DEF ReadFails
    <2>2. CASE closed
      BY <2>1, <2>2 DEF LeftForAReason, WholeInOrder
    <2>3. CASE ~closed
      <3>1. /\ accepted \in DOMAIN streams /\ streams[accepted].sent > Limit
        BY <1>1, <2>1, <2>3, <1>7, ReceivedTyped DEF Typed, ReadFails
      <3>2. ~Whole(accepted)
        BY <1>1, <3>1, TooLongIsNotWhole
      <3>3. Settled' = Settled \cup {accepted}
        <4>1. Settled' = 1 .. accepted
          BY <1>7 DEF ReadFails, Settled
        <4> QED
          BY <1>1, <1>7, <4>1, SettledStreams DEF ReadFails
      <3>4. \A i : Whole(i)' <=> Whole(i)
        BY <1>7 DEF Whole, ReadFails
      <3>5. SettledWhole' = SettledWhole
        BY <3>2, <3>3, <3>4 DEF SettledWhole
      <3>6. WholeInOrder'
        BY <1>1, <1>7, <3>5, OrderKept DEF OrderInv, Typed, ReadFails
      <3>7. LeftForAReason'
        BY <1>7, <3>1, <3>3 DEF OrderInv, LeftForAReason, ReadFails
      <3> QED
        BY <3>6, <3>7
    <2> QED
      BY <2>2, <2>3
  <1>8. CASE ListenerEnds
    BY <1>8 DEF ListenerEnds, LeftForAReason, WholeInOrder
  <1>9. CASE UNCHANGED vars
    <2>1. UNCHANGED <<streams, listener, accepted, forwarded, closed>>
      BY <1>9 DEF vars
    <2> QED
      BY <2>1 DEF OrderInv, LeftForAReason, WholeInOrder, Settled, SettledWhole, ForwardedFrom, Whole
  <1> QED
    BY <1>2, <1>3, <1>4, <1>5, <1>6, <1>7, <1>8, <1>9 DEF Next, ListenerStep

\* Unless a payload is too long for its length field, the loop has got the message of
\* every whole stream that was read, in the order of opening, and no other message.
THEOREM MessagesInOrder == PayloadsFit /\ Spec => []WholeInOrder
  <1>1. Init => OrderInv
    BY InitOrder
  <1>2. PayloadsFit /\ OrderInv /\ [Next]_vars => OrderInv'
    BY NextOrder
  <1>3. OrderInv => WholeInOrder
    BY DEF OrderInv
  <1>4. CASE PayloadsFit
    <2>1. OrderInv /\ [Next]_vars => OrderInv'
      BY <1>2, <1>4
    <2>2. Spec => []WholeInOrder
      BY <1>1, <1>3, <2>1, PTL DEF Spec
    <2> QED
      BY <2>2
  <1> QED
    BY <1>4
=============================================================================
