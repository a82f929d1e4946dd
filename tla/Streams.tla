------------------------------ MODULE Streams ------------------------------
(* The wire protocol of network/protocol.rs on one connection: the tasks that send
   on it, one message on a stream of its own, and the stream listener of the peer,
   which reads one stream after the other.  IrohNode has the connections; here a
   message is the bytes of its frame, which arrive in pieces and may break off. *)
EXTENDS Integers, SequencesExt

CONSTANTS
    Messages,      \* the values of WireMessage
    Payload,       \* Payload[m]: the bytes postcard makes of m
    Limit,         \* the most bytes read_to_end takes: 16 * 1024 * 1024
    MaxStreams     \* bound: streams opened

Byte == 0..255

\* postcard is self-delimiting: no payload is the beginning of another one.
PayloadAssumption ==
    /\ Payload \in [Messages -> Seq(Byte) \ {<<>>}]
    /\ \A m, n \in Messages : IsPrefix(Payload[m], Payload[n]) => m = n
ASSUME PayloadAssumption
ASSUME BoundsAssumption == Limit \in Nat /\ MaxStreams \in Nat

VARIABLES
    streams,       \* the streams in the order they were opened
    listener,      \* where the stream listener is
    accepted,      \* how many streams the listener has accepted
    forwarded,     \* the messages it has sent to the channel of the message loop
    closed         \* whether the connection is closed

vars == <<streams, listener, accepted, forwarded, closed>>

-----------------------------------------------------------------------------
(* Frames *)

\* As BigEndian, the other way round.
LittleEndian(n) == <<n % 256, (n \div 256) % 256, (n \div 65536) % 256, (n \div 16777216) % 256>>

\* (n as u32).to_be_bytes() and from_be_bytes
BigEndian(n) == <<(n \div 16777216) % 256, (n \div 65536) % 256, (n \div 256) % 256, n % 256>>
FromBigEndian(b) == b[1] * 16777216 + b[2] * 65536 + b[3] * 256 + b[4]

Encode(m) == BigEndian(Len(Payload[m])) \o Payload[m]

Decoded(m) == [kind |-> "message", msg |-> m]
Incomplete == [kind |-> "incomplete"]
Undecodable == [kind |-> "error"]
Panic == [kind |-> "panic"]

\* postcard::from_bytes, which ignores what comes after the message
Decode(data) ==
    IF \E m \in Messages : IsPrefix(Payload[m], data)
    THEN Decoded(CHOOSE m \in Messages : IsPrefix(Payload[m], data))
    ELSE Undecodable

\* decode(&buf[4..4 + len]): a slice past the end of the buffer panics.
DecodeBody(buf, len) ==
    IF 4 + len <= Len(buf) THEN Decode(SubSeq(buf, 5, 4 + len)) ELSE Panic

\* As DecodeFrame, without comparing the length with what is there.
DecodeFrameUnchecked(buf) ==
    IF Len(buf) < 4 THEN Incomplete ELSE DecodeBody(buf, FromBigEndian(SubSeq(buf, 1, 4)))

DecodeFrame(buf) ==
    IF Len(buf) < 4
    THEN Incomplete
    ELSE LET len == FromBigEndian(SubSeq(buf, 1, 4))
         IN  IF Len(buf) < 4 + len THEN Incomplete ELSE DecodeBody(buf, len)

-----------------------------------------------------------------------------
Init ==
    /\ streams = <<>>
    /\ listener = "select"
    /\ accepted = 0
    /\ forwarded = <<>>
    /\ closed = FALSE

(* send_to_peer and send_to_addr, from open_bi on *)

\* open_bi: of two tasks the one that opens first has the lower stream.
OpenStream(m) ==
    /\ Len(streams) < MaxStreams /\ ~closed
    /\ streams' = Append(streams, [msg |-> m, sent |-> 0, finished |-> FALSE])
    /\ UNCHANGED <<listener, accepted, forwarded, closed>>

\* write_all: some more bytes of the frame arrive.
WriteSome(i) ==
    /\ ~closed /\ ~streams[i].finished
    /\ \E n \in (streams[i].sent + 1)..Len(Encode(streams[i].msg)) :
          streams' = [streams EXCEPT ![i].sent = n]
    /\ UNCHANGED <<listener, accepted, forwarded, closed>>

\* finish, after the last byte
FinishStream(i) ==
    /\ ~closed /\ ~streams[i].finished
    /\ streams[i].sent = Len(Encode(streams[i].msg))
    /\ streams' = [streams EXCEPT ![i].finished = TRUE]
    /\ UNCHANGED <<listener, accepted, forwarded, closed>>

\* The task ends earlier: encode fails, or the view that spawned it is gone.  A
\* stream that is dropped finishes with what was written.
AbandonStream(i) ==
    /\ ~closed /\ ~streams[i].finished
    /\ streams' = [streams EXCEPT ![i].finished = TRUE]
    /\ UNCHANGED <<listener, accepted, forwarded, closed>>

CloseConnection ==
    /\ ~closed
    /\ closed' = TRUE
    /\ UNCHANGED <<streams, listener, accepted, forwarded>>

-----------------------------------------------------------------------------
(* spawn_stream_listener *)

\* accept_bi: streams come in the order of opening, as soon as one of them or a
\* later one has carried anything.
AcceptStream ==
    /\ listener = "select" /\ ~closed
    /\ \E i \in accepted + 1 .. Len(streams) : streams[i].sent > 0 \/ streams[i].finished
    /\ accepted' = accepted + 1
    /\ listener' = "reading"
    /\ UNCHANGED <<streams, forwarded, closed>>

Received == SubSeq(Encode(streams[accepted].msg), 1, streams[accepted].sent)

\* read_to_end returns the stream; a message is forwarded, anything else only logged.
ReadToEnd ==
    /\ listener = "reading" /\ streams[accepted].finished /\ Len(Received) <= Limit
    /\ LET r == DecodeFrame(Received) IN
          /\ forwarded' = IF r.kind = "message" THEN Append(forwarded, r.msg) ELSE forwarded
          /\ listener' = IF r.kind = "panic" THEN "ended" ELSE "select"
    /\ UNCHANGED <<streams, accepted, closed>>

\* As ReadFails, with break in place of continue.
ReadFailsForGood ==
    /\ listener = "reading" /\ (Len(Received) > Limit \/ closed)
    /\ listener' = "ended"
    /\ UNCHANGED <<streams, accepted, forwarded, closed>>

\* read_to_end fails: more bytes than the limit, or the connection is lost.
ReadFails ==
    /\ listener = "reading" /\ (Len(Received) > Limit \/ closed)
    /\ listener' = "select"
    /\ UNCHANGED <<streams, accepted, forwarded, closed>>

\* accept_bi fails.
ListenerEnds ==
    /\ listener = "select" /\ closed
    /\ listener' = "ended"
    /\ UNCHANGED <<streams, accepted, forwarded, closed>>

-----------------------------------------------------------------------------
SendStep(i) == WriteSome(i) \/ FinishStream(i) \/ AbandonStream(i)
ListenerStep == AcceptStream \/ ReadToEnd \/ ReadFails \/ ListenerEnds

Next ==
    \/ \E m \in Messages : OpenStream(m)
    \/ \E i \in DOMAIN streams : SendStep(i)
    \/ CloseConnection
    \/ ListenerStep

Spec == Init /\ [][Next]_vars

\* The runtime polls the listener and every task that sends; nobody has to send,
\* and the connection may stay.
Fairness ==
    /\ WF_vars(ListenerStep)
    /\ \A i \in 1..MaxStreams : WF_vars(i \in DOMAIN streams /\ SendStep(i))

FairSpec == Spec /\ Fairness

-----------------------------------------------------------------------------
(* Properties *)

\* The stream carried its whole frame, and the listener takes frames of that size.
Whole(i) ==
    LET size == Len(Encode(streams[i].msg)) IN
    streams[i].finished /\ streams[i].sent = size /\ size <= Limit

\* The streams that the listener is done with, and those of them that were whole.
Settled == 1 .. (IF listener = "reading" THEN accepted - 1 ELSE accepted)
SettledWhole == {i \in Settled : Whole(i)}

\* The k-th message forwarded is that of stream at[k].
ForwardedFrom(at) ==
    /\ \A k \in DOMAIN forwarded : forwarded[k] = streams[at[k]].msg
    /\ \A k, l \in DOMAIN forwarded : k < l => at[k] < at[l]

\* While the connection lives, the loop has got the message of every whole stream
\* read so far, in the order the streams were opened, whichever task finished
\* first, and nothing of those that broke off.
WholeInOrder ==
    ~closed => \E at \in [DOMAIN forwarded -> SettledWhole] :
                  /\ ForwardedFrom(at)
                  /\ \A i \in SettledWhole : \E k \in DOMAIN forwarded : at[k] = i

\* No stream, wherever it breaks off and however long it is, stops the listener: the
\* peer has no other one for the messages after it.
ListenerSurvives == listener = "ended" => closed

\* Unless the connection is lost, every message written whole is forwarded: no stream
\* before it keeps the listener for good.
WholeIsForwarded ==
    \A i \in 1..MaxStreams :
       i \in DOMAIN streams /\ Whole(i) ~>
          closed \/ accepted > i \/ (accepted = i /\ listener = "select")
=============================================================================
