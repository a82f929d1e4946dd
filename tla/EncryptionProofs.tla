-------------------------- MODULE EncryptionProofs --------------------------
(* Encryption between peers, for every number of peers, messages and invites, until
   a process dies, a message is lost or an operation fails: none is sent in the clear
   but to a peer whose key is no curve point, and all are readable but that peer's. *)
EXTENDS MessengerProofs

-----------------------------------------------------------------------------
(* The inductive invariant *)

\* There has been no fault, so that every process is there.
Faultless == used.crashes = 0 /\ used.faults = 0 /\ \A p \in Peers : node[p] # "off"

\* How q seals a message for p.
Sealing(q, p) == IF p \in Malformed THEN Plain ELSE SharedKey(q, p)

\* A peer's Hello carries its own key, and its messages are sealed for the two of them
\* if the other's key allows it.
GoodWire(q, p, w) ==
    /\ w.kind = "hello" => w.key = q
    /\ w.kind = "chat" => w.sealed = Sealing(q, p)
GoodOnNet(q, p, s) == \A i \in DOMAIN s : GoodWire(q, p, s[i])
GoodRead(p, s) == \A i \in DOMAIN s : GoodWire(s[i].from, p, s[i].msg)
GoodInHand(q, t) == t.pc = "send" => GoodWire(q, t.to, t.msg)
WiresGood ==
    /\ \A p, q \in Peers : GoodOnNet(q, p, net[q][p])
    /\ \A p \in Peers : GoodRead(p, inq[p]) /\ GoodInHand(p, task[p])

\* A key that is known is the right one, and a cached one is derived from a curve point.
KeysGood ==
    \A p, q \in Peers : /\ peerKeys[p][q] \in {NoKey, q}
                        /\ symKeys[p][q] \in {NoKey, q}
                        /\ q \in Malformed => symKeys[p][q] = NoKey
HasKey(p, q) == peerKeys[p][q] = q

\* The kind of what q sends to p; in a queue every chat message is behind a Hello.
WireKind == [w \in Wires |-> w.kind]
ArrivalKind(p, q) == [a \in Arrivals(p) |-> IF a.from = q THEN a.msg.kind ELSE "none"]
Behind(s, kind) ==
    \A i \in DOMAIN s : kind[s[i]] = "chat" => \E j \in DOMAIN s : j < i /\ kind[s[j]] = "hello"

\* q has not sent p a Hello, and does not send anything else before it.
Unsent(q, p) ==
    /\ task[q].pc = "send" /\ task[q].to = p => task[q].msg.kind # "chat"
    /\ p \in peerIds[q] => task[q].pc = "send" /\ task[q].to = p /\ task[q].msg.kind = "hello"
    /\ ~(invite[q].pc = "sent" /\ invite[q].to = p)

\* The Hello of q is ahead of every chat message of q, wherever both are, until p has its key.
OnNet(q, p) ==
    /\ Behind(net[q][p], WireKind)
    /\ In(net[q][p], WireKind, "hello") \/ Unsent(q, p)
Read(q, p) ==
    /\ Behind(inq[p], ArrivalKind(p, q))
    /\ In(inq[p], ArrivalKind(p, q), "hello") \/ OnNet(q, p)
Introduced == \A p, q \in Peers : HasKey(p, q) \/ Read(q, p)

\* The key of a peer is there before its chat is opened or written to.
Listed(p) == {c.peer : c \in ToSet(chats[p])}
KnownIn(p, s) == \A i \in DOMAIN s : HasKey(p, s[i].to)
ChatsKnown ==
    \A p \in Peers :
       /\ \A q \in Listed(p) : HasKey(p, q) \/ (invite[p].pc = "registering" /\ invite[p].to = q)
       /\ view[p] # NoView => HasKey(p, view[p].chat)
       /\ KnownIn(p, outq[p])

\* What q writes may show as this text.
MayShow(q, text) == text = Unreadable => q \in Malformed

\* What was received was readable, and its sender is known.
ReadableIn(p, s) ==
    \A i \in DOMAIN s : /\ s[i].kind = "connected" => HasKey(p, s[i].peer)
                        /\ s[i].kind = "message" => MayShow(s[i].peer, s[i].msg.text)
ReceivedReadable ==
    \A p \in Peers :
       /\ task[p].pc \in {"ack", "deliver"} => HasKey(p, task[p].from) /\ MayShow(task[p].from, task[p].text)
       /\ ReadableIn(p, uiq[p])
RowsReadable == \A p, q \in Peers : \A i \in DOMAIN dbMsgs[p][q] : MayShow(q, dbMsgs[p][q][i].text)

\* The inductive invariant as long as there has been no fault.
SecretInv ==
    /\ Inv /\ Faultless /\ KeysGood /\ WiresGood /\ Introduced
    /\ ChatsKnown /\ ReceivedReadable /\ RowsReadable

-----------------------------------------------------------------------------
(* Queues *)

\* The elements of the rest of a queue.
LEMMA TailHolds ==
    ASSUME NEW S, NEW s \in Seq(S), s # <<>>
    PROVE  \A i \in DOMAIN Tail(s) : \E j \in DOMAIN s : Tail(s)[i] = s[j]
  BY TailTyped

\* The elements of a longer queue.
LEMMA AppendHolds ==
    ASSUME NEW S, NEW s \in Seq(S), NEW e \in S
    PROVE  \A i \in DOMAIN Append(s, e) : (\E j \in DOMAIN s : Append(s, e)[i] = s[j]) \/ Append(s, e)[i] = e
  BY AppendTyped

\* The first in a queue is no chat message, and the others are still behind a Hello
\* unless the first is one.
LEMMA BehindTail ==
    ASSUME NEW S, NEW s \in Seq(S), s # <<>>, NEW kind, Behind(s, kind)
    PROVE  /\ kind[Head(s)] # "chat"
           /\ kind[Head(s)] # "hello" => Behind(Tail(s), kind)
           /\ kind[Head(s)] # "hello" /\ In(s, kind, "hello") => In(Tail(s), kind, "hello")
  <1>1. /\ 1 \in DOMAIN s /\ Head(s) = s[1]
        /\ \A i \in DOMAIN Tail(s) : i \in Nat /\ i + 1 \in DOMAIN s /\ Tail(s)[i] = s[i + 1]
        /\ \A i \in DOMAIN s : i \in Nat /\ ~(i < 1) /\ (i # 1 => i - 1 \in DOMAIN Tail(s) /\ Tail(s)[i - 1] = s[i])
    BY TailTyped
  <1>2. PICK t, h : t = Tail(s) /\ h = Head(s)
    OBVIOUS
  <1>3. kind[h] # "chat"
    BY <1>1, <1>2 DEF Behind
  <1>4. ASSUME kind[h] # "hello" PROVE Behind(t, kind)
    <2> SUFFICES ASSUME NEW i \in DOMAIN t, kind[t[i]] = "chat"
                 PROVE  \E j \in DOMAIN t : j < i /\ kind[t[j]] = "hello"
      BY DEF Behind
    <2>1. i \in Nat /\ i + 1 \in DOMAIN s /\ kind[s[i + 1]] = "chat"
      BY <1>1, <1>2
    <2>2. PICK j \in DOMAIN s : j < i + 1 /\ kind[s[j]] = "hello"
      BY <2>1 DEF Behind
    <2>3. j \in Nat /\ j # 1
      BY <1>1, <1>2, <1>4, <2>2
    <2>4. j - 1 \in DOMAIN t /\ t[j - 1] = s[j]
      BY <1>1, <1>2, <2>3
    <2>5. j - 1 < i
      BY <2>1, <2>2, <2>3
    <2> QED
      BY <2>2, <2>4, <2>5
  <1>5. ASSUME kind[h] # "hello", In(s, kind, "hello") PROVE In(t, kind, "hello")
    <2>1. PICK j \in DOMAIN s : kind[s[j]] = "hello"
      BY <1>5 DEF In
    <2>2. j - 1 \in DOMAIN t /\ t[j - 1] = s[j]
      BY <1>1, <1>2, <1>5, <2>1
    <2> QED
      BY <2>1, <2>2 DEF In
  <1> QED
    BY <1>2, <1>3, <1>4, <1>5

\* One more in a queue: a chat message only behind a Hello.
LEMMA BehindAppend ==
    ASSUME NEW S, NEW s \in Seq(S), NEW e \in S, NEW kind, Behind(s, kind),
           kind[e] = "chat" => In(s, kind, "hello")
    PROVE  /\ Behind(Append(s, e), kind)
           /\ In(s, kind, "hello") \/ kind[e] = "hello" => In(Append(s, e), kind, "hello")
  <1>1. PICK t, m : t = Append(s, e) /\ m = Len(s) + 1
    OBVIOUS
  <1>2. /\ DOMAIN t = DOMAIN s \cup {m} /\ t[m] = e
        /\ \A i \in DOMAIN s : i \in Nat /\ i < m /\ t[i] = s[i]
    BY <1>1, AppendTyped
  <1>3. Behind(t, kind)
    <2> SUFFICES ASSUME NEW i \in DOMAIN t, kind[t[i]] = "chat"
                 PROVE  \E j \in DOMAIN t : j < i /\ kind[t[j]] = "hello"
      BY DEF Behind
    <2>1. CASE i \in DOMAIN s
      <3>1. PICK j \in DOMAIN s : j < i /\ kind[s[j]] = "hello"
        BY <1>2, <2>1 DEF Behind
      <3> QED
        BY <1>2, <3>1
    <2>2. CASE i = m
      <3>1. PICK j \in DOMAIN s : kind[s[j]] = "hello"
        BY <1>2, <2>2 DEF In
      <3> QED
        BY <1>2, <2>2, <3>1
    <2> QED
      BY <1>2, <2>1, <2>2
  <1>4. ASSUME In(s, kind, "hello") \/ kind[e] = "hello" PROVE In(t, kind, "hello")
    BY <1>2, <1>4 DEF In
  <1> QED
    BY <1>1, <1>3, <1>4

-----------------------------------------------------------------------------
(* Keys, and what does not change *)

\* The key of two peers is the same from both ends, and does not mark a message as in the clear.
LEMMA SealedForTwo ==
    ASSUME NEW p \in Peers, NEW q \in Peers
    PROVE  SharedKey(p, q) = SharedKey(q, p) /\ SharedKey(p, q) # Plain
  <1>1. SharedKey(p, q) = {p, q} /\ SharedKey(q, p) = {p, q} /\ Plain # {p, q}
    BY KeysAssumption DEF SharedKey
  <1> QED
    BY <1>1

\* A key that is known is the one messages are sealed with.
LEMMA KeySourceGood ==
    ASSUME KeysGood, NEW p \in Peers, NEW q \in Peers
    PROVE  /\ KeySource(p, q) \in {NoKey, q} /\ q # NoKey
           /\ HasKey(p, q) <=> peerKeys[p][q] # NoKey
           /\ HasKey(p, q) => KeySource(p, q) = IF q \in Malformed THEN NoKey ELSE q
  BY KeysAssumption DEF KeysGood, HasKey, KeySource

\* The kind of what is on its way and of what was read.
LEMMA KindsTyped ==
    ASSUME NEW p \in Peers, NEW q \in Peers
    PROVE  /\ \A w \in Wires : WireKind[w] = w.kind
           /\ \A a \in Arrivals(p) : ArrivalKind(p, q)[a] = IF a.from = q THEN a.msg.kind ELSE "none"
  BY DEF WireKind, ArrivalKind

\* A fault is counted.
LEMMA NoFaultCounted ==
    ASSUME Typed, NoFaults', Faultless
    PROVE  ~Fault
  BY DEF NoFaults, Faultless, Typed, UsedTyped, Fault

\* Without faults a message that is sent is on its way.
LEMMA FaultlessSend ==
    ASSUME Typed, NoFaults', Faultless, NEW a \in Peers, NEW b \in Others(a), NEW m \in Wires, Send(a, b, m)
    PROVE  /\ used' = used /\ net[a][b] \in Seq(Wires) /\ net'[a][b] = Append(net[a][b], m)
           /\ \A p, q \in Peers : ~(q = a /\ p = b) => net'[q][p] = net[q][p]
  <1>1. net \in [Peers -> [Peers -> Seq(Wires)]] /\ b \in Peers
    BY DEF Typed, NetTyped, Others
  <1>2. node[b] # "off" /\ ~(used.crashes > 0)
    BY <1>1 DEF Faultless
  <1>3. ~Fault
    BY NoFaultCounted
  <1>4. net' = [net EXCEPT ![a][b] = Append(net[a][b], m)] /\ used' = used
    BY <1>2, <1>3 DEF Send
  <1>5. net[a][b] \in Seq(Wires) /\ Append(net[a][b], m) \in Seq(Wires)
    BY <1>1, AppendTyped
  <1> QED
    BY <1>1, <1>4, <1>5, Entry2

\* Everything but the types.
Secrets ==
    Faultless /\ KeysGood /\ WiresGood /\ Introduced /\ ChatsKnown /\ ReceivedReadable /\ RowsReadable

\* What rests on unchanged variables.
LEMMA SecretsKept ==
    ASSUME Secrets
    PROVE  /\ UNCHANGED <<node, used>> => Faultless'
           /\ UNCHANGED <<peerKeys, symKeys>> => KeysGood'
           /\ UNCHANGED <<net, inq, task>> => WiresGood'
           /\ UNCHANGED <<chats, view, outq, invite, peerKeys>> => ChatsKnown'
           /\ UNCHANGED <<task, uiq, peerKeys>> => ReceivedReadable'
           /\ UNCHANGED dbMsgs => RowsReadable'
  <1>1. UNCHANGED <<node, used>> => Faultless'
    BY DEF Secrets, Faultless
  <1>2. UNCHANGED <<peerKeys, symKeys>> => KeysGood'
    BY DEF Secrets, KeysGood
  <1>3. UNCHANGED <<net, inq, task>> => WiresGood'
    BY DEF Secrets, WiresGood
  <1>4. UNCHANGED <<chats, view, outq, invite, peerKeys>> => ChatsKnown'
    BY DEF Secrets, ChatsKnown, Listed, KnownIn, HasKey
  <1>5. UNCHANGED <<task, uiq, peerKeys>> => ReceivedReadable'
    BY DEF Secrets, ReceivedReadable, ReadableIn, HasKey
  <1>6. UNCHANGED dbMsgs => RowsReadable'
    BY DEF Secrets, RowsReadable
  <1> QED
    BY <1>1, <1>2, <1>3, <1>4, <1>5, <1>6

\* q still has sent p nothing.
LEMMA UnsentKept ==
    ASSUME NEW p \in Peers, NEW q \in Peers, Unsent(q, p),
           \/ task'[q] = task[q]
           \/ task[q].pc # "send" /\ task'[q].pc # "send",
           p \in peerIds'[q] => p \in peerIds[q],
           invite'[q].pc = "sent" /\ invite'[q].to = p => invite[q].pc = "sent" /\ invite[q].to = p
    PROVE  Unsent(q, p)'
  BY DEF Unsent

\* The Hello of q to p stays ahead where nothing moves.
LEMMA ReadKept ==
    ASSUME NEW p \in Peers, NEW q \in Peers, Read(q, p),
           inq'[p] = inq[p], net'[q][p] = net[q][p], Unsent(q, p) => Unsent(q, p)'
    PROVE  Read(q, p)'
  BY DEF Read, OnNet

\* No new message, no new key: everybody is as far as before.
LEMMA IntroducedKept ==
    ASSUME Introduced, UNCHANGED <<peerKeys, inq, net>>, \A p, q \in Peers : Unsent(q, p) => Unsent(q, p)'
    PROVE  Introduced'
  <1>1. ASSUME NEW p \in Peers, NEW q \in Peers, ~HasKey(p, q)' PROVE Read(q, p)'
    <2>1. Read(q, p)
      BY <1>1 DEF Introduced, HasKey
    <2> QED
      BY <2>1, ReadKept
  <1> QED
    BY <1>1 DEF Introduced

\* Keys become known, and nothing moves: everybody is at least as far as before.
LEMMA IntroducedGrows ==
    ASSUME Introduced, UNCHANGED <<inq, net>>, \A p, q \in Peers : HasKey(p, q) => HasKey(p, q)',
           \A p, q \in Peers : Unsent(q, p) => Unsent(q, p)'
    PROVE  Introduced'
  <1>1. ASSUME NEW p \in Peers, NEW q \in Peers, ~HasKey(p, q)' PROVE Read(q, p)'
    <2>1. Read(q, p)
      BY <1>1 DEF Introduced
    <2> QED
      BY <2>1, ReadKept
  <1> QED
    BY <1>1 DEF Introduced

\* A message is sent: a Hello, or one behind a Hello.
LEMMA SendIntroduced ==
    ASSUME Typed, NoFaults', Faultless, Introduced, UNCHANGED <<peerKeys, inq>>,
           NEW a \in Peers, NEW b \in Others(a), NEW m \in Wires, Send(a, b, m),
           m.kind = "chat" => ~Unsent(a, b),
           \A p, q \in Peers : Unsent(q, p) /\ ~(q = a /\ p = b /\ m.kind = "hello") => Unsent(q, p)'
    PROVE  Introduced'
  <1>1. /\ net[a][b] \in Seq(Wires) /\ net'[a][b] = Append(net[a][b], m) /\ b \in Peers
        /\ \A p, q \in Peers : ~(q = a /\ p = b) => net'[q][p] = net[q][p]
    BY FaultlessSend DEF Others
  <1>2. ASSUME OnNet(a, b) PROVE OnNet(a, b)'
    <2>1. PICK s \in Seq(Wires), kind \in {WireKind} : s = net[a][b] /\ kind = WireKind
      BY <1>1
    <2>2. kind[m] = m.kind
      BY <2>1 DEF WireKind
    <2>3. Behind(s, kind) /\ (In(s, kind, "hello") \/ Unsent(a, b))
      BY <1>2, <2>1 DEF OnNet
    <2>4. kind[m] = "chat" => In(s, kind, "hello")
      BY <2>2, <2>3
    <2>5. /\ Behind(Append(s, m), kind)
          /\ In(s, kind, "hello") \/ kind[m] = "hello" => In(Append(s, m), kind, "hello")
      BY <2>3, <2>4, BehindAppend
    <2>6. In(Append(s, m), kind, "hello") \/ Unsent(a, b)'
      BY <1>1, <2>2, <2>3, <2>5
    <2>7. net'[a][b] = Append(s, m) /\ WireKind = kind
      BY <1>1, <2>1
    <2> QED
      BY <2>5, <2>6, <2>7 DEF OnNet
  <1>3. ASSUME NEW p \in Peers, NEW q \in Peers, OnNet(q, p) PROVE OnNet(q, p)'
    <2>1. CASE q = a /\ p = b
      BY <1>2, <1>3, <2>1
    <2>2. CASE ~(q = a /\ p = b)
      BY <1>1, <1>3, <2>2 DEF OnNet
    <2> QED
      BY <2>1, <2>2
  <1>4. ASSUME NEW p \in Peers, NEW q \in Peers, ~HasKey(p, q)' PROVE Read(q, p)'
    <2>1. Read(q, p)
      BY <1>4 DEF Introduced, HasKey
    <2> QED
      BY <1>3, <2>1 DEF Read
  <1> QED
    BY <1>4 DEF Introduced

\* A message of the right kind is sent: what is on the network is good.
LEMMA SendGood ==
    ASSUME Typed, NoFaults', Faultless, WiresGood,
           NEW a \in Peers, NEW b \in Others(a), NEW m \in Wires, Send(a, b, m), GoodWire(a, b, m)
    PROVE  \A p, q \in Peers : GoodOnNet(q, p, net'[q][p])
  <1>1. /\ net[a][b] \in Seq(Wires) /\ net'[a][b] = Append(net[a][b], m) /\ b \in Peers
        /\ \A p, q \in Peers : ~(q = a /\ p = b) => net'[q][p] = net[q][p]
    BY FaultlessSend DEF Others
  <1>2. \A p, q \in Peers : GoodOnNet(q, p, net[q][p])
    BY DEF WiresGood
  <1>3. GoodOnNet(a, b, Append(net[a][b], m))
    <2>1. GoodOnNet(a, b, net[a][b])
      BY <1>1, <1>2
    <2>2. \A i \in DOMAIN Append(net[a][b], m) :
             (\E j \in DOMAIN net[a][b] : Append(net[a][b], m)[i] = net[a][b][j]) \/ Append(net[a][b], m)[i] = m
      BY <1>1, AppendHolds
    <2> QED
      BY <2>1, <2>2 DEF GoodOnNet
  <1> QED
    BY <1>1, <1>2, <1>3

\* A row of readable text is added, or refused.
LEMMA AddReadable ==
    ASSUME Typed, RowsReadable, NEW a \in Peers, NEW b \in Others(a), NEW msg \in Messages,
           MayShow(b, msg.text), AddMessage(a, b, msg)
    PROVE  RowsReadable'
  <1>1. /\ IF Taken(a, msg) THEN dbMsgs' = dbMsgs
           ELSE dbMsgs' = [dbMsgs EXCEPT ![a][b] = Append(dbMsgs[a][b], msg)]
        /\ Append(dbMsgs[a][b], msg) \in Seq(Messages)
    BY AddEffect
  <1>2. dbMsgs \in [Peers -> [Peers -> Seq(Messages)]] /\ b \in Peers
    BY DEF Typed, DbMsgsTyped, Others
  <1>3. CASE Taken(a, msg)
    BY <1>1, <1>3 DEF RowsReadable
  <1>4. CASE ~Taken(a, msg)
    <2>1. PICK s \in Seq(Messages), t \in {Append(dbMsgs[a][b], msg)} : s = dbMsgs[a][b] /\ t = Append(s, msg)
      BY <1>2
    <2>2. t \in Seq(Messages) /\ dbMsgs' = [dbMsgs EXCEPT ![a][b] = t]
      BY <1>1, <1>4, <2>1
    <2>3. dbMsgs'[a][b] = t /\ \A p, q \in Peers : ~(p = a /\ q = b) => dbMsgs'[p][q] = dbMsgs[p][q]
      BY <1>2, <2>2, Entry2
    <2>4. \A i \in DOMAIN t : (\E j \in DOMAIN s : t[i] = s[j]) \/ t[i] = msg
      BY <2>1, AppendHolds
    <2>5. \A i \in DOMAIN t : MayShow(b, t[i].text)
      BY <1>2, <2>1, <2>4 DEF RowsReadable
    <2>6. ASSUME NEW p \in Peers, NEW q \in Peers
          PROVE  \A i \in DOMAIN dbMsgs'[p][q] : MayShow(q, dbMsgs'[p][q][i].text)
      <3>1. CASE p = a /\ q = b
        BY <2>3, <2>5, <3>1
      <3>2. CASE ~(p = a /\ q = b)
        BY <2>3, <3>2 DEF RowsReadable
      <3> QED
        BY <3>1, <3>2
    <2> QED
      BY <2>6 DEF RowsReadable
  <1> QED
    BY <1>3, <1>4

\* A number is readable text.
LEMMA NumberReadable == \A n \in Numbers : n # Unreadable
  BY KeysAssumption DEF Numbers

\* What is listed, open or queued is of peers.
LEMMA KnownPeers ==
    ASSUME Typed, NEW p \in Peers
    PROVE  /\ Listed(p) \subseteq Peers
           /\ view[p] # NoView => view[p].chat \in Peers
           /\ \A i \in DOMAIN outq[p] : outq[p][i].to \in Peers
           /\ \A i \in DOMAIN uiq[p] : uiq[p][i].kind = "connected" => uiq[p][i].peer \in Peers
           /\ task[p].pc \in {"ack", "deliver"} => task[p].from \in Peers
  <1>1. /\ chats[p] \in Seq(Entries(p)) /\ outq[p] \in Seq(Orders(p)) /\ uiq[p] \in Seq(Updates(p))
        /\ view[p] \in Views(p)
    BY DEF Typed, ChatsTyped, OutqTyped, UiqTyped, ViewTyped
  <1>2. Listed(p) \subseteq Peers
    <2>1. \A i \in DOMAIN chats[p] : chats[p][i] \in Entries(p)
      BY <1>1, SeqElement
    <2> QED
      BY <2>1 DEF Listed, ToSet, Entries, Others
  <1>3. view[p] # NoView => view[p].chat \in Peers
    BY <1>1, OpenViewTyped DEF Others
  <1>4. \A i \in DOMAIN outq[p] : outq[p][i].to \in Peers
    <2>1. \A i \in DOMAIN outq[p] : outq[p][i] \in Orders(p)
      BY <1>1, SeqElement
    <2> QED
      BY <2>1 DEF Orders, Others
  <1>5. \A i \in DOMAIN uiq[p] : uiq[p][i].kind = "connected" => uiq[p][i].peer \in Peers
    <2>1. \A i \in DOMAIN uiq[p] : uiq[p][i] \in Updates(p)
      BY <1>1, SeqElement
    <2> QED
      BY <2>1 DEF Updates, Others
  <1> QED
    BY <1>2, <1>3, <1>4, <1>5, TaskHolds

\* The key p has of q after the step, whatever variables p and q stand for.
WillHaveKey(p, q) == peerKeys'[p][q] = q

\* While known keys stay known, what rests on them goes on.
LEMMA KeysGrow ==
    ASSUME Typed, Secrets, \A p, q \in Peers : HasKey(p, q) => HasKey(p, q)'
    PROVE  /\ UNCHANGED <<task, uiq>> => ReceivedReadable'
           /\ UNCHANGED <<view, outq>> => \A p \in Peers : /\ (view[p] # NoView => HasKey(p, view[p].chat))'
                                                           /\ KnownIn(p, outq[p])'
           /\ \A p \in Peers : \A i \in DOMAIN uiq[p] :
                 /\ uiq[p][i].kind = "connected" => WillHaveKey(p, uiq[p][i].peer)
                 /\ uiq[p][i].kind = "message" => MayShow(uiq[p][i].peer, uiq[p][i].msg.text)
  <1>1. \A p, q \in Peers : HasKey(p, q) => WillHaveKey(p, q)
    BY DEF HasKey, WillHaveKey
  <1>2. ASSUME NEW p \in Peers, NEW i \in DOMAIN uiq[p]
        PROVE  /\ uiq[p][i].kind = "connected" => WillHaveKey(p, uiq[p][i].peer)
               /\ uiq[p][i].kind = "message" => MayShow(uiq[p][i].peer, uiq[p][i].msg.text)
    <2>1. ReadableIn(p, uiq[p])
      BY DEF Secrets, ReceivedReadable
    <2> QED
      BY <1>1, <2>1, KnownPeers DEF ReadableIn
  <1>3. ASSUME UNCHANGED <<task, uiq>> PROVE ReceivedReadable'
    <2>1. \A p \in Peers : task[p].pc \in {"ack", "deliver"} =>
             WillHaveKey(p, task[p].from) /\ MayShow(task[p].from, task[p].text)
      BY <1>1, KnownPeers DEF Secrets, ReceivedReadable
    <2> QED
      BY <1>2, <1>3, <2>1 DEF ReceivedReadable, ReadableIn, WillHaveKey, HasKey
  <1>4. ASSUME NEW p \in Peers, UNCHANGED <<view, outq>>
        PROVE  (view[p] # NoView => HasKey(p, view[p].chat))' /\ KnownIn(p, outq[p])'
    <2>1. (view[p] # NoView => HasKey(p, view[p].chat)) /\ KnownIn(p, outq[p])
      BY DEF Secrets, ChatsKnown
    <2>2. view[p] # NoView => WillHaveKey(p, view[p].chat)
      BY <1>1, <2>1, KnownPeers
    <2>3. \A i \in DOMAIN outq[p] : WillHaveKey(p, outq[p][i].to)
      BY <1>1, <2>1, KnownPeers DEF KnownIn
    <2> QED
      BY <1>4, <2>2, <2>3 DEF KnownIn, WillHaveKey, HasKey
  <1> QED
    BY <1>2, <1>3, <1>4

-----------------------------------------------------------------------------
(* Every action keeps messages secret and readable *)

\* A listed chat is opened: its peer's key is known.
LEMMA OpenChatSecret ==
    ASSUME SecretInv, NEW a \in Peers, OpenChat(a)
    PROVE  Secrets'
  <1>1. Typed /\ Secrets
    BY DEF SecretInv, Inv, Secrets
  <1>2. UNCHANGED <<node, dbMsgs, chats, peerKeys, symKeys, peerIds, outq, inq, uiq, task, invite, net, used>>
    BY DEF OpenChat
  <1>3. PICK c \in ToSet(chats[a]) : view' = [view EXCEPT ![a] = [chat |-> c.peer, msgs |-> mem[a][c.peer]]]
    BY DEF OpenChat
  <1>4. view'[a].chat = c.peer /\ \A r \in Peers : r # a => view'[r] = view[r]
    BY <1>1, <1>3, Entry DEF Typed, ViewTyped
  <1>5. invite[a].pc # "registering" /\ c.peer \in Listed(a)
    BY DEF OpenChat, UiFree, Listed
  <1>6. HasKey(a, c.peer)
    BY <1>1, <1>5 DEF Secrets, ChatsKnown
  <1>7. ChatsKnown'
    BY <1>1, <1>2, <1>4, <1>6 DEF Secrets, ChatsKnown, Listed, KnownIn, HasKey
  <1>8. Introduced'
    <2>1. \A p, q \in Peers : Unsent(q, p) => Unsent(q, p)'
      BY <1>2, UnsentKept
    <2> QED
      BY <1>1, <1>2, <2>1, IntroducedKept DEF Secrets
  <1> QED
    BY <1>1, <1>2, <1>7, <1>8, SecretsKept DEF Secrets

\* The user pastes an invite code.
LEMMA InviteSubmitSecret ==
    ASSUME SecretInv, NEW a \in Peers, NEW b \in Peers, InviteSubmit(a, b)
    PROVE  Secrets'
  <1>1. Typed /\ Secrets
    BY DEF SecretInv, Inv, Secrets
  <1>2. UNCHANGED <<node, dbMsgs, chats, view, peerKeys, symKeys, peerIds, outq, inq, uiq, task, net>>
    BY DEF InviteSubmit
  <1>3. /\ invite[a].pc = "closed" /\ invite'[a].pc = "sending"
        /\ \A r \in Peers : r # a => invite'[r] = invite[r]
    <2>1. invite[a] = Closed /\ invite' = [invite EXCEPT ![a] = [pc |-> "sending", to |-> b]]
      BY DEF InviteSubmit
    <2> QED
      BY <1>1, <2>1, Entry DEF Typed, InviteTyped, Closed
  <1>4. Faultless'
    <2>1. used' = [used EXCEPT !.invites = used.invites + 1]
      BY DEF InviteSubmit
    <2>2. used'.crashes = used.crashes /\ used'.faults = used.faults
      BY <1>1, <2>1 DEF Typed, UsedTyped
    <2> QED
      BY <1>1, <1>2, <2>2 DEF Secrets, Faultless
  <1>5. ChatsKnown'
    BY <1>1, <1>2, <1>3 DEF Secrets, ChatsKnown, Listed, KnownIn, HasKey
  <1>6. Introduced'
    <2>1. \A p, q \in Peers : Unsent(q, p) => Unsent(q, p)'
      BY <1>2, <1>3, UnsentKept
    <2> QED
      BY <1>1, <1>2, <2>1, IntroducedKept DEF Secrets
  <1> QED
    BY <1>1, <1>2, <1>4, <1>5, <1>6, SecretsKept DEF Secrets

\* start_node has its endpoint.
LEMMA NodeOnlineSecret ==
    ASSUME SecretInv, NEW a \in Peers, NodeOnline(a)
    PROVE  Secrets'
  <1>1. Typed /\ Secrets
    BY DEF SecretInv, Inv, Secrets
  <1>2. UNCHANGED <<dbMsgs, chats, view, peerKeys, symKeys, peerIds, outq, inq, uiq, task, invite, net, used>>
        /\ node' = [node EXCEPT ![a] = "online"]
    BY DEF NodeOnline, volatile
  <1>3. Faultless'
    BY <1>1, <1>2 DEF Typed, NodeTyped, Secrets, Faultless
  <1>4. Introduced'
    <2>1. \A p, q \in Peers : Unsent(q, p) => Unsent(q, p)'
      BY <1>2, UnsentKept
    <2> QED
      BY <1>1, <1>2, <2>1, IntroducedKept DEF Secrets
  <1> QED
    BY <1>1, <1>2, <1>3, <1>4, SecretsKept DEF Secrets

\* A message is typed into the open chat, to a peer whose key is known.
LEMMA UserSendSecret ==
    ASSUME SecretInv, NEW a \in Peers, UserSend(a)
    PROVE  Secrets'
  <1>1. Typed /\ Secrets
    BY DEF SecretInv, Inv, Secrets
  <1>2. /\ UNCHANGED <<node, chats, peerIds, peerKeys, symKeys, inq, uiq, task, invite, net>>
        /\ view[a] # NoView /\ used.sends < MaxSends
    BY DEF UserSend
  <1>3. /\ used \in [sends : 0 .. MaxSends, invites : Nat, crashes : Nat, faults : Nat] /\ MaxSends \in Nat
        /\ DOMAIN outq = Peers /\ outq[a] \in Seq(Orders(a))
        /\ DOMAIN view = Peers /\ view[a] \in Views(a)
    BY <1>1, BoundsAssumption DEF Typed, UsedTyped, OutqTyped, ViewTyped
  <1>4. PICK x \in Numbers, b \in Others(a) : x = used.sends + 1 /\ b = view[a].chat
    <2>1. used.sends + 1 \in Numbers
      BY <1>2, <1>3 DEF Numbers
    <2>2. view[a].chat \in Others(a)
      BY <1>2, <1>3, OpenViewTyped
    <2> QED
      BY <2>1, <2>2
  <1>5. PICK k \in Numbers :
           /\ AddMessage(a, b, [id |-> LocalId(k), text |-> x, mine |-> TRUE, status |-> "sent"])
           /\ outq' = IF node[a] = "online"
                      THEN [outq EXCEPT ![a] = Append(outq[a], [to |-> b, text |-> x])] ELSE outq
           /\ used' = [used EXCEPT !.sends = x]
    <2>1. PICK k \in (IF ClockCollides THEN 1 .. MaxSends ELSE {used.sends + 1}) :
           /\ AddMessage(a, b, [id |-> LocalId(k), text |-> x, mine |-> TRUE, status |-> "sent"])
           /\ outq' = IF node[a] = "online"
                      THEN [outq EXCEPT ![a] = Append(outq[a], [to |-> b, text |-> x])] ELSE outq
           /\ used' = [used EXCEPT !.sends = x]
      BY <1>4 DEF UserSend
    <2>2. k \in Numbers
      BY <1>4, <2>1 DEF Numbers
    <2> QED
      BY <2>1, <2>2
  <1>6. PICK msg : msg = [id |-> LocalId(k), text |-> x, mine |-> TRUE, status |-> "sent"]
    OBVIOUS
  <1>7. msg \in Messages /\ MayShow(b, msg.text)
    BY <1>6, NumberReadable DEF Messages, LocalId, Texts, Statuses, Numbers, MayShow
  <1>8. RowsReadable'
    BY <1>1, <1>5, <1>6, <1>7, AddReadable DEF Secrets
  <1>9. Faultless'
    <2>1. used'.crashes = used.crashes /\ used'.faults = used.faults
      BY <1>3, <1>5
    <2> QED
      BY <1>1, <1>2, <2>1 DEF Secrets, Faultless
  <1>10. view'[a].chat = b /\ \A r \in Peers : r # a => view'[r] = view[r]
    <2>1. view' = IF view[a].chat = b THEN [view EXCEPT ![a].msgs = mem'[a][b]] ELSE view
      BY <1>1, <1>5, <1>6, <1>7, AddEffect
    <2>2. view' = [view EXCEPT ![a] = [view[a] EXCEPT !.msgs = mem'[a][b]]]
      BY <1>4, <2>1
    <2>3. view[a] \in [chat : Others(a), msgs : Seq(Messages)]
      BY <1>2, <1>3, OpenViewTyped
    <2>4. [view[a] EXCEPT !.msgs = mem'[a][b]].chat = b
      BY <1>4, <2>3
    <2> QED
      BY <1>3, <2>2, <2>4
  <1>11. HasKey(a, b)
    BY <1>1, <1>2, <1>4 DEF Secrets, ChatsKnown
  <1>12. KnownIn(a, outq'[a]) /\ \A r \in Peers : r # a => outq'[r] = outq[r]
    <2>1. CASE outq' = outq
      BY <1>1, <2>1 DEF Secrets, ChatsKnown
    <2>2. CASE outq' = [outq EXCEPT ![a] = Append(outq[a], [to |-> b, text |-> x])]
      <3>1. PICK s \in Seq(Orders(a)), o \in Orders(a) :
               s = outq[a] /\ o = [to |-> b, text |-> x] /\ KnownIn(a, s)
        <4>1. [to |-> b, text |-> x] \in Orders(a)
          BY DEF Orders
        <4>2. KnownIn(a, outq[a])
          BY <1>1 DEF Secrets, ChatsKnown
        <4> QED
          BY <1>3, <4>1, <4>2
      <3>2. \A i \in DOMAIN Append(s, o) : (\E j \in DOMAIN s : Append(s, o)[i] = s[j]) \/ Append(s, o)[i] = o
        BY AppendHolds
      <3>3. KnownIn(a, Append(s, o))
        BY <1>11, <3>1, <3>2 DEF KnownIn
      <3>4. outq'[a] = Append(s, o) /\ \A r \in Peers : r # a => outq'[r] = outq[r]
        BY <1>3, <2>2, <3>1, Entry
      <3> QED
        BY <3>3, <3>4
    <2> QED
      BY <1>5, <2>1, <2>2
  <1>13. ChatsKnown'
    <2>1. \A r \in Peers : KnownIn(r, outq'[r])
      BY <1>1, <1>12 DEF Secrets, ChatsKnown
    <2>2. \A r \in Peers : view'[r] # NoView => HasKey(r, view'[r].chat)
      BY <1>1, <1>10, <1>11 DEF Secrets, ChatsKnown
    <2> QED
      BY <1>1, <1>2, <2>1, <2>2 DEF Secrets, ChatsKnown, Listed, KnownIn, HasKey
  <1>14. Introduced'
    <2>1. \A p, q \in Peers : Unsent(q, p) => Unsent(q, p)'
      BY <1>2, UnsentKept
    <2> QED
      BY <1>1, <1>2, <2>1, IntroducedKept DEF Secrets
  <1> QED
    BY <1>1, <1>2, <1>8, <1>9, <1>13, <1>14, SecretsKept DEF Secrets

\* The invite task sends its Hello.
LEMMA InviteSendSecret ==
    ASSUME NoFaults', SecretInv, NEW a \in Peers, InviteSend(a)
    PROVE  Secrets'
  <1>1. Typed /\ Secrets
    BY DEF SecretInv, Inv, Secrets
  <1>2. /\ Send(a, invite[a].to, Hello(a)) /\ invite[a].pc = "sending"
        /\ invite' = [invite EXCEPT ![a] = [invite[a] EXCEPT !.pc = "sent"]]
        /\ UNCHANGED <<node, dbMsgs, chats, view, peerIds, peerKeys, symKeys, outq, inq, uiq, task>>
    BY DEF InviteSend
  <1>3. PICK b \in Others(a) : b \in Peers /\ b = invite[a].to /\ invite[a] = [pc |-> "sending", to |-> b]
    BY <1>1, <1>2, InviteHolds
  <1>4. /\ invite'[a] = [pc |-> "sent", to |-> b]
        /\ \A r \in Peers : r # a => invite'[r] = invite[r]
    <2>1. [invite[a] EXCEPT !.pc = "sent"] = [pc |-> "sent", to |-> b]
      BY <1>3
    <2> QED
      BY <1>1, <1>2, <2>1, Entry DEF Typed, InviteTyped
  <1>5. PICK m \in Wires : m = Hello(a) /\ m.kind = "hello" /\ GoodWire(a, b, m) /\ Send(a, b, m)
    <2>1. Hello(a) \in Wires /\ Hello(a).kind = "hello" /\ GoodWire(a, b, Hello(a))
      BY DEF Hello, Wires, GoodWire
    <2> QED
      BY <1>2, <1>3, <2>1
  <1>6. Faultless'
    BY <1>1, <1>2, <1>5, FaultlessSend DEF Secrets, Faultless
  <1>7. WiresGood'
    <2>1. \A p, q \in Peers : GoodOnNet(q, p, net'[q][p])
      BY <1>1, <1>5, SendGood DEF Secrets
    <2> QED
      BY <1>1, <1>2, <2>1 DEF Secrets, WiresGood
  <1>8. ChatsKnown'
    <2>1. \A r \in Peers, q \in Peers : ~(invite[r].pc = "registering" /\ invite[r].to = q)
                                      \/ (invite'[r].pc = "registering" /\ invite'[r].to = q)
      BY <1>2, <1>4
    <2>2. \A r \in Peers : \A q \in Listed(r) : HasKey(r, q) \/ (invite'[r].pc = "registering" /\ invite'[r].to = q)
      BY <1>1, <2>1, KnownPeers DEF Secrets, ChatsKnown
    <2> QED
      BY <1>1, <1>2, <2>2 DEF Secrets, ChatsKnown, Listed, KnownIn, HasKey
  <1>9. Introduced'
    <2>1. ASSUME NEW p \in Peers, NEW q \in Peers, Unsent(q, p), ~(q = a /\ p = b /\ m.kind = "hello")
          PROVE  Unsent(q, p)'
      <3>1. invite'[q].pc = "sent" /\ invite'[q].to = p => invite[q].pc = "sent" /\ invite[q].to = p
        BY <1>4, <1>5, <2>1
      <3> QED
        BY <1>2, <2>1, <3>1, UnsentKept
    <2>2. \A p, q \in Peers : Unsent(q, p) /\ ~(q = a /\ p = b /\ m.kind = "hello") => Unsent(q, p)'
      BY <2>1
    <2> QED
      BY <1>1, <1>2, <1>5, <2>2, SendIntroduced DEF Secrets
  <1> QED
    BY <1>1, <1>2, <1>6, <1>7, <1>8, <1>9, SecretsKept DEF Secrets

\* The chat is listed, its key is not known yet; the Hello went out before.
LEMMA InviteListSecret ==
    ASSUME SecretInv, NEW a \in Peers, InviteList(a)
    PROVE  Secrets'
  <1>1. Typed /\ Secrets
    BY DEF SecretInv, Inv, Secrets
  <1>2. /\ invite[a].pc = "sent"
        /\ UNCHANGED <<node, dbMsgs, view, peerKeys, symKeys, outq, inq, uiq, task, net, used>>
    BY DEF InviteList
  <1>3. PICK b \in Others(a) : b \in Peers /\ b = invite[a].to /\ invite[a] = [pc |-> "sent", to |-> b]
    BY <1>1, <1>2, InviteHolds
  <1>4. PICK c : c = [peer |-> b, name |-> "Peer", key |-> b]
    OBVIOUS
  <1>5. c \in Entries(a) /\ c.peer = b
    BY <1>3, <1>4 DEF Entries, Names, Keys
  <1>6. /\ chats' = [chats EXCEPT ![a] = Append(chats[a], c)]
        /\ peerIds' = [peerIds EXCEPT ![a] = peerIds[a] \cup {b}]
        /\ invite' = [invite EXCEPT ![a] = [invite[a] EXCEPT !.pc = "registering"]]
    BY <1>3, <1>4 DEF InviteList
  <1>7. /\ invite'[a] = [pc |-> "registering", to |-> b]
        /\ \A r \in Peers : r # a => invite'[r] = invite[r]
    <2>1. [invite[a] EXCEPT !.pc = "registering"] = [pc |-> "registering", to |-> b]
      BY <1>3
    <2> QED
      BY <1>1, <1>6, <2>1, Entry DEF Typed, InviteTyped
  <1>8. peerIds'[a] = peerIds[a] \cup {b} /\ \A r \in Peers : r # a => peerIds'[r] = peerIds[r]
    BY <1>1, <1>6, Entry DEF Typed, PeerIdsTyped
  <1>9. PICK s \in Seq(Entries(a)), t \in {Append(chats[a], c)} :
           /\ s = chats[a] /\ t = Append(s, c) /\ chats'[a] = t
           /\ \A r \in Peers : r # a => chats'[r] = chats[r]
    BY <1>1, <1>6, Entry DEF Typed, ChatsTyped
  <1>10. \A q : q \in Listed(a)' => q \in Listed(a) \/ q = b
    <2>1. \A i \in DOMAIN t : (\E j \in DOMAIN s : t[i] = s[j]) \/ t[i] = c
      BY <1>5, <1>9, AppendHolds
    <2>2. \A d \in ToSet(t) : d \in ToSet(s) \/ d = c
      BY <2>1 DEF ToSet
    <2> QED
      BY <1>5, <1>9, <2>2 DEF Listed
  <1>11. ChatsKnown'
    <2>1. \A q \in Listed(a)' : HasKey(a, q) \/ (invite'[a].pc = "registering" /\ invite'[a].to = q)
      BY <1>1, <1>2, <1>7, <1>10 DEF Secrets, ChatsKnown
    <2>2. \A r \in Peers : r # a =>
             \A q \in Listed(r)' : HasKey(r, q) \/ (invite'[r].pc = "registering" /\ invite'[r].to = q)
      BY <1>1, <1>7, <1>9 DEF Secrets, ChatsKnown, Listed
    <2> QED
      BY <1>1, <1>2, <2>1, <2>2 DEF Secrets, ChatsKnown, KnownIn, HasKey
  <1>12. Introduced'
    <2>1. ASSUME NEW p \in Peers, NEW q \in Peers, Unsent(q, p) PROVE Unsent(q, p)'
      <3>1. ~(q = a /\ p = b)
        <4>1. invite[a].pc = "sent" /\ invite[a].to = b
          BY <1>3
        <4> QED
          BY <2>1, <4>1 DEF Unsent
      <3>2. p \in peerIds'[q] => p \in peerIds[q]
        BY <1>8, <3>1
      <3>3. invite'[q].pc = "sent" /\ invite'[q].to = p => invite[q].pc = "sent" /\ invite[q].to = p
        BY <1>7
      <3> QED
        BY <1>2, <2>1, <3>2, <3>3, UnsentKept
    <2> QED
      BY <1>1, <1>2, <2>1, IntroducedKept DEF Secrets
  <1> QED
    BY <1>1, <1>2, <1>11, <1>12, SecretsKept DEF Secrets

\* The key of the invited peer is registered.
LEMMA InviteRegisterSecret ==
    ASSUME SecretInv, NEW a \in Peers, InviteRegisterKey(a)
    PROVE  Secrets'
  <1>1. Typed /\ Secrets
    BY DEF SecretInv, Inv, Secrets
  <1>2. /\ invite[a].pc = "registering" /\ invite' = [invite EXCEPT ![a] = Closed]
        /\ peerKeys' = [peerKeys EXCEPT ![a][invite[a].to] = invite[a].to]
        /\ UNCHANGED <<node, dbMsgs, chats, view, peerIds, symKeys, outq, inq, uiq, task, net, used>>
    BY DEF InviteRegisterKey
  <1>3. PICK b \in Peers : b = invite[a].to
    BY <1>1, <1>2, InviteHolds
  <1>4. /\ peerKeys'[a][b] = b
        /\ \A p, q \in Peers : ~(p = a /\ q = b) => peerKeys'[p][q] = peerKeys[p][q]
    <2>1. peerKeys \in [Peers -> [Peers -> Keys \cup {NoKey}]] /\ b \in Keys \cup {NoKey}
      BY <1>1 DEF Typed, PeerKeysTyped, Keys
    <2> QED
      BY <1>2, <1>3, <2>1, Entry2
  <1>5. invite'[a].pc = "closed" /\ \A r \in Peers : r # a => invite'[r] = invite[r]
    BY <1>1, <1>2, Entry DEF Typed, InviteTyped, Closed
  <1>6. KeysGood'
    BY <1>1, <1>2, <1>4 DEF Secrets, KeysGood
  <1>7. HasKey(a, b)' /\ \A p, q \in Peers : HasKey(p, q) => HasKey(p, q)'
    BY <1>4 DEF HasKey
  <1>8. ChatsKnown'
    <2>1. \A r \in Peers : /\ (view[r] # NoView => HasKey(r, view[r].chat))'
                           /\ KnownIn(r, outq[r])'
      BY <1>1, <1>2, <1>7, KeysGrow
    <2>2. ASSUME NEW r \in Peers, NEW q \in Listed(r)
          PROVE  WillHaveKey(r, q) \/ (invite'[r].pc = "registering" /\ invite'[r].to = q)
      <3>1. q \in Peers /\ (HasKey(r, q) \/ (invite[r].pc = "registering" /\ invite[r].to = q))
        BY <1>1, <2>2, KnownPeers DEF Secrets, ChatsKnown
      <3>2. CASE HasKey(r, q)
        BY <1>7, <3>1, <3>2 DEF HasKey, WillHaveKey
      <3>3. CASE invite[r].pc = "registering" /\ invite[r].to = q
        <4>1. r = a => q = b
          BY <1>3, <3>3
        <4> QED
          BY <1>4, <1>5, <3>3, <4>1 DEF WillHaveKey
      <3> QED
        BY <3>1, <3>2, <3>3
    <2>3. \A r \in Peers : Listed(r)' = Listed(r)
      BY <1>2 DEF Listed
    <2> QED
      BY <2>1, <2>2, <2>3 DEF ChatsKnown, HasKey, WillHaveKey
  <1>9. ReceivedReadable'
    BY <1>1, <1>2, <1>7, KeysGrow
  <1>10. Introduced'
    <2>1. \A p, q \in Peers : Unsent(q, p) => Unsent(q, p)'
      BY <1>2, <1>5, UnsentKept
    <2> QED
      BY <1>1, <1>2, <1>7, <2>1, IntroducedGrows DEF Secrets
  <1> QED
    BY <1>1, <1>2, <1>6, <1>8, <1>9, <1>10, SecretsKept DEF Secrets

\* A stream listener forwards a message: a Hello is still ahead.
LEMMA ListenSecret ==
    ASSUME SecretInv, NEW a \in Peers, NEW b \in Peers, Listen(a, b)
    PROVE  Secrets'
  <1>1. Typed /\ Secrets
    BY DEF SecretInv, Inv, Secrets
  <1>2. /\ net[b][a] # <<>>
        /\ inq' = [inq EXCEPT ![a] = Append(inq[a], [from |-> b, msg |-> Head(net[b][a])])]
        /\ net' = [net EXCEPT ![b][a] = Tail(net[b][a])]
        /\ UNCHANGED <<node, dbMsgs, chats, view, peerIds, peerKeys, symKeys, outq, uiq, task, invite, used>>
    BY DEF Listen
  <1>3. /\ net \in [Peers -> [Peers -> Seq(Wires)]] /\ net[b][a] \in Seq(Wires) /\ b \in Others(a)
        /\ DOMAIN inq = Peers /\ inq[a] \in Seq(Arrivals(a))
    BY <1>1, <1>2 DEF Typed, NetTyped, InqTyped, Others
  <1>4. PICK s \in Seq(Wires), t \in Seq(Arrivals(a)), h \in Wires, e \in Arrivals(a) :
           /\ s = net[b][a] /\ t = inq[a] /\ s # <<>>
           /\ h = Head(s) /\ e = [from |-> b, msg |-> h]
    <2>1. Head(net[b][a]) \in Wires
      BY <1>2, <1>3, TailTyped
    <2>2. [from |-> b, msg |-> Head(net[b][a])] \in Arrivals(a)
      BY <1>3, <2>1 DEF Arrivals
    <2> QED
      BY <1>2, <1>3, <2>1, <2>2
  <1>5. /\ inq'[a] = Append(t, e) /\ \A r \in Peers : r # a => inq'[r] = inq[r]
        /\ net'[b][a] = Tail(s) /\ \A p, q \in Peers : ~(q = b /\ p = a) => net'[q][p] = net[q][p]
    <2>1. inq'[a] = Append(t, e) /\ \A r \in Peers : r # a => inq'[r] = inq[r]
      BY <1>2, <1>3, <1>4, Entry
    <2>2. Tail(s) \in Seq(Wires) /\ net' = [net EXCEPT ![b][a] = Tail(s)]
      BY <1>2, <1>4, TailTyped
    <2> QED
      BY <1>3, <2>1, <2>2, Entry2
  <1>6. WiresGood'
    <2>1. GoodOnNet(b, a, s) /\ GoodRead(a, t)
      BY <1>1, <1>4 DEF Secrets, WiresGood
    <2>2. GoodOnNet(b, a, Tail(s))
      BY <1>4, <2>1, TailHolds DEF GoodOnNet
    <2>3. GoodWire(b, a, h)
      <3>1. 1 \in DOMAIN s /\ h = s[1]
        BY <1>4, TailTyped
      <3> QED
        BY <2>1, <3>1 DEF GoodOnNet
    <2>4. GoodRead(a, Append(t, e))
      <3>1. \A i \in DOMAIN Append(t, e) : (\E j \in DOMAIN t : Append(t, e)[i] = t[j]) \/ Append(t, e)[i] = e
        BY AppendHolds
      <3> QED
        BY <1>4, <2>1, <2>3, <3>1 DEF GoodRead
    <2>5. \A p, q \in Peers : GoodOnNet(q, p, net'[q][p])
      BY <1>1, <1>5, <2>2 DEF Secrets, WiresGood
    <2>6. \A p \in Peers : GoodRead(p, inq'[p])
      BY <1>1, <1>5, <2>4 DEF Secrets, WiresGood
    <2> QED
      BY <1>1, <1>2, <2>5, <2>6 DEF Secrets, WiresGood
  <1>7. \A p, q \in Peers : Unsent(q, p) => Unsent(q, p)'
    BY <1>2, UnsentKept
  <1>8. ASSUME NEW q \in Peers, Read(q, a) PROVE Read(q, a)'
    <2>1. PICK kind : kind = ArrivalKind(a, q) /\ kind[e] = IF b = q THEN h.kind ELSE "none"
      BY <1>4, KindsTyped
    <2>2. Behind(t, kind) /\ (In(t, kind, "hello") \/ OnNet(q, a))
      BY <1>4, <1>8, <2>1 DEF Read
    <2>3. inq'[a] = Append(t, e) /\ ArrivalKind(a, q) = kind
      BY <1>5, <2>1
    <2>4. CASE In(t, kind, "hello")
      <3>1. Behind(Append(t, e), kind) /\ In(Append(t, e), kind, "hello")
        BY <2>2, <2>4, BehindAppend
      <3> QED
        BY <2>3, <3>1 DEF Read
    <2>5. CASE OnNet(q, a) /\ q # b
      <3>1. kind[e] # "chat"
        BY <2>1, <2>5
      <3>2. Behind(Append(t, e), kind)
        BY <2>2, <3>1, BehindAppend
      <3>3. OnNet(q, a)'
        BY <1>5, <1>7, <2>5 DEF OnNet
      <3> QED
        BY <2>3, <3>2, <3>3 DEF Read
    <2>6. CASE OnNet(q, a) /\ q = b
      <3>1. PICK wire : wire = WireKind /\ wire[h] = h.kind
        BY KindsTyped
      <3>2. Behind(s, wire) /\ (In(s, wire, "hello") \/ Unsent(b, a))
        BY <1>4, <2>6, <3>1 DEF OnNet
      <3>3. /\ wire[h] # "chat"
            /\ wire[h] # "hello" => Behind(Tail(s), wire)
            /\ wire[h] # "hello" /\ In(s, wire, "hello") => In(Tail(s), wire, "hello")
        BY <1>4, <3>2, BehindTail
      <3>4. kind[e] = h.kind /\ kind[e] # "chat"
        BY <2>1, <2>6, <3>1, <3>3
      <3>5. /\ Behind(Append(t, e), kind)
            /\ kind[e] = "hello" => In(Append(t, e), kind, "hello")
        BY <2>2, <3>4, BehindAppend
      <3>6. ASSUME h.kind # "hello" PROVE OnNet(q, a)'
        <4>1. Behind(Tail(s), wire) /\ (In(Tail(s), wire, "hello") \/ Unsent(b, a)')
          BY <1>3, <1>7, <3>1, <3>2, <3>3, <3>6
        <4>2. net'[q][a] = Tail(s) /\ WireKind = wire
          BY <1>5, <2>6, <3>1
        <4> QED
          BY <2>6, <4>1, <4>2 DEF OnNet
      <3> QED
        BY <2>3, <3>4, <3>5, <3>6 DEF Read
    <2> QED
      BY <2>2, <2>4, <2>5, <2>6
  <1>9. Introduced'
    <2>1. ASSUME NEW p \in Peers, NEW q \in Peers, ~HasKey(p, q)' PROVE Read(q, p)'
      <3>1. Read(q, p)
        BY <1>1, <1>2, <2>1 DEF Secrets, Introduced, HasKey
      <3>2. CASE p = a
        BY <1>8, <3>1, <3>2
      <3>3. CASE p # a
        BY <1>5, <1>7, <3>1, <3>3, ReadKept
      <3> QED
        BY <3>2, <3>3
    <2> QED
      BY <2>1 DEF Introduced
  <1> QED
    BY <1>1, <1>2, <1>6, <1>9, SecretsKept DEF Secrets

\* The loop takes what is good, and a chat message only when it has the key.
LEMMA TakenGood ==
    ASSUME Typed, Secrets, NEW a \in Peers, NEW kind, Receives(a, kind)
    PROVE  /\ \A p \in Peers : GoodRead(p, inq'[p])
           /\ GoodWire(Head(inq[a]).from, a, Head(inq[a]).msg)
           /\ kind = "chat" => HasKey(a, Head(inq[a]).from)
  <1>1. /\ inq[a] \in Seq(Arrivals(a)) /\ inq[a] # <<>> /\ inq' = [inq EXCEPT ![a] = Tail(inq[a])]
        /\ Head(inq[a]).from \in Peers /\ Head(inq[a]).msg.kind = kind
    BY ReceivedTyped
  <1>2. PICK s \in Seq(Arrivals(a)), h \in Arrivals(a) : s = inq[a] /\ s # <<>> /\ h = Head(s) /\ 1 \in DOMAIN s /\ h = s[1]
    BY <1>1, TailTyped
  <1>3. \A p \in Peers : GoodRead(p, inq[p])
    BY DEF Secrets, WiresGood
  <1>4. GoodRead(a, Tail(s))
    BY <1>2, <1>3, TailHolds DEF GoodRead
  <1>5. \A p \in Peers : GoodRead(p, inq'[p])
    BY <1>1, <1>2, <1>3, <1>4, Entry DEF Typed, InqTyped
  <1>6. GoodWire(h.from, a, h.msg)
    BY <1>2, <1>3 DEF GoodRead
  <1>7. ASSUME kind = "chat", ~HasKey(a, h.from) PROVE FALSE
    <2>1. PICK q \in Peers : q = h.from
      BY <1>1, <1>2
    <2>2. Behind(s, ArrivalKind(a, q))
      BY <1>2, <1>7, <2>1 DEF Secrets, Introduced, Read
    <2>3. ArrivalKind(a, q)[h] = "chat"
      BY <1>1, <1>2, <1>7, <2>1, KindsTyped
    <2> QED
      BY <1>2, <2>2, <2>3, BehindTail
  <1> QED
    BY <1>2, <1>5, <1>6, <1>7

\* What is left in incoming_rx: a Hello is ahead, or was the one that was taken.
LEMMA TakenIntroduced ==
    ASSUME Typed, Secrets, NEW a \in Peers, NEW kind, Receives(a, kind), UNCHANGED net,
           \A p, q \in Peers : HasKey(p, q) => HasKey(p, q)',
           kind = "hello" => WillHaveKey(a, Head(inq[a]).from),
           \A p, q \in Peers : Unsent(q, p) => Unsent(q, p)'
    PROVE  Introduced'
  <1>1. /\ inq[a] \in Seq(Arrivals(a)) /\ inq[a] # <<>> /\ inq' = [inq EXCEPT ![a] = Tail(inq[a])]
        /\ Head(inq[a]).from \in Peers /\ Head(inq[a]).msg.kind = kind
    BY ReceivedTyped
  <1>2. PICK s \in Seq(Arrivals(a)), h \in Arrivals(a) : s = inq[a] /\ s # <<>> /\ h = Head(s)
    BY <1>1, TailTyped
  <1>3. inq'[a] = Tail(s) /\ \A r \in Peers : r # a => inq'[r] = inq[r]
    BY <1>1, <1>2, Entry DEF Typed, InqTyped
  <1>4. ASSUME NEW q \in Peers, Read(q, a), ~HasKey(a, q)' PROVE Read(q, a)'
    <2>1. PICK number : number = ArrivalKind(a, q) /\ number[h] = IF h.from = q THEN h.msg.kind ELSE "none"
      BY KindsTyped
    <2>2. number[h] # "hello"
      BY <1>1, <1>2, <1>4, <2>1 DEF HasKey, WillHaveKey
    <2>3. Behind(s, number) /\ (In(s, number, "hello") \/ OnNet(q, a))
      BY <1>2, <1>4, <2>1 DEF Read
    <2>4. Behind(Tail(s), number) /\ (In(s, number, "hello") => In(Tail(s), number, "hello"))
      BY <1>2, <2>2, <2>3, BehindTail
    <2>5. OnNet(q, a) => OnNet(q, a)'
      BY DEF OnNet
    <2> QED
      BY <1>3, <2>1, <2>3, <2>4, <2>5 DEF Read
  <1>5. ASSUME NEW p \in Peers, NEW q \in Peers, ~HasKey(p, q)' PROVE Read(q, p)'
    <2>1. Read(q, p)
      BY <1>5 DEF Secrets, Introduced
    <2>2. CASE p = a
      BY <1>4, <1>5, <2>1, <2>2
    <2>3. CASE p # a
      BY <1>3, <2>1, <2>3, ReadKept
    <2> QED
      BY <2>2, <2>3
  <1> QED
    BY <1>5 DEF Introduced

\* What the UI is told in addition is readable, and of peers whose key is known.
LEMMA UpdatesReadable ==
    ASSUME Typed, Secrets, \A p, q \in Peers : HasKey(p, q) => HasKey(p, q)', NEW a \in Peers,
           \A r \in Peers : r # a => uiq'[r] = uiq[r],
           \A i \in DOMAIN uiq'[a] :
              \/ \E j \in DOMAIN uiq[a] : uiq'[a][i] = uiq[a][j]
              \/ /\ uiq'[a][i].kind = "connected" => WillHaveKey(a, uiq'[a][i].peer)
                 /\ uiq'[a][i].kind = "message" => MayShow(uiq'[a][i].peer, uiq'[a][i].msg.text)
    PROVE  \A p \in Peers : ReadableIn(p, uiq[p])'
  <1>1. \A p \in Peers : \A i \in DOMAIN uiq[p] :
           /\ uiq[p][i].kind = "connected" => WillHaveKey(p, uiq[p][i].peer)
           /\ uiq[p][i].kind = "message" => MayShow(uiq[p][i].peer, uiq[p][i].msg.text)
    BY KeysGrow
  <1>2. \A i \in DOMAIN uiq'[a] : /\ uiq'[a][i].kind = "connected" => WillHaveKey(a, uiq'[a][i].peer)
                                  /\ uiq'[a][i].kind = "message" => MayShow(uiq'[a][i].peer, uiq'[a][i].msg.text)
    BY <1>1
  <1>3. \A p \in Peers : \A i \in DOMAIN uiq'[p] :
           /\ uiq'[p][i].kind = "connected" => WillHaveKey(p, uiq'[p][i].peer)
           /\ uiq'[p][i].kind = "message" => MayShow(uiq'[p][i].peer, uiq'[p][i].msg.text)
    BY <1>1, <1>2
  <1> QED
    BY <1>3 DEF ReadableIn, WillHaveKey, HasKey

\* The loop takes a Hello: its sender's key is known, and he may be greeted in return.
LEMMA HandleHelloSecret ==
    ASSUME SecretInv, NEW a \in Peers, HandleHello(a)
    PROVE  Secrets'
  <1>1. Typed /\ Secrets
    BY DEF SecretInv, Inv, Secrets
  <1>2. PICK b, key : b = Head(inq[a]).from /\ key = Head(inq[a]).msg.key
    OBVIOUS
  <1>3. /\ Receives(a, "hello") /\ task[a] = Select
        /\ peerIds' = [peerIds EXCEPT ![a] = peerIds[a] \cup {b}]
        /\ peerKeys' = [peerKeys EXCEPT ![a][b] = key]
        /\ uiq' = [uiq EXCEPT ![a] =
                     Append(uiq[a], [kind |-> "connected", peer |-> b, name |-> "nick", key |-> key])]
        /\ task' = IF b \notin peerIds[a] THEN [task EXCEPT ![a] = [pc |-> "send", to |-> b, msg |-> Hello(a)]] ELSE task
        /\ UNCHANGED <<node, dbMsgs, chats, view, symKeys, outq, invite, net, used>>
    BY <1>2 DEF HandleHello, Receives, AnswersHello
  <1>4. b \in Others(a) /\ b \in Peers /\ Head(inq[a]).msg.kind = "hello"
    BY <1>1, <1>2, <1>3, ReceivedTyped
  <1>5. /\ key = b /\ \A p \in Peers : GoodRead(p, inq'[p])
    BY <1>1, <1>2, <1>3, <1>4, TakenGood DEF GoodWire
  <1>6. /\ peerKeys'[a][b] = b
        /\ \A p, q \in Peers : ~(p = a /\ q = b) => peerKeys'[p][q] = peerKeys[p][q]
    <2>1. peerKeys \in [Peers -> [Peers -> Keys \cup {NoKey}]] /\ b \in Keys \cup {NoKey}
      BY <1>1, <1>4 DEF Typed, PeerKeysTyped, Keys
    <2> QED
      BY <1>3, <1>4, <1>5, <2>1, Entry2
  <1>7. WillHaveKey(a, b) /\ \A p, q \in Peers : HasKey(p, q) => HasKey(p, q)'
    BY <1>4, <1>6 DEF HasKey, WillHaveKey
  <1>8. KeysGood'
    BY <1>1, <1>3, <1>4, <1>6 DEF Secrets, KeysGood
  <1>9. /\ \A r \in Peers : r # a => task'[r] = task[r]
        /\ b \notin peerIds[a] => task'[a] = [pc |-> "send", to |-> b, msg |-> Hello(a)]
        /\ b \in peerIds[a] => task'[a] = task[a]
        /\ task[a].pc = "select"
    BY <1>1, <1>3, Entry DEF Typed, TaskTyped, Select
  <1>10. peerIds'[a] = peerIds[a] \cup {b} /\ \A r \in Peers : r # a => peerIds'[r] = peerIds[r]
    BY <1>1, <1>3, Entry DEF Typed, PeerIdsTyped
  <1>11. WiresGood'
    <2>1. GoodInHand(a, task'[a])
      BY <1>9 DEF GoodInHand, GoodWire, Hello
    <2>2. \A p \in Peers : GoodInHand(p, task'[p])
      BY <1>1, <1>9, <2>1 DEF Secrets, WiresGood
    <2> QED
      BY <1>1, <1>3, <1>5, <2>2 DEF Secrets, WiresGood
  <1>12. \A p \in Peers : ReadableIn(p, uiq[p])'
    <2>1. PICK s \in Seq(Updates(a)), e \in Updates(a) :
             s = uiq[a] /\ e = [kind |-> "connected", peer |-> b, name |-> "nick", key |-> key]
      <3>1. [kind |-> "connected", peer |-> b, name |-> "nick", key |-> key] \in Updates(a)
        BY <1>4, <1>5 DEF Updates, Names, Keys
      <3> QED
        BY <1>1, <3>1 DEF Typed, UiqTyped
    <2>2. uiq'[a] = Append(s, e) /\ \A r \in Peers : r # a => uiq'[r] = uiq[r]
      BY <1>1, <1>3, <2>1, Entry DEF Typed, UiqTyped
    <2>3. \A i \in DOMAIN Append(s, e) : (\E j \in DOMAIN s : Append(s, e)[i] = s[j]) \/ Append(s, e)[i] = e
      BY AppendHolds
    <2>4. /\ e.kind = "connected" => WillHaveKey(a, e.peer)
          /\ e.kind = "message" => MayShow(e.peer, e.msg.text)
      BY <1>7, <2>1
    <2>5. \A i \in DOMAIN uiq'[a] :
             \/ \E j \in DOMAIN uiq[a] : uiq'[a][i] = uiq[a][j]
             \/ /\ uiq'[a][i].kind = "connected" => WillHaveKey(a, uiq'[a][i].peer)
                /\ uiq'[a][i].kind = "message" => MayShow(uiq'[a][i].peer, uiq'[a][i].msg.text)
      BY <2>1, <2>2, <2>3, <2>4
    <2> QED
      BY <1>1, <1>7, <2>2, <2>5, UpdatesReadable
  <1>13. ReceivedReadable'
    <2>1. ASSUME NEW p \in Peers, task'[p].pc \in {"ack", "deliver"}
          PROVE  WillHaveKey(p, task'[p].from) /\ MayShow(task'[p].from, task'[p].text)
      <3>1. p # a /\ task'[p] = task[p]
        BY <1>9, <2>1
      <3>2. task[p].from \in Peers /\ HasKey(p, task[p].from) /\ MayShow(task[p].from, task[p].text)
        BY <1>1, <2>1, <3>1, KnownPeers DEF Secrets, ReceivedReadable
      <3> QED
        BY <1>7, <3>1, <3>2 DEF HasKey, WillHaveKey
    <2> QED
      BY <1>12, <2>1 DEF ReceivedReadable, HasKey, WillHaveKey
  <1>14. ChatsKnown'
    <2>1. \A r \in Peers : (view[r] # NoView => HasKey(r, view[r].chat))' /\ KnownIn(r, outq[r])'
      BY <1>1, <1>3, <1>7, KeysGrow
    <2>2. ASSUME NEW r \in Peers, NEW q \in Listed(r)
          PROVE  WillHaveKey(r, q) \/ (invite[r].pc = "registering" /\ invite[r].to = q)
      <3>1. q \in Peers /\ (HasKey(r, q) \/ (invite[r].pc = "registering" /\ invite[r].to = q))
        BY <1>1, <2>2, KnownPeers DEF Secrets, ChatsKnown
      <3> QED
        BY <1>7, <3>1 DEF HasKey, WillHaveKey
    <2>3. \A r \in Peers : Listed(r)' = Listed(r)
      BY <1>3 DEF Listed
    <2> QED
      BY <1>3, <2>1, <2>2, <2>3 DEF ChatsKnown, HasKey, WillHaveKey
  <1>15. Introduced'
    <2>1. ASSUME NEW p \in Peers, NEW q \in Peers, Unsent(q, p) PROVE Unsent(q, p)'
      <3>1. CASE q # a
        BY <1>3, <1>9, <1>10, <2>1, <3>1, UnsentKept
      <3>2. CASE q = a /\ p # b
        <4>1. p \notin peerIds[a]
          BY <1>9, <2>1, <3>2 DEF Unsent
        <4>2. p \notin peerIds'[a] /\ ~(task'[a].pc = "send" /\ task'[a].to = p)
          BY <1>9, <1>10, <3>2, <4>1
        <4> QED
          BY <1>3, <2>1, <3>2, <4>2 DEF Unsent
      <3>3. CASE q = a /\ p = b
        <4>1. b \notin peerIds[a]
          BY <1>9, <2>1, <3>3 DEF Unsent
        <4>2. task'[a].pc = "send" /\ task'[a].to = b /\ task'[a].msg.kind = "hello"
          BY <1>9, <4>1 DEF Hello
        <4> QED
          BY <1>3, <2>1, <3>3, <4>2 DEF Unsent
      <3> QED
        BY <3>1, <3>2, <3>3
    <2>2. Receives(a, "hello") /\ UNCHANGED net /\ WillHaveKey(a, Head(inq[a]).from)
      BY <1>2, <1>3, <1>7
    <2>3. \A p, q \in Peers : Unsent(q, p) => Unsent(q, p)'
      BY <2>1
    <2> QED
      BY <1>1, <1>7, <2>2, <2>3, TakenIntroduced
  <1> QED
    BY <1>1, <1>3, <1>8, <1>11, <1>13, <1>14, <1>15, SecretsKept DEF Secrets

\* The loop takes a chat message: its sender's key is known, and opens it.
LEMMA HandleChatSecret ==
    ASSUME SecretInv, NEW a \in Peers, HandleChat(a)
    PROVE  Secrets'
  <1>1. Typed /\ Secrets
    BY DEF SecretInv, Inv, Secrets
  <1>2. PICK b, m : b = Head(inq[a]).from /\ m = Head(inq[a]).msg
    OBVIOUS
  <1>3. /\ Receives(a, "chat") /\ task[a] = Select
        /\ \/ symKeys' = symKeys
           \/ KeySource(a, b) # NoKey /\ symKeys' = [symKeys EXCEPT ![a][b] = KeySource(a, b)]
        /\ UNCHANGED <<node, dbMsgs, chats, view, peerIds, peerKeys, outq, uiq, invite, net, used>>
    BY <1>2 DEF HandleChat, Receives
  <1>4. b \in Others(a) /\ b \in Peers /\ m \in Wires /\ m.kind = "chat"
    BY <1>1, <1>2, <1>3, ReceivedTyped
  <1>5. HasKey(a, b) /\ GoodWire(b, a, m) /\ \A p \in Peers : GoodRead(p, inq'[p])
    BY <1>1, <1>2, <1>3, TakenGood
  <1>6. KeySource(a, b) = IF b \in Malformed THEN NoKey ELSE b
    BY <1>1, <1>4, <1>5, KeySourceGood DEF Secrets
  <1>7. PICK text :
           /\ task' = [task EXCEPT ![a] = [pc |-> "ack", from |-> b, n |-> m.n, text |-> text]]
           /\ m.sealed = Plain => text = m.n
           /\ KeySource(a, b) # NoKey /\ m.sealed = SharedKey(a, KeySource(a, b)) => text = m.n
    BY <1>2 DEF HandleChat
  <1>8. MayShow(b, text)
    <2>1. m.n \in Numbers /\ m.n # Unreadable
      BY <1>4, NumberReadable DEF Wires
    <2>2. m.sealed = Sealing(b, a)
      BY <1>4, <1>5 DEF GoodWire
    <2>3. CASE a \in Malformed
      <3>1. m.sealed = Plain
        BY <2>2, <2>3 DEF Sealing
      <3> QED
        BY <1>7, <2>1, <3>1 DEF MayShow
    <2>4. CASE a \notin Malformed /\ b \notin Malformed
      <3>1. KeySource(a, b) # NoKey /\ m.sealed = SharedKey(a, KeySource(a, b))
        BY <1>4, <1>6, <2>2, <2>4, SealedForTwo, KeysAssumption DEF Sealing
      <3> QED
        BY <1>7, <2>1, <3>1 DEF MayShow
    <2> QED
      BY <2>3, <2>4 DEF MayShow
  <1>9. /\ task'[a] = [pc |-> "ack", from |-> b, n |-> m.n, text |-> text]
        /\ \A r \in Peers : r # a => task'[r] = task[r]
    BY <1>1, <1>7, Entry DEF Typed, TaskTyped
  <1>10. KeysGood'
    <2>1. CASE symKeys' = symKeys
      BY <1>1, <1>3, <2>1 DEF Secrets, KeysGood
    <2>2. CASE KeySource(a, b) # NoKey /\ symKeys' = [symKeys EXCEPT ![a][b] = KeySource(a, b)]
      <3> b \notin Malformed /\ KeySource(a, b) = b
        BY <1>6, <2>2
      <3>1. symKeys \in [Peers -> [Peers -> Keys \cup {NoKey}]] /\ b \in Keys \cup {NoKey}
        BY <1>1, <1>4 DEF Typed, SymKeysTyped, Keys
      <3>2. symKeys'[a][b] = b /\ \A p, q \in Peers : ~(p = a /\ q = b) => symKeys'[p][q] = symKeys[p][q]
        BY <1>4, <1>6, <2>2, <3>1, Entry2
      <3> QED
        BY <1>1, <1>3, <3>2 DEF Secrets, KeysGood
    <2> QED
      BY <1>3, <2>1, <2>2
  <1>11. WiresGood'
    <2>1. \A p \in Peers : GoodInHand(p, task'[p])
      BY <1>1, <1>9 DEF Secrets, WiresGood, GoodInHand
    <2> QED
      BY <1>1, <1>3, <1>5, <2>1 DEF Secrets, WiresGood
  <1>12. ReceivedReadable'
    BY <1>1, <1>3, <1>5, <1>8, <1>9 DEF Secrets, ReceivedReadable, ReadableIn, HasKey
  <1>13. Introduced'
    <2>1. task[a].pc # "send" /\ task'[a].pc # "send"
      BY <1>3, <1>9 DEF Select
    <2>2. \A p, q \in Peers : Unsent(q, p) => Unsent(q, p)'
      BY <1>3, <1>9, <2>1, UnsentKept
    <2>3. \A p, q \in Peers : HasKey(p, q) => HasKey(p, q)'
      BY <1>3 DEF HasKey
    <2> QED
      BY <1>1, <1>3, <2>2, <2>3, TakenIntroduced
  <1> QED
    BY <1>1, <1>3, <1>10, <1>11, <1>12, <1>13, SecretsKept DEF Secrets

\* The loop takes an Ack.
LEMMA HandleAckSecret ==
    ASSUME SecretInv, NEW a \in Peers, HandleAck(a)
    PROVE  Secrets'
  <1>1. Typed /\ Secrets
    BY DEF SecretInv, Inv, Secrets
  <1>2. PICK e : e = [kind |-> "status", id |-> WireId(a, Head(inq[a]).msg.n), status |-> "delivered"]
    OBVIOUS
  <1>3. /\ Receives(a, "ack") /\ uiq' = [uiq EXCEPT ![a] = Append(uiq[a], e)]
        /\ UNCHANGED <<node, dbMsgs, chats, view, peerIds, peerKeys, symKeys, outq, task, invite, net, used>>
    BY <1>2 DEF HandleAck
  <1>4. e \in Updates(a) /\ e.kind = "status"
    <2>1. Head(inq[a]).msg \in Wires /\ Head(inq[a]).msg.kind = "ack"
      BY <1>1, <1>3, ReceivedTyped
    <2>2. Head(inq[a]).msg.n \in Numbers
      BY <2>1 DEF Wires
    <2> QED
      BY <1>2, <2>2 DEF Updates, WireId, Statuses
  <1>5. \A p, q \in Peers : HasKey(p, q) => HasKey(p, q)'
    BY <1>3 DEF HasKey
  <1>6. WiresGood'
    <2>1. \A p \in Peers : GoodRead(p, inq'[p])
      BY <1>1, <1>3, TakenGood
    <2> QED
      BY <1>1, <1>3, <2>1 DEF Secrets, WiresGood
  <1>7. \A p \in Peers : ReadableIn(p, uiq[p])'
    <2>1. PICK s \in Seq(Updates(a)) : s = uiq[a]
      BY <1>1 DEF Typed, UiqTyped
    <2>2. uiq'[a] = Append(s, e) /\ \A r \in Peers : r # a => uiq'[r] = uiq[r]
      BY <1>1, <1>3, <2>1, Entry DEF Typed, UiqTyped
    <2>3. \A i \in DOMAIN Append(s, e) : (\E j \in DOMAIN s : Append(s, e)[i] = s[j]) \/ Append(s, e)[i] = e
      BY <1>4, AppendHolds
    <2>4. \A i \in DOMAIN uiq'[a] :
             \/ \E j \in DOMAIN uiq[a] : uiq'[a][i] = uiq[a][j]
             \/ /\ uiq'[a][i].kind = "connected" => WillHaveKey(a, uiq'[a][i].peer)
                /\ uiq'[a][i].kind = "message" => MayShow(uiq'[a][i].peer, uiq'[a][i].msg.text)
      BY <1>4, <2>1, <2>2, <2>3
    <2> QED
      BY <1>1, <1>5, <2>2, <2>4, UpdatesReadable
  <1>8. ReceivedReadable'
    BY <1>1, <1>3, <1>7 DEF Secrets, ReceivedReadable, HasKey
  <1>9. Introduced'
    <2>1. \A p, q \in Peers : Unsent(q, p) => Unsent(q, p)'
      BY <1>3, UnsentKept
    <2> QED
      BY <1>1, <1>3, <1>5, <2>1, TakenIntroduced
  <1> QED
    BY <1>1, <1>3, <1>6, <1>8, <1>9, SecretsKept DEF Secrets

\* The loop acknowledges a message.
LEMMA SendAckSecret ==
    ASSUME NoFaults', SecretInv, NEW a \in Peers, SendAck(a)
    PROVE  Secrets'
  <1>1. Typed /\ Secrets
    BY DEF SecretInv, Inv, Secrets
  <1>2. /\ task[a].pc = "ack" /\ Send(a, task[a].from, [kind |-> "ack", n |-> task[a].n])
        /\ task' = [task EXCEPT ![a] = [task[a] EXCEPT !.pc = "deliver"]]
        /\ UNCHANGED <<node, dbMsgs, chats, view, peerIds, peerKeys, symKeys, outq, inq, uiq, invite>>
    BY DEF SendAck
  <1>3. PICK b \in Others(a), n \in Numbers, text \in Texts :
           task[a] = [pc |-> "ack", from |-> b, n |-> n, text |-> text]
    <2>1. /\ task[a] = [pc |-> task[a].pc, from |-> task[a].from, n |-> task[a].n, text |-> task[a].text]
          /\ task[a].from \in Others(a) /\ task[a].n \in Numbers /\ task[a].text \in Texts
      BY <1>1, <1>2, TaskHolds
    <2> QED
      BY <1>2, <2>1
  <1>4. /\ task'[a] = [pc |-> "deliver", from |-> b, n |-> n, text |-> text]
        /\ \A r \in Peers : r # a => task'[r] = task[r]
    <2>1. [task[a] EXCEPT !.pc = "deliver"] = [pc |-> "deliver", from |-> b, n |-> n, text |-> text]
      BY <1>3
    <2> QED
      BY <1>1, <1>2, <2>1, Entry DEF Typed, TaskTyped
  <1>5. PICK m \in Wires : m.kind = "ack" /\ GoodWire(a, b, m) /\ Send(a, b, m)
    <2>1. PICK m : m = [kind |-> "ack", n |-> n]
      OBVIOUS
    <2>2. m \in Wires /\ m.kind = "ack" /\ GoodWire(a, b, m)
      BY <2>1 DEF Wires, GoodWire
    <2>3. Send(a, b, m)
      BY <1>2, <1>3, <2>1
    <2> QED
      BY <2>2, <2>3
  <1>6. Faultless'
    BY <1>1, <1>2, <1>5, FaultlessSend DEF Secrets, Faultless
  <1>7. WiresGood'
    <2>1. \A p, q \in Peers : GoodOnNet(q, p, net'[q][p])
      BY <1>1, <1>5, SendGood DEF Secrets
    <2>2. \A p \in Peers : GoodInHand(p, task'[p])
      BY <1>1, <1>4 DEF Secrets, WiresGood, GoodInHand
    <2> QED
      BY <1>1, <1>2, <2>1, <2>2 DEF Secrets, WiresGood
  <1>8. ReceivedReadable'
    <2>1. HasKey(a, b) /\ MayShow(b, text)
      BY <1>1, <1>3 DEF Secrets, ReceivedReadable
    <2> QED
      BY <1>1, <1>2, <1>4, <2>1 DEF Secrets, ReceivedReadable, ReadableIn, HasKey
  <1>9. Introduced'
    <2>1. task[a].pc # "send" /\ task'[a].pc # "send"
      BY <1>3, <1>4
    <2>2. \A p, q \in Peers : Unsent(q, p) => Unsent(q, p)'
      BY <1>2, <1>4, <2>1, UnsentKept
    <2> QED
      BY <1>1, <1>2, <1>5, <2>2, SendIntroduced DEF Secrets
  <1> QED
    BY <1>1, <1>2, <1>6, <1>7, <1>8, <1>9, SecretsKept DEF Secrets

\* The UI is told of a chat with a known key, and of a readable message.
LEMMA DeliverSecret ==
    ASSUME SecretInv, NEW a \in Peers, DeliverToUi(a)
    PROVE  Secrets'
  <1>1. Typed /\ Secrets
    BY DEF SecretInv, Inv, Secrets
  <1>2. /\ task[a].pc = "deliver" /\ task' = [task EXCEPT ![a] = Select]
        /\ uiq' = [uiq EXCEPT ![a] = uiq[a] \o <<Connected(a, task[a].from), Delivered(a, task[a].from)>>]
        /\ UNCHANGED <<node, dbMsgs, chats, view, peerIds, peerKeys, symKeys, outq, inq, invite, net, used>>
    BY DEF DeliverToUi, Delivery
  <1>3. task'[a].pc = "select" /\ \A r \in Peers : r # a => task'[r] = task[r]
    BY <1>1, <1>2, Entry DEF Typed, TaskTyped, Select
  <1>4. PICK c \in Updates(a), d \in Updates(a) :
           /\ c = Connected(a, task[a].from) /\ d = Delivered(a, task[a].from)
           /\ c.kind = "connected" /\ c.peer = task[a].from /\ d.kind = "message"
    BY <1>1, <1>2, DeliveryTyped
  <1>5. HasKey(a, c.peer) /\ MayShow(d.peer, d.msg.text)
    BY <1>1, <1>2, <1>4 DEF Secrets, ReceivedReadable, Delivered
  <1>6. \A p, q \in Peers : HasKey(p, q) => HasKey(p, q)'
    BY <1>2 DEF HasKey
  <1>7. \A p \in Peers : ReadableIn(p, uiq[p])'
    <2>1. PICK s \in Seq(Updates(a)) : s = uiq[a]
      BY <1>1 DEF Typed, UiqTyped
    <2>2. /\ s \o <<c, d>> = Append(Append(s, c), d) /\ Append(s, c) \in Seq(Updates(a))
      BY AppendTyped, AppendTwoTyped
    <2>3. uiq'[a] = Append(Append(s, c), d) /\ \A r \in Peers : r # a => uiq'[r] = uiq[r]
      BY <1>1, <1>2, <1>4, <2>1, <2>2, Entry DEF Typed, UiqTyped
    <2>4. PICK t \in Seq(Updates(a)) : t = Append(s, c)
      BY <2>2
    <2>5. \A i \in DOMAIN t : (\E j \in DOMAIN s : t[i] = s[j]) \/ t[i] = c
      BY <2>4, AppendHolds
    <2>6. \A i \in DOMAIN Append(t, d) : (\E j \in DOMAIN t : Append(t, d)[i] = t[j]) \/ Append(t, d)[i] = d
      BY AppendHolds
    <2>7. \A i \in DOMAIN uiq'[a] : (\E j \in DOMAIN uiq[a] : uiq'[a][i] = uiq[a][j]) \/ uiq'[a][i] \in {c, d}
      BY <2>1, <2>3, <2>4, <2>5, <2>6
    <2>8. \A u \in {c, d} : /\ u.kind = "connected" => WillHaveKey(a, u.peer)
                            /\ u.kind = "message" => MayShow(u.peer, u.msg.text)
      BY <1>2, <1>4, <1>5 DEF HasKey, WillHaveKey
    <2>9. \A i \in DOMAIN uiq'[a] :
             \/ \E j \in DOMAIN uiq[a] : uiq'[a][i] = uiq[a][j]
             \/ /\ uiq'[a][i].kind = "connected" => WillHaveKey(a, uiq'[a][i].peer)
                /\ uiq'[a][i].kind = "message" => MayShow(uiq'[a][i].peer, uiq'[a][i].msg.text)
      BY <2>7, <2>8
    <2> QED
      BY <1>1, <1>6, <2>3, <2>9, UpdatesReadable
  <1>8. ReceivedReadable'
    BY <1>1, <1>2, <1>3, <1>7 DEF Secrets, ReceivedReadable, HasKey
  <1>9. WiresGood'
    BY <1>1, <1>2, <1>3 DEF Secrets, WiresGood, GoodInHand
  <1>10. Introduced'
    <2>1. \A p, q \in Peers : Unsent(q, p) => Unsent(q, p)'
      BY <1>2, <1>3, UnsentKept
    <2> QED
      BY <1>1, <1>2, <2>1, IntroducedKept DEF Secrets
  <1> QED
    BY <1>1, <1>2, <1>8, <1>9, <1>10, SecretsKept DEF Secrets

\* The loop sends the Hello or the chat message in its hands.
LEMMA SendMessageSecret ==
    ASSUME NoFaults', SecretInv, NEW a \in Peers, SendMessage(a)
    PROVE  Secrets'
  <1>1. Typed /\ Secrets
    BY DEF SecretInv, Inv, Secrets
  <1>2. /\ task[a].pc = "send" /\ Send(a, task[a].to, task[a].msg) /\ task' = [task EXCEPT ![a] = Select]
        /\ UNCHANGED <<node, dbMsgs, chats, view, peerIds, peerKeys, symKeys, outq, inq, uiq, invite>>
    BY DEF SendMessage
  <1>3. PICK b \in Others(a), m \in Wires : b = task[a].to /\ m = task[a].msg /\ b \in Peers
    BY <1>1, <1>2, TaskHolds
  <1>4. task'[a].pc = "select" /\ \A r \in Peers : r # a => task'[r] = task[r]
    BY <1>1, <1>2, Entry DEF Typed, TaskTyped, Select
  <1>5. GoodWire(a, b, m) /\ Send(a, b, m)
    BY <1>1, <1>2, <1>3 DEF Secrets, WiresGood, GoodInHand
  <1>6. Faultless'
    BY <1>1, <1>2, <1>5, FaultlessSend DEF Secrets, Faultless
  <1>7. WiresGood'
    <2>1. \A p, q \in Peers : GoodOnNet(q, p, net'[q][p])
      BY <1>1, <1>5, SendGood DEF Secrets
    <2>2. \A p \in Peers : GoodInHand(p, task'[p])
      BY <1>1, <1>4 DEF Secrets, WiresGood, GoodInHand
    <2> QED
      BY <1>1, <1>2, <2>1, <2>2 DEF Secrets, WiresGood
  <1>8. ReceivedReadable'
    BY <1>1, <1>2, <1>4 DEF Secrets, ReceivedReadable, ReadableIn, HasKey
  <1>9. Introduced'
    <2>1. m.kind = "chat" => ~Unsent(a, b)
      BY <1>2, <1>3 DEF Unsent
    <2>2. ASSUME NEW p \in Peers, NEW q \in Peers, Unsent(q, p), ~(q = a /\ p = b /\ m.kind = "hello")
          PROVE  Unsent(q, p)'
      <3>1. CASE q # a
        BY <1>2, <1>4, <2>2, <3>1, UnsentKept
      <3>2. CASE q = a
        <4>1. p \notin peerIds[a]
          BY <1>2, <1>3, <2>2, <3>2 DEF Unsent
        <4> QED
          BY <1>2, <1>4, <2>2, <3>2, <4>1 DEF Unsent
      <3> QED
        BY <3>1, <3>2
    <2>3. \A p, q \in Peers : Unsent(q, p) /\ ~(q = a /\ p = b /\ m.kind = "hello") => Unsent(q, p)'
      BY <2>2
    <2> QED
      BY <1>1, <1>2, <1>5, <2>1, <2>3, SendIntroduced DEF Secrets
  <1> QED
    BY <1>1, <1>2, <1>6, <1>7, <1>8, <1>9, SecretsKept DEF Secrets

\* The loop takes a message typed here, for a peer whose key is known, and seals it.
LEMMA HandleOutgoingSecret ==
    ASSUME NoFaults', SecretInv, NEW a \in Peers, HandleOutgoing(a)
    PROVE  Secrets'
  <1>1. Typed /\ Secrets
    BY DEF SecretInv, Inv, Secrets
  <1>2. PICK o, b : o = Head(outq[a]) /\ b = o.to
    OBVIOUS
  <1>3. /\ outq[a] # <<>> /\ task[a] = Select /\ outq' = [outq EXCEPT ![a] = Tail(outq[a])]
        /\ UNCHANGED <<node, dbMsgs, chats, view, peerIds, peerKeys, inq, uiq, invite, net>>
    BY DEF HandleOutgoing
  <1>4. PICK s \in Seq(Orders(a)) : /\ s = outq[a] /\ s # <<>> /\ o \in Orders(a) /\ 1 \in DOMAIN s /\ o = s[1]
                                    /\ outq'[a] = Tail(s) /\ \A r \in Peers : r # a => outq'[r] = outq[r]
    <2>1. outq[a] \in Seq(Orders(a)) /\ DOMAIN outq = Peers
      BY <1>1 DEF Typed, OutqTyped
    <2>2. o \in Orders(a) /\ 1 \in DOMAIN outq[a] /\ o = outq[a][1]
      BY <1>2, <1>3, <2>1, TailTyped
    <2>3. outq'[a] = Tail(outq[a]) /\ \A r \in Peers : r # a => outq'[r] = outq[r]
      BY <1>3, <2>1, Entry
    <2> QED
      BY <1>3, <2>1, <2>2, <2>3
  <1>5. b \in Peers /\ b \in Others(a) /\ o.text \in Numbers
    BY <1>2, <1>4 DEF Orders, Others
  <1>6. KnownIn(a, s) /\ HasKey(a, b)
    BY <1>1, <1>2, <1>4 DEF Secrets, ChatsKnown, KnownIn
  <1>7. KeySource(a, b) = IF b \in Malformed THEN NoKey ELSE b
    BY <1>1, <1>5, <1>6, KeySourceGood DEF Secrets
  <1>8. PICK m : m = [kind |-> "chat", n |-> o.text, sealed |-> Sealing(a, b)]
    OBVIOUS
  <1>9. /\ used' = used
        /\ \/ task' = task /\ symKeys' = symKeys
           \/ /\ b \in peerIds[a]
              /\ task' = [task EXCEPT ![a] = [pc |-> "send", to |-> b, msg |-> m]]
              /\ \/ symKeys' = symKeys
                 \/ KeySource(a, b) # NoKey /\ symKeys' = [symKeys EXCEPT ![a][b] = KeySource(a, b)]
    <2>1. ~Fault
      BY <1>1, NoFaultCounted DEF Secrets
    <2>2. Sealing(a, b) = IF KeySource(a, b) # NoKey THEN SharedKey(a, KeySource(a, b)) ELSE Plain
      BY <1>5, <1>7, KeysAssumption DEF Sealing
    <2> QED
      BY <1>2, <1>8, <2>1, <2>2 DEF HandleOutgoing
  <1>10. /\ \A r \in Peers : r # a => task'[r] = task[r]
         /\ \/ task'[a] = task[a]
            \/ b \in peerIds[a] /\ task'[a] = [pc |-> "send", to |-> b, msg |-> m]
         /\ task[a].pc = "select"
    BY <1>1, <1>3, <1>9, Entry DEF Typed, TaskTyped, Select
  <1>11. KeysGood'
    <2>1. CASE symKeys' = symKeys
      BY <1>1, <1>3, <2>1 DEF Secrets, KeysGood
    <2>2. CASE KeySource(a, b) # NoKey /\ symKeys' = [symKeys EXCEPT ![a][b] = KeySource(a, b)]
      <3> b \notin Malformed /\ KeySource(a, b) = b
        BY <1>7, <2>2
      <3>1. symKeys \in [Peers -> [Peers -> Keys \cup {NoKey}]] /\ b \in Keys \cup {NoKey}
        BY <1>1, <1>5 DEF Typed, SymKeysTyped, Keys
      <3>2. symKeys'[a][b] = b /\ \A p, q \in Peers : ~(p = a /\ q = b) => symKeys'[p][q] = symKeys[p][q]
        BY <1>5, <1>7, <2>2, <3>1, Entry2
      <3> QED
        BY <1>1, <1>3, <3>2 DEF Secrets, KeysGood
    <2> QED
      BY <1>9, <2>1, <2>2
  <1>12. WiresGood'
    <2>1. GoodWire(a, b, m)
      BY <1>8 DEF GoodWire
    <2>2. GoodInHand(a, task'[a])
      BY <1>10, <2>1 DEF GoodInHand
    <2>3. \A p \in Peers : GoodInHand(p, task'[p])
      BY <1>1, <1>10, <2>2 DEF Secrets, WiresGood
    <2> QED
      BY <1>1, <1>3, <2>3 DEF Secrets, WiresGood
  <1>13. ChatsKnown'
    <2>1. KnownIn(a, Tail(s))
      BY <1>4, <1>6, TailHolds DEF KnownIn
    <2>2. \A r \in Peers : KnownIn(r, outq'[r])
      BY <1>1, <1>4, <2>1 DEF Secrets, ChatsKnown
    <2> QED
      BY <1>1, <1>3, <2>2 DEF Secrets, ChatsKnown, Listed, KnownIn, HasKey
  <1>14. ReceivedReadable'
    <2>1. \A p \in Peers : task'[p].pc \in {"ack", "deliver"} => task'[p] = task[p]
      BY <1>10
    <2> QED
      BY <1>1, <1>3, <2>1 DEF Secrets, ReceivedReadable, ReadableIn, HasKey
  <1>15. Introduced'
    <2>1. ASSUME NEW p \in Peers, NEW q \in Peers, Unsent(q, p) PROVE Unsent(q, p)'
      <3>1. CASE task'[q] = task[q]
        BY <1>3, <2>1, <3>1, UnsentKept
      <3>2. CASE q = a /\ b \in peerIds[a] /\ task'[a] = [pc |-> "send", to |-> b, msg |-> m]
        <4>1. p \notin peerIds[a]
          BY <1>10, <2>1, <3>2 DEF Unsent
        <4>2. p # b
          BY <3>2, <4>1
        <4> QED
          BY <1>3, <2>1, <3>2, <4>1, <4>2 DEF Unsent
      <3> QED
        BY <1>10, <3>1, <3>2
    <2>2. \A p, q \in Peers : Unsent(q, p) => Unsent(q, p)'
      BY <2>1
    <2> QED
      BY <1>1, <1>3, <2>2, IntroducedKept DEF Secrets
  <1> QED
    BY <1>1, <1>3, <1>9, <1>11, <1>12, <1>13, <1>14, <1>15, SecretsKept DEF Secrets

\* The UI takes what it was told: readable, and of a peer whose key is known.
LEMMA UiTakes ==
    ASSUME SecretInv, NEW a \in Peers, UiApply(a)
    PROVE  /\ Faultless' /\ KeysGood' /\ WiresGood' /\ Introduced' /\ ReceivedReadable'
           /\ Head(uiq[a]) \in Updates(a)
           /\ Head(uiq[a]).kind = "connected" => HasKey(a, Head(uiq[a]).peer)
           /\ Head(uiq[a]).kind = "message" => MayShow(Head(uiq[a]).peer, Head(uiq[a]).msg.text)
           /\ UNCHANGED <<peerKeys, outq, invite>>
  <1>1. Typed /\ Secrets
    BY DEF SecretInv, Inv, Secrets
  <1>2. /\ uiq[a] # <<>> /\ uiq' = [uiq EXCEPT ![a] = Tail(uiq[a])]
        /\ UNCHANGED <<node, peerIds, peerKeys, symKeys, outq, inq, task, invite, net, used>>
    BY DEF UiApply
  <1>3. PICK s \in Seq(Updates(a)) : s = uiq[a] /\ s # <<>>
    BY <1>1, <1>2 DEF Typed, UiqTyped
  <1>4. Head(s) \in Updates(a) /\ 1 \in DOMAIN s /\ Head(s) = s[1]
    BY <1>3, TailTyped
  <1>5. ReadableIn(a, s)
    BY <1>1, <1>3 DEF Secrets, ReceivedReadable
  <1>6. uiq'[a] = Tail(s) /\ \A r \in Peers : r # a => uiq'[r] = uiq[r]
    BY <1>1, <1>2, <1>3, Entry DEF Typed, UiqTyped
  <1>7. ReceivedReadable'
    <2>1. \A i \in DOMAIN uiq'[a] : \E j \in DOMAIN uiq[a] : uiq'[a][i] = uiq[a][j]
      BY <1>3, <1>6, TailHolds
    <2>2. \A p, q \in Peers : HasKey(p, q) => HasKey(p, q)'
      BY <1>2 DEF HasKey
    <2>3. \A p \in Peers : ReadableIn(p, uiq[p])'
      BY <1>1, <1>6, <2>1, <2>2, UpdatesReadable
    <2> QED
      BY <1>1, <1>2, <2>3 DEF Secrets, ReceivedReadable, HasKey
  <1>8. Introduced'
    <2>1. \A p, q \in Peers : Unsent(q, p) => Unsent(q, p)'
      BY <1>2, UnsentKept
    <2> QED
      BY <1>1, <1>2, <2>1, IntroducedKept DEF Secrets
  <1>9. Faultless' /\ KeysGood' /\ WiresGood'
    BY <1>1, <1>2, SecretsKept
  <1>10. /\ Head(s).kind = "connected" => HasKey(a, Head(s).peer)
         /\ Head(s).kind = "message" => MayShow(Head(s).peer, Head(s).msg.text)
    BY <1>4, <1>5 DEF ReadableIn
  <1> QED
    BY <1>2, <1>3, <1>4, <1>7, <1>8, <1>9, <1>10

\* A peer is listed, whose key is known.
LEMMA ApplyConnectedSecret ==
    ASSUME SecretInv, NEW a \in Peers, UiApply(a), Head(uiq[a]).kind = "connected"
    PROVE  Secrets'
  <1>1. Typed /\ Secrets
    BY DEF SecretInv, Inv, Secrets
  <1>2. ApplyConnected(a, Head(uiq[a])) /\ UNCHANGED <<dbMsgs, view>>
    BY DEF UiApply
  <1>3. PICK u \in [kind : {"connected"}, peer : Others(a), name : Names, key : Keys] :
           u = Head(uiq[a]) /\ HasKey(a, u.peer)
    BY UiTakes DEF Updates
  <1>4. /\ \A r \in Peers : r # a => chats'[r] = chats[r]
        /\ {c.peer : c \in ToSet(chats'[a])} = {c.peer : c \in ToSet(chats[a])} \cup {u.peer}
    BY <1>1, <1>2, <1>3, ConnectedEffect
  <1>5. Listed(a)' = Listed(a) \cup {u.peer} /\ \A r \in Peers : r # a => Listed(r)' = Listed(r)
    BY <1>4 DEF Listed
  <1>6. ChatsKnown'
    <2>1. \A r \in Peers : \A q \in Listed(r)' : HasKey(r, q) \/ (invite[r].pc = "registering" /\ invite[r].to = q)
      BY <1>1, <1>3, <1>5 DEF Secrets, ChatsKnown
    <2>2. UNCHANGED <<peerKeys, outq, invite>>
      BY UiTakes
    <2> QED
      BY <1>1, <1>2, <2>1, <2>2 DEF Secrets, ChatsKnown, KnownIn, HasKey
  <1>7. RowsReadable'
    BY <1>1, <1>2, SecretsKept
  <1> QED
    BY <1>6, <1>7, UiTakes DEF Secrets

\* A readable message is stored and shown.
LEMMA ApplyMessageSecret ==
    ASSUME SecretInv, NEW a \in Peers, UiApply(a), Head(uiq[a]).kind = "message"
    PROVE  Secrets'
  <1>1. Typed /\ Secrets
    BY DEF SecretInv, Inv, Secrets
  <1>2. AddMessage(a, Head(uiq[a]).peer, Head(uiq[a]).msg) /\ UNCHANGED <<dbChats, chats>>
    BY DEF UiApply
  <1>3. PICK b \in Others(a), msg \in Messages : /\ b = Head(uiq[a]).peer /\ msg = Head(uiq[a]).msg
                                                /\ MayShow(b, msg.text) /\ AddMessage(a, b, msg)
    <2>1. Head(uiq[a]).peer \in Others(a) /\ Head(uiq[a]).msg \in Messages
      BY UiTakes DEF Updates
    <2> QED
      BY <1>2, <2>1, UiTakes
  <1>4. RowsReadable'
    BY <1>1, <1>3, AddReadable DEF Secrets
  <1>5. \A r \in Peers : view'[r] # NoView => view[r] # NoView /\ view'[r].chat = view[r].chat
    <2>1. view' = IF view[a].chat = b THEN [view EXCEPT ![a].msgs = mem'[a][b]] ELSE view
      BY <1>1, <1>3, AddEffect
    <2>2. DOMAIN view = Peers /\ view[a] \in Views(a)
      BY <1>1 DEF Typed, ViewTyped
    <2>3. CASE view[a].chat = b
      <3>1. view[a] # NoView /\ view[a] \in [chat : Others(a), msgs : Seq(Messages)]
        BY <2>2, <2>3, OpenViewTyped DEF Others
      <3>2. view' = [view EXCEPT ![a] = [view[a] EXCEPT !.msgs = mem'[a][b]]]
        BY <2>1, <2>3
      <3>3. [view[a] EXCEPT !.msgs = mem'[a][b]].chat = view[a].chat
        BY <3>1
      <3> QED
        BY <2>2, <3>1, <3>2, <3>3
    <2>4. CASE view[a].chat # b
      BY <2>1, <2>4
    <2> QED
      BY <2>3, <2>4
  <1>6. ChatsKnown'
    <2>1. UNCHANGED <<peerKeys, outq, invite>>
      BY UiTakes
    <2> QED
      BY <1>1, <1>2, <1>5, <2>1 DEF Secrets, ChatsKnown, Listed, KnownIn, HasKey
  <1> QED
    BY <1>4, <1>6, UiTakes DEF Secrets

\* A status changes, no text does.
LEMMA ApplyStatusSecret ==
    ASSUME SecretInv, NEW a \in Peers, UiApply(a), Head(uiq[a]).kind = "status"
    PROVE  Secrets'
  <1>1. Typed /\ Secrets
    BY DEF SecretInv, Inv, Secrets
  <1>2. PICK id, st : /\ UpdateMessageStatus(a, id, st) /\ UNCHANGED <<dbChats, chats>>
                      /\ st \in Statuses
    <2>1. Head(uiq[a]).status \in Statuses
      BY UiTakes DEF Updates
    <2> QED
      BY <2>1 DEF UiApply
  <1>3. /\ \A r \in Peers : r # a => dbMsgs'[r] = dbMsgs[r] /\ view'[r] = view[r]
        /\ dbMsgs'[a] = [q \in Peers |-> WithStatus(dbMsgs[a][q], id, st)]
        /\ view'[a].chat = view[a].chat
        /\ view[a] = NoView => view' = view
    <2>1. Typed /\ st \in Statuses /\ UpdateMessageStatus(a, id, st)
      BY <1>1, <1>2
    <2>2. \A r \in Peers : r # a => dbMsgs'[r] = dbMsgs[r] /\ view'[r] = view[r]
      BY <2>1, StatusEffect
    <2>3. dbMsgs'[a] = [q \in Peers |-> WithStatus(dbMsgs[a][q], id, st)]
      BY <2>1 DEF UpdateMessageStatus, Typed, DbMsgsTyped
    <2>4. view'[a].chat = view[a].chat
      BY <2>1, StatusEffect
    <2>5. view[a] = NoView => view' = view
      BY <2>1, StatusEffect
    <2> QED
      BY <2>2, <2>3, <2>4, <2>5
  <1>4. RowsReadable'
    <2>1. ASSUME NEW q \in Peers
          PROVE  \A i \in DOMAIN dbMsgs'[a][q] : MayShow(q, dbMsgs'[a][q][i].text)
      <3>1. PICK s \in Seq(Messages) : s = dbMsgs[a][q]
        BY <1>1 DEF Typed, DbMsgsTyped
      <3>2. dbMsgs'[a][q] = WithStatus(s, id, st)
        BY <1>3, <3>1
      <3>3. \A i \in DOMAIN s : s[i] \in Messages /\ MayShow(q, s[i].text)
        BY <1>1, <3>1, SeqElement DEF Secrets, RowsReadable
      <3>4. \A m \in Messages : [m EXCEPT !.status = st].text = m.text
        BY DEF Messages
      <3>5. \A i \in DOMAIN WithStatus(s, id, st) : MayShow(q, WithStatus(s, id, st)[i].text)
        BY <3>3, <3>4 DEF WithStatus
      <3> QED
        BY <3>2, <3>5
    <2>2. \A p, q \in Peers : \A i \in DOMAIN dbMsgs'[p][q] : MayShow(q, dbMsgs'[p][q][i].text)
      BY <1>1, <1>3, <2>1 DEF Secrets, RowsReadable
    <2> QED
      BY <2>2 DEF RowsReadable
  <1>5. ChatsKnown'
    <2>1. UNCHANGED <<peerKeys, outq, invite>>
      BY UiTakes
    <2>2. \A r \in Peers : view'[r] # NoView => view[r] # NoView /\ view'[r].chat = view[r].chat
      BY <1>3
    <2> QED
      BY <1>1, <1>2, <2>1, <2>2 DEF Secrets, ChatsKnown, Listed, KnownIn, HasKey
  <1> QED
    BY <1>4, <1>5, UiTakes DEF Secrets

-----------------------------------------------------------------------------
(* The theorems *)

\* A step without a fault is no crash, restart or failure to reach a peer.
LEMMA NoFaultHappens ==
    ASSUME Typed, NoFaults', Faultless, NEW a \in Peers
    PROVE  ~Crash(a) /\ ~Restart(a) /\ ~InviteFail(a)
  <1>1. ~Crash(a)
    BY DEF NoFaults, Faultless, Typed, UsedTyped, Crash
  <1>2. ~Restart(a)
    BY DEF Faultless, Restart
  <1>3. ASSUME InviteFail(a) PROVE FALSE
    <2>1. invite[a].pc = "sending" /\ (node[invite[a].to] = "off" \/ used.crashes > 0)
      BY <1>3, NoFaultCounted DEF InviteFail
    <2>2. invite[a].pc # "closed"
      BY <2>1
    <2>3. invite[a].to \in Peers
      BY <2>2, InviteHolds
    <2>4. used.crashes = 0 /\ node[invite[a].to] # "off"
      BY <2>3 DEF Faultless
    <2>5. ~(used.crashes > 0)
      BY <2>4
    <2> QED
      BY <2>1, <2>4, <2>5
  <1> QED
    BY <1>1, <1>2, <1>3

\* The initial states satisfy the inductive invariant.
LEMMA InitSecret == Init => SecretInv
  <1> SUFFICES ASSUME Init PROVE SecretInv
    OBVIOUS
  <1>1. Inv
    BY InitInv
  <1>2. Faultless /\ KeysGood
    BY DEF Init, Faultless, KeysGood
  <1>3. WiresGood
    BY DEF Init, WiresGood, GoodOnNet, GoodRead, GoodInHand, Select
  <1>4. Introduced
    BY DEF Init, Introduced, Read, OnNet, Behind, Unsent, Select, Closed
  <1>5. ChatsKnown
    BY DEF Init, ChatsKnown, Listed, KnownIn, ToSet
  <1>6. ReceivedReadable /\ RowsReadable
    BY DEF Init, ReceivedReadable, ReadableIn, RowsReadable, Select
  <1> QED
    BY <1>1, <1>2, <1>3, <1>4, <1>5, <1>6 DEF SecretInv

\* What was counted is not forgotten: a fault that has not happened by the end of a
\* step had not happened before it.
LEMMA FaultsAreCounted ==
    ASSUME Typed, [Next]_vars, NoFaults'
    PROVE  NoFaults
  <1>1. used \in [sends : 0 .. MaxSends, invites : Nat, crashes : Nat, faults : Nat]
    BY DEF Typed, UsedTyped
  <1> DEFINE Counted ==
               \/ used' = used
               \/ \E n : used' = [used EXCEPT !.sends = n]
               \/ used' = [used EXCEPT !.invites = used.invites + 1]
               \/ used' = [used EXCEPT !.crashes = used.crashes + 1]
               \/ used' = [used EXCEPT !.faults = used.faults + 1]
  <1>2. Counted => NoFaults
    BY <1>1 DEF NoFaults
  <1>3. CASE UNCHANGED vars
    BY <1>2, <1>3 DEF vars
  <1>4. CASE Next
    <2>1. PICK p \in Peers :
             \/ OpenChat(p) \/ UserSend(p)
             \/ \E q \in Peers : InviteSubmit(p, q) \/ Listen(p, q)
             \/ InviteStep(p) \/ LoopStep(p) \/ HandleOutgoing(p) \/ UiApply(p)
             \/ Crash(p) \/ Restart(p) \/ NodeOnline(p)
      BY <1>4 DEF Next
    <2>2. ASSUME NEW q \in Peers, NEW m, Send(p, q, m) PROVE Counted
      BY <2>2 DEF Send, Fault
    <2>3. UserSend(p) => Counted
      BY DEF UserSend
    <2>4. ASSUME NEW q \in Peers, InviteSubmit(p, q) \/ Listen(p, q) PROVE Counted
      BY <2>4 DEF InviteSubmit, Listen
    <2>5. InviteStep(p) => Counted
      <3>1. ASSUME InviteSend(p) PROVE Counted
        BY <2>2, <3>1, InviteHolds DEF InviteSend
      <3>2. InviteFail(p) \/ InviteList(p) \/ InviteRegisterKey(p) => Counted
        BY DEF InviteFail, InviteList, InviteRegisterKey, Fault
      <3> QED
        BY <3>1, <3>2 DEF InviteStep
    <2>6. LoopStep(p) => Counted
      <3>1. ASSUME SendAck(p) \/ SendMessage(p) PROVE Counted
        BY <2>2, <3>1, TaskHolds DEF SendAck, SendMessage
      <3>2. HandleHello(p) \/ HandleChat(p) \/ HandleAck(p) \/ DeliverToUi(p) => used' = used
        BY DEF HandleHello, HandleChat, HandleAck, DeliverToUi
      <3> QED
        BY <3>1, <3>2 DEF LoopStep
    <2>7. Crash(p) => Counted
      BY DEF Crash
    <2>8. OpenChat(p) \/ HandleOutgoing(p) \/ UiApply(p) \/ Restart(p) \/ NodeOnline(p) => Counted
      BY DEF OpenChat, HandleOutgoing, UiApply, Restart, NodeOnline, Fault
    <2>9. Counted
      BY <2>1, <2>3, <2>4, <2>5, <2>6, <2>7, <2>8
    <2> QED
      BY <1>2, <2>9
  <1> QED
    BY <1>3, <1>4

\* Every step without a fault keeps it.
LEMMA NextSecret ==
    ASSUME NoFaults', SecretInv, [Next]_vars
    PROVE  SecretInv'
  <1>1. Inv'
    BY NextInv DEF SecretInv
  <1>2. Typed /\ Secrets /\ Faultless
    BY DEF SecretInv, Inv, Secrets
  <1>3. CASE UNCHANGED vars
    <2>1. UNCHANGED <<node, dbChats, dbMsgs, chats, mem, view, peerIds, peerKeys, symKeys, outq, inq, uiq, task,
                      invite, net, used>>
      BY <1>3 DEF vars, volatile
    <2>2. Introduced'
      <3>1. \A p, q \in Peers : Unsent(q, p) => Unsent(q, p)'
        BY <2>1, UnsentKept
      <3> QED
        BY <1>2, <2>1, <3>1, IntroducedKept DEF Secrets
    <2>3. Secrets'
      BY <1>2, <2>1, <2>2, SecretsKept DEF Secrets
    <2> QED
      BY <1>1, <2>3 DEF SecretInv, Secrets
  <1>4. CASE Next
    <2>1. PICK p \in Peers :
             \/ OpenChat(p) \/ UserSend(p)
             \/ \E q \in Peers : InviteSubmit(p, q) \/ Listen(p, q)
             \/ InviteStep(p) \/ LoopStep(p) \/ HandleOutgoing(p) \/ UiApply(p)
             \/ Crash(p) \/ Restart(p) \/ NodeOnline(p)
      BY <1>4 DEF Next
    <2>2. ASSUME OpenChat(p) \/ UserSend(p) \/ NodeOnline(p) \/ HandleOutgoing(p) PROVE Secrets'
      BY <2>2, OpenChatSecret, UserSendSecret, NodeOnlineSecret, HandleOutgoingSecret
    <2>3. ASSUME NEW q \in Peers, InviteSubmit(p, q) \/ Listen(p, q) PROVE Secrets'
      BY <2>3, InviteSubmitSecret, ListenSecret
    <2>4. ASSUME InviteStep(p) PROVE Secrets'
      BY <1>2, <2>4, NoFaultHappens, InviteSendSecret, InviteListSecret, InviteRegisterSecret DEF InviteStep
    <2>5. ASSUME LoopStep(p) PROVE Secrets'
      BY <2>5, HandleHelloSecret, HandleChatSecret, HandleAckSecret, SendAckSecret, DeliverSecret,
         SendMessageSecret DEF LoopStep
    <2>6. ASSUME UiApply(p) PROVE Secrets'
      <3>1. \/ Head(uiq[p]).kind = "connected" \/ Head(uiq[p]).kind = "message"
            \/ Head(uiq[p]).kind = "status"
        BY <2>6 DEF UiApply
      <3> QED
        BY <2>6, <3>1, ApplyConnectedSecret, ApplyMessageSecret, ApplyStatusSecret
    <2>7. ASSUME Crash(p) \/ Restart(p) PROVE Secrets'
      BY <1>2, <2>7, NoFaultHappens
    <2>8. Secrets'
      BY <2>1, <2>2, <2>3, <2>4, <2>5, <2>6, <2>7
    <2> QED
      BY <1>1, <2>8 DEF SecretInv, Secrets
  <1> QED
    BY <1>3, <1>4

\* As long as there has been no fault the inductive invariant holds.
THEOREM SecretInvariance == Spec => [](NoFaults => SecretInv)
  <1>1. Init => (NoFaults => SecretInv)
    BY InitSecret
  <1>2. Inv /\ (NoFaults => SecretInv) /\ [Next]_vars => (NoFaults => SecretInv)'
    BY FaultsAreCounted, NextSecret DEF Inv
  <1> QED
    BY <1>1, <1>2, Invariance, PTL DEF Spec

\* Until a process dies, a message is lost or an operation fails, every message that
\* was written or received can be read, but those of a peer whose key is no curve
\* point: the loop knows its sender's key before it takes a message.
THEOREM EverythingIsReadable == Spec => []EveryMessageReadable
  <1>1. (NoFaults => SecretInv) => EveryMessageReadable
    BY DEF SecretInv, RowsReadable, MayShow, EveryMessageReadable, ToSet
  <1> QED
    BY <1>1, SecretInvariance, PTL

\* Until a process dies, a message is lost or an operation fails, the loop falls back to
\* the plain text only for a peer whose key is no curve point: every other chat message
\* between two peers is sealed with the key of the two.
THEOREM NothingIsSentInTheClear == Spec => []NothingInTheClear
  <1>1. (NoFaults => SecretInv) => NothingInTheClear
    <2> SUFFICES ASSUME SecretInv, NEW p \in Peers, NEW q \in Peers, NEW i \in DOMAIN net[p][q],
                        net[p][q][i].kind = "chat", net[p][q][i].sealed = Plain
                 PROVE  q \in Malformed
      BY DEF NothingInTheClear, ToSet
    <2>1. net[p][q][i].sealed = Sealing(p, q)
      BY DEF SecretInv, WiresGood, GoodOnNet, GoodWire
    <2> QED
      BY <2>1, SealedForTwo DEF Sealing
  <1> QED
    BY <1>1, SecretInvariance, PTL

=============================================================================
