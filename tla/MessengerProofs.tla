-------------------------- MODULE MessengerProofs --------------------------
(* What holds of peers that run imax for every number of peers, messages, invites,
   crashes and faults. *)
EXTENDS Messenger, FiniteSetTheorems, WellFoundedInduction, TLAPS

-----------------------------------------------------------------------------
(* The inductive invariant *)

\* The types of the variables, one by one.  Nobody invites or writes to himself.
Others(p) == Peers \ {p}
Names == {"Peer", "Unknown", "nick"}
Seals == {Plain} \cup SUBSET (Keys \cup {NoKey})
Numbers == 1 .. MaxSends
Wires ==
    [kind : {"hello"}, key : Peers] \cup
    [kind : {"chat"}, n : Numbers, sealed : Seals] \cup
    [kind : {"ack"}, n : Numbers]
Rows == {NoChat} \cup [name : Names, key : Keys]
Entries(p) == [peer : Others(p), name : Names, key : Keys]
Views(p) == {NoView} \cup [chat : Others(p), msgs : Seq(Messages)]
Orders(p) == [to : Others(p), text : Numbers]
Arrivals(p) == [from : Others(p), msg : Wires]
Updates(p) ==
    [kind : {"connected"}, peer : Others(p), name : Names, key : Keys] \cup
    [kind : {"message"}, peer : Others(p), msg : Messages] \cup
    [kind : {"status"}, id : [by : Peers \cup {NoKey}, n : Numbers], status : Statuses]
Tasks(p) ==
    {Select} \cup [pc : {"send"}, to : Others(p), msg : Wires] \cup
    [pc : {"ack", "deliver"}, from : Others(p), n : Numbers, text : Texts]
Invites(p) == {Closed} \cup [pc : {"sending", "sent", "registering"}, to : Others(p)]

NodeTyped == node \in [Peers -> {"off", "starting", "online"}]
DbChatsTyped == dbChats \in [Peers -> [Peers -> Rows]] 
DbMsgsTyped == dbMsgs \in [Peers -> [Peers -> Seq(Messages)]]
ChatsTyped == DOMAIN chats = Peers /\ \A p \in Peers : chats[p] \in Seq(Entries(p))
MemTyped == mem \in [Peers -> [Peers -> Seq(Messages)]]
ViewTyped == DOMAIN view = Peers /\ \A p \in Peers : view[p] \in Views(p)
PeerIdsTyped == DOMAIN peerIds = Peers /\ \A p \in Peers : peerIds[p] \subseteq Others(p)
PeerKeysTyped == peerKeys \in [Peers -> [Peers -> Keys \cup {NoKey}]]
SymKeysTyped == symKeys \in [Peers -> [Peers -> Keys \cup {NoKey}]]
OutqTyped == DOMAIN outq = Peers /\ \A p \in Peers : outq[p] \in Seq(Orders(p))
InqTyped == DOMAIN inq = Peers /\ \A p \in Peers : inq[p] \in Seq(Arrivals(p))
UiqTyped == DOMAIN uiq = Peers /\ \A p \in Peers : uiq[p] \in Seq(Updates(p))
TaskTyped == DOMAIN task = Peers /\ \A p \in Peers : task[p] \in Tasks(p)
InviteTyped == DOMAIN invite = Peers /\ \A p \in Peers : invite[p] \in Invites(p)
NetTyped == net \in [Peers -> [Peers -> Seq(Wires)]] /\ \A p \in Peers : net[p][p] = <<>>
UsedTyped == used \in [sends : 0 .. MaxSends, invites : Nat, crashes : Nat, faults : Nat]

Typed ==
    /\ NodeTyped /\ DbChatsTyped /\ DbMsgsTyped /\ ChatsTyped /\ MemTyped /\ ViewTyped
    /\ PeerIdsTyped /\ PeerKeysTyped /\ SymKeysTyped /\ OutqTyped /\ InqTyped /\ UiqTyped
    /\ TaskTyped /\ InviteTyped /\ NetTyped /\ UsedTyped

\* A process that is off shows nothing, and neither lists nor remembers anything.
OffIsEmpty == \A p \in Peers : node[p] = "off" => view[p] = NoView

\* Of one's own chat there is no row.
NoChatWithOneself == \A p \in Peers : dbChats[p][p] = NoChat

\* The open chat is one that a restart would find again.
OpenIsSaved == \A p \in Peers : view[p] # NoView => dbChats[p][view[p].chat] # NoChat

\* A message comes to the UI after the chat it belongs to, which is saved by then.
AnnouncedIn(s, rows) ==
    \A i \in DOMAIN s : s[i].kind = "message" =>
       \/ rows[s[i].peer] # NoChat
       \/ \E j \in DOMAIN s : j < i /\ s[j].kind = "connected" /\ s[j].peer = s[i].peer
Announced == \A p \in Peers : AnnouncedIn(uiq[p], dbChats[p])

\* The inductive invariant without the numbers of messages.
Inv ==
    /\ Typed
    /\ OffIsEmpty /\ NoChatWithOneself /\ OpenIsSaved /\ Announced
    /\ ViewShowsChat /\ MessagesHaveChat /\ ListedIsSaved

-----------------------------------------------------------------------------
(* The way of a message, and its inductive invariant *)

\* The number of a received message by the place it is in, and 0 for anything else there.
RowNumber == [m \in Messages |-> IF m.mine THEN 0 ELSE m.id.n]
UpdateNumber(p, q) ==
    [u \in Updates(p) |-> IF u.kind = "message" THEN (IF u.peer = q THEN u.msg.id.n ELSE 0) ELSE 0]
WireNumber == [w \in Wires |-> IF w.kind = "chat" THEN w.n ELSE 0]
ArrivalNumber(p, q) == [a \in Arrivals(p) |-> IF a.from = q THEN WireNumber[a.msg] ELSE 0]
OrderNumber(q, p) == [o \in Orders(q) |-> IF o.to = p THEN o.text ELSE 0]

\* A queue holds a number; its numbers rise.
In(s, number, n) == \E i \in DOMAIN s : number[s[i]] = n
Rising(s, number) ==
    \A i, j \in DOMAIN s :
       i < j /\ number[s[i]] # 0 /\ number[s[j]] # 0 => number[s[i]] < number[s[j]]

\* Where the message with number n of q to p is: stored (1), on its way to the UI (2),
\* in the hands of the loop of p (3), read (4), on the network (5), in the hands of
\* the loop of q (6), or queued by q (7).
At(p, q, k, n) ==
    \/ k = 1 /\ In(dbMsgs[p][q], RowNumber, n)
    \/ k = 2 /\ In(uiq[p], UpdateNumber(p, q), n)
    \/ k = 3 /\ task[p].pc \in {"ack", "deliver"} /\ task[p].from = q /\ task[p].n = n
    \/ k = 4 /\ In(inq[p], ArrivalNumber(p, q), n)
    \/ k = 5 /\ In(net[q][p], WireNumber, n)
    \/ k = 6 /\ task[q].pc = "send" /\ task[q].to = p /\ WireNumber[task[q].msg] = n
    \/ k = 7 /\ In(outq[q], OrderNumber(q, p), n)

\* Messages of q to p neither overtake nor meet themselves between two places, ...
PlacesInOrder(p, q) ==
    \A k, l \in 1 .. 7 : k < l =>
       \A m, n \in Numbers : At(p, q, k, m) /\ At(p, q, l, n) => m < n

\* ... nor in any one place; and they have numbers that were given out.
QueuesInOrder(p, q) ==
    /\ Rising(dbMsgs[p][q], RowNumber)
    /\ Rising(uiq[p], UpdateNumber(p, q))
    /\ Rising(inq[p], ArrivalNumber(p, q))
    /\ Rising(net[q][p], WireNumber)
    /\ Rising(outq[q], OrderNumber(q, p))

NumbersUsed(p, q) == \A k \in 1 .. 7 : \A n \in Numbers : At(p, q, k, n) => n <= used.sends

InOrder == \A p, q \in Peers : PlacesInOrder(p, q) /\ QueuesInOrder(p, q) /\ NumbersUsed(p, q)

\* What the UI is told to show was received from the peer it is shown under, with
\* the text the peer has typed or as unreadable, and so is what the loop has in hand.
ReceivedFrom(q, m) == ~m.mine /\ m.id.by = q /\ m.text \in {m.id.n, Unreadable}
ReceivedIn(s) == \A i \in DOMAIN s : s[i].kind = "message" => ReceivedFrom(s[i].peer, s[i].msg)
UpdatesAreReceived == \A p \in Peers : ReceivedIn(uiq[p])
TextInHand(t) == t.pc \in {"ack", "deliver"} => t.text \in {t.n, Unreadable}
TextsInHand == \A p \in Peers : TextInHand(task[p])

\* A row has an id from the clock if it is one's own, and else its author's.
StoredIds ==
    \A p, q \in Peers : \A i \in DOMAIN dbMsgs[p][q] :
       IF dbMsgs[p][q][i].mine THEN dbMsgs[p][q][i].id.by = NoKey ELSE dbMsgs[p][q][i].id.by = q

\* A clock that never repeats itself gives out new ids.
ClockIds ==
    \A p, q \in Peers : \A i \in DOMAIN dbMsgs[p][q] :
       dbMsgs[p][q][i].mine => dbMsgs[p][q][i].id.n <= used.sends

\* The inductive invariant with the numbers of messages.
OrderInv ==
    /\ Inv /\ InOrder /\ UpdatesAreReceived /\ TextsInHand /\ StoredIds
    /\ ~ClockCollides => ClockIds /\ MemoryMatchesDb

-----------------------------------------------------------------------------
(* Sequences and tables *)

\* What a sequence over a set holds.
LEMMA SeqElement ==
    ASSUME NEW S, NEW s \in Seq(S), NEW i \in DOMAIN s
    PROVE  s[i] \in S
  OBVIOUS

\* The empty sequence is one over any set.
LEMMA EmptyTyped ==
    ASSUME NEW S
    PROVE  <<>> \in Seq(S) /\ Len(<<>>) = 0 /\ DOMAIN <<>> = {}
  OBVIOUS

\* Head and tail of a sequence over a set.
LEMMA TailTyped ==
    ASSUME NEW S, NEW s \in Seq(S), s # <<>>
    PROVE  /\ Head(s) \in S /\ Tail(s) \in Seq(S)
           /\ 1 \in DOMAIN s /\ Head(s) = s[1] /\ Len(Tail(s)) = Len(s) - 1
           /\ \A i \in DOMAIN Tail(s) : i \in Nat /\ i + 1 \in DOMAIN s /\ Tail(s)[i] = s[i + 1]
           /\ \A i \in DOMAIN s : i \in Nat /\ (i # 1 => i - 1 \in DOMAIN Tail(s) /\ Tail(s)[i - 1] = s[i])
  OBVIOUS

\* Appending to a sequence over a set.
LEMMA AppendTyped ==
    ASSUME NEW S, NEW s \in Seq(S), NEW e \in S
    PROVE  /\ Append(s, e) \in Seq(S) /\ Len(Append(s, e)) = Len(s) + 1 /\ Len(s) \in Nat
           /\ DOMAIN Append(s, e) = DOMAIN s \cup {Len(s) + 1}
           /\ Append(s, e)[Len(s) + 1] = e
           /\ \A i \in DOMAIN s : i \in Nat /\ i < Len(s) + 1 /\ Append(s, e)[i] = s[i]
  OBVIOUS

\* Appending two elements to a sequence over a set.
LEMMA AppendTwoTyped ==
    ASSUME NEW S, NEW s \in Seq(S), NEW d \in S, NEW e \in S
    PROVE  /\ s \o <<d, e>> = Append(Append(s, d), e)
           /\ s \o <<d, e>> \in Seq(S)
  OBVIOUS

\* The entry of one peer changes.
LEMMA Entry ==
    ASSUME NEW f, DOMAIN f = Peers, NEW p \in Peers, NEW v, NEW g, g = [f EXCEPT ![p] = v]
    PROVE  DOMAIN g = Peers /\ g[p] = v /\ \A r \in Peers : r # p => g[r] = f[r]
  OBVIOUS

\* The entry of one peer for another changes.
LEMMA Entry2 ==
    ASSUME NEW T, NEW f \in [Peers -> [Peers -> T]], NEW p \in Peers, NEW q \in Peers, NEW v \in T,
           NEW g, g = [f EXCEPT ![p][q] = v]
    PROVE  /\ g \in [Peers -> [Peers -> T]] /\ g[p][q] = v
           /\ \A r, z \in Peers : ~(r = p /\ z = q) => g[r][z] = f[r][z]
           /\ \A r \in Peers : r # p => g[r] = f[r]
           /\ g[p] = [f[p] EXCEPT ![q] = v]
  OBVIOUS

\* A set of numbers that is not empty has a least one.
LEMMA LeastElement ==
    ASSUME NEW T \in SUBSET Nat, T # {}
    PROVE  Min(T) \in T /\ \A y \in T : Min(T) <= y
  <1>1. PICK R : R = OpToRel(<, Nat)
    OBVIOUS
  <1>2. \E x \in T : \A y \in T : ~ (<<y, x>> \in R)
    BY <1>1, NatLessThanWellFounded, WFMin
  <1>3. \E x \in T : \A y \in T : x <= y
    <2>1. PICK x \in T : \A y \in T : ~ (<<y, x>> \in R)
      BY <1>2
    <2>2. ASSUME NEW y \in T PROVE x <= y
      <3>1. x \in Nat /\ y \in Nat
        OBVIOUS
      <3>2. y < x => <<y, x>> \in R
        BY <1>1, <3>1 DEF OpToRel
      <3> QED
        BY <2>1, <3>1, <3>2
    <2> QED
      BY <2>2
  <1> QED
    BY <1>3 DEF Min

\* An order of a finite set names each of its elements.
LEMMA OrderNamesAll ==
    ASSUME NEW S \in SUBSET Peers, NEW order \in SetToSeqs(S)
    PROVE  /\ order \in Seq(S)
           /\ \A q \in S : \E i \in DOMAIN order : order[i] = q
  <1>1. IsFiniteSet(S) /\ Cardinality(S) \in Nat
    BY KeysAssumption, FS_Subset, FS_CardinalityType
  <1>2. PICK n \in Nat : n = Cardinality(S)
    BY <1>1
  <1>3. order \in [1 .. n -> S] /\ \A i, j \in 1 .. n : i # j => order[i] # order[j]
    BY <1>2 DEF SetToSeqs
  <1>4. ASSUME NEW q \in S, \A i \in 1 .. n : order[i] # q PROVE FALSE
    <2>1. order \in [1 .. n -> S \ {q}]
      BY <1>3, <1>4
    <2>2. IsFiniteSet(S \ {q}) /\ Cardinality(S \ {q}) = n - 1
      BY <1>1, <1>2, FS_RemoveElement
    <2>3. IsFiniteSet(1 .. n) /\ Cardinality(1 .. n) = n
      BY <1>2, FS_Interval
    <2>4. \E x, y \in 1 .. n : x # y /\ order[x] = order[y]
      <3>1. Cardinality(S \ {q}) < Cardinality(1 .. n)
        BY <1>2, <2>2, <2>3
      <3> QED
        BY <2>1, <2>2, <2>3, <3>1, FS_PigeonHole
    <2> QED
      BY <1>3, <2>4
  <1> QED
    BY <1>3, <1>4

-----------------------------------------------------------------------------
(* What the shared functions do to memory and to the database *)

\* UpdateMessageStatus leaves length, ids, texts and authors as they are.
LEMMA WithStatusTyped ==
    ASSUME NEW msgs \in Seq(Messages), NEW id, NEW st \in Statuses
    PROVE  /\ WithStatus(msgs, id, st) \in Seq(Messages)
           /\ DOMAIN WithStatus(msgs, id, st) = DOMAIN msgs
           /\ \A i \in DOMAIN msgs : /\ WithStatus(msgs, id, st)[i].id = msgs[i].id
                                     /\ WithStatus(msgs, id, st)[i].mine = msgs[i].mine
                                     /\ WithStatus(msgs, id, st)[i].text = msgs[i].text
           /\ (\A i \in DOMAIN msgs : msgs[i].id # id) => WithStatus(msgs, id, st) = msgs
           /\ WithStatus(msgs, id, st) = <<>> <=> msgs = <<>>
  <1> DEFINE new == WithStatus(msgs, id, st)
  <1>1. new = [i \in DOMAIN msgs |-> IF msgs[i].id = id THEN [msgs[i] EXCEPT !.status = st] ELSE msgs[i]]
    BY DEF WithStatus
  <1>2. \A m \in Messages : /\ [m EXCEPT !.status = st] \in Messages
                            /\ [m EXCEPT !.status = st].id = m.id
                            /\ [m EXCEPT !.status = st].mine = m.mine
                            /\ [m EXCEPT !.status = st].text = m.text
    BY DEF Messages
  <1>3. DOMAIN new = DOMAIN msgs /\ \A i \in DOMAIN msgs : msgs[i] \in Messages
    BY <1>1, SeqElement
  <1>4. \A i \in DOMAIN msgs : /\ new[i] \in Messages
                               /\ new[i].id = msgs[i].id /\ new[i].mine = msgs[i].mine
                               /\ new[i].text = msgs[i].text
    BY <1>1, <1>2, <1>3
  <1>5. DOMAIN msgs = 1 .. Len(msgs) /\ Len(msgs) \in Nat
    OBVIOUS
  <1>6. new \in [1 .. Len(msgs) -> Messages]
    BY <1>1, <1>4, <1>5
  <1>7. new \in Seq(Messages) /\ Len(new) = Len(msgs)
    <2> HIDE DEF new
    <2> QED
      BY <1>5, <1>6
  <1>8. (\A i \in DOMAIN msgs : msgs[i].id # id) => new = msgs
    <2> SUFFICES ASSUME \A i \in DOMAIN msgs : msgs[i].id # id PROVE new = msgs
      OBVIOUS
    <2>1. new = [i \in DOMAIN msgs |-> msgs[i]]
      BY <1>1
    <2> QED
      BY <2>1
  <1>9. new = <<>> <=> msgs = <<>>
    <2> HIDE DEF new
    <2> QED
      BY <1>7
  <1> QED
    BY <1>3, <1>4, <1>7, <1>8, <1>9

\* A view of a chat is not NoView.
LEMMA OpenViewTyped ==
    ASSUME NEW p \in Peers, NEW v \in Views(p)
    PROVE  /\ v.chat \in Peers \/ v # NoView =>
                v # NoView /\ v \in [chat : Others(p), msgs : Seq(Messages)]
           /\ v = NoView => v.chat = NoKey /\ v.msgs = <<>>
  BY KeysAssumption DEF Views, NoView

\* Whether an id is in use.
Taken(p, msg) == \E r \in Peers : \E i \in DOMAIN dbMsgs[p][r] : dbMsgs[p][r][i].id = msg.id

\* What AddMessage does: to memory always, to the database unless the id is taken,
\* and to the view when the chat is open.
LEMMA AddEffect ==
    ASSUME Typed, NEW p \in Peers, NEW q \in Others(p), NEW msg \in Messages, AddMessage(p, q, msg)
    PROVE  /\ DbMsgsTyped' /\ MemTyped' /\ ViewTyped'
           /\ IF Taken(p, msg) THEN dbMsgs' = dbMsgs
              ELSE dbMsgs' = [dbMsgs EXCEPT ![p][q] = Append(dbMsgs[p][q], msg)]
           /\ mem' = [mem EXCEPT ![p][q] = Append(mem[p][q], msg)]
           /\ view' = IF view[p].chat = q THEN [view EXCEPT ![p].msgs = mem'[p][q]] ELSE view
           /\ Append(dbMsgs[p][q], msg) \in Seq(Messages)
           /\ Append(mem[p][q], msg) \in Seq(Messages)
  <1>1. q \in Peers /\ mem \in [Peers -> [Peers -> Seq(Messages)]]
        /\ dbMsgs \in [Peers -> [Peers -> Seq(Messages)]]
    BY DEF Typed, MemTyped, DbMsgsTyped, Others
  <1>2. mem[p][q] \in Seq(Messages) /\ dbMsgs[p][q] \in Seq(Messages)
    BY <1>1
  <1>3. Append(mem[p][q], msg) \in Seq(Messages) /\ Append(dbMsgs[p][q], msg) \in Seq(Messages)
    BY <1>2, AppendTyped
  <1>4. mem' = [mem EXCEPT ![p][q] = Append(mem[p][q], msg)]
    BY DEF AddMessage
  <1>5. IF Taken(p, msg) THEN dbMsgs' = dbMsgs
        ELSE dbMsgs' = [dbMsgs EXCEPT ![p][q] = Append(dbMsgs[p][q], msg)]
    BY DEF AddMessage, InsertMessage, Taken
  <1>6. view' = IF view[p].chat = q THEN [view EXCEPT ![p].msgs = mem'[p][q]] ELSE view
    BY DEF AddMessage, RefreshView
  <1>7. MemTyped' /\ mem'[p][q] \in Seq(Messages)
    BY <1>1, <1>3, <1>4, Entry2, ZenonT(60) DEF MemTyped
  <1>8. DbMsgsTyped'
    <2>1. CASE Taken(p, msg)
      BY <1>1, <1>5, <2>1 DEF DbMsgsTyped
    <2>2. CASE ~Taken(p, msg)
      <3>1. dbMsgs' = [dbMsgs EXCEPT ![p][q] = Append(dbMsgs[p][q], msg)]
        BY <1>5, <2>2
      <3>2. dbMsgs' \in [Peers -> [Peers -> Seq(Messages)]]
        BY <1>1, <1>3, <3>1, Entry2
      <3> QED
        BY <3>2 DEF DbMsgsTyped
    <2> QED
      BY <2>1, <2>2
  <1>9. ViewTyped'
    <2>1. DOMAIN view = Peers /\ \A r \in Peers : view[r] \in Views(r)
      BY DEF Typed, ViewTyped
    <2>2. CASE view[p].chat = q
      <3>1. view' = [view EXCEPT ![p] = [view[p] EXCEPT !.msgs = mem'[p][q]]]
        BY <1>6, <2>2
      <3>2. view[p] \in [chat : Others(p), msgs : Seq(Messages)]
        BY <1>1, <2>1, <2>2, OpenViewTyped
      <3>3. [view[p] EXCEPT !.msgs = mem'[p][q]] \in Views(p)
        BY <1>7, <3>2 DEF Views
      <3> QED
        BY <2>1, <3>1, <3>3, Entry DEF ViewTyped
    <2>3. CASE view[p].chat # q
      BY <1>6, <2>1, <2>3 DEF ViewTyped
    <2> QED
      BY <2>2, <2>3
  <1> QED
    BY <1>3, <1>4, <1>5, <1>6, <1>7, <1>8, <1>9

\* What UpdateMessageStatus does.
LEMMA StatusEffect ==
    ASSUME Typed, NEW p \in Peers, NEW id, NEW st \in Statuses, UpdateMessageStatus(p, id, st)
    PROVE  /\ DbMsgsTyped' /\ MemTyped' /\ ViewTyped'
           /\ \A r \in Peers : r # p => /\ dbMsgs'[r] = dbMsgs[r] /\ mem'[r] = mem[r]
                                        /\ view'[r] = view[r]
           /\ mem'[p] = [q \in Peers |-> WithStatus(mem[p][q], id, st)]
           /\ dbMsgs'[p] = [q \in Peers |-> WithStatus(dbMsgs[p][q], id, st)]
           /\ view'[p].chat = view[p].chat
           /\ view'[p].msgs = IF \E m \in ToSet(view[p].msgs) : m.id = id
                              THEN mem'[p][view[p].chat] ELSE view[p].msgs
           /\ view[p] = NoView => view' = view
  <1>1. mem \in [Peers -> [Peers -> Seq(Messages)]] /\ dbMsgs \in [Peers -> [Peers -> Seq(Messages)]]
    BY DEF Typed, MemTyped, DbMsgsTyped
  <1>2. /\ mem' = [mem EXCEPT ![p] = [q \in Peers |-> WithStatus(mem[p][q], id, st)]]
        /\ dbMsgs' = [dbMsgs EXCEPT ![p] = [q \in Peers |-> WithStatus(dbMsgs[p][q], id, st)]]
        /\ view' = IF \E m \in ToSet(view[p].msgs) : m.id = id
                   THEN [view EXCEPT ![p].msgs = mem'[p][view[p].chat]] ELSE view
    BY DEF UpdateMessageStatus
  <1>3. /\ [q \in Peers |-> WithStatus(mem[p][q], id, st)] \in [Peers -> Seq(Messages)]
        /\ [q \in Peers |-> WithStatus(dbMsgs[p][q], id, st)] \in [Peers -> Seq(Messages)]
    <2>1. \A q \in Peers : mem[p][q] \in Seq(Messages) /\ dbMsgs[p][q] \in Seq(Messages)
      BY <1>1
    <2>2. \A q \in Peers : /\ WithStatus(mem[p][q], id, st) \in Seq(Messages)
                           /\ WithStatus(dbMsgs[p][q], id, st) \in Seq(Messages)
      BY <2>1, WithStatusTyped
    <2> QED
      BY <2>2
  <1>4. DbMsgsTyped' /\ MemTyped'
    BY <1>1, <1>2, <1>3 DEF DbMsgsTyped, MemTyped
  <1>5. DOMAIN view = Peers /\ \A r \in Peers : view[r] \in Views(r)
    BY DEF Typed, ViewTyped
  <1>6. CASE \E m \in ToSet(view[p].msgs) : m.id = id
    <2>1. view[p] # NoView
      BY <1>6 DEF NoView, ToSet
    <2>2. view[p] \in [chat : Others(p), msgs : Seq(Messages)]
      BY <1>5, <2>1, OpenViewTyped
    <2>3. view[p].chat \in Peers /\ mem'[p][view[p].chat] \in Seq(Messages)
      BY <1>1, <1>2, <1>3, <2>2 DEF Others
    <2>4. PICK v : v = [view[p] EXCEPT !.msgs = mem'[p][view[p].chat]]
      OBVIOUS
    <2>5. v \in Views(p) /\ v.chat = view[p].chat /\ v.msgs = mem'[p][view[p].chat]
      BY <2>2, <2>3, <2>4 DEF Views
    <2>6. view' = [view EXCEPT ![p] = v]
      BY <1>2, <1>6, <2>4
    <2>7. DOMAIN view' = Peers /\ view'[p] = v /\ \A r \in Peers : r # p => view'[r] = view[r]
      BY <1>5, <2>6, Entry
    <2>8. ViewTyped'
      BY <1>5, <2>5, <2>7 DEF ViewTyped
    <2> QED
      BY <1>1, <1>2, <1>4, <1>6, <2>1, <2>5, <2>7, <2>8
  <1>7. CASE ~\E m \in ToSet(view[p].msgs) : m.id = id
    <2>1. view' = view
      BY <1>2, <1>7
    <2>2. ViewTyped'
      BY <1>5, <2>1 DEF ViewTyped
    <2> QED
      BY <1>1, <1>2, <1>4, <1>7, <2>1, <2>2
  <1> QED
    BY <1>6, <1>7

\* What ApplyConnected does: an entry for the peer is in the list and is saved.
LEMMA ConnectedEffect ==
    ASSUME Typed, NEW p \in Peers, NEW u \in [kind : {"connected"}, peer : Others(p), name : Names, key : Keys],
           ApplyConnected(p, u)
    PROVE  /\ ChatsTyped' /\ DbChatsTyped'
           /\ \A r \in Peers : r # p => chats'[r] = chats[r] /\ dbChats'[r] = dbChats[r]
           /\ \A q \in Peers : q # u.peer => dbChats'[p][q] = dbChats[p][q]
           /\ dbChats'[p][u.peer] # NoChat
           /\ {c.peer : c \in ToSet(chats'[p])} = {c.peer : c \in ToSet(chats[p])} \cup {u.peer}
  <1> DEFINE listed == {i \in DOMAIN chats[p] : chats[p][i].peer = u.peer}
             first == Min(listed)
             new == [peer |-> u.peer, name |-> u.name, key |-> u.key]
  <1>1. /\ u.peer \in Others(p) /\ u.peer \in Peers /\ u.name \in Names /\ u.key \in Keys
        /\ new \in Entries(p) /\ new.peer = u.peer
    BY DEF Others, Entries
  <1>2. DOMAIN chats = Peers /\ \A r \in Peers : chats[r] \in Seq(Entries(r))
    BY DEF Typed, ChatsTyped
  <1>3. dbChats \in [Peers -> [Peers -> Rows]]
    BY DEF Typed, DbChatsTyped
  <1>4. PICK e \in Entries(p) :
           /\ e.peer = u.peer
           /\ dbChats' = [dbChats EXCEPT ![p][u.peer] = [name |-> e.name, key |-> e.key]]
           /\ \/ chats' = [chats EXCEPT ![p] = Append(chats[p], e)]
              \/ \E i \in listed : chats' = [chats EXCEPT ![p][i] = e]
    <2>1. CASE listed = {}
      BY <1>1, <2>1 DEF ApplyConnected, UpsertChat
    <2>2. CASE listed # {}
      <3>1. listed \in SUBSET Nat
        BY <1>2
      <3>2. first \in listed
        BY <2>2, <3>1, LeastElement
      <3>3. PICK old \in Entries(p) : old = chats[p][first] /\ old.peer = u.peer
        BY <1>2, <3>2, SeqElement
      <3>4. PICK name \in Names, key \in Keys :
               /\ name = IF old.name \in {"Peer", "Unknown"} THEN u.name ELSE old.name
               /\ key = IF old.key = NoKey THEN u.key ELSE old.key
        BY <1>1, <3>3 DEF Entries
      <3>5. [[old EXCEPT !.name = IF old.name \in {"Peer", "Unknown"} THEN u.name ELSE old.name]
                  EXCEPT !.key = IF old.key = NoKey THEN u.key ELSE old.key] =
               [peer |-> u.peer, name |-> name, key |-> key]
        <4>1. old = [peer |-> u.peer, name |-> old.name, key |-> old.key]
          BY <3>3 DEF Entries
        <4>2. PICK b, c : b = old.name /\ c = old.key
          OBVIOUS
        <4>3. /\ [[peer |-> u.peer, name |-> b, key |-> c] EXCEPT !.name = name] =
                    [peer |-> u.peer, name |-> name, key |-> c]
              /\ [[peer |-> u.peer, name |-> name, key |-> c] EXCEPT !.key = key] =
                    [peer |-> u.peer, name |-> name, key |-> key]
          OBVIOUS
        <4> QED
          BY <3>4, <4>1, <4>2, <4>3
      <3>6. PICK e : e = [peer |-> u.peer, name |-> name, key |-> key]
        OBVIOUS
      <3>7. e \in Entries(p) /\ e.peer = u.peer
        BY <1>1, <3>4, <3>6 DEF Entries
      <3>8. /\ chats' = [chats EXCEPT ![p][first] = e]
            /\ dbChats' = [dbChats EXCEPT ![p][u.peer] = [name |-> e.name, key |-> e.key]]
        BY <2>2, <3>3, <3>5, <3>6 DEF ApplyConnected, UpsertChat
      <3> QED
        BY <3>2, <3>7, <3>8
    <2> QED
      BY <2>1, <2>2
  <1>5. /\ [name |-> e.name, key |-> e.key] \in Rows
        /\ [name |-> e.name, key |-> e.key] # NoChat
    BY DEF Entries, Rows, NoChat, Names
  <1>6. /\ DbChatsTyped'
        /\ \A r \in Peers : r # p => dbChats'[r] = dbChats[r]
        /\ \A q \in Peers : q # u.peer => dbChats'[p][q] = dbChats[p][q]
        /\ dbChats'[p][u.peer] # NoChat
    BY <1>1, <1>3, <1>4, <1>5, Entry2 DEF DbChatsTyped
  <1> HIDE DEF listed
  <1>7. PICK s \in Seq(Entries(p)) :
           /\ chats' = [chats EXCEPT ![p] = s]
           /\ {c.peer : c \in ToSet(s)} = {c.peer : c \in ToSet(chats[p])} \cup {u.peer}
    <2>1. CASE chats' = [chats EXCEPT ![p] = Append(chats[p], e)]
      <3>1. PICK t \in Seq(Entries(p)) : t = chats[p]
        BY <1>2
      <3>2. /\ Append(t, e) \in Seq(Entries(p)) /\ DOMAIN Append(t, e) = DOMAIN t \cup {Len(t) + 1}
            /\ Append(t, e)[Len(t) + 1] = e /\ \A i \in DOMAIN t : Append(t, e)[i] = t[i]
        BY AppendTyped
      <3>3. ToSet(Append(t, e)) = ToSet(t) \cup {e}
        BY <3>2 DEF ToSet
      <3>4. {c.peer : c \in ToSet(Append(t, e))} = {c.peer : c \in ToSet(t)} \cup {u.peer}
        BY <1>4, <3>3
      <3> QED
        BY <2>1, <3>1, <3>2, <3>4
    <2>2. CASE \E i \in listed : chats' = [chats EXCEPT ![p][i] = e]
      <3>1. PICK i \in listed : chats' = [chats EXCEPT ![p][i] = e]
        BY <2>2
      <3>2. PICK t \in Seq(Entries(p)) : t = chats[p]
        BY <1>2
      <3>3. i \in DOMAIN t /\ t[i].peer = u.peer
        BY <3>1, <3>2 DEF listed
      <3>4. PICK s : s = [t EXCEPT ![i] = e]
        OBVIOUS
      <3>5. s \in Seq(Entries(p)) /\ DOMAIN s = DOMAIN t /\ s[i] = e /\ \A j \in DOMAIN t : j # i => s[j] = t[j]
        BY <3>3, <3>4
      <3>6. \A j \in DOMAIN t : s[j].peer = t[j].peer
        BY <1>4, <3>3, <3>5
      <3>7. {c.peer : c \in ToSet(s)} = {c.peer : c \in ToSet(t)}
        BY <3>5, <3>6 DEF ToSet
      <3>8. u.peer \in {c.peer : c \in ToSet(t)}
        BY <3>3 DEF ToSet
      <3>9. chats' = [chats EXCEPT ![p] = s]
        BY <3>1, <3>2, <3>4
      <3> QED
        BY <3>2, <3>5, <3>7, <3>8, <3>9
    <2> QED
      BY <1>4, <2>1, <2>2
  <1>8. DOMAIN chats' = Peers /\ chats'[p] = s /\ \A r \in Peers : r # p => chats'[r] = chats[r]
    BY <1>2, <1>7, Entry
  <1>9. ChatsTyped'
    BY <1>2, <1>7, <1>8 DEF ChatsTyped
  <1> QED
    BY <1>6, <1>7, <1>8, <1>9

\* What a step that may fail uses up.
LEMMA FaultEffect ==
    ASSUME Typed, UNCHANGED used \/ Fault
    PROVE  UsedTyped' /\ used'.sends = used.sends
  <1>1. used \in [sends : 0 .. MaxSends, invites : Nat, crashes : Nat, faults : Nat]
    BY DEF Typed, UsedTyped
  <1>2. CASE UNCHANGED used
    BY <1>1, <1>2 DEF UsedTyped
  <1>3. CASE Fault
    <2>1. used.faults + 1 \in Nat /\ used' = [used EXCEPT !.faults = used.faults + 1]
      BY <1>1, <1>3 DEF Fault
    <2>2. used' \in [sends : 0 .. MaxSends, invites : Nat, crashes : Nat, faults : Nat]
          /\ used'.sends = used.sends
      BY <1>1, <2>1
    <2> QED
      BY <2>2 DEF UsedTyped
  <1> QED
    BY <1>2, <1>3

\* What Send does: the message comes last of those on their way, or is lost.
LEMMA SendEffect ==
    ASSUME Typed, NEW p \in Peers, NEW q \in Others(p), NEW m \in Wires, Send(p, q, m)
    PROVE  /\ NetTyped' /\ UsedTyped' /\ used'.sends = used.sends
           /\ net' = net \/ net' = [net EXCEPT ![p][q] = Append(net[p][q], m)]
  <1>1. net \in [Peers -> [Peers -> Seq(Wires)]] /\ q \in Peers /\ q # p
        /\ \A r \in Peers : net[r][r] = <<>>
    BY DEF Typed, NetTyped, Others
  <1>2. used \in [sends : 0 .. MaxSends, invites : Nat, crashes : Nat, faults : Nat]
    BY DEF Typed, UsedTyped
  <1>3. CASE net' = [net EXCEPT ![p][q] = Append(net[p][q], m)] /\ UNCHANGED used
    <2>1. net[p][q] \in Seq(Wires)
      BY <1>1
    <2>2. Append(net[p][q], m) \in Seq(Wires)
      BY <2>1, AppendTyped
    <2>3. /\ net' \in [Peers -> [Peers -> Seq(Wires)]]
          /\ \A r, z \in Peers : ~(r = p /\ z = q) => net'[r][z] = net[r][z]
      BY <1>1, <1>3, <2>2, Entry2, SMTT(60)
    <2>4. \A r \in Peers : net'[r][r] = <<>>
      BY <1>1, <2>3
    <2> QED
      BY <1>2, <1>3, <2>3, <2>4 DEF NetTyped, UsedTyped
  <1>4. CASE UNCHANGED <<net, used>>
    BY <1>1, <1>2, <1>4 DEF NetTyped, UsedTyped
  <1>5. CASE Fault /\ UNCHANGED net
    BY <1>1, <1>5, FaultEffect DEF NetTyped
  <1> QED
    BY <1>3, <1>4, <1>5 DEF Send

-----------------------------------------------------------------------------
(* Steps that only pass messages on *)

\* What does not change keeps its type.
LEMMA TypesKept ==
    ASSUME Typed
    PROVE  /\ UNCHANGED node => NodeTyped'
           /\ UNCHANGED dbChats => DbChatsTyped'
           /\ UNCHANGED dbMsgs => DbMsgsTyped'
           /\ UNCHANGED chats => ChatsTyped'
           /\ UNCHANGED mem => MemTyped'
           /\ UNCHANGED view => ViewTyped'
           /\ UNCHANGED peerIds => PeerIdsTyped'
           /\ UNCHANGED peerKeys => PeerKeysTyped'
           /\ UNCHANGED symKeys => SymKeysTyped'
           /\ UNCHANGED outq => OutqTyped'
           /\ UNCHANGED inq => InqTyped'
           /\ UNCHANGED uiq => UiqTyped'
           /\ UNCHANGED task => TaskTyped'
           /\ UNCHANGED invite => InviteTyped'
           /\ UNCHANGED net => NetTyped'
           /\ UNCHANGED used => UsedTyped'
  <1> USE DEF Typed
  <1>1. /\ UNCHANGED node => NodeTyped'
        /\ UNCHANGED dbChats => DbChatsTyped'
        /\ UNCHANGED dbMsgs => DbMsgsTyped'
        /\ UNCHANGED mem => MemTyped'
    BY DEF NodeTyped, DbChatsTyped, DbMsgsTyped, MemTyped
  <1>2. /\ UNCHANGED chats => ChatsTyped'
        /\ UNCHANGED view => ViewTyped'
        /\ UNCHANGED peerIds => PeerIdsTyped'
        /\ UNCHANGED invite => InviteTyped'
    BY DEF ChatsTyped, ViewTyped, PeerIdsTyped, InviteTyped
  <1>3. /\ UNCHANGED peerKeys => PeerKeysTyped'
        /\ UNCHANGED symKeys => SymKeysTyped'
        /\ UNCHANGED net => NetTyped'
        /\ UNCHANGED used => UsedTyped'
    BY DEF PeerKeysTyped, SymKeysTyped, NetTyped, UsedTyped
  <1>4. /\ UNCHANGED outq => OutqTyped'
        /\ UNCHANGED inq => InqTyped'
        /\ UNCHANGED uiq => UiqTyped'
        /\ UNCHANGED task => TaskTyped'
    BY DEF OutqTyped, InqTyped, UiqTyped, TaskTyped
  <1> QED
    BY <1>1, <1>2, <1>3, <1>4

\* A step that touches nothing the user sees, nor what is on its way there.
LEMMA QuietStep ==
    ASSUME Inv, Typed', UNCHANGED <<node, dbChats, dbMsgs, chats, mem, view, uiq>>
    PROVE  Inv'
  <1>1. OffIsEmpty' /\ NoChatWithOneself' /\ OpenIsSaved'
    BY DEF Inv, OffIsEmpty, NoChatWithOneself, OpenIsSaved
  <1>2. Announced'
    BY DEF Inv, Announced
  <1>3. ViewShowsChat' /\ MessagesHaveChat' /\ ListedIsSaved'
    BY DEF Inv, ViewShowsChat, MessagesHaveChat, ListedIsSaved
  <1> QED
    BY <1>1, <1>2, <1>3 DEF Inv

\* What the invite task and the message loop hold, by their places.
LEMMA InviteHolds ==
    ASSUME Typed, NEW p \in Peers, invite[p].pc # "closed"
    PROVE  /\ invite[p] = [pc |-> invite[p].pc, to |-> invite[p].to]
           /\ invite[p].to \in Others(p) /\ invite[p].to \in Peers
  <1>1. invite[p] \in Invites(p) /\ Closed.pc = "closed"
    BY DEF Typed, InviteTyped, Closed
  <1> QED
    BY <1>1 DEF Invites, Others

\* What the message loop holds, by its place.
LEMMA TaskHolds ==
    ASSUME Typed, NEW p \in Peers
    PROVE  /\ task[p].pc = "select" => task[p] = Select
           /\ task[p].pc = "send" => /\ task[p] = [pc |-> "send", to |-> task[p].to, msg |-> task[p].msg]
                                     /\ task[p].to \in Others(p) /\ task[p].to \in Peers
                                     /\ task[p].msg \in Wires
           /\ task[p].pc \in {"ack", "deliver"} =>
                 /\ task[p] = [pc |-> task[p].pc, from |-> task[p].from, n |-> task[p].n, text |-> task[p].text]
                 /\ task[p].from \in Others(p) /\ task[p].from \in Peers
                 /\ task[p].n \in Numbers /\ task[p].text \in Texts
           /\ task[p].pc \in {"select", "send", "ack", "deliver"}
  <1>1. task[p] \in Tasks(p) /\ Select.pc = "select"
    BY DEF Typed, TaskTyped, Select
  <1>2. CASE task[p] = Select
    BY <1>1, <1>2
  <1>3. CASE task[p] \in [pc : {"send"}, to : Others(p), msg : Wires]
    BY <1>3 DEF Others
  <1>4. CASE task[p] \in [pc : {"ack", "deliver"}, from : Others(p), n : Numbers, text : Texts]
    BY <1>4 DEF Others
  <1> QED
    BY <1>1, <1>2, <1>3, <1>4 DEF Tasks

\* The task of the invite modal up to its last lines.
LEMMA InviteSteps ==
    ASSUME Inv, NEW p \in Peers,
           \/ \E q \in Peers : InviteSubmit(p, q)
           \/ InviteSend(p) \/ InviteFail(p) \/ InviteRegisterKey(p)
    PROVE  Inv'
  <1>1. UNCHANGED <<node, dbChats, dbMsgs, chats, mem, view, uiq, peerIds, symKeys, outq, inq, task>>
    BY DEF InviteSubmit, InviteSend, InviteFail, InviteRegisterKey
  <1>2. Typed /\ DOMAIN invite = Peers /\ \A r \in Peers : invite[r] \in Invites(r)
    BY DEF Inv, Typed, InviteTyped
  <1>3. InviteTyped'
    <2>1. PICK v \in Invites(p) : invite' = [invite EXCEPT ![p] = v]
      <3>1. CASE \E q \in Peers : InviteSubmit(p, q)
        <4>1. PICK q \in Peers : InviteSubmit(p, q)
          BY <3>1
        <4>2. /\ invite' = [invite EXCEPT ![p] = [pc |-> "sending", to |-> q]] /\ q \in Others(p)
          BY <4>1 DEF InviteSubmit, Others
        <4>3. [pc |-> "sending", to |-> q] \in Invites(p)
          BY <4>2 DEF Invites
        <4> QED
          BY <4>2, <4>3
      <3>2. CASE InviteSend(p)
        <4>1. /\ invite' = [invite EXCEPT ![p] = [invite[p] EXCEPT !.pc = "sent"]]
              /\ invite[p].pc = "sending"
          BY <3>2 DEF InviteSend
        <4>2. PICK to \in Others(p) : invite[p] = [pc |-> "sending", to |-> to]
          BY <1>2, <4>1, InviteHolds
        <4>3. [invite[p] EXCEPT !.pc = "sent"] = [pc |-> "sent", to |-> to]
          BY <4>2
        <4>4. [pc |-> "sent", to |-> to] \in Invites(p)
          BY DEF Invites
        <4> QED
          BY <4>1, <4>3, <4>4
      <3>3. CASE InviteFail(p) \/ InviteRegisterKey(p)
        BY <3>3 DEF InviteFail, InviteRegisterKey, Invites
      <3> QED
        BY <3>1, <3>2, <3>3
    <2> QED
      BY <1>2, <2>1, Entry DEF InviteTyped
  <1>4. PeerKeysTyped'
    <2>1. CASE InviteRegisterKey(p)
      <3>1. /\ peerKeys' = [peerKeys EXCEPT ![p][invite[p].to] = invite[p].to]
            /\ invite[p].pc = "registering"
        BY <2>1 DEF InviteRegisterKey
      <3>2. invite[p].to \in Peers /\ invite[p].to \in Keys \cup {NoKey}
        BY <1>2, <3>1, InviteHolds DEF Keys
      <3>3. peerKeys' \in [Peers -> [Peers -> Keys \cup {NoKey}]]
        BY <1>2, <3>1, <3>2, Entry2 DEF Typed, PeerKeysTyped
      <3> QED
        BY <3>3 DEF PeerKeysTyped
    <2>2. CASE UNCHANGED peerKeys
      BY <1>2, <2>2, TypesKept
    <2> QED
      BY <2>1, <2>2 DEF InviteSubmit, InviteSend, InviteFail, InviteRegisterKey
  <1>5. NetTyped' /\ UsedTyped'
    <2>1. CASE \E q \in Peers : InviteSubmit(p, q)
      <3>1. UNCHANGED net /\ used' = [used EXCEPT !.invites = used.invites + 1]
        BY <2>1 DEF InviteSubmit
      <3>2. used \in [sends : 0 .. MaxSends, invites : Nat, crashes : Nat, faults : Nat]
        BY <1>2 DEF Typed, UsedTyped
      <3>3. used.invites + 1 \in Nat
        BY <3>2
      <3>4. used' \in [sends : 0 .. MaxSends, invites : Nat, crashes : Nat, faults : Nat]
        BY <3>1, <3>2, <3>3
      <3> QED
        BY <1>2, <3>1, <3>4, TypesKept DEF UsedTyped
    <2>2. CASE InviteSend(p)
      <3>1. invite[p].to \in Others(p) /\ Hello(p) \in Wires /\ Send(p, invite[p].to, Hello(p))
        BY <1>2, <2>2, InviteHolds DEF InviteSend, Hello, Wires
      <3> QED
        BY <1>2, <3>1, SendEffect
    <2>3. CASE InviteFail(p) \/ InviteRegisterKey(p)
      <3>1. UNCHANGED net /\ (UNCHANGED used \/ Fault)
        BY <2>3 DEF InviteFail, InviteRegisterKey
      <3> QED
        BY <1>2, <3>1, TypesKept, FaultEffect
    <2> QED
      BY <2>1, <2>2, <2>3
  <1>6. Typed'
    BY <1>1, <1>2, <1>3, <1>4, <1>5, TypesKept DEF Typed
  <1> QED
    BY <1>1, <1>6, QuietStep

\* What the loop takes from incoming_rx.
LEMMA ReceivedTyped ==
    ASSUME Typed, NEW p \in Peers, NEW kind, Receives(p, kind)
    PROVE  /\ inq[p] \in Seq(Arrivals(p)) /\ inq[p] # <<>> /\ inq' = [inq EXCEPT ![p] = Tail(inq[p])]
           /\ Head(inq[p]).from \in Others(p) /\ Head(inq[p]).from \in Peers
           /\ Head(inq[p]).msg \in Wires /\ Head(inq[p]).msg.kind = kind
           /\ InqTyped'
  <1>1. DOMAIN inq = Peers /\ \A r \in Peers : inq[r] \in Seq(Arrivals(r))
    BY DEF Typed, InqTyped
  <1>2. inq[p] # <<>> /\ inq' = [inq EXCEPT ![p] = Tail(inq[p])] /\ Head(inq[p]).msg.kind = kind
    BY DEF Receives
  <1>3. Head(inq[p]) \in Arrivals(p) /\ Tail(inq[p]) \in Seq(Arrivals(p))
    BY <1>1, <1>2, TailTyped
  <1>4. InqTyped'
    BY <1>1, <1>2, <1>3, Entry DEF InqTyped
  <1> QED
    BY <1>1, <1>2, <1>3, <1>4 DEF Arrivals, Others

\* A stream listener, and the loop between its awaits.
LEMMA ListenStep ==
    ASSUME Inv, NEW p \in Peers, NEW q \in Peers, Listen(p, q)
    PROVE  Inv'
  <1>1. /\ net[q][p] # <<>>
        /\ inq' = [inq EXCEPT ![p] = Append(inq[p], [from |-> q, msg |-> Head(net[q][p])])]
        /\ net' = [net EXCEPT ![q][p] = Tail(net[q][p])]
        /\ UNCHANGED <<node, dbChats, dbMsgs, chats, mem, view, peerIds, peerKeys, symKeys,
                       outq, uiq, task, invite, used>>
    BY DEF Listen
  <1>2. Typed /\ net \in [Peers -> [Peers -> Seq(Wires)]] /\ \A r \in Peers : net[r][r] = <<>>
    BY DEF Inv, Typed, NetTyped
  <1>3. q # p /\ q \in Others(p) /\ net[q][p] \in Seq(Wires)
    BY <1>1, <1>2 DEF Others
  <1>4. Head(net[q][p]) \in Wires /\ Tail(net[q][p]) \in Seq(Wires)
    BY <1>1, <1>3, TailTyped
  <1>5. NetTyped'
    <2>1. /\ net' \in [Peers -> [Peers -> Seq(Wires)]]
          /\ \A r, z \in Peers : ~(r = q /\ z = p) => net'[r][z] = net[r][z]
      BY <1>1, <1>2, <1>4, Entry2, SMTT(60)
    <2> QED
      BY <1>2, <1>3, <2>1 DEF NetTyped
  <1>6. InqTyped'
    <2>1. DOMAIN inq = Peers /\ \A r \in Peers : inq[r] \in Seq(Arrivals(r))
      BY <1>2 DEF Typed, InqTyped
    <2>2. [from |-> q, msg |-> Head(net[q][p])] \in Arrivals(p)
      BY <1>3, <1>4 DEF Arrivals
    <2>3. Append(inq[p], [from |-> q, msg |-> Head(net[q][p])]) \in Seq(Arrivals(p))
      BY <2>1, <2>2, AppendTyped
    <2> QED
      BY <1>1, <2>1, <2>3, Entry DEF InqTyped
  <1>7. Typed'
    BY <1>1, <1>2, <1>5, <1>6, TypesKept DEF Typed
  <1> QED
    BY <1>1, <1>7, QuietStep

\* What the key of a chat is derived from is a key, if there is any.
LEMMA KeySourceTyped ==
    ASSUME Typed, NEW p \in Peers, NEW q \in Peers
    PROVE  /\ KeySource(p, q) \in Keys \cup {NoKey}
           /\ SharedKey(p, KeySource(p, q)) \in Seals
           /\ \A f : f = [symKeys EXCEPT ![p][q] = KeySource(p, q)] =>
                        f \in [Peers -> [Peers -> Keys \cup {NoKey}]]
  <1>1. /\ symKeys \in [Peers -> [Peers -> Keys \cup {NoKey}]]
        /\ peerKeys \in [Peers -> [Peers -> Keys \cup {NoKey}]]
    BY DEF Typed, SymKeysTyped, PeerKeysTyped
  <1>2. KeySource(p, q) \in Keys \cup {NoKey}
    BY <1>1 DEF KeySource
  <1>3. SharedKey(p, KeySource(p, q)) \in Seals
    BY <1>2 DEF SharedKey, Seals, Keys
  <1>4. ASSUME NEW f, f = [symKeys EXCEPT ![p][q] = KeySource(p, q)]
        PROVE  f \in [Peers -> [Peers -> Keys \cup {NoKey}]]
    BY <1>1, <1>2, <1>4, Entry2
  <1> QED
    BY <1>2, <1>3, <1>4

\* The loop takes a message and decides on its text.
LEMMA HandleChatStep ==
    ASSUME Inv, NEW p \in Peers, HandleChat(p)
    PROVE  Inv'
  <1>1. PICK q \in Peers, n \in Numbers, text \in Texts :
           /\ q \in Others(p) /\ q = Head(inq[p]).from /\ n = Head(inq[p]).msg.n
           /\ task' = [task EXCEPT ![p] = [pc |-> "ack", from |-> q, n |-> n, text |-> text]]
           /\ symKeys' = symKeys \/ symKeys' = [symKeys EXCEPT ![p][q] = KeySource(p, q)]
    <2>1. /\ Head(inq[p]).from \in Others(p) /\ Head(inq[p]).from \in Peers
          /\ Head(inq[p]).msg \in Wires /\ Head(inq[p]).msg.kind = "chat"
      BY ReceivedTyped DEF HandleChat, Inv
    <2>2. Head(inq[p]).msg.n \in Numbers
      BY <2>1 DEF Wires
    <2>3. PICK text : /\ task' = [task EXCEPT ![p] = [pc |-> "ack", from |-> Head(inq[p]).from,
                                                    n |-> Head(inq[p]).msg.n, text |-> text]]
                      /\ text \in {Head(inq[p]).msg.n, Unreadable}
      BY DEF HandleChat
    <2>4. text \in Texts
      BY <2>2, <2>3 DEF Texts, Numbers
    <2>5. \/ symKeys' = symKeys
          \/ symKeys' = [symKeys EXCEPT ![p][Head(inq[p]).from] = KeySource(p, Head(inq[p]).from)]
      BY DEF HandleChat
    <2> QED
      BY <2>1, <2>2, <2>3, <2>4, <2>5
  <1>2. UNCHANGED <<node, dbChats, dbMsgs, chats, mem, view, peerIds, peerKeys, outq, uiq, invite, net, used>>
    BY DEF HandleChat
  <1>3. Typed /\ DOMAIN task = Peers /\ \A r \in Peers : task[r] \in Tasks(r)
    BY DEF Inv, Typed, TaskTyped
  <1>4. InqTyped'
    BY <1>3, ReceivedTyped DEF HandleChat
  <1>5. SymKeysTyped'
    BY <1>1, <1>3, TypesKept, KeySourceTyped DEF SymKeysTyped
  <1>6. TaskTyped'
    <2>1. [pc |-> "ack", from |-> q, n |-> n, text |-> text] \in Tasks(p)
      BY <1>1 DEF Tasks
    <2> QED
      BY <1>1, <1>3, <2>1, Entry DEF TaskTyped
  <1>7. Typed'
    BY <1>2, <1>3, <1>4, <1>5, <1>6, TypesKept DEF Typed
  <1> QED
    BY <1>2, <1>7, QuietStep

\* The loop takes a message typed here.
LEMMA HandleOutgoingStep ==
    ASSUME Inv, NEW p \in Peers, HandleOutgoing(p)
    PROVE  Inv'
  <1> DEFINE o == Head(outq[p])
  <1>1. /\ outq[p] # <<>> /\ outq' = [outq EXCEPT ![p] = Tail(outq[p])]
        /\ UNCHANGED <<node, dbChats, dbMsgs, chats, mem, view, peerIds, peerKeys, inq, uiq, invite, net>>
        /\ UNCHANGED used \/ Fault
    BY DEF HandleOutgoing
  <1>2. /\ Typed /\ DOMAIN outq = Peers /\ (\A r \in Peers : outq[r] \in Seq(Orders(r)))
        /\ DOMAIN task = Peers /\ \A r \in Peers : task[r] \in Tasks(r)
    BY DEF Inv, Typed, OutqTyped, TaskTyped
  <1>3. o \in Orders(p) /\ Tail(outq[p]) \in Seq(Orders(p))
    BY <1>1, <1>2, TailTyped
  <1>4. o.to \in Others(p) /\ o.to \in Peers /\ o.text \in Numbers
    BY <1>3 DEF Orders, Others
  <1>5. OutqTyped'
    BY <1>1, <1>2, <1>3, Entry DEF OutqTyped
  <1>6. PICK sealed \in Seals :
           /\ task' = task \/ task' = [task EXCEPT ![p] = [pc |-> "send", to |-> o.to,
                                         msg |-> [kind |-> "chat", n |-> o.text, sealed |-> sealed]]]
           /\ symKeys' = symKeys \/ symKeys' = [symKeys EXCEPT ![p][o.to] = KeySource(p, o.to)]
    <2>1. PICK sealed : /\ sealed \in {SharedKey(p, KeySource(p, o.to)), Plain}
                        /\ task' = task \/ task' = [task EXCEPT ![p] = [pc |-> "send", to |-> o.to,
                                         msg |-> [kind |-> "chat", n |-> o.text, sealed |-> sealed]]]
      BY DEF HandleOutgoing
    <2>2. sealed \in Seals
      BY <1>2, <1>4, <2>1, KeySourceTyped DEF Seals
    <2>3. /\ task' = task \/ task' = [task EXCEPT ![p] = [pc |-> "send", to |-> o.to,
                                         msg |-> [kind |-> "chat", n |-> o.text, sealed |-> sealed]]]
          /\ symKeys' = symKeys \/ symKeys' = [symKeys EXCEPT ![p][o.to] = KeySource(p, o.to)]
      BY <2>1 DEF HandleOutgoing
    <2> QED
      BY <2>2, <2>3
  <1> HIDE DEF o
  <1>7. TaskTyped'
    <2>1. [kind |-> "chat", n |-> o.text, sealed |-> sealed] \in Wires
      BY <1>4 DEF Wires
    <2>2. [pc |-> "send", to |-> o.to, msg |-> [kind |-> "chat", n |-> o.text, sealed |-> sealed]] \in Tasks(p)
      BY <1>4, <2>1 DEF Tasks
    <2> QED
      BY <1>2, <1>6, <2>2, Entry, TypesKept DEF TaskTyped
  <1>8. SymKeysTyped'
    BY <1>2, <1>4, <1>6, TypesKept, KeySourceTyped DEF SymKeysTyped
  <1>9. Typed'
    <2>1. UsedTyped'
      BY <1>1, <1>2, FaultEffect
    <2> QED
      BY <1>1, <1>2, <1>5, <1>7, <1>8, <2>1, TypesKept DEF Typed
  <1> QED
    BY <1>1, <1>9, QuietStep

\* The awaits of the loop.
LEMMA AwaitSteps ==
    ASSUME Inv, NEW p \in Peers, SendAck(p) \/ SendMessage(p)
    PROVE  Inv'
  <1>1. UNCHANGED <<node, dbChats, dbMsgs, chats, mem, view, peerIds, peerKeys, symKeys, outq, inq, uiq, invite>>
    BY DEF SendAck, SendMessage
  <1>2. Typed /\ DOMAIN task = Peers /\ \A r \in Peers : task[r] \in Tasks(r)
    BY DEF Inv, Typed, TaskTyped
  <1>3. PICK v \in Tasks(p) : task' = [task EXCEPT ![p] = v]
    <2>1. CASE SendAck(p)
      <3>1. task' = [task EXCEPT ![p] = [task[p] EXCEPT !.pc = "deliver"]] /\ task[p].pc = "ack"
        BY <2>1 DEF SendAck
      <3>2. PICK q \in Others(p), n \in Numbers, text \in Texts :
               task[p] = [pc |-> "ack", from |-> q, n |-> n, text |-> text]
        BY <1>2, <3>1, TaskHolds
      <3>3. [task[p] EXCEPT !.pc = "deliver"] = [pc |-> "deliver", from |-> q, n |-> n, text |-> text]
        BY <3>2
      <3>4. [pc |-> "deliver", from |-> q, n |-> n, text |-> text] \in Tasks(p)
        BY DEF Tasks
      <3> QED
        BY <3>1, <3>3, <3>4
    <2>2. CASE SendMessage(p)
      BY <2>2 DEF SendMessage, Tasks
    <2> QED
      BY <2>1, <2>2
  <1>4. TaskTyped'
    BY <1>2, <1>3, Entry DEF TaskTyped
  <1>5. NetTyped' /\ UsedTyped'
    <2>1. CASE SendAck(p)
      <3>1. /\ Send(p, task[p].from, [kind |-> "ack", n |-> task[p].n])
            /\ task[p].from \in Others(p) /\ task[p].n \in Numbers
        BY <1>2, <2>1, TaskHolds DEF SendAck
      <3>2. [kind |-> "ack", n |-> task[p].n] \in Wires
        BY <3>1 DEF Wires
      <3> QED
        BY <1>2, <3>1, <3>2, SendEffect
    <2>2. CASE SendMessage(p)
      <3>1. Send(p, task[p].to, task[p].msg) /\ task[p].to \in Others(p) /\ task[p].msg \in Wires
        BY <1>2, <2>2, TaskHolds DEF SendMessage
      <3> QED
        BY <1>2, <3>1, SendEffect
    <2> QED
      BY <2>1, <2>2
  <1>6. Typed'
    BY <1>1, <1>2, <1>4, <1>5, TypesKept DEF Typed
  <1> QED
    BY <1>1, <1>6, QuietStep

-----------------------------------------------------------------------------
(* Steps that tell the UI *)

\* One more update: a message only after the chat it belongs to.
LEMMA AppendAnnounced ==
    ASSUME NEW p \in Peers, NEW s \in Seq(Updates(p)), NEW rows, AnnouncedIn(s, rows), NEW e \in Updates(p),
           e.kind = "message" => \E j \in DOMAIN s : s[j].kind = "connected" /\ s[j].peer = e.peer
    PROVE  Append(s, e) \in Seq(Updates(p)) /\ AnnouncedIn(Append(s, e), rows)
  <1>1. /\ Append(s, e) \in Seq(Updates(p)) /\ Len(s) \in Nat
        /\ DOMAIN Append(s, e) = DOMAIN s \cup {Len(s) + 1}
        /\ Append(s, e)[Len(s) + 1] = e
        /\ \A i \in DOMAIN s : i \in Nat /\ i < Len(s) + 1 /\ Append(s, e)[i] = s[i]
    BY AppendTyped
  <1> DEFINE t == Append(s, e)
             n == Len(s) + 1
  <1>2. ASSUME NEW i \in DOMAIN t, t[i].kind = "message"
        PROVE  \/ rows[t[i].peer] # NoChat
               \/ \E j \in DOMAIN t : j < i /\ t[j].kind = "connected" /\ t[j].peer = t[i].peer
    <2> HIDE DEF t, n
    <2>1. CASE i = n
      <3>1. t[i] = e
        BY <1>1, <2>1 DEF t, n
      <3>2. PICK j \in DOMAIN s : s[j].kind = "connected" /\ s[j].peer = e.peer
        BY <1>2, <3>1
      <3>3. j \in DOMAIN t /\ j < i /\ t[j] = s[j]
        BY <1>1, <2>1 DEF t, n
      <3> QED
        BY <3>1, <3>2, <3>3
    <2>2. CASE i \in DOMAIN s
      <3>1. t[i] = s[i]
        BY <1>1, <2>2 DEF t
      <3>2. CASE rows[s[i].peer] # NoChat
        BY <3>1, <3>2
      <3>3. CASE \E j \in DOMAIN s : j < i /\ s[j].kind = "connected" /\ s[j].peer = s[i].peer
        <4>1. PICK j \in DOMAIN s : j < i /\ s[j].kind = "connected" /\ s[j].peer = s[i].peer
          BY <3>3
        <4>2. j \in DOMAIN t /\ t[j] = s[j]
          BY <1>1 DEF t
        <4> QED
          BY <3>1, <4>1, <4>2
      <3> QED
        BY <1>2, <2>2, <3>1, <3>2, <3>3 DEF AnnouncedIn
    <2> QED
      BY <1>1, <2>1, <2>2 DEF t, n
  <1> QED
    BY <1>1, <1>2 DEF AnnouncedIn

\* The first update is applied, which saves the chat if it announces one.
LEMMA TailAnnounced ==
    ASSUME NEW p \in Peers, NEW s \in Seq(Updates(p)), s # <<>>, NEW rows, NEW new,
           AnnouncedIn(s, rows),
           \A q \in Peers : rows[q] # NoChat => new[q] # NoChat,
           Head(s).kind = "connected" => new[Head(s).peer] # NoChat
    PROVE  AnnouncedIn(Tail(s), new)
  <1>1. /\ 1 \in DOMAIN s /\ Head(s) = s[1] /\ Tail(s) \in Seq(Updates(p))
        /\ \A i \in DOMAIN Tail(s) : i \in Nat /\ i + 1 \in DOMAIN s /\ Tail(s)[i] = s[i + 1]
        /\ \A i \in DOMAIN s : i \in Nat /\ (i # 1 => i - 1 \in DOMAIN Tail(s) /\ Tail(s)[i - 1] = s[i])
    BY TailTyped
  <1>2. \A u \in Updates(p) : u.kind = "message" => u.peer \in Peers
    BY DEF Updates, Others
  <1> SUFFICES ASSUME NEW i \in DOMAIN Tail(s), Tail(s)[i].kind = "message"
               PROVE  \/ new[Tail(s)[i].peer] # NoChat
                      \/ \E j \in DOMAIN Tail(s) : /\ j < i /\ Tail(s)[j].kind = "connected"
                                                   /\ Tail(s)[j].peer = Tail(s)[i].peer
    BY DEF AnnouncedIn
  <1>3. i \in Nat /\ i + 1 \in DOMAIN s /\ Tail(s)[i] = s[i + 1] /\ s[i + 1] \in Updates(p)
    BY <1>1, SeqElement
  <1>4. s[i + 1].kind = "message" /\ s[i + 1].peer \in Peers
    BY <1>2, <1>3
  <1>5. CASE rows[s[i + 1].peer] # NoChat
    BY <1>3, <1>4, <1>5
  <1>6. CASE \E j \in DOMAIN s : j < i + 1 /\ s[j].kind = "connected" /\ s[j].peer = s[i + 1].peer
    <2>1. PICK j \in DOMAIN s : j < i + 1 /\ s[j].kind = "connected" /\ s[j].peer = s[i + 1].peer
      BY <1>6
    <2>2. CASE j = 1
      BY <1>1, <1>3, <2>1, <2>2
    <2>3. CASE j # 1
      <3>1. j \in Nat /\ j - 1 \in DOMAIN Tail(s) /\ Tail(s)[j - 1] = s[j] /\ j - 1 < i
        BY <1>1, <1>3, <2>1, <2>3
      <3> QED
        BY <1>3, <2>1, <3>1
    <2> QED
      BY <2>2, <2>3
  <1> QED
    BY <1>3, <1>4, <1>5, <1>6 DEF AnnouncedIn

\* Saving more chats does no harm.
LEMMA MoreSaved ==
    ASSUME NEW p \in Peers, NEW s \in Seq(Updates(p)), NEW rows, NEW new, AnnouncedIn(s, rows),
           \A q \in Peers : rows[q] # NoChat => new[q] # NoChat
    PROVE  AnnouncedIn(s, new)
  <1>1. \A u \in Updates(p) : u.kind = "message" => u.peer \in Peers
    BY DEF Updates, Others
  <1>2. \A i \in DOMAIN s : s[i] \in Updates(p)
    BY SeqElement
  <1> QED
    BY <1>1, <1>2 DEF AnnouncedIn

\* A step that only sends updates to the UI.
LEMMA TellStep ==
    ASSUME Inv, Typed', NEW p \in Peers, AnnouncedIn(uiq'[p], dbChats[p]),
           \A r \in Peers : r # p => uiq'[r] = uiq[r],
           UNCHANGED <<node, dbChats, dbMsgs, chats, mem, view>>
    PROVE  Inv'
  <1>1. OffIsEmpty' /\ NoChatWithOneself' /\ OpenIsSaved'
    BY DEF Inv, OffIsEmpty, NoChatWithOneself, OpenIsSaved
  <1>2. Announced'
    BY DEF Inv, Announced
  <1>3. ViewShowsChat' /\ MessagesHaveChat' /\ ListedIsSaved'
    BY DEF Inv, ViewShowsChat, MessagesHaveChat, ListedIsSaved
  <1> QED
    BY <1>1, <1>2, <1>3 DEF Inv

\* The loop takes a Hello, and tells the UI.
LEMMA HandleHelloStep ==
    ASSUME Inv, NEW p \in Peers, HandleHello(p)
    PROVE  Inv'
  <1> DEFINE q == Head(inq[p]).from
             key == Head(inq[p]).msg.key
             e == [kind |-> "connected", peer |-> q, name |-> "nick", key |-> key]
  <1>1. /\ Receives(p, "hello")
        /\ peerIds' = [peerIds EXCEPT ![p] = peerIds[p] \cup {q}]
        /\ peerKeys' = [peerKeys EXCEPT ![p][q] = key]
        /\ uiq' = [uiq EXCEPT ![p] = Append(uiq[p], e)]
        /\ task' = IF AnswersHello(p, q)
                   THEN [task EXCEPT ![p] = [pc |-> "send", to |-> q, msg |-> Hello(p)]] ELSE task
        /\ UNCHANGED <<node, dbChats, dbMsgs, chats, mem, view, symKeys, outq, invite, net, used>>
    BY DEF HandleHello
  <1>2. /\ Typed /\ DOMAIN peerIds = Peers /\ (\A r \in Peers : peerIds[r] \subseteq Others(r))
        /\ peerKeys \in [Peers -> [Peers -> Keys \cup {NoKey}]]
        /\ DOMAIN uiq = Peers /\ (\A r \in Peers : uiq[r] \in Seq(Updates(r)))
        /\ DOMAIN task = Peers /\ \A r \in Peers : task[r] \in Tasks(r)
    BY DEF Inv, Typed, PeerIdsTyped, PeerKeysTyped, UiqTyped, TaskTyped
  <1>3. q \in Others(p) /\ q \in Peers /\ Head(inq[p]).msg \in Wires /\ Head(inq[p]).msg.kind = "hello" /\ InqTyped'
    BY <1>1, <1>2, ReceivedTyped
  <1>4. key \in Peers /\ key \in Keys
    BY <1>3 DEF Wires, Keys
  <1>5. e \in Updates(p) /\ e.kind = "connected"
    BY <1>3, <1>4 DEF Updates, Names
  <1> HIDE DEF q, key, e
  <1>6. PeerIdsTyped' /\ PeerKeysTyped'
    <2>1. PeerIdsTyped'
      BY <1>1, <1>2, <1>3, Entry DEF PeerIdsTyped
    <2>2. peerKeys' \in [Peers -> [Peers -> Keys \cup {NoKey}]]
      BY <1>1, <1>2, <1>3, <1>4, Entry2
    <2> QED
      BY <2>1, <2>2 DEF PeerKeysTyped
  <1>7. TaskTyped'
    <2>1. [pc |-> "send", to |-> q, msg |-> Hello(p)] \in Tasks(p)
      <3>1. Hello(p) \in Wires
        BY DEF Hello, Wires
      <3> QED
        BY <1>3, <3>1 DEF Tasks
    <2>2. CASE task' = task
      BY <1>2, <2>2, TypesKept
    <2>3. CASE task' = [task EXCEPT ![p] = [pc |-> "send", to |-> q, msg |-> Hello(p)]]
      BY <1>2, <2>1, <2>3, Entry DEF TaskTyped
    <2> QED
      BY <1>1, <2>2, <2>3
  <1>8. /\ Append(uiq[p], e) \in Seq(Updates(p)) /\ AnnouncedIn(Append(uiq[p], e), dbChats[p])
    BY <1>2, <1>5, AppendAnnounced DEF Inv, Announced
  <1>9. /\ uiq'[p] = Append(uiq[p], e) /\ DOMAIN uiq' = Peers
        /\ \A r \in Peers : r # p => uiq'[r] = uiq[r]
    BY <1>1, <1>2, Entry
  <1>10. UiqTyped'
    BY <1>2, <1>8, <1>9 DEF UiqTyped
  <1>11. Typed'
    BY <1>1, <1>2, <1>3, <1>6, <1>7, <1>10, TypesKept DEF Typed
  <1> QED
    BY <1>1, <1>8, <1>9, <1>11, TellStep

\* The loop takes an Ack, and tells the UI.
LEMMA HandleAckStep ==
    ASSUME Inv, NEW p \in Peers, HandleAck(p)
    PROVE  Inv'
  <1> DEFINE e == [kind |-> "status", id |-> WireId(p, Head(inq[p]).msg.n), status |-> "delivered"]
  <1>1. /\ Receives(p, "ack")
        /\ uiq' = [uiq EXCEPT ![p] = Append(uiq[p], e)]
        /\ UNCHANGED <<node, dbChats, dbMsgs, chats, mem, view, peerIds, peerKeys, symKeys, outq,
                       task, invite, net, used>>
    BY DEF HandleAck
  <1>2. Typed /\ DOMAIN uiq = Peers /\ (\A r \in Peers : uiq[r] \in Seq(Updates(r)))
    BY DEF Inv, Typed, UiqTyped
  <1>3. Head(inq[p]).msg \in Wires /\ Head(inq[p]).msg.kind = "ack" /\ InqTyped'
    BY <1>1, <1>2, ReceivedTyped
  <1>4. Head(inq[p]).msg.n \in Numbers
    BY <1>3 DEF Wires
  <1>5. e \in Updates(p) /\ e.kind = "status"
    BY <1>4 DEF Updates, WireId, Statuses
  <1> HIDE DEF e
  <1>6. /\ Append(uiq[p], e) \in Seq(Updates(p)) /\ AnnouncedIn(Append(uiq[p], e), dbChats[p])
    BY <1>2, <1>5, AppendAnnounced DEF Inv, Announced
  <1>7. /\ uiq'[p] = Append(uiq[p], e) /\ DOMAIN uiq' = Peers
        /\ \A r \in Peers : r # p => uiq'[r] = uiq[r]
    BY <1>1, <1>2, Entry
  <1>8. UiqTyped'
    BY <1>2, <1>6, <1>7 DEF UiqTyped
  <1>9. Typed'
    BY <1>1, <1>2, <1>3, <1>8, TypesKept DEF Typed
  <1> QED
    BY <1>1, <1>6, <1>7, <1>9, TellStep

\* What the loop tells the UI of a message: the chat, and then the message.
LEMMA DeliveryTyped ==
    ASSUME Typed, NEW p \in Peers, task[p].pc = "deliver"
    PROVE  /\ task[p].from \in Others(p) /\ task[p].from \in Peers
           /\ Connected(p, task[p].from) \in Updates(p) /\ Delivered(p, task[p].from) \in Updates(p)
           /\ Connected(p, task[p].from).kind = "connected" /\ Connected(p, task[p].from).peer = task[p].from
           /\ Delivered(p, task[p].from).kind = "message" /\ Delivered(p, task[p].from).peer = task[p].from
           /\ Delivered(p, task[p].from).msg.id.n = task[p].n
           /\ Delivered(p, task[p].from).msg.id.by = task[p].from
           /\ ~Delivered(p, task[p].from).msg.mine
  <1>1. /\ task[p].from \in Others(p) /\ task[p].from \in Peers
        /\ task[p].n \in Numbers /\ task[p].text \in Texts
    BY TaskHolds
  <1>2. KeyOrZero(p, task[p].from) \in Keys
    BY <1>1 DEF Typed, PeerKeysTyped, KeyOrZero, Keys
  <1>3. Connected(p, task[p].from) \in Updates(p)
    BY <1>1, <1>2 DEF Connected, Updates, Names
  <1>4. [id |-> WireId(task[p].from, task[p].n), text |-> task[p].text,
         mine |-> FALSE, status |-> "delivered"] \in Messages
    BY <1>1 DEF Messages, WireId, Statuses, Numbers
  <1>5. Delivered(p, task[p].from) \in Updates(p)
    BY <1>1, <1>4 DEF Delivered, Updates
  <1> QED
    BY <1>1, <1>3, <1>5 DEF Connected, Delivered, WireId

\* The loop announces the chat, and then the message.
LEMMA DeliverStep ==
    ASSUME Inv, NEW p \in Peers, DeliverToUi(p)
    PROVE  Inv'
  <1>1. /\ task[p].pc = "deliver"
        /\ uiq' = [uiq EXCEPT ![p] = uiq[p] \o <<Connected(p, task[p].from), Delivered(p, task[p].from)>>]
        /\ task' = [task EXCEPT ![p] = Select]
        /\ UNCHANGED <<node, dbChats, dbMsgs, chats, mem, view, peerIds, peerKeys, symKeys, outq,
                       inq, invite, net, used>>
    BY DEF DeliverToUi, Delivery
  <1>2. /\ Typed /\ DOMAIN uiq = Peers /\ (\A r \in Peers : uiq[r] \in Seq(Updates(r)))
        /\ DOMAIN task = Peers /\ \A r \in Peers : task[r] \in Tasks(r)
    BY DEF Inv, Typed, UiqTyped, TaskTyped
  <1>3. PICK c \in Updates(p), d \in Updates(p) :
           /\ c = Connected(p, task[p].from) /\ d = Delivered(p, task[p].from)
           /\ c.kind = "connected" /\ d.kind = "message" /\ c.peer = d.peer
    BY <1>1, <1>2, DeliveryTyped
  <1>4. PICK s \in Seq(Updates(p)) : s = uiq[p]
    BY <1>2
  <1>5. /\ s \o <<c, d>> = Append(Append(s, c), d)
        /\ Append(s, c) \in Seq(Updates(p)) /\ Len(s) + 1 \in DOMAIN Append(s, c)
        /\ Append(s, c)[Len(s) + 1] = c
    BY AppendTyped, AppendTwoTyped
  <1>6. AnnouncedIn(Append(s, c), dbChats[p])
    BY <1>3, <1>4, AppendAnnounced DEF Inv, Announced
  <1>7. /\ Append(Append(s, c), d) \in Seq(Updates(p))
        /\ AnnouncedIn(Append(Append(s, c), d), dbChats[p])
    BY <1>3, <1>5, <1>6, AppendAnnounced
  <1>8. /\ uiq'[p] = Append(Append(s, c), d) /\ DOMAIN uiq' = Peers
        /\ \A r \in Peers : r # p => uiq'[r] = uiq[r]
    BY <1>1, <1>2, <1>3, <1>4, <1>5, Entry
  <1>9. UiqTyped'
    BY <1>2, <1>7, <1>8 DEF UiqTyped
  <1>10. TaskTyped'
    BY <1>1, <1>2, Entry DEF TaskTyped, Tasks
  <1>11. Typed'
    BY <1>1, <1>2, <1>9, <1>10, TypesKept DEF Typed
  <1> QED
    BY <1>1, <1>7, <1>8, <1>11, TellStep, ZenonT(60)

-----------------------------------------------------------------------------
(* Steps that change what the user sees *)

\* AddMessage keeps what is shown, stored and listed in step, for a chat that is saved.
LEMMA AddKeeps ==
    ASSUME Inv, NEW p \in Peers, NEW q \in Others(p), NEW msg \in Messages, AddMessage(p, q, msg),
           dbChats[p][q] # NoChat, UNCHANGED <<node, dbChats, chats>>
    PROVE  /\ DbMsgsTyped' /\ MemTyped' /\ ViewTyped'
           /\ OffIsEmpty' /\ NoChatWithOneself' /\ OpenIsSaved'
           /\ ViewShowsChat' /\ MessagesHaveChat' /\ ListedIsSaved'
  <1>1. /\ q \in Peers /\ q # NoKey /\ Typed
        /\ mem \in [Peers -> [Peers -> Seq(Messages)]]
        /\ dbMsgs \in [Peers -> [Peers -> Seq(Messages)]]
        /\ DOMAIN view = Peers /\ \A r \in Peers : view[r] \in Views(r)
    BY KeysAssumption DEF Inv, Typed, MemTyped, DbMsgsTyped, ViewTyped, Others
  <1>2. /\ DbMsgsTyped' /\ MemTyped' /\ ViewTyped'
        /\ IF Taken(p, msg) THEN dbMsgs' = dbMsgs
           ELSE dbMsgs' = [dbMsgs EXCEPT ![p][q] = Append(dbMsgs[p][q], msg)]
        /\ mem' = [mem EXCEPT ![p][q] = Append(mem[p][q], msg)]
        /\ view' = IF view[p].chat = q THEN [view EXCEPT ![p].msgs = mem'[p][q]] ELSE view
        /\ Append(dbMsgs[p][q], msg) \in Seq(Messages)
        /\ Append(mem[p][q], msg) \in Seq(Messages)
    BY <1>1, AddEffect
  <1>3. /\ mem'[p][q] = Append(mem[p][q], msg)
        /\ \A r, z \in Peers : ~(r = p /\ z = q) => mem'[r][z] = mem[r][z]
    BY <1>1, <1>2, Entry2
  <1>4. \A r, z \in Peers : ~(r = p /\ z = q) => dbMsgs'[r][z] = dbMsgs[r][z]
    <2>1. CASE dbMsgs' = dbMsgs
      BY <2>1
    <2>2. CASE dbMsgs' = [dbMsgs EXCEPT ![p][q] = Append(dbMsgs[p][q], msg)]
      BY <1>1, <1>2, <2>2, Entry2
    <2> QED
      BY <1>2, <2>1, <2>2
  <1>5. /\ DOMAIN view' = Peers
        /\ \A r \in Peers : view'[r].chat = view[r].chat
        /\ \A r \in Peers : ~(r = p /\ view[r].chat = q) => view'[r] = view[r]
        /\ view[p].chat = q => /\ view'[p].msgs = mem'[p][q] /\ view[p] # NoView /\ view'[p] # NoView
                               /\ node[p] # "off"
    <2>1. CASE view[p].chat = q
      <3>1. PICK v : v = [view[p] EXCEPT !.msgs = mem'[p][q]]
        OBVIOUS
      <3>2. view' = [view EXCEPT ![p] = v]
        BY <1>2, <2>1, <3>1
      <3>3. view[p] # NoView /\ view[p] \in [chat : Others(p), msgs : Seq(Messages)]
        BY <1>1, <2>1, OpenViewTyped
      <3>4. v.chat = q /\ v.msgs = mem'[p][q]
        BY <2>1, <3>1, <3>3
      <3>5. v # NoView
        BY <1>1, <3>4 DEF NoView
      <3>6. DOMAIN view' = Peers /\ view'[p] = v /\ \A r \in Peers : r # p => view'[r] = view[r]
        BY <1>1, <3>2, Entry
      <3>7. node[p] # "off"
        BY <3>3 DEF Inv, OffIsEmpty
      <3> QED
        BY <2>1, <3>3, <3>4, <3>5, <3>6, <3>7
    <2>2. CASE view[p].chat # q
      BY <1>1, <1>2, <2>2
    <2> QED
      BY <2>1, <2>2
  <1>6. OffIsEmpty' /\ OpenIsSaved'
    <2>1. OffIsEmpty'
      BY <1>5 DEF Inv, OffIsEmpty
    <2>2. \A r \in Peers : view'[r] # NoView => view[r] # NoView
      BY <1>5
    <2> QED
      BY <1>5, <2>1, <2>2 DEF Inv, OpenIsSaved
  <1>7. NoChatWithOneself' /\ ListedIsSaved'
    BY DEF Inv, NoChatWithOneself, ListedIsSaved
  <1>8. MessagesHaveChat'
    BY <1>4 DEF Inv, MessagesHaveChat
  <1>9. ViewShowsChat'
    <2> SUFFICES ASSUME NEW r \in Peers, view'[r] # NoView
                 PROVE  view'[r].msgs = mem'[r][view'[r].chat]
      BY DEF ViewShowsChat
    <2>1. CASE r = p /\ view[r].chat = q
      BY <1>5, <2>1
    <2>2. CASE ~(r = p /\ view[r].chat = q)
      <3>1. view'[r] = view[r] /\ view[r] # NoView
        BY <1>5, <2>2
      <3>2. view[r].chat \in Peers
        BY <1>1, <3>1, OpenViewTyped DEF Others
      <3>3. mem'[r][view[r].chat] = mem[r][view[r].chat]
        BY <1>3, <2>2, <3>2
      <3> QED
        BY <3>1, <3>3 DEF Inv, ViewShowsChat
    <2> QED
      BY <2>1, <2>2
  <1> QED
    BY <1>2, <1>6, <1>7, <1>8, <1>9

\* A chat is opened.
LEMMA OpenChatStep ==
    ASSUME Inv, NEW p \in Peers, OpenChat(p)
    PROVE  Inv'
  <1>1. /\ node[p] # "off"
        /\ UNCHANGED <<node, dbChats, dbMsgs, chats, mem, peerIds, peerKeys, symKeys,
                       outq, inq, uiq, task, invite, net, used>>
    BY DEF OpenChat, UiFree
  <1>2. PICK c \in ToSet(chats[p]) :
           view' = [view EXCEPT ![p] = [chat |-> c.peer, msgs |-> mem[p][c.peer]]]
    BY DEF OpenChat
  <1>3. /\ Typed /\ mem \in [Peers -> [Peers -> Seq(Messages)]]
        /\ DOMAIN view = Peers /\ (\A r \in Peers : view[r] \in Views(r))
        /\ chats[p] \in Seq(Entries(p))
    BY DEF Inv, Typed, MemTyped, ViewTyped, ChatsTyped
  <1>4. c \in Entries(p)
    BY <1>2, <1>3 DEF ToSet
  <1>5. PICK q \in Peers : q = c.peer /\ q \in Others(p)
    BY <1>4 DEF Entries, Others
  <1>6. PICK v : v = [chat |-> q, msgs |-> mem[p][q]]
    OBVIOUS
  <1>7. v \in Views(p) /\ v.chat = q /\ v.msgs = mem[p][q]
    BY <1>3, <1>5, <1>6 DEF Views
  <1>8. DOMAIN view' = Peers /\ view'[p] = v /\ \A r \in Peers : r # p => view'[r] = view[r]
    BY <1>2, <1>3, <1>5, <1>6, Entry
  <1>9. dbChats[p][q] # NoChat
    <2>1. q \in {d.peer : d \in ToSet(chats[p])}
      BY <1>2, <1>5
    <2>2. q \in {z \in Peers : dbChats[p][z] # NoChat}
      BY <1>1, <2>1 DEF Inv, ListedIsSaved
    <2> QED
      BY <2>2
  <1>10. Typed'
    <2>1. ViewTyped'
      BY <1>3, <1>7, <1>8 DEF ViewTyped
    <2> QED
      BY <1>1, <1>3, <2>1, TypesKept DEF Typed
  <1>11. OffIsEmpty' /\ OpenIsSaved' /\ NoChatWithOneself'
    BY <1>1, <1>7, <1>8, <1>9 DEF Inv, OffIsEmpty, OpenIsSaved, NoChatWithOneself
  <1>12. Announced' /\ MessagesHaveChat' /\ ListedIsSaved'
    BY <1>1 DEF Inv, Announced, MessagesHaveChat, ListedIsSaved
  <1>13. ViewShowsChat'
    BY <1>1, <1>7, <1>8 DEF Inv, ViewShowsChat
  <1> QED
    BY <1>10, <1>11, <1>12, <1>13 DEF Inv

\* A message is typed.
LEMMA UserSendStep ==
    ASSUME Inv, NEW p \in Peers, UserSend(p)
    PROVE  Inv'
  <1>1. /\ node[p] # "off" /\ used.sends < MaxSends /\ view[p] # NoView
        /\ UNCHANGED <<node, dbChats, chats, peerIds, peerKeys, symKeys, inq, uiq, task, invite, net>>
    BY DEF UserSend, UiFree
  <1>2. /\ Typed /\ used \in [sends : 0 .. MaxSends, invites : Nat, crashes : Nat, faults : Nat]
        /\ view[p] \in Views(p)
        /\ DOMAIN outq = Peers /\ \A r \in Peers : outq[r] \in Seq(Orders(r))
    BY DEF Inv, Typed, UsedTyped, ViewTyped, OutqTyped
  <1>3. used.sends + 1 \in Numbers /\ MaxSends \in Nat
    BY <1>1, <1>2, BoundsAssumption DEF Numbers
  <1>4. PICK n \in Numbers, q \in Others(p), k \in Numbers :
           /\ n = used.sends + 1 /\ q = view[p].chat
           /\ AddMessage(p, q, [id |-> LocalId(k), text |-> n, mine |-> TRUE, status |-> "sent"])
           /\ outq' = IF node[p] = "online"
                      THEN [outq EXCEPT ![p] = Append(outq[p], [to |-> q, text |-> n])] ELSE outq
           /\ used' = [used EXCEPT !.sends = n]
    <2>1. view[p].chat \in Others(p)
      BY <1>1, <1>2, OpenViewTyped
    <2>2. PICK k \in (IF ClockCollides THEN 1 .. MaxSends ELSE {used.sends + 1}) :
             /\ AddMessage(p, view[p].chat, [id |-> LocalId(k), text |-> used.sends + 1,
                                             mine |-> TRUE, status |-> "sent"])
             /\ outq' = IF node[p] = "online"
                        THEN [outq EXCEPT ![p] = Append(outq[p], [to |-> view[p].chat, text |-> used.sends + 1])]
                        ELSE outq
             /\ used' = [used EXCEPT !.sends = used.sends + 1]
      BY DEF UserSend
    <2>3. k \in Numbers
      BY <1>3, <2>2 DEF Numbers
    <2> QED
      BY <1>3, <2>1, <2>2, <2>3
  <1>5. PICK msg : msg = [id |-> LocalId(k), text |-> n, mine |-> TRUE, status |-> "sent"]
    OBVIOUS
  <1>6. msg \in Messages
    BY <1>5 DEF Messages, LocalId, Texts, Statuses, Numbers
  <1>7. dbChats[p][q] # NoChat
    BY <1>1, <1>4 DEF Inv, OpenIsSaved
  <1>8. /\ DbMsgsTyped' /\ MemTyped' /\ ViewTyped'
        /\ OffIsEmpty' /\ NoChatWithOneself' /\ OpenIsSaved'
        /\ ViewShowsChat' /\ MessagesHaveChat' /\ ListedIsSaved'
    BY <1>1, <1>4, <1>5, <1>6, <1>7, AddKeeps
  <1>9. OutqTyped'
    <2>1. [to |-> q, text |-> n] \in Orders(p)
      BY DEF Orders
    <2>2. Append(outq[p], [to |-> q, text |-> n]) \in Seq(Orders(p))
      BY <1>2, <2>1, AppendTyped
    <2>3. CASE outq' = outq
      BY <1>2, <2>3, TypesKept
    <2>4. CASE outq' = [outq EXCEPT ![p] = Append(outq[p], [to |-> q, text |-> n])]
      BY <1>2, <2>2, <2>4, Entry DEF OutqTyped
    <2> QED
      BY <1>4, <2>3, <2>4
  <1>10. UsedTyped'
    BY <1>2, <1>3, <1>4 DEF UsedTyped, Numbers
  <1>11. Typed'
    BY <1>1, <1>2, <1>8, <1>9, <1>10, TypesKept DEF Typed
  <1>12. Announced'
    BY <1>1 DEF Inv, Announced
  <1> QED
    BY <1>8, <1>11, <1>12 DEF Inv

\* The invite task, back from its await, lists and saves the chat.
LEMMA InviteListStep ==
    ASSUME Inv, NEW p \in Peers, InviteList(p)
    PROVE  Inv'
  <1>1. /\ node[p] # "off" /\ invite[p].pc = "sent"
        /\ UNCHANGED <<node, dbMsgs, mem, view, peerKeys, symKeys, outq, inq, uiq, task, net, used>>
    BY DEF InviteList
  <1>2. /\ Typed /\ dbChats \in [Peers -> [Peers -> Rows]]
        /\ DOMAIN chats = Peers /\ (\A r \in Peers : chats[r] \in Seq(Entries(r)))
        /\ DOMAIN peerIds = Peers /\ (\A r \in Peers : peerIds[r] \subseteq Others(r))
        /\ DOMAIN invite = Peers /\ \A r \in Peers : invite[r] \in Invites(r)
    BY DEF Inv, Typed, DbChatsTyped, ChatsTyped, PeerIdsTyped, InviteTyped
  <1>3. PICK q \in Others(p) : q \in Peers /\ invite[p] = [pc |-> "sent", to |-> q] /\ q = invite[p].to
    BY <1>1, <1>2, InviteHolds
  <1>4. PICK c : c = [peer |-> q, name |-> "Peer", key |-> q]
    OBVIOUS
  <1>5. c \in Entries(p) /\ c.peer = q /\ c.name = "Peer" /\ c.key = q
    BY <1>3, <1>4 DEF Entries, Names, Keys
  <1>6. /\ chats' = [chats EXCEPT ![p] = Append(chats[p], c)]
        /\ dbChats' = [dbChats EXCEPT ![p][q] = [name |-> "Peer", key |-> q]]
        /\ peerIds' = [peerIds EXCEPT ![p] = peerIds[p] \cup {q}]
        /\ invite' = [invite EXCEPT ![p] = [invite[p] EXCEPT !.pc = "registering"]]
    BY <1>3, <1>4, <1>5 DEF InviteList, UpsertChat
  <1>7. [name |-> "Peer", key |-> q] \in Rows /\ [name |-> "Peer", key |-> q] # NoChat
    BY <1>3 DEF Rows, NoChat, Names, Keys
  <1>8. /\ dbChats' \in [Peers -> [Peers -> Rows]] /\ dbChats'[p][q] # NoChat
        /\ \A r, z \in Peers : ~(r = p /\ z = q) => dbChats'[r][z] = dbChats[r][z]
    BY <1>2, <1>3, <1>6, <1>7, Entry2
  <1>9. PICK s \in Seq(Entries(p)) : s = chats[p]
    BY <1>2
  <1>10. /\ Append(s, c) \in Seq(Entries(p)) /\ DOMAIN Append(s, c) = DOMAIN s \cup {Len(s) + 1}
         /\ Append(s, c)[Len(s) + 1] = c /\ \A i \in DOMAIN s : Append(s, c)[i] = s[i]
    BY <1>5, AppendTyped
  <1>11. {d.peer : d \in ToSet(Append(s, c))} = {d.peer : d \in ToSet(s)} \cup {q}
    <2>1. ToSet(Append(s, c)) = ToSet(s) \cup {c}
      BY <1>10 DEF ToSet
    <2> QED
      BY <1>5, <2>1
  <1>12. DOMAIN chats' = Peers /\ chats'[p] = Append(s, c) /\ \A r \in Peers : r # p => chats'[r] = chats[r]
    BY <1>2, <1>6, <1>9, Entry
  <1>13. ChatsTyped' /\ DbChatsTyped' /\ PeerIdsTyped'
    <2>1. ChatsTyped'
      BY <1>2, <1>10, <1>12 DEF ChatsTyped
    <2>2. PeerIdsTyped'
      BY <1>2, <1>3, <1>6, Entry DEF PeerIdsTyped
    <2> QED
      BY <1>8, <2>1, <2>2 DEF DbChatsTyped
  <1>14. InviteTyped'
    <2>1. [invite[p] EXCEPT !.pc = "registering"] = [pc |-> "registering", to |-> q]
      BY <1>3
    <2>2. [pc |-> "registering", to |-> q] \in Invites(p)
      BY DEF Invites
    <2> QED
      BY <1>2, <1>6, <2>1, <2>2, Entry DEF InviteTyped
  <1>15. Typed'
    BY <1>1, <1>2, <1>13, <1>14, TypesKept DEF Typed
  <1>16. \A r, z \in Peers : dbChats[r][z] # NoChat => dbChats'[r][z] # NoChat
    BY <1>8
  <1>17. OffIsEmpty' /\ ViewShowsChat' /\ MessagesHaveChat'
    BY <1>1, <1>16 DEF Inv, OffIsEmpty, ViewShowsChat, MessagesHaveChat
  <1>18. NoChatWithOneself'
    BY <1>3, <1>8 DEF Inv, NoChatWithOneself, Others
  <1>19. OpenIsSaved'
    <2>1. \A r \in Peers : view[r] # NoView => view[r].chat \in Peers
      BY <1>2, OpenViewTyped DEF Typed, ViewTyped, Others
    <2> QED
      BY <1>1, <1>16, <2>1 DEF Inv, OpenIsSaved
  <1>20. Announced'
    <2>1. \A r \in Peers : uiq[r] \in Seq(Updates(r)) /\ AnnouncedIn(uiq[r], dbChats[r])
      BY DEF Inv, Typed, UiqTyped, Announced
    <2>2. ASSUME NEW r \in Peers PROVE AnnouncedIn(uiq[r], dbChats'[r])
      <3>1. PICK us, rows, new : us = uiq[r] /\ rows = dbChats[r] /\ new = dbChats'[r]
        OBVIOUS
      <3>2. /\ us \in Seq(Updates(r)) /\ AnnouncedIn(us, rows)
            /\ \A z \in Peers : rows[z] # NoChat => new[z] # NoChat
        BY <1>16, <2>1, <3>1
      <3>3. AnnouncedIn(us, new)
        BY <3>2, MoreSaved
      <3> QED
        BY <3>1, <3>3
    <2> QED
      BY <1>1, <2>2 DEF Announced
  <1>21. ListedIsSaved'
    <2> SUFFICES ASSUME NEW r \in Peers, node'[r] # "off"
                 PROVE  {d.peer : d \in ToSet(chats'[r])} = {z \in Peers : dbChats'[r][z] # NoChat}
      BY DEF ListedIsSaved
    <2>1. {d.peer : d \in ToSet(chats[r])} = {z \in Peers : dbChats[r][z] # NoChat}
      BY <1>1 DEF Inv, ListedIsSaved
    <2>2. CASE r = p
      <3>1. {z \in Peers : dbChats'[p][z] # NoChat} = {z \in Peers : dbChats[p][z] # NoChat} \cup {q}
        BY <1>3, <1>8
      <3>2. {d.peer : d \in ToSet(chats'[p])} = {d.peer : d \in ToSet(chats[p])} \cup {q}
        BY <1>9, <1>11, <1>12
      <3> QED
        BY <2>1, <2>2, <3>1, <3>2
    <2>3. CASE r # p
      BY <1>8, <1>12, <2>1, <2>3, ZenonT(60)
    <2> QED
      BY <2>2, <2>3
  <1> QED
    BY <1>15, <1>17, <1>18, <1>19, <1>20, <1>21 DEF Inv

\* The UI coroutine applies the first update, of each kind.
LEMMA ApplyConnectedStep ==
    ASSUME Inv, NEW p \in Peers, UiApply(p), Head(uiq[p]).kind = "connected"
    PROVE  Inv'
  <1>1. /\ node[p] # "off" /\ uiq[p] # <<>> /\ uiq' = [uiq EXCEPT ![p] = Tail(uiq[p])]
        /\ ApplyConnected(p, Head(uiq[p]))
        /\ UNCHANGED <<dbMsgs, mem, view>>
        /\ UNCHANGED <<node, peerIds, peerKeys, symKeys, outq, inq, task, invite, net, used>>
    BY DEF UiApply, UiFree
  <1>2. /\ Typed /\ DOMAIN uiq = Peers /\ (\A r \in Peers : uiq[r] \in Seq(Updates(r)))
        /\ \A r \in Peers : AnnouncedIn(uiq[r], dbChats[r])
    BY DEF Inv, Typed, UiqTyped, Announced
  <1>3. Head(uiq[p]) \in Updates(p) /\ Tail(uiq[p]) \in Seq(Updates(p))
    BY <1>1, <1>2, TailTyped
  <1>4. PICK u \in [kind : {"connected"}, peer : Others(p), name : Names, key : Keys] : u = Head(uiq[p])
    BY <1>3 DEF Updates
  <1>5. u.peer \in Peers /\ u.peer # p
    BY <1>4 DEF Others
  <1>6. /\ ChatsTyped' /\ DbChatsTyped'
        /\ \A r \in Peers : r # p => chats'[r] = chats[r] /\ dbChats'[r] = dbChats[r]
        /\ \A q \in Peers : q # u.peer => dbChats'[p][q] = dbChats[p][q]
        /\ dbChats'[p][u.peer] # NoChat
        /\ {c.peer : c \in ToSet(chats'[p])} = {c.peer : c \in ToSet(chats[p])} \cup {u.peer}
    BY <1>1, <1>2, <1>4, ConnectedEffect
  <1>7. DOMAIN uiq' = Peers /\ uiq'[p] = Tail(uiq[p]) /\ \A r \in Peers : r # p => uiq'[r] = uiq[r]
    BY <1>1, <1>2, Entry
  <1>8. Typed'
    <2>1. UiqTyped'
      BY <1>2, <1>3, <1>7 DEF UiqTyped
    <2> QED
      BY <1>1, <1>2, <1>6, <2>1, TypesKept DEF Typed
  <1>9. \A r, z \in Peers : dbChats[r][z] # NoChat => dbChats'[r][z] # NoChat
    BY <1>5, <1>6
  <1>10. OffIsEmpty' /\ ViewShowsChat' /\ MessagesHaveChat'
    BY <1>1, <1>9 DEF Inv, OffIsEmpty, ViewShowsChat, MessagesHaveChat
  <1>11. NoChatWithOneself'
    BY <1>5, <1>6 DEF Inv, NoChatWithOneself
  <1>12. OpenIsSaved'
    <2>1. \A r \in Peers : view[r] # NoView => view[r].chat \in Peers
      BY <1>2, OpenViewTyped DEF Typed, ViewTyped, Others
    <2> QED
      BY <1>1, <1>9, <2>1 DEF Inv, OpenIsSaved
  <1>13. Announced'
    <2>1. AnnouncedIn(uiq'[p], dbChats'[p])
      <3>1. PICK s, rows, new : s = uiq[p] /\ rows = dbChats[p] /\ new = dbChats'[p]
        OBVIOUS
      <3>2. /\ s \in Seq(Updates(p)) /\ s # <<>> /\ AnnouncedIn(s, rows)
            /\ \A z \in Peers : rows[z] # NoChat => new[z] # NoChat
            /\ new[Head(s).peer] # NoChat
        BY <1>1, <1>2, <1>4, <1>6, <1>9, <3>1
      <3>3. AnnouncedIn(Tail(s), new)
        BY <3>2, TailAnnounced
      <3> QED
        BY <1>7, <3>1, <3>3
    <2> QED
      BY <1>2, <1>6, <1>7, <2>1 DEF Announced
  <1>14. ListedIsSaved'
    <2> SUFFICES ASSUME NEW r \in Peers, node'[r] # "off"
                 PROVE  {d.peer : d \in ToSet(chats'[r])} = {z \in Peers : dbChats'[r][z] # NoChat}
      BY DEF ListedIsSaved
    <2>1. {d.peer : d \in ToSet(chats[r])} = {z \in Peers : dbChats[r][z] # NoChat}
      BY <1>1 DEF Inv, ListedIsSaved
    <2>2. CASE r = p
      <3>1. {z \in Peers : dbChats'[p][z] # NoChat} = {z \in Peers : dbChats[p][z] # NoChat} \cup {u.peer}
        BY <1>5, <1>6
      <3> QED
        BY <1>6, <2>1, <2>2, <3>1
    <2>3. CASE r # p
      BY <1>6, <2>1, <2>3
    <2> QED
      BY <2>2, <2>3
  <1> QED
    BY <1>8, <1>10, <1>11, <1>12, <1>13, <1>14 DEF Inv

\* The rest of the updates after one that announces no chat.
LEMMA NextUpdates ==
    ASSUME Inv, NEW p \in Peers, UiApply(p), Head(uiq[p]).kind # "connected", UNCHANGED dbChats
    PROVE  UiqTyped' /\ Announced'
  <1>1. uiq[p] # <<>> /\ uiq' = [uiq EXCEPT ![p] = Tail(uiq[p])]
    BY DEF UiApply
  <1>2. /\ DOMAIN uiq = Peers /\ (\A r \in Peers : uiq[r] \in Seq(Updates(r)))
        /\ \A r \in Peers : AnnouncedIn(uiq[r], dbChats[r])
    BY DEF Inv, Typed, UiqTyped, Announced
  <1>3. Tail(uiq[p]) \in Seq(Updates(p))
    BY <1>1, <1>2, TailTyped
  <1>4. DOMAIN uiq' = Peers /\ uiq'[p] = Tail(uiq[p]) /\ \A r \in Peers : r # p => uiq'[r] = uiq[r]
    BY <1>1, <1>2, Entry
  <1>5. UiqTyped'
    BY <1>2, <1>3, <1>4 DEF UiqTyped
  <1>6. AnnouncedIn(Tail(uiq[p]), dbChats[p])
    <2>1. PICK s, rows : s = uiq[p] /\ rows = dbChats[p]
      OBVIOUS
    <2>2. s \in Seq(Updates(p)) /\ s # <<>> /\ AnnouncedIn(s, rows) /\ Head(s).kind # "connected"
      BY <1>1, <1>2, <2>1
    <2>3. AnnouncedIn(Tail(s), rows)
      BY <2>2, TailAnnounced
    <2> QED
      BY <2>1, <2>3
  <1> QED
    BY <1>2, <1>4, <1>5, <1>6 DEF Announced

\* A message from a peer, whose chat is saved by now.
LEMMA ApplyMessageStep ==
    ASSUME Inv, NEW p \in Peers, UiApply(p), Head(uiq[p]).kind = "message"
    PROVE  Inv'
  <1>1. /\ uiq[p] # <<>> /\ AddMessage(p, Head(uiq[p]).peer, Head(uiq[p]).msg)
        /\ UNCHANGED <<dbChats, chats>>
        /\ UNCHANGED <<node, peerIds, peerKeys, symKeys, outq, inq, task, invite, net, used>>
    BY DEF UiApply
  <1>2. Typed /\ uiq[p] \in Seq(Updates(p)) /\ AnnouncedIn(uiq[p], dbChats[p])
    BY DEF Inv, Typed, UiqTyped, Announced
  <1>3. /\ Head(uiq[p]) \in Updates(p) /\ 1 \in DOMAIN uiq[p] /\ Head(uiq[p]) = uiq[p][1]
        /\ \A i \in DOMAIN uiq[p] : i \in Nat /\ ~(i < 1)
    BY <1>1, <1>2, TailTyped
  <1>4. Head(uiq[p]).peer \in Others(p) /\ Head(uiq[p]).msg \in Messages
    BY <1>3 DEF Updates
  <1>5. dbChats[p][Head(uiq[p]).peer] # NoChat
    BY <1>2, <1>3 DEF AnnouncedIn
  <1>6. /\ DbMsgsTyped' /\ MemTyped' /\ ViewTyped'
        /\ OffIsEmpty' /\ NoChatWithOneself' /\ OpenIsSaved'
        /\ ViewShowsChat' /\ MessagesHaveChat' /\ ListedIsSaved'
    BY <1>1, <1>4, <1>5, AddKeeps
  <1>7. UiqTyped' /\ Announced'
    BY <1>1, NextUpdates
  <1>8. Typed'
    BY <1>1, <1>2, <1>6, <1>7, TypesKept DEF Typed
  <1> QED
    BY <1>6, <1>7, <1>8 DEF Inv

\* An Ack changes a status, wherever the message is shown and kept.
LEMMA ApplyStatusStep ==
    ASSUME Inv, NEW p \in Peers, UiApply(p), Head(uiq[p]).kind = "status"
    PROVE  Inv'
  <1> DEFINE id == Head(uiq[p]).id
             st == Head(uiq[p]).status
  <1>1. /\ node[p] # "off" /\ uiq[p] # <<>> /\ UpdateMessageStatus(p, id, st)
        /\ UNCHANGED <<dbChats, chats>>
        /\ UNCHANGED <<node, peerIds, peerKeys, symKeys, outq, inq, task, invite, net, used>>
    BY DEF UiApply, UiFree
  <1>2. /\ Typed /\ uiq[p] \in Seq(Updates(p))
        /\ mem \in [Peers -> [Peers -> Seq(Messages)]] /\ dbMsgs \in [Peers -> [Peers -> Seq(Messages)]]
        /\ \A r \in Peers : view[r] \in Views(r)
    BY DEF Inv, Typed, UiqTyped, MemTyped, DbMsgsTyped, ViewTyped
  <1>3. st \in Statuses
    <2>1. Head(uiq[p]) \in Updates(p)
      BY <1>1, <1>2, TailTyped
    <2> QED
      BY <2>1 DEF Updates
  <1> HIDE DEF id, st
  <1>4. /\ DbMsgsTyped' /\ MemTyped' /\ ViewTyped'
        /\ \A r \in Peers : r # p => /\ dbMsgs'[r] = dbMsgs[r] /\ mem'[r] = mem[r]
                                     /\ view'[r] = view[r]
        /\ mem'[p] = [q \in Peers |-> WithStatus(mem[p][q], id, st)]
        /\ dbMsgs'[p] = [q \in Peers |-> WithStatus(dbMsgs[p][q], id, st)]
        /\ view'[p].chat = view[p].chat
        /\ view'[p].msgs = IF \E m \in ToSet(view[p].msgs) : m.id = id
                           THEN mem'[p][view[p].chat] ELSE view[p].msgs
        /\ view[p] = NoView => view' = view
    BY <1>1, <1>2, <1>3, StatusEffect
  <1>5. UiqTyped' /\ Announced'
    BY <1>1, NextUpdates
  <1>6. Typed'
    BY <1>1, <1>2, <1>4, <1>5, TypesKept DEF Typed
  <1>7. \A r \in Peers : view'[r] # NoView => view[r] # NoView /\ view'[r].chat = view[r].chat
    BY <1>4
  <1>8. OffIsEmpty' /\ OpenIsSaved' /\ NoChatWithOneself' /\ ListedIsSaved'
    BY <1>1, <1>7 DEF Inv, OffIsEmpty, OpenIsSaved, NoChatWithOneself, ListedIsSaved
  <1>9. MessagesHaveChat'
    <2> SUFFICES ASSUME NEW r \in Peers, NEW q \in Peers, dbMsgs'[r][q] # <<>>
                 PROVE  dbChats[r][q] # NoChat
      BY <1>1 DEF MessagesHaveChat
    <2>1. dbMsgs[r][q] # <<>>
      <3>1. CASE r = p
        <4>1. dbMsgs[p][q] \in Seq(Messages) /\ dbMsgs'[p][q] = WithStatus(dbMsgs[p][q], id, st)
          BY <1>2, <1>4
        <4> QED
          BY <1>3, <3>1, <4>1, WithStatusTyped
      <3>2. CASE r # p
        BY <1>4, <3>2
      <3> QED
        BY <3>1, <3>2
    <2> QED
      BY <2>1 DEF Inv, MessagesHaveChat
  <1>10. ViewShowsChat'
    <2> SUFFICES ASSUME NEW r \in Peers, view'[r] # NoView
                 PROVE  view'[r].msgs = mem'[r][view'[r].chat]
      BY DEF ViewShowsChat
    <2>1. PICK q : q = view[r].chat /\ view'[r].chat = q /\ view[r] # NoView
      BY <1>7
    <2>2. q \in Peers /\ view[r].msgs = mem[r][q] /\ mem[r][q] \in Seq(Messages)
      <3>1. q \in Peers
        BY <1>2, <2>1, OpenViewTyped DEF Others
      <3> QED
        BY <1>2, <2>1, <3>1 DEF Inv, ViewShowsChat
    <2>3. CASE r = p /\ \E m \in ToSet(view[p].msgs) : m.id = id
      BY <1>4, <2>1, <2>3
    <2>4. CASE r = p /\ ~\E m \in ToSet(view[p].msgs) : m.id = id
      <3>1. view'[p].msgs = mem[p][q] /\ \A i \in DOMAIN mem[p][q] : mem[p][q][i].id # id
        BY <1>4, <2>2, <2>4 DEF ToSet
      <3>2. mem'[p][q] = WithStatus(mem[p][q], id, st)
        BY <1>4, <2>2
      <3>3. WithStatus(mem[p][q], id, st) = mem[p][q]
        BY <1>3, <2>2, <2>4, <3>1, WithStatusTyped
      <3> QED
        BY <2>1, <2>4, <3>1, <3>2, <3>3
    <2>5. CASE r # p
      BY <1>4, <2>1, <2>2, <2>5
    <2> QED
      BY <2>3, <2>4, <2>5
  <1> QED
    BY <1>5, <1>6, <1>8, <1>9, <1>10 DEF Inv

-----------------------------------------------------------------------------
(* Crash and restart *)

\* A crash takes everything but the rows of the database.
LEMMA CrashStep ==
    ASSUME Inv, NEW p \in Peers, Crash(p)
    PROVE  Inv'
  <1>1. /\ used' = [used EXCEPT !.crashes = used.crashes + 1]
        /\ node' = [node EXCEPT ![p] = "off"]
        /\ chats' = [chats EXCEPT ![p] = <<>>]
        /\ mem' = [mem EXCEPT ![p] = [q \in Peers |-> <<>>]]
        /\ view' = [view EXCEPT ![p] = NoView]
        /\ peerIds' = [peerIds EXCEPT ![p] = {}]
        /\ peerKeys' = [peerKeys EXCEPT ![p] = [q \in Peers |-> NoKey]]
        /\ symKeys' = [symKeys EXCEPT ![p] = [q \in Peers |-> NoKey]]
        /\ outq' = [outq EXCEPT ![p] = <<>>]
        /\ inq' = [inq EXCEPT ![p] = <<>>]
        /\ uiq' = [uiq EXCEPT ![p] = <<>>]
        /\ task' = [task EXCEPT ![p] = Select]
        /\ invite' = [invite EXCEPT ![p] = Closed]
        /\ net' = [q \in Peers |-> [net[q] EXCEPT ![p] = <<>>]]
        /\ UNCHANGED <<dbChats, dbMsgs>>
    BY DEF Crash
  <1>2. Typed
    BY DEF Inv
  <1>3. /\ node'[p] = "off" /\ \A r \in Peers : r # p => node'[r] = node[r]
        /\ NodeTyped'
    BY <1>1, <1>2 DEF Typed, NodeTyped
  <1>4. /\ view'[p] = NoView /\ \A r \in Peers : r # p => view'[r] = view[r]
        /\ ViewTyped'
    BY <1>1, <1>2, Entry DEF Typed, ViewTyped, Views
  <1>5. /\ \A r \in Peers : r # p => mem'[r] = mem[r]
        /\ MemTyped'
    <2>1. [q \in Peers |-> <<>>] \in [Peers -> Seq(Messages)]
      BY EmptyTyped
    <2> QED
      BY <1>1, <1>2, <2>1 DEF Typed, MemTyped
  <1>6. /\ \A r \in Peers : r # p => chats'[r] = chats[r]
        /\ ChatsTyped'
    <2>1. <<>> \in Seq(Entries(p))
      BY EmptyTyped
    <2> QED
      BY <1>1, <1>2, <2>1, Entry DEF Typed, ChatsTyped
  <1>7. /\ uiq'[p] = <<>> /\ \A r \in Peers : r # p => uiq'[r] = uiq[r]
        /\ UiqTyped'
    <2>1. <<>> \in Seq(Updates(p))
      BY EmptyTyped
    <2> QED
      BY <1>1, <1>2, <2>1, Entry DEF Typed, UiqTyped
  <1>8. OutqTyped' /\ InqTyped'
    <2>1. <<>> \in Seq(Orders(p)) /\ <<>> \in Seq(Arrivals(p))
      BY EmptyTyped
    <2>2. OutqTyped'
      BY <1>1, <1>2, <2>1, Entry DEF Typed, OutqTyped
    <2>3. InqTyped'
      BY <1>1, <1>2, <2>1, Entry DEF Typed, InqTyped
    <2> QED
      BY <2>2, <2>3
  <1>9. PeerIdsTyped' /\ PeerKeysTyped' /\ SymKeysTyped'
    <2>1. PeerIdsTyped'
      BY <1>1, <1>2, Entry DEF Typed, PeerIdsTyped
    <2>2. PeerKeysTyped' /\ SymKeysTyped'
      BY <1>1, <1>2 DEF Typed, PeerKeysTyped, SymKeysTyped
    <2> QED
      BY <2>1, <2>2
  <1>10. TaskTyped' /\ InviteTyped'
    <2>1. TaskTyped'
      BY <1>1, <1>2, Entry DEF Typed, TaskTyped, Tasks
    <2>2. InviteTyped'
      BY <1>1, <1>2, Entry DEF Typed, InviteTyped, Invites
    <2> QED
      BY <2>1, <2>2
  <1>11. NetTyped'
    <2>1. net \in [Peers -> [Peers -> Seq(Wires)]] /\ (\A r \in Peers : net[r][r] = <<>>) /\ <<>> \in Seq(Wires)
      BY <1>2, EmptyTyped DEF Typed, NetTyped
    <2>2. \A q \in Peers : net'[q] = [net[q] EXCEPT ![p] = <<>>]
      BY <1>1
    <2>3. ASSUME NEW q \in Peers PROVE net'[q] \in [Peers -> Seq(Wires)] /\ net'[q][q] = <<>>
      <3>1. PICK f \in [Peers -> Seq(Wires)] : f = net[q] /\ f[q] = <<>>
        BY <2>1
      <3>2. PICK g : g = [f EXCEPT ![p] = <<>>]
        OBVIOUS
      <3>3. g \in [Peers -> Seq(Wires)] /\ g[q] = <<>>
        BY <2>1, <3>1, <3>2
      <3> QED
        BY <2>2, <3>1, <3>2, <3>3
    <2>4. DOMAIN net' = Peers /\ net' = [q \in Peers |-> net'[q]]
      BY <1>1
    <2> QED
      BY <2>3, <2>4 DEF NetTyped
  <1>12. UsedTyped'
    <2>1. used \in [sends : 0 .. MaxSends, invites : Nat, crashes : Nat, faults : Nat]
      BY <1>2 DEF Typed, UsedTyped
    <2>2. used.crashes + 1 \in Nat
      BY <2>1
    <2> QED
      BY <1>1, <2>1, <2>2 DEF UsedTyped
  <1>13. Typed'
    BY <1>1, <1>2, <1>3, <1>4, <1>5, <1>6, <1>7, <1>8, <1>9, <1>10, <1>11, <1>12, TypesKept DEF Typed
  <1>14. OffIsEmpty' /\ NoChatWithOneself' /\ OpenIsSaved'
    BY <1>1, <1>3, <1>4 DEF Inv, OffIsEmpty, NoChatWithOneself, OpenIsSaved
  <1>15. Announced'
    <2>1. AnnouncedIn(<<>>, dbChats[p])
      BY EmptyTyped DEF AnnouncedIn
    <2> QED
      BY <1>1, <1>7, <2>1 DEF Inv, Announced
  <1>16. ViewShowsChat' /\ MessagesHaveChat'
    BY <1>1, <1>4, <1>5 DEF Inv, ViewShowsChat, MessagesHaveChat
  <1>17. ListedIsSaved'
    BY <1>1, <1>3, <1>6 DEF Inv, ListedIsSaved
  <1> QED
    BY <1>13, <1>14, <1>15, <1>16, <1>17 DEF Inv

\* load_and_restore lists what is saved.
LEMMA RestartStep ==
    ASSUME Inv, NEW p \in Peers, Restart(p)
    PROVE  Inv'
  <1>1. PICK stored : stored = {q \in Peers : dbChats[p][q] # NoChat}
    OBVIOUS
  <1>2. PICK order \in SetToSeqs(stored) :
           chats' = [chats EXCEPT ![p] =
                        [i \in DOMAIN order |-> [peer |-> order[i], name |-> dbChats[p][order[i]].name,
                                                 key |-> dbChats[p][order[i]].key]]]
    BY <1>1 DEF Restart
  <1>3. /\ node[p] = "off" /\ node' = [node EXCEPT ![p] = "starting"]
        /\ mem' = [mem EXCEPT ![p] = [q \in Peers |-> IF q \in stored THEN dbMsgs[p][q] ELSE <<>>]]
        /\ peerIds' = [peerIds EXCEPT ![p] = stored]
        /\ peerKeys' = [peerKeys EXCEPT ![p] = [q \in Peers |-> dbChats[p][q].key]]
        /\ UNCHANGED <<dbChats, dbMsgs, view, symKeys, outq, inq, uiq, task, invite, net, used>>
    BY <1>1 DEF Restart
  <1>4. /\ Typed /\ dbChats \in [Peers -> [Peers -> Rows]] /\ dbChats[p][p] = NoChat
        /\ view[p] = NoView
    BY <1>3 DEF Inv, Typed, DbChatsTyped, NoChatWithOneself, OffIsEmpty
  <1>5. stored \in SUBSET Peers /\ stored \subseteq Others(p)
    BY <1>1, <1>4 DEF Others
  <1>6. order \in Seq(stored) /\ \A q \in stored : \E i \in DOMAIN order : order[i] = q
    BY <1>2, <1>5, OrderNamesAll
  <1>7. \A q \in stored : dbChats[p][q].name \in Names /\ dbChats[p][q].key \in Keys
    BY <1>1, <1>4 DEF Rows
  <1>8. PICK s : s = [i \in DOMAIN order |-> [peer |-> order[i], name |-> dbChats[p][order[i]].name,
                                              key |-> dbChats[p][order[i]].key]]
    OBVIOUS
  <1>9. DOMAIN s = DOMAIN order /\ \A i \in DOMAIN order : s[i] \in Entries(p) /\ s[i].peer = order[i]
    <2>1. ASSUME NEW i \in DOMAIN order PROVE s[i] \in Entries(p) /\ s[i].peer = order[i]
      <3>1. order[i] \in stored
        BY <1>6, SeqElement
      <3> QED
        BY <1>5, <1>7, <1>8, <3>1 DEF Entries
    <2> QED
      BY <1>8, <2>1
  <1>10. s \in Seq(Entries(p))
    <2>1. DOMAIN s = 1 .. Len(order) /\ Len(order) \in Nat
      BY <1>6, <1>9
    <2>2. s \in [1 .. Len(order) -> Entries(p)]
      BY <1>8, <1>9, <2>1
    <2> QED
      BY <2>1, <2>2
  <1>11. {c.peer : c \in ToSet(s)} = stored
    <2>1. ToSet(s) = {s[i] : i \in DOMAIN order}
      BY <1>9 DEF ToSet
    <2>2. \A i \in DOMAIN order : order[i] \in stored
      BY <1>6, SeqElement
    <2> QED
      BY <1>6, <1>9, <2>1, <2>2
  <1>12. /\ DOMAIN chats' = Peers /\ chats'[p] = s /\ \A r \in Peers : r # p => chats'[r] = chats[r]
         /\ ChatsTyped'
    <2>1. DOMAIN chats = Peers /\ \A r \in Peers : chats[r] \in Seq(Entries(r))
      BY <1>4 DEF Typed, ChatsTyped
    <2>2. chats' = [chats EXCEPT ![p] = s]
      BY <1>2, <1>8
    <2>3. DOMAIN chats' = Peers /\ chats'[p] = s /\ \A r \in Peers : r # p => chats'[r] = chats[r]
      BY <2>1, <2>2, Entry
    <2> QED
      BY <1>10, <2>1, <2>3 DEF ChatsTyped
  <1>13. NodeTyped' /\ \A r \in Peers : r # p => node'[r] = node[r]
    BY <1>3, <1>4 DEF Typed, NodeTyped
  <1>14. MemTyped' /\ \A r \in Peers : r # p => mem'[r] = mem[r]
    <2>1. dbMsgs \in [Peers -> [Peers -> Seq(Messages)]] /\ mem \in [Peers -> [Peers -> Seq(Messages)]]
      BY <1>4 DEF Typed, DbMsgsTyped, MemTyped
    <2>2. [q \in Peers |-> IF q \in stored THEN dbMsgs[p][q] ELSE <<>>] \in [Peers -> Seq(Messages)]
      BY <2>1, EmptyTyped
    <2> QED
      BY <1>3, <2>1, <2>2 DEF MemTyped
  <1>15. PeerIdsTyped' /\ PeerKeysTyped'
    <2>1. PeerIdsTyped'
      BY <1>3, <1>4, <1>5, Entry DEF Typed, PeerIdsTyped
    <2>2. \A q \in Peers : dbChats[p][q].key \in Keys \cup {NoKey}
      <3>1. ASSUME NEW c \in Rows PROVE c.key \in Keys \cup {NoKey}
        <4>1. CASE c = NoChat
          BY <4>1 DEF NoChat
        <4>2. CASE c \in [name : Names, key : Keys]
          BY <4>2
        <4> QED
          BY <4>1, <4>2 DEF Rows
      <3> QED
        BY <1>4, <3>1
    <2>3. PeerKeysTyped'
      BY <1>3, <1>4, <2>2 DEF Typed, PeerKeysTyped
    <2> QED
      BY <2>1, <2>3
  <1>16. Typed'
    BY <1>3, <1>4, <1>12, <1>13, <1>14, <1>15, TypesKept DEF Typed
  <1>17. OffIsEmpty' /\ NoChatWithOneself' /\ OpenIsSaved'
    <2>1. \A r \in Peers : node'[r] = "off" => view[r] = NoView
      BY <1>4, <1>13 DEF Inv, OffIsEmpty
    <2> QED
      BY <1>3, <2>1 DEF Inv, OffIsEmpty, NoChatWithOneself, OpenIsSaved
  <1>18. Announced' /\ MessagesHaveChat'
    BY <1>3 DEF Inv, Announced, MessagesHaveChat
  <1>19. ViewShowsChat'
    BY <1>3, <1>4, <1>14 DEF Inv, ViewShowsChat
  <1>20. ListedIsSaved'
    <2> SUFFICES ASSUME NEW r \in Peers, node'[r] # "off"
                 PROVE  {d.peer : d \in ToSet(chats'[r])} = {z \in Peers : dbChats'[r][z] # NoChat}
      BY DEF ListedIsSaved
    <2>1. CASE r = p
      BY <1>1, <1>3, <1>11, <1>12, <2>1
    <2>2. CASE r # p
      BY <1>3, <1>12, <1>13, <2>2 DEF Inv, ListedIsSaved
    <2> QED
      BY <2>1, <2>2
  <1> QED
    BY <1>16, <1>17, <1>18, <1>19, <1>20 DEF Inv

\* The node goes online.
LEMMA NodeOnlineStep ==
    ASSUME Inv, NEW p \in Peers, NodeOnline(p)
    PROVE  Inv'
  <1>1. /\ node[p] = "starting" /\ node' = [node EXCEPT ![p] = "online"]
        /\ UNCHANGED <<dbChats, dbMsgs, chats, mem, view, peerIds, peerKeys, symKeys, outq, inq, uiq, task,
                       invite, net, used>>
    BY DEF NodeOnline, volatile
  <1>2. Typed /\ node \in [Peers -> {"off", "starting", "online"}]
    BY DEF Inv, Typed, NodeTyped
  <1>3. NodeTyped' /\ \A r \in Peers : node'[r] # "off" <=> node[r] # "off"
    BY <1>1, <1>2 DEF NodeTyped
  <1>4. Typed'
    BY <1>1, <1>2, <1>3, TypesKept DEF Typed
  <1>5. OffIsEmpty' /\ NoChatWithOneself' /\ OpenIsSaved'
    BY <1>1, <1>3 DEF Inv, OffIsEmpty, NoChatWithOneself, OpenIsSaved
  <1>6. Announced' /\ ViewShowsChat' /\ MessagesHaveChat' /\ ListedIsSaved'
    BY <1>1, <1>3 DEF Inv, Announced, ViewShowsChat, MessagesHaveChat, ListedIsSaved
  <1> QED
    BY <1>4, <1>5, <1>6 DEF Inv

-----------------------------------------------------------------------------
(* The invariant holds *)

\* The initial states.
LEMMA InitInv == Init => Inv
  <1> SUFFICES ASSUME Init PROVE Inv
    OBVIOUS
  <1>1. NodeTyped /\ ViewTyped /\ TaskTyped /\ InviteTyped
    BY DEF Init, NodeTyped, ViewTyped, Views, TaskTyped, Tasks, InviteTyped, Invites
  <1>2. DbChatsTyped /\ PeerIdsTyped /\ PeerKeysTyped /\ SymKeysTyped
    BY DEF Init, DbChatsTyped, Rows, PeerIdsTyped, PeerKeysTyped, SymKeysTyped
  <1>3. DbMsgsTyped /\ MemTyped
    BY EmptyTyped DEF Init, DbMsgsTyped, MemTyped
  <1>4. ChatsTyped /\ OutqTyped /\ InqTyped /\ UiqTyped
    BY EmptyTyped DEF Init, ChatsTyped, OutqTyped, InqTyped, UiqTyped
  <1>5. NetTyped /\ UsedTyped
    <2>1. NetTyped
      BY EmptyTyped DEF Init, NetTyped
    <2>2. UsedTyped
      BY BoundsAssumption DEF Init, UsedTyped
    <2> QED
      BY <2>1, <2>2
  <1>6. Typed
    BY <1>1, <1>2, <1>3, <1>4, <1>5 DEF Typed
  <1>7. OffIsEmpty /\ NoChatWithOneself /\ OpenIsSaved
    BY DEF Init, OffIsEmpty, NoChatWithOneself, OpenIsSaved
  <1>8. Announced
    BY EmptyTyped DEF Init, Announced, AnnouncedIn
  <1>9. ViewShowsChat /\ MessagesHaveChat
    BY DEF Init, ViewShowsChat, MessagesHaveChat
  <1>10. ListedIsSaved
    <2>1. ToSet(<<>>) = {}
      BY EmptyTyped DEF ToSet
    <2> QED
      BY <2>1 DEF Init, ListedIsSaved
  <1> QED
    BY <1>6, <1>7, <1>8, <1>9, <1>10 DEF Inv

\* Every step.
LEMMA NextInv == Inv /\ [Next]_vars => Inv'
  <1> SUFFICES ASSUME Inv, [Next]_vars PROVE Inv'
    OBVIOUS
  <1>1. CASE UNCHANGED vars
    <2>1. UNCHANGED <<node, dbChats, dbMsgs, chats, mem, view, peerIds, peerKeys, symKeys, outq, inq, uiq, task,
                      invite, net, used>>
      BY <1>1 DEF vars, volatile
    <2>2. Typed'
      BY <2>1, TypesKept DEF Inv, Typed
    <2> QED
      BY <2>1, <2>2, QuietStep
  <1>2. CASE Next
    <2>1. PICK p \in Peers :
             \/ OpenChat(p) \/ UserSend(p)
             \/ \E q \in Peers : InviteSubmit(p, q) \/ Listen(p, q)
             \/ InviteStep(p) \/ LoopStep(p) \/ HandleOutgoing(p) \/ UiApply(p)
             \/ Crash(p) \/ Restart(p) \/ NodeOnline(p)
      BY <1>2 DEF Next
    <2>2. CASE OpenChat(p) \/ UserSend(p)
      BY <2>2, OpenChatStep, UserSendStep
    <2>3. CASE \E q \in Peers : InviteSubmit(p, q) \/ Listen(p, q)
      BY <2>3, InviteSteps, ListenStep
    <2>4. CASE InviteStep(p)
      BY <2>4, InviteSteps, InviteListStep DEF InviteStep
    <2>5. CASE LoopStep(p)
      BY <2>5, HandleHelloStep, HandleChatStep, HandleAckStep, AwaitSteps, DeliverStep DEF LoopStep
    <2>6. CASE HandleOutgoing(p)
      BY <2>6, HandleOutgoingStep
    <2>7. CASE UiApply(p)
      <3>1. Head(uiq[p]).kind \in {"connected", "message", "status"}
        BY <2>7 DEF UiApply
      <3> QED
        BY <2>7, <3>1, ApplyConnectedStep, ApplyMessageStep, ApplyStatusStep
    <2>8. CASE Crash(p) \/ Restart(p) \/ NodeOnline(p)
      BY <2>8, CrashStep, RestartStep, NodeOnlineStep
    <2> QED
      BY <2>1, <2>2, <2>3, <2>4, <2>5, <2>6, <2>7, <2>8
  <1> QED
    BY <1>1, <1>2

\* The invariant holds in every state.
THEOREM Invariance == Spec => []Inv
  BY InitInv, NextInv, PTL DEF Spec

\* Type correctness, for any number of peers, messages, invites, crashes and faults.
THEOREM TypeCorrect == Spec => []TypeOK
  <1>1. Inv => TypeOK
    <2> SUFFICES ASSUME Inv PROVE TypeOK
      OBVIOUS
    <2>1. Typed
      BY DEF Inv
    <2> SUFFICES ASSUME NEW p \in Peers
                 PROVE  /\ node[p] \in {"off", "starting", "online"}
                        /\ \A q \in Peers :
                              /\ dbChats[p][q] \in {NoChat} \cup [name : {"Peer", "Unknown", "nick"}, key : Keys]
                              /\ \A m \in ToSet(dbMsgs[p][q]) \cup ToSet(mem[p][q]) : m \in Messages
                              /\ peerKeys[p][q] \in Keys \cup {NoKey}
                              /\ symKeys[p][q] \in Keys \cup {NoKey}
                        /\ view[p].chat \in Peers \cup {NoKey}
                        /\ \A c \in ToSet(chats[p]) : c.peer \in Peers \ {p} /\ c.key \in Keys
                        /\ peerIds[p] \subseteq Peers \ {p}
                        /\ invite[p].pc \in {"closed", "sending", "sent", "registering"}
                        /\ task[p].pc \in {"select", "send", "ack", "deliver"}
      BY DEF TypeOK
    <2>2. node[p] \in {"off", "starting", "online"} /\ peerIds[p] \subseteq Peers \ {p}
      BY <2>1 DEF Typed, NodeTyped, PeerIdsTyped, Others
    <2>3. ASSUME NEW q \in Peers
          PROVE  /\ dbChats[p][q] \in {NoChat} \cup [name : {"Peer", "Unknown", "nick"}, key : Keys]
                 /\ \A m \in ToSet(dbMsgs[p][q]) \cup ToSet(mem[p][q]) : m \in Messages
                 /\ peerKeys[p][q] \in Keys \cup {NoKey}
                 /\ symKeys[p][q] \in Keys \cup {NoKey}
      <3>1. dbMsgs[p][q] \in Seq(Messages) /\ mem[p][q] \in Seq(Messages)
        BY <2>1 DEF Typed, DbMsgsTyped, MemTyped
      <3>2. \A m \in ToSet(dbMsgs[p][q]) \cup ToSet(mem[p][q]) : m \in Messages
        BY <3>1, SeqElement DEF ToSet
      <3>3. dbChats[p][q] \in Rows
        BY <2>1 DEF Typed, DbChatsTyped
      <3>4. peerKeys[p][q] \in Keys \cup {NoKey} /\ symKeys[p][q] \in Keys \cup {NoKey}
        BY <2>1 DEF Typed, PeerKeysTyped, SymKeysTyped
      <3> QED
        BY <3>2, <3>3, <3>4 DEF Rows, Names
    <2>4. view[p].chat \in Peers \cup {NoKey}
      <3>1. view[p] \in Views(p)
        BY <2>1 DEF Typed, ViewTyped
      <3> QED
        BY <3>1, OpenViewTyped DEF Others
    <2>5. \A c \in ToSet(chats[p]) : c.peer \in Peers \ {p} /\ c.key \in Keys
      <3>1. chats[p] \in Seq(Entries(p))
        BY <2>1 DEF Typed, ChatsTyped
      <3>2. \A c \in ToSet(chats[p]) : c \in Entries(p)
        BY <3>1, SeqElement DEF ToSet
      <3> QED
        BY <3>2 DEF Entries, Others
    <2>6. invite[p].pc \in {"closed", "sending", "sent", "registering"}
      <3>1. invite[p] \in Invites(p)
        BY <2>1 DEF Typed, InviteTyped
      <3>2. CASE invite[p] = Closed
        BY <3>2 DEF Closed
      <3>3. CASE invite[p] \in [pc : {"sending", "sent", "registering"}, to : Others(p)]
        BY <3>3
      <3> QED
        BY <3>1, <3>2, <3>3 DEF Invites
    <2>7. task[p].pc \in {"select", "send", "ack", "deliver"}
      BY <2>1, TaskHolds
    <2> QED
      BY <2>2, <2>3, <2>4, <2>5, <2>6, <2>7
  <1> QED
    BY <1>1, Invariance, PTL

\* The open chat shows what is in memory, whoever wrote there last: the input, the
\* coroutine with a message, or an Ack that changed a status (MESSAGES is a copy).
THEOREM ViewIsCurrent == Spec => []ViewShowsChat
  <1>1. Inv => ViewShowsChat
    BY DEF Inv
  <1> QED
    BY <1>1, Invariance, PTL

\* No message is stored without a row for its chat, by which load_and_restore finds it.
THEOREM MessagesFindTheirChat == Spec => []MessagesHaveChat
  <1>1. Inv => MessagesHaveChat
    BY DEF Inv
  <1> QED
    BY <1>1, Invariance, PTL

\* A chat is listed exactly when a restart would list it again.
THEOREM ListSurvivesRestart == Spec => []ListedIsSaved
  <1>1. Inv => ListedIsSaved
    BY DEF Inv
  <1> QED
    BY <1>1, Invariance, PTL

-----------------------------------------------------------------------------
(* Queues of numbered messages *)

\* Every function that numbers messages gives one of the numbers, or 0.
LEMMA NumbersTyped ==
    ASSUME NEW p \in Peers, NEW q \in Peers
    PROVE  /\ RowNumber \in [Messages -> 0 .. MaxSends] /\ UpdateNumber(p, q) \in [Updates(p) -> 0 .. MaxSends]
           /\ WireNumber \in [Wires -> 0 .. MaxSends] /\ ArrivalNumber(p, q) \in [Arrivals(p) -> 0 .. MaxSends]
           /\ OrderNumber(q, p) \in [Orders(q) -> 0 .. MaxSends]
  <1>1. MaxSends \in Nat /\ Numbers \subseteq 0 .. MaxSends /\ 0 \in 0 .. MaxSends
    BY BoundsAssumption DEF Numbers
  <1>2. \A m \in Messages : m.id.n \in 0 .. MaxSends
    BY <1>1 DEF Messages, Numbers
  <1>3. RowNumber \in [Messages -> 0 .. MaxSends]
    BY <1>1, <1>2 DEF RowNumber
  <1>4. UpdateNumber(p, q) \in [Updates(p) -> 0 .. MaxSends]
    <2>1. ASSUME NEW u \in Updates(p), u.kind = "message" PROVE u.msg.id.n \in 0 .. MaxSends
      <3>1. u.msg \in Messages
        BY <2>1 DEF Updates
      <3> QED
        BY <1>2, <3>1
    <2> QED
      BY <1>1, <2>1 DEF UpdateNumber
  <1>5. WireNumber \in [Wires -> 0 .. MaxSends]
    <2>1. ASSUME NEW w \in Wires, w.kind = "chat" PROVE w.n \in 0 .. MaxSends
      BY <1>1, <2>1 DEF Wires
    <2> QED
      BY <1>1, <2>1 DEF WireNumber
  <1>6. ArrivalNumber(p, q) \in [Arrivals(p) -> 0 .. MaxSends]
    <2>1. ASSUME NEW a \in Arrivals(p) PROVE WireNumber[a.msg] \in 0 .. MaxSends
      <3>1. a.msg \in Wires
        BY DEF Arrivals
      <3> QED
        BY <1>5, <3>1
    <2> QED
      BY <1>1, <2>1 DEF ArrivalNumber
  <1>7. OrderNumber(q, p) \in [Orders(q) -> 0 .. MaxSends]
    <2>1. ASSUME NEW o \in Orders(q) PROVE o.text \in 0 .. MaxSends
      BY <1>1 DEF Orders
    <2> QED
      BY <1>1, <2>1 DEF OrderNumber
  <1> QED
    BY <1>3, <1>4, <1>5, <1>6, <1>7

\* The number of a message is not 0.
LEMMA NumbersNotZero == /\ Numbers \subseteq Nat /\ 0 \notin Numbers
                        /\ \A n \in 0 .. MaxSends : n \in Nat /\ (n # 0 => n \in Numbers)
  BY BoundsAssumption DEF Numbers

\* The head of a queue leaves it.
LEMMA RisingTail ==
    ASSUME NEW S, NEW s \in Seq(S), s # <<>>, NEW number \in [S -> 0 .. MaxSends], Rising(s, number)
    PROVE  /\ Rising(Tail(s), number)
           /\ In(s, number, number[Head(s)])
           /\ \A n : In(Tail(s), number, n) => In(s, number, n)
           /\ \A n \in Numbers : In(Tail(s), number, n) /\ number[Head(s)] # 0 => number[Head(s)] < n
  <1>1. /\ Head(s) \in S /\ 1 \in DOMAIN s /\ Head(s) = s[1]
        /\ \A i \in DOMAIN Tail(s) : i \in Nat /\ i + 1 \in DOMAIN s /\ Tail(s)[i] = s[i + 1]
    BY TailTyped
  <1>2. PICK t : t = Tail(s)
    OBVIOUS
  <1>3. \A i \in DOMAIN t : i \in Nat /\ i # 0 /\ i + 1 \in DOMAIN s /\ t[i] = s[i + 1]
    <2>1. Tail(s) \in Seq(S)
      BY TailTyped
    <2>2. \A i \in DOMAIN Tail(s) : i # 0
      BY <2>1
    <2> QED
      BY <1>1, <1>2, <2>2
  <1>4. Rising(t, number)
    <2> SUFFICES ASSUME NEW i \in DOMAIN t, NEW j \in DOMAIN t, i < j, number[t[i]] # 0, number[t[j]] # 0
                 PROVE  number[t[i]] < number[t[j]]
      BY DEF Rising
    <2>1. i + 1 < j + 1 /\ i + 1 \in DOMAIN s /\ j + 1 \in DOMAIN s /\ t[i] = s[i + 1] /\ t[j] = s[j + 1]
      BY <1>3
    <2> QED
      BY <2>1 DEF Rising
  <1>5. In(s, number, number[Head(s)])
    BY <1>1 DEF In
  <1>6. \A n : In(t, number, n) => In(s, number, n)
    BY <1>3 DEF In
  <1>7. ASSUME NEW n \in Numbers, In(t, number, n), number[Head(s)] # 0 PROVE number[Head(s)] < n
    <2>1. PICK i \in DOMAIN t : number[t[i]] = n
      BY <1>7 DEF In
    <2>2. i + 1 \in DOMAIN s /\ 1 < i + 1 /\ number[s[i + 1]] = n
      BY <1>3, <2>1
    <2> QED
      BY <1>1, <1>7, <2>2, NumbersNotZero DEF Rising
  <1> QED
    BY <1>2, <1>4, <1>5, <1>6, <1>7

\* One more in a queue, with a number above those it holds.
LEMMA RisingAppend ==
    ASSUME NEW S, NEW s \in Seq(S), NEW e \in S, NEW number \in [S -> 0 .. MaxSends], Rising(s, number)
    PROVE  /\ \A n : In(Append(s, e), number, n) => In(s, number, n) \/ n = number[e]
           /\ (number[e] # 0 => \A n \in Numbers : In(s, number, n) => n < number[e])
                => Rising(Append(s, e), number)
  <1>1. /\ Len(s) \in Nat
        /\ DOMAIN Append(s, e) = DOMAIN s \cup {Len(s) + 1}
        /\ Append(s, e)[Len(s) + 1] = e
        /\ \A i \in DOMAIN s : i \in Nat /\ i < Len(s) + 1 /\ Append(s, e)[i] = s[i]
    BY AppendTyped
  <1>2. PICK t, m : t = Append(s, e) /\ m = Len(s) + 1
    OBVIOUS
  <1>3. /\ m \in Nat /\ DOMAIN t = DOMAIN s \cup {m} /\ t[m] = e
        /\ \A i \in DOMAIN s : i \in Nat /\ i < m /\ t[i] = s[i] /\ s[i] \in S
    BY <1>1, <1>2, SeqElement
  <1>4. \A n : In(t, number, n) => In(s, number, n) \/ n = number[e]
    BY <1>3 DEF In
  <1>5. ASSUME number[e] # 0 => \A n \in Numbers : In(s, number, n) => n < number[e]
        PROVE  Rising(t, number)
    <2> SUFFICES ASSUME NEW i \in DOMAIN t, NEW j \in DOMAIN t, i < j, number[t[i]] # 0, number[t[j]] # 0
                 PROVE  number[t[i]] < number[t[j]]
      BY DEF Rising
    <2>1. CASE i \in DOMAIN s /\ j \in DOMAIN s
      BY <1>3, <2>1 DEF Rising
    <2>2. CASE i \in DOMAIN s /\ j = m
      <3>1. In(s, number, number[s[i]]) /\ number[s[i]] \in Numbers
        BY <1>3, <2>2, NumbersNotZero DEF In
      <3> QED
        BY <1>3, <1>5, <2>2, <3>1
    <2>3. CASE i = m
      BY <1>3, <2>3
    <2> QED
      BY <1>3, <2>1, <2>2, <2>3
  <1> QED
    BY <1>2, <1>4, <1>5

\* One more that is no such message changes nothing.
LEMMA RisingUnnumbered ==
    ASSUME NEW S, NEW s \in Seq(S), NEW e \in S, NEW number \in [S -> 0 .. MaxSends], Rising(s, number), number[e] = 0
    PROVE  Rising(Append(s, e), number) /\ \A n \in Numbers : In(Append(s, e), number, n) => In(s, number, n)
  BY NumbersNotZero, RisingAppend

\* The empty queue.
LEMMA RisingEmpty ==
    ASSUME NEW number
    PROVE  Rising(<<>>, number) /\ \A n : ~In(<<>>, number, n)
  BY EmptyTyped DEF Rising, In

\* A new status leaves the numbers as they are.
LEMMA StatusNumbers ==
    ASSUME NEW msgs \in Seq(Messages), NEW id, NEW st \in Statuses, Rising(msgs, RowNumber)
    PROVE  /\ Rising(WithStatus(msgs, id, st), RowNumber)
           /\ \A n : In(WithStatus(msgs, id, st), RowNumber, n) => In(msgs, RowNumber, n)
  <1>1. PICK new : new = WithStatus(msgs, id, st)
    OBVIOUS
  <1>2. /\ new \in Seq(Messages) /\ DOMAIN new = DOMAIN msgs
        /\ \A i \in DOMAIN msgs : new[i].id = msgs[i].id /\ new[i].mine = msgs[i].mine
    BY <1>1, WithStatusTyped
  <1>3. \A i \in DOMAIN msgs : msgs[i] \in Messages /\ new[i] \in Messages
    BY <1>2, SeqElement
  <1>4. \A i \in DOMAIN msgs : RowNumber[new[i]] = RowNumber[msgs[i]]
    BY <1>2, <1>3 DEF RowNumber
  <1>5. Rising(new, RowNumber)
    BY <1>2, <1>4 DEF Rising
  <1>6. \A n : In(new, RowNumber, n) => In(msgs, RowNumber, n)
    BY <1>2, <1>4 DEF In
  <1> QED
    BY <1>1, <1>5, <1>6

-----------------------------------------------------------------------------
(* How a message moves *)

\* A step drops messages of q to p, moves one of them on, or adds one with a new number.
Kept(p, q, k) == \A n \in Numbers : At(p, q, k, n)' => At(p, q, k, n)
OneMore(p, q, k, x) == \A n \in Numbers : At(p, q, k, n)' => At(p, q, k, n) \/ n = x
Drops(p, q) == \A k \in 1 .. 7 : Kept(p, q, k)
Moves(p, q, k, x) ==
    /\ At(p, q, k + 1, x) /\ \A n \in Numbers : At(p, q, k + 1, n)' => x < n
    /\ OneMore(p, q, k, x) /\ \A l \in 1 .. 7 : l # k => Kept(p, q, l)
Adds(p, q, x) ==
    /\ x = used.sends + 1 /\ used'.sends = x
    /\ OneMore(p, q, 7, x) /\ \A l \in 1 .. 6 : Kept(p, q, l)
Passes(p, q) ==
    /\ used.sends <= used'.sends
    /\ Drops(p, q) \/ (\E k \in 1 .. 6, x \in Numbers : Moves(p, q, k, x)) \/ (\E x : Adds(p, q, x))

\* So the places keep their order.
LEMMA PassesInOrder ==
    ASSUME Typed, Typed', NEW p \in Peers, NEW q \in Peers, PlacesInOrder(p, q), NumbersUsed(p, q), Passes(p, q)
    PROVE  PlacesInOrder(p, q)' /\ NumbersUsed(p, q)'
  <1>1. used.sends \in Nat /\ used'.sends \in Nat /\ used.sends <= used'.sends /\ Numbers \subseteq Nat
    BY BoundsAssumption DEF Typed, UsedTyped, Numbers, Passes
  <1>2. CASE Drops(p, q)
    BY <1>1, <1>2 DEF Drops, Kept, PlacesInOrder, NumbersUsed
  <1>3. CASE \E k \in 1 .. 6, x \in Numbers : Moves(p, q, k, x)
    <2>1. PICK k \in 1 .. 6, x \in Numbers : Moves(p, q, k, x)
      BY <1>3
    <2>2. /\ k + 1 \in 1 .. 7 /\ k \in 1 .. 7 /\ At(p, q, k + 1, x)
          /\ \A n \in Numbers : At(p, q, k + 1, n)' => x < n
          /\ \A l \in 1 .. 7 : \A n \in Numbers : At(p, q, l, n)' => At(p, q, l, n) \/ (l = k /\ n = x)
      BY <2>1 DEF Moves, OneMore, Kept
    <2>3. NumbersUsed(p, q)'
      BY <1>1, <2>2 DEF NumbersUsed
    <2>4. ASSUME NEW i \in 1 .. 7, NEW j \in 1 .. 7, i < j, NEW m \in Numbers, NEW n \in Numbers,
                 At(p, q, i, m)', At(p, q, j, n)'
          PROVE  m < n
      <3>1. CASE At(p, q, i, m) /\ At(p, q, j, n)
        BY <2>4, <3>1 DEF PlacesInOrder
      <3>2. CASE i = k /\ m = x
        <4>1. CASE j = k + 1
          BY <2>2, <2>4, <3>2, <4>1
        <4>2. CASE j > k + 1
          <5>1. At(p, q, j, n)
            BY <2>2, <2>4, <4>2
          <5> QED
            BY <2>2, <3>2, <4>2, <5>1 DEF PlacesInOrder
        <4> QED
          BY <2>4, <3>2, <4>1, <4>2
      <3>3. CASE j = k /\ n = x /\ At(p, q, i, m)
        <4>1. i < k + 1
          BY <2>4, <3>3
        <4> QED
          BY <2>2, <3>3, <4>1 DEF PlacesInOrder
      <3> QED
        BY <2>2, <2>4, <3>1, <3>2, <3>3
    <2> QED
      BY <2>3, <2>4 DEF PlacesInOrder
  <1>4. CASE \E x : Adds(p, q, x)
    <2>1. PICK x : Adds(p, q, x)
      BY <1>4
    <2>2. /\ x = used.sends + 1 /\ used'.sends = x
          /\ \A l \in 1 .. 7 : \A n \in Numbers : At(p, q, l, n)' => At(p, q, l, n) \/ (l = 7 /\ n = x)
      BY <2>1 DEF Adds, OneMore, Kept
    <2>3. NumbersUsed(p, q)'
      BY <1>1, <2>2 DEF NumbersUsed
    <2>4. ASSUME NEW i \in 1 .. 7, NEW j \in 1 .. 7, i < j, NEW m \in Numbers, NEW n \in Numbers,
                 At(p, q, i, m)', At(p, q, j, n)'
          PROVE  m < n
      <3>1. At(p, q, i, m) /\ m <= used.sends
        BY <2>2, <2>4 DEF NumbersUsed
      <3>2. CASE At(p, q, j, n)
        BY <2>4, <3>1, <3>2 DEF PlacesInOrder
      <3>3. CASE n = x
        BY <1>1, <2>2, <3>1, <3>3
      <3> QED
        BY <2>2, <2>4, <3>2, <3>3
    <2> QED
      BY <2>3, <2>4 DEF PlacesInOrder
  <1> QED
    BY <1>2, <1>3, <1>4 DEF Passes

\* What a step must show of every pair of peers.
Carries == \A p, q \in Peers : Passes(p, q) /\ QueuesInOrder(p, q)'

\* The queues by their types.
LEMMA QueuesTyped ==
    ASSUME Typed, NEW p \in Peers, NEW q \in Peers
    PROVE  /\ dbMsgs[p][q] \in Seq(Messages) /\ uiq[p] \in Seq(Updates(p)) /\ inq[p] \in Seq(Arrivals(p))
           /\ net[q][p] \in Seq(Wires) /\ outq[q] \in Seq(Orders(q))
           /\ DOMAIN uiq = Peers /\ DOMAIN inq = Peers /\ DOMAIN outq = Peers /\ DOMAIN task = Peers
           /\ net \in [Peers -> [Peers -> Seq(Wires)]] /\ dbMsgs \in [Peers -> [Peers -> Seq(Messages)]]
           /\ used.sends \in Nat /\ used.sends <= used.sends
  <1>1. used.sends \in Nat
    BY BoundsAssumption DEF Typed, UsedTyped
  <1> QED
    BY <1>1 DEF Typed, DbMsgsTyped, UiqTyped, InqTyped, NetTyped, OutqTyped, TaskTyped

\* A place that does not change keeps its messages in order.
LEMMA SamePlaces ==
    ASSUME NEW p \in Peers, NEW q \in Peers, QueuesInOrder(p, q)
    PROVE  /\ dbMsgs'[p][q] = dbMsgs[p][q] => Kept(p, q, 1) /\ Rising(dbMsgs'[p][q], RowNumber)
           /\ uiq'[p] = uiq[p] => Kept(p, q, 2) /\ Rising(uiq'[p], UpdateNumber(p, q))
           /\ task'[p] = task[p] => Kept(p, q, 3)
           /\ inq'[p] = inq[p] => Kept(p, q, 4) /\ Rising(inq'[p], ArrivalNumber(p, q))
           /\ net'[q][p] = net[q][p] => Kept(p, q, 5) /\ Rising(net'[q][p], WireNumber)
           /\ task'[q] = task[q] => Kept(p, q, 6)
           /\ outq'[q] = outq[q] => Kept(p, q, 7) /\ Rising(outq'[q], OrderNumber(q, p))
  <1>1. dbMsgs'[p][q] = dbMsgs[p][q] => Kept(p, q, 1) /\ Rising(dbMsgs'[p][q], RowNumber)
    BY DEF Kept, At, QueuesInOrder
  <1>2. uiq'[p] = uiq[p] => Kept(p, q, 2) /\ Rising(uiq'[p], UpdateNumber(p, q))
    BY DEF Kept, At, QueuesInOrder
  <1>3. (task'[p] = task[p] => Kept(p, q, 3)) /\ (task'[q] = task[q] => Kept(p, q, 6))
    BY DEF Kept, At
  <1>4. inq'[p] = inq[p] => Kept(p, q, 4) /\ Rising(inq'[p], ArrivalNumber(p, q))
    BY DEF Kept, At, QueuesInOrder
  <1>5. net'[q][p] = net[q][p] => Kept(p, q, 5) /\ Rising(net'[q][p], WireNumber)
    BY DEF Kept, At, QueuesInOrder
  <1>6. outq'[q] = outq[q] => Kept(p, q, 7) /\ Rising(outq'[q], OrderNumber(q, p))
    BY DEF Kept, At, QueuesInOrder
  <1> QED
    BY <1>1, <1>2, <1>3, <1>4, <1>5, <1>6

\* All seven places, and all five queues.
LEMMA AllPlaces ==
    ASSUME NEW p \in Peers, NEW q \in Peers
    PROVE  /\ Kept(p, q, 1) /\ Kept(p, q, 2) /\ Kept(p, q, 3) /\ Kept(p, q, 4) /\ Kept(p, q, 5)
                /\ Kept(p, q, 6) /\ Kept(p, q, 7) => Drops(p, q)
           /\ (/\ Rising(dbMsgs'[p][q], RowNumber) /\ Rising(uiq'[p], UpdateNumber(p, q))
               /\ Rising(inq'[p], ArrivalNumber(p, q)) /\ Rising(net'[q][p], WireNumber)
               /\ Rising(outq'[q], OrderNumber(q, p)))
              => QueuesInOrder(p, q)'
  <1>1. ASSUME Kept(p, q, 1), Kept(p, q, 2), Kept(p, q, 3), Kept(p, q, 4), Kept(p, q, 5),
               Kept(p, q, 6), Kept(p, q, 7), NEW k \in 1 .. 7
        PROVE  Kept(p, q, k)
    <2>1. k = 1 \/ k = 2 \/ k = 3 \/ k = 4 \/ k = 5 \/ k = 6 \/ k = 7
      OBVIOUS
    <2> QED
      BY <1>1, <2>1
  <1>2. ASSUME Rising(dbMsgs'[p][q], RowNumber), Rising(uiq'[p], UpdateNumber(p, q)),
               Rising(inq'[p], ArrivalNumber(p, q)), Rising(net'[q][p], WireNumber),
               Rising(outq'[q], OrderNumber(q, p))
        PROVE  QueuesInOrder(p, q)'
    BY <1>2 DEF QueuesInOrder
  <1> QED
    BY <1>1, <1>2 DEF Drops

\* A step that leaves the queues and the loops alone.
LEMMA QuietCarries ==
    ASSUME OrderInv, used.sends <= used'.sends, UNCHANGED <<dbMsgs, uiq, task, inq, net, outq>>
    PROVE  Carries
  <1> SUFFICES ASSUME NEW p \in Peers, NEW q \in Peers PROVE Passes(p, q) /\ QueuesInOrder(p, q)'
    BY DEF Carries
  <1>1. QueuesInOrder(p, q)
    BY DEF OrderInv, InOrder
  <1> QED
    BY <1>1, SamePlaces, AllPlaces DEF Passes

\* A message is sent, or lost.
LEMMA SendPlaces ==
    ASSUME Typed, NEW a \in Peers, NEW b \in Others(a), NEW m \in Wires, Send(a, b, m),
           Rising(net[a][b], WireNumber)
    PROVE  /\ used.sends <= used'.sends
           /\ \A p, q \in Peers : ~(q = a /\ p = b) => net'[q][p] = net[q][p]
           /\ \A n : In(net'[a][b], WireNumber, n) => In(net[a][b], WireNumber, n) \/ n = WireNumber[m]
           /\ (WireNumber[m] # 0 => \A n \in Numbers : In(net[a][b], WireNumber, n) => n < WireNumber[m])
                => Rising(net'[a][b], WireNumber)
  <1>1. b \in Peers /\ net \in [Peers -> [Peers -> Seq(Wires)]] /\ net[a][b] \in Seq(Wires)
        /\ used.sends <= used.sends
    BY QueuesTyped DEF Others
  <1>2. /\ used'.sends = used.sends
        /\ net' = net \/ net' = [net EXCEPT ![a][b] = Append(net[a][b], m)]
    BY SendEffect
  <1>3. CASE net' = net
    BY <1>1, <1>2, <1>3
  <1>4. CASE net' = [net EXCEPT ![a][b] = Append(net[a][b], m)]
    <2>1. Append(net[a][b], m) \in Seq(Wires)
      BY <1>1, AppendTyped
    <2>2. /\ net'[a][b] = Append(net[a][b], m)
          /\ \A p, q \in Peers : ~(q = a /\ p = b) => net'[q][p] = net[q][p]
      BY <1>1, <1>4, <2>1, Entry2
    <2>3. WireNumber \in [Wires -> 0 .. MaxSends]
      BY <1>1, NumbersTyped
    <2>4. PICK s : s = net[a][b]
      OBVIOUS
    <2>5. s \in Seq(Wires) /\ Rising(s, WireNumber) /\ net'[a][b] = Append(s, m)
      BY <1>1, <2>2, <2>4
    <2>6. /\ \A n : In(Append(s, m), WireNumber, n) => In(s, WireNumber, n) \/ n = WireNumber[m]
          /\ (WireNumber[m] # 0 => \A n \in Numbers : In(s, WireNumber, n) => n < WireNumber[m])
                => Rising(Append(s, m), WireNumber)
      BY <2>3, <2>5, RisingAppend
    <2> QED
      BY <1>1, <1>2, <2>2, <2>4, <2>5, <2>6
  <1> QED
    BY <1>2, <1>3, <1>4

\* A message other than a chat message is sent, or lost.
LEMMA SendUnnumbered ==
    ASSUME OrderInv, NEW a \in Peers, NEW b \in Others(a), NEW m \in Wires, Send(a, b, m), m.kind # "chat"
    PROVE  /\ used.sends <= used'.sends
           /\ \A p, q \in Peers : Kept(p, q, 5) /\ Rising(net'[q][p], WireNumber)
  <1>1. b \in Peers /\ Typed /\ \A p, q \in Peers : QueuesInOrder(p, q)
    BY DEF Others, OrderInv, Inv, InOrder
  <1>2. WireNumber[m] = 0
    BY DEF WireNumber
  <1>3. Rising(net[a][b], WireNumber)
    BY <1>1 DEF QueuesInOrder
  <1>4. /\ used.sends <= used'.sends
        /\ \A p, q \in Peers : ~(q = a /\ p = b) => net'[q][p] = net[q][p]
        /\ \A n : In(net'[a][b], WireNumber, n) => In(net[a][b], WireNumber, n) \/ n = WireNumber[m]
        /\ Rising(net'[a][b], WireNumber)
    BY <1>1, <1>2, <1>3, SendPlaces
  <1>5. ASSUME NEW p \in Peers, NEW q \in Peers PROVE Kept(p, q, 5) /\ Rising(net'[q][p], WireNumber)
    <2>1. CASE q = a /\ p = b
      <3>1. \A n \in Numbers : In(net'[q][p], WireNumber, n) => In(net[q][p], WireNumber, n)
        BY <1>2, <1>4, <2>1, NumbersNotZero
      <3> QED
        BY <1>4, <2>1, <3>1 DEF Kept, At
    <2>2. CASE ~(q = a /\ p = b)
      BY <1>1, <1>4, <2>2, SamePlaces
    <2> QED
      BY <2>1, <2>2
  <1> QED
    BY <1>4, <1>5

\* The loop takes a message from incoming_rx.
LEMMA TakeArrival ==
    ASSUME OrderInv, NEW a \in Peers, NEW kind, Receives(a, kind)
    PROVE  /\ \A p, q \in Peers : Kept(p, q, 4) /\ Rising(inq'[p], ArrivalNumber(p, q))
           /\ task[a].pc = "select"
           /\ \A q, x : kind = "chat" /\ q = Head(inq[a]).from /\ x = Head(inq[a]).msg.n =>
                 /\ q \in Others(a) /\ q \in Peers /\ x \in Numbers
                 /\ At(a, q, 4, x) /\ \A n \in Numbers : At(a, q, 4, n)' => x < n
  <1>1. Typed /\ \A p, q \in Peers : QueuesInOrder(p, q)
    BY DEF OrderInv, Inv, InOrder
  <1>2. /\ inq[a] \in Seq(Arrivals(a)) /\ inq[a] # <<>> /\ inq' = [inq EXCEPT ![a] = Tail(inq[a])]
        /\ Head(inq[a]).from \in Others(a) /\ Head(inq[a]).from \in Peers
        /\ Head(inq[a]).msg \in Wires /\ Head(inq[a]).msg.kind = kind
    BY <1>1, ReceivedTyped
  <1>3. /\ inq'[a] = Tail(inq[a])
        /\ \A r \in Peers : r # a => inq'[r] = inq[r]
    BY <1>1, <1>2, Entry, QueuesTyped
  <1>4. PICK s \in Seq(Arrivals(a)) : s = inq[a] /\ s # <<>>
    BY <1>2
  <1>5. ASSUME NEW q \in Peers
        PROVE  /\ Kept(a, q, 4) /\ Rising(inq'[a], ArrivalNumber(a, q))
               /\ In(inq[a], ArrivalNumber(a, q), ArrivalNumber(a, q)[Head(s)])
               /\ \A n \in Numbers : In(inq'[a], ArrivalNumber(a, q), n) /\ ArrivalNumber(a, q)[Head(s)] # 0
                                      => ArrivalNumber(a, q)[Head(s)] < n
    <2>1. PICK number : number = ArrivalNumber(a, q)
      OBVIOUS
    <2>2. number \in [Arrivals(a) -> 0 .. MaxSends] /\ Rising(s, number)
      BY <1>1, <1>4, <2>1, NumbersTyped DEF QueuesInOrder
    <2>3. /\ Rising(Tail(s), number)
          /\ In(s, number, number[Head(s)])
          /\ \A n : In(Tail(s), number, n) => In(s, number, n)
          /\ \A n \in Numbers : In(Tail(s), number, n) /\ number[Head(s)] # 0 => number[Head(s)] < n
      BY <1>4, <2>2, RisingTail
    <2>4. Kept(a, q, 4)
      BY <1>3, <1>4, <2>1, <2>3 DEF Kept, At
    <2> QED
      BY <1>3, <1>4, <2>1, <2>3, <2>4
  <1>6. \A p, q \in Peers : Kept(p, q, 4) /\ Rising(inq'[p], ArrivalNumber(p, q))
    BY <1>1, <1>3, <1>5, SamePlaces
  <1>7. task[a].pc = "select"
    BY DEF Receives, Select
  <1>8. ASSUME kind = "chat", NEW q, q = Head(inq[a]).from, NEW x, x = Head(inq[a]).msg.n
        PROVE  /\ q \in Others(a) /\ q \in Peers /\ x \in Numbers
               /\ At(a, q, 4, x) /\ \A n \in Numbers : At(a, q, 4, n)' => x < n
    <2>1. q \in Others(a) /\ q \in Peers /\ x \in Numbers
      BY <1>2, <1>8 DEF Wires
    <2>2. Head(s) \in Arrivals(a)
      BY <1>4, TailTyped
    <2>3. ArrivalNumber(a, q)[Head(s)] = x /\ x # 0
      BY <1>2, <1>4, <1>8, <2>1, <2>2, NumbersNotZero DEF ArrivalNumber, WireNumber
    <2>4. At(a, q, 4, x)
      BY <1>5, <2>1, <2>3 DEF At
    <2>5. \A n \in Numbers : At(a, q, 4, n)' => x < n
      BY <1>5, <2>1, <2>3 DEF At
    <2> QED
      BY <2>1, <2>4, <2>5
  <1> QED
    BY <1>6, <1>7, <1>8

\* The UI is told of something else than a message.
LEMMA TellOther ==
    ASSUME OrderInv, NEW a \in Peers, NEW e \in Updates(a), e.kind # "message",
           uiq' = [uiq EXCEPT ![a] = Append(uiq[a], e)]
    PROVE  \A p, q \in Peers : Kept(p, q, 2) /\ Rising(uiq'[p], UpdateNumber(p, q))
  <1>1. Typed /\ \A p, q \in Peers : QueuesInOrder(p, q)
    BY DEF OrderInv, Inv, InOrder
  <1>2. /\ uiq'[a] = Append(uiq[a], e) /\ uiq[a] \in Seq(Updates(a))
        /\ \A r \in Peers : r # a => uiq'[r] = uiq[r]
    BY <1>1, Entry, QueuesTyped
  <1>3. ASSUME NEW q \in Peers PROVE Kept(a, q, 2) /\ Rising(uiq'[a], UpdateNumber(a, q))
    <2>1. PICK number : number = UpdateNumber(a, q)
      OBVIOUS
    <2>2. PICK s : s = uiq[a]
      OBVIOUS
    <2>3. /\ number \in [Updates(a) -> 0 .. MaxSends] /\ s \in Seq(Updates(a)) /\ Rising(s, number)
          /\ number[e] = 0
      <3>1. number[e] = 0
        BY <2>1 DEF UpdateNumber
      <3> QED
        BY <1>1, <1>2, <2>1, <2>2, <3>1, NumbersTyped DEF QueuesInOrder
    <2>4. /\ Rising(Append(s, e), number)
          /\ \A n \in Numbers : In(Append(s, e), number, n) => In(s, number, n)
      BY <2>3, RisingUnnumbered
    <2>5. Kept(a, q, 2)
      BY <1>2, <2>1, <2>2, <2>4 DEF Kept, At
    <2> QED
      BY <1>2, <2>1, <2>2, <2>4, <2>5
  <1> QED
    BY <1>1, <1>2, <1>3, SamePlaces

-----------------------------------------------------------------------------
(* Every action passes messages on in order *)

\* The invite task sends a Hello, or does nothing that matters here.
LEMMA InviteCarries ==
    ASSUME OrderInv, NEW a \in Peers, InviteSend(a)
    PROVE  Carries
  <1>1. /\ Send(a, invite[a].to, Hello(a)) /\ invite[a].pc = "sending"
        /\ UNCHANGED <<dbMsgs, uiq, task, inq, outq>>
    BY DEF InviteSend
  <1>2. invite[a].to \in Others(a) /\ Hello(a) \in Wires /\ Hello(a).kind # "chat"
    BY <1>1, InviteHolds DEF OrderInv, Inv, Hello, Wires
  <1>3. /\ used.sends <= used'.sends
        /\ \A p, q \in Peers : Kept(p, q, 5) /\ Rising(net'[q][p], WireNumber)
    BY <1>1, <1>2, SendUnnumbered
  <1> SUFFICES ASSUME NEW p \in Peers, NEW q \in Peers PROVE Passes(p, q) /\ QueuesInOrder(p, q)'
    BY DEF Carries
  <1>4. QueuesInOrder(p, q)
    BY DEF OrderInv, InOrder
  <1> QED
    BY <1>1, <1>3, <1>4, SamePlaces, AllPlaces DEF Passes

\* The Ack of a message leaves it in the hands of the loop.
LEMMA AckCarries ==
    ASSUME OrderInv, NEW a \in Peers, SendAck(a)
    PROVE  Carries
  <1>1. /\ Send(a, task[a].from, [kind |-> "ack", n |-> task[a].n]) /\ task[a].pc = "ack"
        /\ task' = [task EXCEPT ![a] = [task[a] EXCEPT !.pc = "deliver"]]
        /\ UNCHANGED <<dbMsgs, uiq, inq, outq>>
    BY DEF SendAck
  <1>2. Typed
    BY DEF OrderInv, Inv
  <1>3. /\ task[a] = [pc |-> "ack", from |-> task[a].from, n |-> task[a].n, text |-> task[a].text]
        /\ task[a].from \in Others(a) /\ task[a].n \in Numbers
    BY <1>1, <1>2, TaskHolds
  <1>4. [kind |-> "ack", n |-> task[a].n] \in Wires
    BY <1>3 DEF Wires
  <1>5. /\ used.sends <= used'.sends
        /\ \A p, q \in Peers : Kept(p, q, 5) /\ Rising(net'[q][p], WireNumber)
    BY <1>1, <1>3, <1>4, SendUnnumbered
  <1>6. /\ task'[a].pc = "deliver" /\ task'[a].from = task[a].from /\ task'[a].n = task[a].n
        /\ \A r \in Peers : r # a => task'[r] = task[r]
    <2>1. PICK from, n, text : task[a] = [pc |-> "ack", from |-> from, n |-> n, text |-> text]
      BY <1>3
    <2>2. [task[a] EXCEPT !.pc = "deliver"] = [pc |-> "deliver", from |-> from, n |-> n, text |-> text]
      BY <2>1
    <2>3. task'[a] = [pc |-> "deliver", from |-> from, n |-> n, text |-> text]
          /\ \A r \in Peers : r # a => task'[r] = task[r]
      BY <1>1, <1>2, <2>2, Entry DEF Typed, TaskTyped
    <2> QED
      BY <2>1, <2>3
  <1> SUFFICES ASSUME NEW p \in Peers, NEW q \in Peers PROVE Passes(p, q) /\ QueuesInOrder(p, q)'
    BY DEF Carries
  <1>7. QueuesInOrder(p, q)
    BY DEF OrderInv, InOrder
  <1>8. Kept(p, q, 3)
    <2>1. CASE p = a
      BY <1>1, <1>6, <2>1 DEF Kept, At
    <2>2. CASE p # a
      BY <1>6, <1>7, <2>2, SamePlaces
    <2> QED
      BY <2>1, <2>2
  <1>9. Kept(p, q, 6)
    <2>1. CASE q = a
      BY <1>6, <2>1 DEF Kept, At
    <2>2. CASE q # a
      BY <1>6, <1>7, <2>2, SamePlaces
    <2> QED
      BY <2>1, <2>2
  <1> QED
    BY <1>1, <1>5, <1>7, <1>8, <1>9, SamePlaces, AllPlaces DEF Passes

\* A Hello changes no message.
LEMMA HelloCarries ==
    ASSUME OrderInv, NEW a \in Peers, HandleHello(a)
    PROVE  Carries
  <1> DEFINE e == [kind |-> "connected", peer |-> Head(inq[a]).from, name |-> "nick", key |-> Head(inq[a]).msg.key]
  <1>1. /\ Receives(a, "hello")
        /\ uiq' = [uiq EXCEPT ![a] = Append(uiq[a], e)]
        /\ \/ task' = [task EXCEPT ![a] = [pc |-> "send", to |-> Head(inq[a]).from, msg |-> Hello(a)]]
           \/ task' = task
        /\ UNCHANGED <<dbMsgs, outq, net, used>>
    BY DEF HandleHello
  <1>2. Typed
    BY DEF OrderInv, Inv
  <1>3. e \in Updates(a) /\ e.kind # "message"
    <2>1. Head(inq[a]).from \in Others(a) /\ Head(inq[a]).msg \in Wires /\ Head(inq[a]).msg.kind = "hello"
      BY <1>1, <1>2, ReceivedTyped
    <2>2. Head(inq[a]).msg.key \in Keys
      BY <2>1 DEF Wires, Keys
    <2> QED
      BY <2>1, <2>2 DEF Updates, Names
  <1> HIDE DEF e
  <1>4. \A p, q \in Peers : Kept(p, q, 2) /\ Rising(uiq'[p], UpdateNumber(p, q))
    BY <1>1, <1>3, TellOther
  <1>5. /\ \A p, q \in Peers : Kept(p, q, 4) /\ Rising(inq'[p], ArrivalNumber(p, q))
        /\ task[a].pc = "select"
    BY <1>1, TakeArrival
  <1>6. /\ \A r \in Peers : r # a => task'[r] = task[r]
        /\ task'[a].pc \notin {"ack", "deliver"}
        /\ task'[a].pc = "send" => WireNumber[task'[a].msg] = 0
    <2>1. DOMAIN task = Peers
      BY <1>2 DEF Typed, TaskTyped
    <2>2. WireNumber[Hello(a)] = 0
      BY DEF WireNumber, Hello, Wires
    <2>3. CASE task' = task
      BY <1>5, <2>3
    <2>4. CASE task' = [task EXCEPT ![a] = [pc |-> "send", to |-> Head(inq[a]).from, msg |-> Hello(a)]]
      <3>1. /\ task'[a] = [pc |-> "send", to |-> Head(inq[a]).from, msg |-> Hello(a)]
            /\ \A r \in Peers : r # a => task'[r] = task[r]
        BY <2>1, <2>4, Entry
      <3> QED
        BY <2>2, <3>1
    <2> QED
      BY <1>1, <2>3, <2>4
  <1> SUFFICES ASSUME NEW p \in Peers, NEW q \in Peers PROVE Passes(p, q) /\ QueuesInOrder(p, q)'
    BY DEF Carries
  <1>7. QueuesInOrder(p, q) /\ used.sends <= used'.sends
    BY <1>1, <1>2, QueuesTyped DEF OrderInv, InOrder
  <1>8. Kept(p, q, 3)
    <2>1. CASE p = a
      BY <1>6, <2>1 DEF Kept, At
    <2>2. CASE p # a
      BY <1>6, <1>7, <2>2, SamePlaces
    <2> QED
      BY <2>1, <2>2
  <1>9. Kept(p, q, 6)
    <2>1. CASE q = a
      BY <1>6, <2>1, NumbersNotZero DEF Kept, At
    <2>2. CASE q # a
      BY <1>6, <1>7, <2>2, SamePlaces
    <2> QED
      BY <2>1, <2>2
  <1> QED
    BY <1>1, <1>4, <1>5, <1>7, <1>8, <1>9, SamePlaces, AllPlaces DEF Passes

\* Nor does an Ack.
LEMMA HandleAckCarries ==
    ASSUME OrderInv, NEW a \in Peers, HandleAck(a)
    PROVE  Carries
  <1> DEFINE e == [kind |-> "status", id |-> WireId(a, Head(inq[a]).msg.n), status |-> "delivered"]
  <1>1. /\ Receives(a, "ack")
        /\ uiq' = [uiq EXCEPT ![a] = Append(uiq[a], e)]
        /\ UNCHANGED <<dbMsgs, task, outq, net, used>>
    BY DEF HandleAck
  <1>2. Typed
    BY DEF OrderInv, Inv
  <1>3. e \in Updates(a) /\ e.kind # "message"
    <2>1. Head(inq[a]).msg \in Wires /\ Head(inq[a]).msg.kind = "ack"
      BY <1>1, <1>2, ReceivedTyped
    <2>2. Head(inq[a]).msg.n \in Numbers
      BY <2>1 DEF Wires
    <2> QED
      BY <2>2 DEF Updates, WireId, Statuses
  <1> HIDE DEF e
  <1>4. \A p, q \in Peers : Kept(p, q, 2) /\ Rising(uiq'[p], UpdateNumber(p, q))
    BY <1>1, <1>3, TellOther
  <1>5. \A p, q \in Peers : Kept(p, q, 4) /\ Rising(inq'[p], ArrivalNumber(p, q))
    BY <1>1, TakeArrival
  <1> SUFFICES ASSUME NEW p \in Peers, NEW q \in Peers PROVE Passes(p, q) /\ QueuesInOrder(p, q)'
    BY DEF Carries
  <1>6. QueuesInOrder(p, q) /\ used.sends <= used'.sends
    BY <1>1, <1>2, QueuesTyped DEF OrderInv, InOrder
  <1> QED
    BY <1>1, <1>4, <1>5, <1>6, SamePlaces, AllPlaces DEF Passes

\* A chat message passes from the channel into the hands of the loop.
LEMMA HandleChatCarries ==
    ASSUME OrderInv, NEW a \in Peers, HandleChat(a)
    PROVE  Carries
  <1>1. /\ Receives(a, "chat")
        /\ UNCHANGED <<dbMsgs, outq, net, used, uiq>>
    BY DEF HandleChat
  <1>2. PICK b, x, text :
           /\ b = Head(inq[a]).from /\ x = Head(inq[a]).msg.n
           /\ task' = [task EXCEPT ![a] = [pc |-> "ack", from |-> b, n |-> x, text |-> text]]
    BY DEF HandleChat
  <1>3. Typed
    BY DEF OrderInv, Inv
  <1>4. /\ \A p, q \in Peers : Kept(p, q, 4) /\ Rising(inq'[p], ArrivalNumber(p, q))
        /\ task[a].pc = "select" /\ b \in Peers /\ x \in Numbers
        /\ At(a, b, 4, x) /\ \A n \in Numbers : At(a, b, 4, n)' => x < n
    BY <1>1, <1>2, TakeArrival
  <1>5. /\ task'[a] = [pc |-> "ack", from |-> b, n |-> x, text |-> text]
        /\ \A r \in Peers : r # a => task'[r] = task[r]
    BY <1>2, <1>3, Entry DEF Typed, TaskTyped
  <1> SUFFICES ASSUME NEW p \in Peers, NEW q \in Peers PROVE Passes(p, q) /\ QueuesInOrder(p, q)'
    BY DEF Carries
  <1>6. QueuesInOrder(p, q) /\ used.sends <= used'.sends
    BY <1>1, <1>3, QueuesTyped DEF OrderInv, InOrder
  <1>7. Kept(p, q, 6)
    <2>1. CASE q = a
      BY <1>5, <2>1 DEF Kept, At
    <2>2. CASE q # a
      BY <1>5, <1>6, <2>2, SamePlaces
    <2> QED
      BY <2>1, <2>2
  <1>8. Kept(p, q, 1) /\ Kept(p, q, 2) /\ Kept(p, q, 4) /\ Kept(p, q, 5) /\ Kept(p, q, 7) /\ QueuesInOrder(p, q)'
    BY <1>1, <1>4, <1>6, SamePlaces, AllPlaces
  <1>9. CASE p = a /\ q = b
    <2>1. OneMore(p, q, 3, x)
      BY <1>5, <1>9 DEF OneMore, At
    <2>2. \A l \in 1 .. 7 : l # 3 => l = 1 \/ l = 2 \/ l = 4 \/ l = 5 \/ l = 6 \/ l = 7
      OBVIOUS
    <2>3. \A l \in 1 .. 7 : l # 3 => Kept(p, q, l)
      BY <1>7, <1>8, <2>2
    <2>4. Moves(p, q, 3, x)
      BY <1>4, <1>9, <2>1, <2>3 DEF Moves
    <2> QED
      BY <1>4, <1>6, <1>8, <2>4 DEF Passes
  <1>10. CASE ~(p = a /\ q = b)
    <2>1. Kept(p, q, 3)
      <3>1. CASE p = a
        BY <1>5, <1>10, <3>1 DEF Kept, At
      <3>2. CASE p # a
        BY <1>5, <1>6, <3>2, SamePlaces
      <3> QED
        BY <3>1, <3>2
    <2> QED
      BY <1>6, <1>7, <1>8, <2>1, AllPlaces DEF Passes
  <1> QED
    BY <1>9, <1>10

\* The loop hands a message on to the UI.
LEMMA DeliverCarries ==
    ASSUME OrderInv, NEW a \in Peers, DeliverToUi(a)
    PROVE  Carries
  <1>1. /\ task[a].pc = "deliver"
        /\ uiq' = [uiq EXCEPT ![a] = uiq[a] \o <<Connected(a, task[a].from), Delivered(a, task[a].from)>>]
        /\ task' = [task EXCEPT ![a] = Select]
        /\ UNCHANGED <<dbMsgs, outq, inq, net, used>>
    BY DEF DeliverToUi, Delivery
  <1>2. Typed
    BY DEF OrderInv, Inv
  <1>3. PICK b, x, c, d :
           /\ b = task[a].from /\ x = task[a].n /\ b \in Peers /\ x \in Numbers
           /\ c = Connected(a, b) /\ d = Delivered(a, b) /\ c \in Updates(a) /\ d \in Updates(a)
           /\ c.kind = "connected" /\ d.kind = "message" /\ d.peer = b /\ d.msg.id.n = x
    BY <1>1, <1>2, DeliveryTyped, TaskHolds
  <1>4. /\ task'[a].pc = "select" /\ \A r \in Peers : r # a => task'[r] = task[r]
    BY <1>1, <1>2, Entry DEF Typed, TaskTyped, Select
  <1>5. PICK s : s \in Seq(Updates(a)) /\ s = uiq[a]
    BY <1>2, QueuesTyped
  <1>6. /\ uiq'[a] = Append(Append(s, c), d) /\ Append(s, c) \in Seq(Updates(a))
        /\ \A r \in Peers : r # a => uiq'[r] = uiq[r]
    <2>1. s \o <<c, d>> = Append(Append(s, c), d) /\ Append(s, c) \in Seq(Updates(a))
      BY <1>3, <1>5, AppendTwoTyped, AppendTyped
    <2>2. uiq' = [uiq EXCEPT ![a] = Append(Append(s, c), d)]
      BY <1>1, <1>3, <1>5, <2>1
    <2> QED
      BY <1>2, <2>1, <2>2, Entry, QueuesTyped
  <1> SUFFICES ASSUME NEW p \in Peers, NEW q \in Peers PROVE Passes(p, q) /\ QueuesInOrder(p, q)'
    BY DEF Carries
  <1>7. QueuesInOrder(p, q) /\ PlacesInOrder(p, q) /\ used.sends <= used'.sends
    BY <1>1, <1>2, QueuesTyped DEF OrderInv, InOrder
  <1>8. Kept(p, q, 3) /\ Kept(p, q, 6)
    <2>1. Kept(p, q, 3)
      BY <1>4, <1>7, SamePlaces DEF Kept, At
    <2>2. Kept(p, q, 6)
      BY <1>4, <1>7, SamePlaces DEF Kept, At
    <2> QED
      BY <2>1, <2>2
  <1>9. CASE p = a
    <2>1. PICK number : number = UpdateNumber(a, q)
      OBVIOUS
    <2>2. /\ number \in [Updates(a) -> 0 .. MaxSends] /\ Rising(s, number) /\ number[c] = 0
          /\ number[d] = IF q = b THEN x ELSE 0
      <3>1. number[c] = 0 /\ number[d] = IF q = b THEN x ELSE 0
        BY <1>3, <2>1 DEF UpdateNumber
      <3> QED
        BY <1>5, <1>7, <1>9, <2>1, <3>1, NumbersTyped DEF QueuesInOrder
    <2>3. /\ Rising(Append(s, c), number)
          /\ \A n \in Numbers : In(Append(s, c), number, n) => In(s, number, n)
      BY <1>3, <1>5, <2>2, RisingUnnumbered
    <2>4. PICK t : t = Append(s, c)
      OBVIOUS
    <2>5. /\ \A n : In(Append(t, d), number, n) => In(t, number, n) \/ n = number[d]
          /\ (number[d] # 0 => \A n \in Numbers : In(t, number, n) => n < number[d])
                => Rising(Append(t, d), number)
      <3>1. t \in Seq(Updates(a)) /\ Rising(t, number)
        BY <1>6, <2>3, <2>4
      <3> QED
        BY <1>3, <2>2, <3>1, RisingAppend
    <2>6. \A n \in Numbers : In(uiq'[p], UpdateNumber(p, q), n) => In(uiq[p], UpdateNumber(p, q), n) \/ n = number[d]
      BY <1>5, <1>6, <1>9, <2>1, <2>3, <2>4, <2>5
    <2>7. CASE q = b
      <3>1. At(p, q, 3, x)
        BY <1>1, <1>3, <1>9, <2>7 DEF At
      <3>2. \A n \in Numbers : In(s, number, n) => n < x
        <4>1. \A n : In(s, number, n) => At(p, q, 2, n)
          BY <1>5, <1>9, <2>1 DEF At
        <4> QED
          BY <1>3, <1>7, <3>1, <4>1 DEF PlacesInOrder
      <3>3. Rising(uiq'[p], UpdateNumber(p, q))
        BY <1>6, <1>9, <2>1, <2>2, <2>3, <2>4, <2>5, <2>7, <3>2
      <3>4. OneMore(p, q, 2, x)
        <4>1. \A n \in Numbers : At(p, q, 2, n)' => In(uiq'[p], UpdateNumber(p, q), n)
          BY DEF At
        <4>2. \A n \in Numbers : In(uiq[p], UpdateNumber(p, q), n) => At(p, q, 2, n)
          BY DEF At
        <4> QED
          BY <2>2, <2>6, <2>7, <4>1, <4>2 DEF OneMore
      <3>5. \A n \in Numbers : ~At(p, q, 3, n)'
        BY <1>4, <1>9 DEF At
      <3>6. /\ Kept(p, q, 1) /\ Kept(p, q, 4) /\ Kept(p, q, 5) /\ Kept(p, q, 7)
            /\ QueuesInOrder(p, q)'
        BY <1>1, <1>7, <3>3, SamePlaces, AllPlaces
      <3>7. \A l \in 1 .. 7 : l # 2 => Kept(p, q, l)
        <4>1. \A l \in 1 .. 7 : l # 2 => l = 1 \/ l = 3 \/ l = 4 \/ l = 5 \/ l = 6 \/ l = 7
          OBVIOUS
        <4> QED
          BY <1>8, <3>6, <4>1
      <3>8. Moves(p, q, 2, x)
        BY <3>1, <3>4, <3>5, <3>7 DEF Moves
      <3> QED
        BY <1>3, <1>7, <3>6, <3>8 DEF Passes
    <2>8. CASE q # b
      <3>1. Rising(uiq'[p], UpdateNumber(p, q))
        BY <1>6, <1>9, <2>1, <2>2, <2>4, <2>5, <2>8
      <3>2. Kept(p, q, 2)
        <4>1. \A n \in Numbers : At(p, q, 2, n)' => In(uiq'[p], UpdateNumber(p, q), n)
          BY DEF At
        <4>2. \A n \in Numbers : In(uiq[p], UpdateNumber(p, q), n) => At(p, q, 2, n)
          BY DEF At
        <4> QED
          BY <2>2, <2>6, <2>8, <4>1, <4>2, NumbersNotZero DEF Kept
      <3> QED
        BY <1>1, <1>7, <1>8, <3>1, <3>2, SamePlaces, AllPlaces DEF Passes
    <2> QED
      BY <2>7, <2>8
  <1>10. CASE p # a
    BY <1>1, <1>6, <1>7, <1>8, <1>10, SamePlaces, AllPlaces DEF Passes
  <1> QED
    BY <1>9, <1>10

\* The loop sends a chat message, or a Hello.
LEMMA SendMessageCarries ==
    ASSUME OrderInv, NEW a \in Peers, SendMessage(a)
    PROVE  Carries
  <1>1. /\ Send(a, task[a].to, task[a].msg) /\ task[a].pc = "send"
        /\ task' = [task EXCEPT ![a] = Select]
        /\ UNCHANGED <<dbMsgs, uiq, inq, outq>>
    BY DEF SendMessage
  <1>2. Typed
    BY DEF OrderInv, Inv
  <1>3. PICK b, m, x :
           /\ b = task[a].to /\ m = task[a].msg /\ b \in Others(a) /\ b \in Peers /\ m \in Wires
           /\ x = WireNumber[m]
    BY <1>1, <1>2, TaskHolds
  <1>4. /\ task'[a].pc = "select" /\ \A r \in Peers : r # a => task'[r] = task[r]
    BY <1>1, <1>2, Entry DEF Typed, TaskTyped, Select
  <1>5. /\ used.sends <= used'.sends
        /\ \A p, q \in Peers : ~(q = a /\ p = b) => net'[q][p] = net[q][p]
        /\ \A n : In(net'[a][b], WireNumber, n) => In(net[a][b], WireNumber, n) \/ n = x
        /\ (x # 0 => \A n \in Numbers : In(net[a][b], WireNumber, n) => n < x)
             => Rising(net'[a][b], WireNumber)
    <2>1. Rising(net[a][b], WireNumber)
      BY <1>3 DEF OrderInv, InOrder, QueuesInOrder
    <2> QED
      BY <1>1, <1>2, <1>3, <2>1, SendPlaces
  <1>6. x # 0 => x \in Numbers
    <2>1. WireNumber \in [Wires -> 0 .. MaxSends]
      BY NumbersTyped
    <2> QED
      BY <1>3, <2>1, NumbersNotZero
  <1> SUFFICES ASSUME NEW p \in Peers, NEW q \in Peers PROVE Passes(p, q) /\ QueuesInOrder(p, q)'
    BY DEF Carries
  <1>7. QueuesInOrder(p, q) /\ PlacesInOrder(p, q)
    BY DEF OrderInv, InOrder
  <1>8. Kept(p, q, 3) /\ Kept(p, q, 6)
    <2>1. Kept(p, q, 3)
      BY <1>4, <1>7, SamePlaces DEF Kept, At
    <2>2. Kept(p, q, 6)
      BY <1>4, <1>7, SamePlaces DEF Kept, At
    <2> QED
      BY <2>1, <2>2
  <1>9. CASE q = a /\ p = b /\ x # 0
    <2>1. At(p, q, 6, x)
      BY <1>1, <1>3, <1>9 DEF At
    <2>2. \A n \in Numbers : In(net[q][p], WireNumber, n) => n < x
      <3>1. \A n : In(net[q][p], WireNumber, n) => At(p, q, 5, n)
        BY DEF At
      <3> QED
        BY <1>6, <1>7, <1>9, <2>1, <3>1 DEF PlacesInOrder
    <2>3. Rising(net'[q][p], WireNumber)
      BY <1>5, <1>9, <2>2
    <2>4. OneMore(p, q, 5, x)
      BY <1>5, <1>9 DEF OneMore, At
    <2>5. \A n \in Numbers : ~At(p, q, 6, n)'
      BY <1>4, <1>9 DEF At
    <2>6. /\ Kept(p, q, 1) /\ Kept(p, q, 2) /\ Kept(p, q, 4) /\ Kept(p, q, 7)
          /\ QueuesInOrder(p, q)'
      BY <1>1, <1>7, <2>3, SamePlaces, AllPlaces
    <2>7. \A l \in 1 .. 7 : l # 5 => Kept(p, q, l)
      <3>1. \A l \in 1 .. 7 : l # 5 => l = 1 \/ l = 2 \/ l = 3 \/ l = 4 \/ l = 6 \/ l = 7
        OBVIOUS
      <3> QED
        BY <1>8, <2>6, <3>1
    <2>8. Moves(p, q, 5, x)
      BY <2>1, <2>4, <2>5, <2>7 DEF Moves
    <2> QED
      BY <1>5, <1>6, <1>9, <2>6, <2>8 DEF Passes
  <1>10. CASE ~(q = a /\ p = b /\ x # 0)
    <2>1. Kept(p, q, 5) /\ Rising(net'[q][p], WireNumber)
      <3>1. CASE q = a /\ p = b
        BY <1>5, <1>10, <3>1, NumbersNotZero DEF Kept, At
      <3>2. CASE ~(q = a /\ p = b)
        BY <1>5, <1>7, <3>2, SamePlaces
      <3> QED
        BY <3>1, <3>2
    <2> QED
      BY <1>1, <1>5, <1>7, <1>8, <2>1, SamePlaces, AllPlaces DEF Passes
  <1> QED
    BY <1>9, <1>10

\* The loop takes a message typed earlier, or drops it.
LEMMA OutgoingCarries ==
    ASSUME OrderInv, NEW a \in Peers, HandleOutgoing(a)
    PROVE  Carries
  <1>1. /\ task[a] = Select /\ outq[a] # <<>> /\ outq' = [outq EXCEPT ![a] = Tail(outq[a])]
        /\ UNCHANGED <<dbMsgs, uiq, inq, net>> /\ (UNCHANGED used \/ Fault)
    BY DEF HandleOutgoing
  <1>2. Typed /\ used'.sends = used.sends
    BY <1>1, FaultEffect DEF OrderInv, Inv
  <1>3. PICK s : s = outq[a] /\ s \in Seq(Orders(a)) /\ s # <<>>
    BY <1>1, <1>2, QueuesTyped
  <1>4. PICK b, x : b = Head(s).to /\ x = Head(s).text /\ b \in Peers /\ x \in Numbers /\ Head(s) \in Orders(a)
    <2>1. Head(s) \in Orders(a)
      BY <1>3, TailTyped
    <2> QED
      BY <2>1 DEF Orders, Others
  <1>5. outq'[a] = Tail(s) /\ \A r \in Peers : r # a => outq'[r] = outq[r]
    BY <1>1, <1>2, <1>3, Entry, QueuesTyped
  <1>6. /\ \A r \in Peers : r # a => task'[r] = task[r]
        /\ task'[a].pc \notin {"ack", "deliver"}
        /\ task'[a].pc = "send" => task'[a].to = b /\ WireNumber[task'[a].msg] = x
    <2>1. PICK sealed :
             /\ sealed \in {SharedKey(a, KeySource(a, b)), Plain}
             /\ \/ task' = task
                \/ task' = [task EXCEPT ![a] = [pc |-> "send", to |-> b,
                                          msg |-> [kind |-> "chat", n |-> x, sealed |-> sealed]]]
      BY <1>3, <1>4 DEF HandleOutgoing
    <2>2. PICK m : m = [kind |-> "chat", n |-> x, sealed |-> sealed]
      OBVIOUS
    <2>3. task' = task \/ task' = [task EXCEPT ![a] = [pc |-> "send", to |-> b, msg |-> m]]
      BY <2>1, <2>2
    <2>4. WireNumber[m] = x
      <3>1. sealed \in Seals
        BY <1>2, <1>4, <2>1, KeySourceTyped DEF Seals
      <3>2. m \in Wires /\ m.kind = "chat" /\ m.n = x
        BY <1>4, <2>2, <3>1 DEF Wires
      <3> QED
        BY <3>2 DEF WireNumber
    <2>5. CASE task' = task
      BY <1>1, <2>5 DEF Select
    <2>6. CASE task' = [task EXCEPT ![a] = [pc |-> "send", to |-> b, msg |-> m]]
      <3>1. /\ task'[a] = [pc |-> "send", to |-> b, msg |-> m]
            /\ \A r \in Peers : r # a => task'[r] = task[r]
        BY <1>2, <2>6, Entry DEF Typed, TaskTyped
      <3> QED
        BY <2>4, <3>1
    <2> QED
      BY <2>3, <2>5, <2>6
  <1> SUFFICES ASSUME NEW p \in Peers, NEW q \in Peers PROVE Passes(p, q) /\ QueuesInOrder(p, q)'
    BY DEF Carries
  <1>7. QueuesInOrder(p, q) /\ used.sends <= used'.sends
    BY <1>1, <1>2, QueuesTyped DEF OrderInv, InOrder
  <1>8. Kept(p, q, 3)
    BY <1>6, <1>7, SamePlaces DEF Kept, At
  <1>9. CASE q = a
    <2>1. PICK number : number = OrderNumber(a, p)
      OBVIOUS
    <2>2. /\ number \in [Orders(a) -> 0 .. MaxSends] /\ Rising(s, number)
          /\ number[Head(s)] = IF p = b THEN x ELSE 0
      <3>1. number[Head(s)] = IF p = b THEN x ELSE 0
        BY <1>4, <2>1 DEF OrderNumber
      <3> QED
        BY <1>3, <1>7, <1>9, <2>1, <3>1, NumbersTyped DEF QueuesInOrder
    <2>3. /\ Rising(Tail(s), number)
          /\ In(s, number, number[Head(s)])
          /\ \A n : In(Tail(s), number, n) => In(s, number, n)
          /\ \A n \in Numbers : In(Tail(s), number, n) /\ number[Head(s)] # 0 => number[Head(s)] < n
      BY <1>3, <2>2, RisingTail
    <2>4. Kept(p, q, 7) /\ Rising(outq'[q], OrderNumber(q, p))
      BY <1>3, <1>5, <1>9, <2>1, <2>3 DEF Kept, At
    <2>5. /\ Kept(p, q, 1) /\ Kept(p, q, 2) /\ Kept(p, q, 4) /\ Kept(p, q, 5)
          /\ QueuesInOrder(p, q)'
      BY <1>1, <1>7, <2>4, SamePlaces, AllPlaces
    <2>6. CASE p = b
      <3>1. At(p, q, 7, x)
        BY <1>3, <1>9, <2>1, <2>2, <2>3, <2>6 DEF At
      <3>2. \A n \in Numbers : At(p, q, 7, n)' => x < n
        <4>1. number[Head(s)] = x /\ x # 0
          BY <1>4, <2>2, <2>6, NumbersNotZero
        <4>2. \A n \in Numbers : At(p, q, 7, n)' => In(Tail(s), number, n)
          <5>1. \A n \in Numbers : At(p, q, 7, n)' => In(outq'[q], OrderNumber(q, p), n)
            BY DEF At
          <5>2. outq'[q] = Tail(s) /\ OrderNumber(q, p) = number
            BY <1>5, <1>9, <2>1
          <5> QED
            BY <5>1, <5>2
        <4> QED
          BY <2>3, <4>1, <4>2
      <3>3. OneMore(p, q, 6, x)
        BY <1>6, <1>9 DEF OneMore, At
      <3>4. \A l \in 1 .. 7 : l # 6 => Kept(p, q, l)
        <4>1. \A l \in 1 .. 7 : l # 6 => l = 1 \/ l = 2 \/ l = 3 \/ l = 4 \/ l = 5 \/ l = 7
          OBVIOUS
        <4> QED
          BY <1>8, <2>4, <2>5, <4>1
      <3>5. Moves(p, q, 6, x)
        BY <3>1, <3>2, <3>3, <3>4 DEF Moves
      <3> QED
        BY <1>4, <1>7, <2>5, <3>5 DEF Passes
    <2>7. CASE p # b
      <3>1. Kept(p, q, 6)
        BY <1>6, <1>9, <2>7 DEF Kept, At
      <3> QED
        BY <1>7, <1>8, <2>4, <2>5, <3>1, AllPlaces DEF Passes
    <2> QED
      BY <2>6, <2>7
  <1>10. CASE q # a
    BY <1>1, <1>5, <1>6, <1>7, <1>8, <1>10, SamePlaces, AllPlaces DEF Passes
  <1> QED
    BY <1>9, <1>10

\* A stream listener reads a message.
LEMMA ListenCarries ==
    ASSUME OrderInv, NEW a \in Peers, NEW b \in Peers, Listen(a, b)
    PROVE  Carries
  <1>1. /\ net[b][a] # <<>>
        /\ inq' = [inq EXCEPT ![a] = Append(inq[a], [from |-> b, msg |-> Head(net[b][a])])]
        /\ net' = [net EXCEPT ![b][a] = Tail(net[b][a])]
        /\ UNCHANGED <<dbMsgs, outq, uiq, task, used>>
    BY DEF Listen
  <1>2. Typed /\ \A r \in Peers : net[r][r] = <<>>
    BY DEF OrderInv, Inv, Typed, NetTyped
  <1>3. b \in Others(a)
    BY <1>1, <1>2 DEF Others
  <1>4. PICK s : s = net[b][a] /\ s \in Seq(Wires) /\ s # <<>>
    BY <1>1, <1>2, QueuesTyped
  <1>5. PICK t : t = inq[a] /\ t \in Seq(Arrivals(a))
    BY <1>2, QueuesTyped
  <1>6. PICK m, e : m = Head(s) /\ m \in Wires /\ e = [from |-> b, msg |-> m] /\ e \in Arrivals(a)
    <2>1. Head(s) \in Wires
      BY <1>4, TailTyped
    <2>2. [from |-> b, msg |-> Head(s)] \in Arrivals(a)
      BY <1>3, <2>1 DEF Arrivals
    <2> QED
      BY <2>1, <2>2
  <1>7. PICK x : x = WireNumber[m] /\ (x # 0 => x \in Numbers)
    <2>1. WireNumber \in [Wires -> 0 .. MaxSends]
      BY NumbersTyped
    <2> QED
      BY <1>6, <2>1, NumbersNotZero
  <1>8. inq'[a] = Append(t, e) /\ \A r \in Peers : r # a => inq'[r] = inq[r]
    BY <1>1, <1>2, <1>4, <1>5, <1>6, Entry, QueuesTyped
  <1>9. net'[b][a] = Tail(s) /\ \A r, z \in Peers : ~(r = b /\ z = a) => net'[r][z] = net[r][z]
    <2>1. Tail(net[b][a]) \in Seq(Wires) /\ net \in [Peers -> [Peers -> Seq(Wires)]]
      BY <1>2, <1>4, TailTyped, QueuesTyped
    <2> QED
      BY <1>1, <1>4, <2>1, Entry2
  <1>10. /\ Rising(Tail(s), WireNumber)
         /\ In(s, WireNumber, x)
         /\ \A n : In(Tail(s), WireNumber, n) => In(s, WireNumber, n)
         /\ \A n \in Numbers : In(Tail(s), WireNumber, n) /\ x # 0 => x < n
    <2>1. WireNumber \in [Wires -> 0 .. MaxSends] /\ Rising(s, WireNumber)
      BY <1>4, NumbersTyped DEF OrderInv, InOrder, QueuesInOrder
    <2> QED
      BY <1>4, <1>6, <1>7, <2>1, RisingTail
  <1> SUFFICES ASSUME NEW p \in Peers, NEW q \in Peers PROVE Passes(p, q) /\ QueuesInOrder(p, q)'
    BY DEF Carries
  <1>11. QueuesInOrder(p, q) /\ PlacesInOrder(p, q) /\ used.sends <= used'.sends
    BY <1>1, <1>2, QueuesTyped DEF OrderInv, InOrder
  <1>12. Kept(p, q, 5) /\ Rising(net'[q][p], WireNumber)
    <2>1. CASE q = b /\ p = a
      BY <1>4, <1>9, <1>10, <2>1 DEF Kept, At
    <2>2. CASE ~(q = b /\ p = a)
      BY <1>9, <1>11, <2>2, SamePlaces
    <2> QED
      BY <2>1, <2>2
  <1>13. Kept(p, q, 1) /\ Kept(p, q, 2) /\ Kept(p, q, 3) /\ Kept(p, q, 6) /\ Kept(p, q, 7)
    BY <1>1, <1>11, SamePlaces
  <1>14. CASE p = a
    <2>1. PICK number : number = ArrivalNumber(a, q)
      OBVIOUS
    <2>2. /\ number \in [Arrivals(a) -> 0 .. MaxSends] /\ Rising(t, number)
          /\ number[e] = IF q = b THEN x ELSE 0
      <3>1. number[e] = IF q = b THEN x ELSE 0
        BY <1>6, <1>7, <2>1 DEF ArrivalNumber
      <3> QED
        BY <1>5, <1>11, <1>14, <2>1, <3>1, NumbersTyped DEF QueuesInOrder
    <2>3. /\ \A n : In(Append(t, e), number, n) => In(t, number, n) \/ n = number[e]
          /\ (number[e] # 0 => \A n \in Numbers : In(t, number, n) => n < number[e])
                => Rising(Append(t, e), number)
      BY <1>5, <1>6, <2>2, RisingAppend
    <2>4. \A n \in Numbers : In(inq'[p], ArrivalNumber(p, q), n) => In(inq[p], ArrivalNumber(p, q), n) \/ n = number[e]
      BY <1>5, <1>8, <1>14, <2>1, <2>3
    <2>5. CASE q = b /\ x # 0
      <3>1. At(p, q, 5, x)
        BY <1>4, <1>10, <1>14, <2>5 DEF At
      <3>2. \A n \in Numbers : In(t, number, n) => n < x
        <4>1. \A n : In(t, number, n) => At(p, q, 4, n)
          BY <1>5, <1>14, <2>1 DEF At
        <4> QED
          BY <1>7, <1>11, <2>5, <3>1, <4>1 DEF PlacesInOrder
      <3>3. Rising(inq'[p], ArrivalNumber(p, q))
        BY <1>8, <1>14, <2>1, <2>2, <2>3, <2>5, <3>2
      <3>4. OneMore(p, q, 4, x)
        BY <2>2, <2>4, <2>5 DEF OneMore, At
      <3>5. \A n \in Numbers : At(p, q, 5, n)' => x < n
        <4>1. \A n \in Numbers : At(p, q, 5, n)' => In(net'[q][p], WireNumber, n)
          BY DEF At
        <4>2. net'[q][p] = Tail(s)
          BY <1>9, <1>14, <2>5
        <4> QED
          BY <1>10, <2>5, <4>1, <4>2
      <3>6. QueuesInOrder(p, q)'
        BY <1>1, <1>11, <1>12, <3>3, SamePlaces, AllPlaces
      <3>7. \A l \in 1 .. 7 : l # 4 => Kept(p, q, l)
        <4>1. \A l \in 1 .. 7 : l # 4 => l = 1 \/ l = 2 \/ l = 3 \/ l = 5 \/ l = 6 \/ l = 7
          OBVIOUS
        <4> QED
          BY <1>12, <1>13, <4>1
      <3>8. Moves(p, q, 4, x)
        BY <3>1, <3>4, <3>5, <3>7 DEF Moves
      <3> QED
        BY <1>7, <1>11, <2>5, <3>6, <3>8 DEF Passes
    <2>6. CASE ~(q = b /\ x # 0)
      <3>1. number[e] = 0
        BY <2>2, <2>6
      <3>2. Rising(inq'[p], ArrivalNumber(p, q))
        BY <1>8, <1>14, <2>1, <2>3, <3>1
      <3>3. Kept(p, q, 4)
        <4>1. \A n \in Numbers : At(p, q, 4, n)' => In(inq'[p], ArrivalNumber(p, q), n)
          BY DEF At
        <4>2. \A n \in Numbers : In(inq[p], ArrivalNumber(p, q), n) => At(p, q, 4, n)
          BY DEF At
        <4> QED
          BY <2>4, <3>1, <4>1, <4>2, NumbersNotZero DEF Kept
      <3> QED
        BY <1>1, <1>11, <1>12, <1>13, <3>2, <3>3, SamePlaces, AllPlaces DEF Passes
    <2> QED
      BY <2>5, <2>6
  <1>15. CASE p # a
    BY <1>1, <1>8, <1>11, <1>12, <1>13, <1>15, SamePlaces, AllPlaces DEF Passes
  <1> QED
    BY <1>14, <1>15

\* A crash of one peer.
LEMMA CrashCarries ==
    ASSUME OrderInv, NEW a \in Peers, Crash(a)
    PROVE  Carries
  <1>1. /\ outq' = [outq EXCEPT ![a] = <<>>] /\ inq' = [inq EXCEPT ![a] = <<>>]
        /\ uiq' = [uiq EXCEPT ![a] = <<>>] /\ task' = [task EXCEPT ![a] = Select]
        /\ net' = [q \in Peers |-> [net[q] EXCEPT ![a] = <<>>]]
        /\ used' = [used EXCEPT !.crashes = used.crashes + 1] /\ UNCHANGED dbMsgs
    BY DEF Crash
  <1>2. Typed
    BY DEF OrderInv, Inv
  <1>3. used.sends <= used'.sends
    <2>1. used'.sends = used.sends
      BY <1>1, <1>2 DEF Typed, UsedTyped
    <2> QED
      BY <1>2, <2>1, QueuesTyped
  <1>4. /\ outq'[a] = <<>> /\ inq'[a] = <<>> /\ uiq'[a] = <<>> /\ task'[a].pc = "select"
        /\ \A r \in Peers : r # a => /\ outq'[r] = outq[r] /\ inq'[r] = inq[r] /\ uiq'[r] = uiq[r]
                                     /\ task'[r] = task[r]
    BY <1>1, <1>2, Entry DEF Typed, OutqTyped, InqTyped, UiqTyped, TaskTyped, Select
  <1>5. \A q \in Peers : net'[q][a] = <<>> /\ \A r \in Peers : r # a => net'[q][r] = net[q][r]
    <2>1. net \in [Peers -> [Peers -> Seq(Wires)]]
      BY <1>2, QueuesTyped
    <2> QED
      BY <1>1, <2>1
  <1> SUFFICES ASSUME NEW p \in Peers, NEW q \in Peers PROVE Passes(p, q) /\ QueuesInOrder(p, q)'
    BY DEF Carries
  <1>6. QueuesInOrder(p, q)
    BY DEF OrderInv, InOrder
  <1>7. Kept(p, q, 2) /\ Rising(uiq'[p], UpdateNumber(p, q))
    BY <1>4, <1>6, SamePlaces, RisingEmpty DEF Kept, At
  <1>8. Kept(p, q, 3) /\ Kept(p, q, 6)
    BY <1>4, <1>6, SamePlaces DEF Kept, At
  <1>9. Kept(p, q, 4) /\ Rising(inq'[p], ArrivalNumber(p, q))
    BY <1>4, <1>6, SamePlaces, RisingEmpty DEF Kept, At
  <1>10. Kept(p, q, 5) /\ Rising(net'[q][p], WireNumber)
    BY <1>5, <1>6, SamePlaces, RisingEmpty DEF Kept, At
  <1>11. Kept(p, q, 7) /\ Rising(outq'[q], OrderNumber(q, p))
    BY <1>4, <1>6, SamePlaces, RisingEmpty DEF Kept, At
  <1> QED
    BY <1>1, <1>3, <1>6, <1>7, <1>8, <1>9, <1>10, <1>11, SamePlaces, AllPlaces DEF Passes

\* A row is added, or refused.
LEMMA AddRow ==
    ASSUME OrderInv, NEW a \in Peers, NEW b \in Others(a), NEW msg \in Messages, AddMessage(a, b, msg)
    PROVE  /\ \A p, q \in Peers : ~(p = a /\ q = b) => dbMsgs'[p][q] = dbMsgs[p][q]
           /\ \A n : In(dbMsgs'[a][b], RowNumber, n) => In(dbMsgs[a][b], RowNumber, n) \/ n = RowNumber[msg]
           /\ (RowNumber[msg] # 0 => \A n \in Numbers : In(dbMsgs[a][b], RowNumber, n) => n < RowNumber[msg])
                => Rising(dbMsgs'[a][b], RowNumber)
  <1>1. Typed /\ b \in Peers
    BY DEF OrderInv, Inv, Others
  <1>2. PICK s : s = dbMsgs[a][b] /\ s \in Seq(Messages) /\ Rising(s, RowNumber)
    BY <1>1, QueuesTyped DEF OrderInv, InOrder, QueuesInOrder
  <1>3. /\ dbMsgs \in [Peers -> [Peers -> Seq(Messages)]]
        /\ dbMsgs' = dbMsgs \/ dbMsgs' = [dbMsgs EXCEPT ![a][b] = Append(s, msg)]
        /\ Append(s, msg) \in Seq(Messages)
    <2>1. dbMsgs' = dbMsgs \/ dbMsgs' = [dbMsgs EXCEPT ![a][b] = Append(s, msg)]
      BY <1>2 DEF AddMessage, InsertMessage
    <2>2. Append(s, msg) \in Seq(Messages)
      BY <1>2, AppendTyped
    <2> QED
      BY <1>1, <2>1, <2>2, QueuesTyped
  <1>4. CASE dbMsgs' = dbMsgs
    BY <1>2, <1>4
  <1>5. CASE dbMsgs' = [dbMsgs EXCEPT ![a][b] = Append(s, msg)]
    <2>1. /\ dbMsgs'[a][b] = Append(s, msg)
          /\ \A p, q \in Peers : ~(p = a /\ q = b) => dbMsgs'[p][q] = dbMsgs[p][q]
      BY <1>1, <1>3, <1>5, Entry2
    <2>2. RowNumber \in [Messages -> 0 .. MaxSends]
      BY NumbersTyped
    <2>3. /\ \A n : In(Append(s, msg), RowNumber, n) => In(s, RowNumber, n) \/ n = RowNumber[msg]
          /\ (RowNumber[msg] # 0 => \A n \in Numbers : In(s, RowNumber, n) => n < RowNumber[msg])
                => Rising(Append(s, msg), RowNumber)
      BY <1>2, <2>2, RisingAppend
    <2> QED
      BY <1>2, <2>1, <2>3
  <1> QED
    BY <1>3, <1>4, <1>5

\* A message is typed: its number is new.
LEMMA UserSendCarries ==
    ASSUME OrderInv, NEW a \in Peers, UserSend(a)
    PROVE  Carries
  <1>1. UNCHANGED <<uiq, inq, net, task>> /\ view[a] # NoView /\ used.sends < MaxSends
    BY DEF UserSend
  <1>2. /\ Typed /\ used \in [sends : 0 .. MaxSends, invites : Nat, crashes : Nat, faults : Nat]
        /\ MaxSends \in Nat
    BY BoundsAssumption DEF OrderInv, Inv, Typed, UsedTyped
  <1>3. PICK x \in Numbers, b \in Others(a) : x = used.sends + 1 /\ b = view[a].chat
    <2>1. used.sends + 1 \in Numbers
      BY <1>1, <1>2 DEF Numbers
    <2>2. view[a].chat \in Others(a)
      BY <1>1, <1>2, OpenViewTyped DEF Typed, ViewTyped
    <2> QED
      BY <2>1, <2>2
  <1>4. PICK k \in Numbers :
           /\ AddMessage(a, b, [id |-> LocalId(k), text |-> x, mine |-> TRUE, status |-> "sent"])
           /\ outq' = IF node[a] = "online"
                      THEN [outq EXCEPT ![a] = Append(outq[a], [to |-> b, text |-> x])] ELSE outq
           /\ used' = [used EXCEPT !.sends = x]
    <2>1. PICK k \in (IF ClockCollides THEN 1 .. MaxSends ELSE {used.sends + 1}) :
           /\ AddMessage(a, b, [id |-> LocalId(k), text |-> x, mine |-> TRUE, status |-> "sent"])
           /\ outq' = IF node[a] = "online"
                      THEN [outq EXCEPT ![a] = Append(outq[a], [to |-> b, text |-> x])] ELSE outq
           /\ used' = [used EXCEPT !.sends = x]
      BY <1>3 DEF UserSend
    <2>2. k \in Numbers
      BY <1>3, <2>1 DEF Numbers
    <2> QED
      BY <2>1, <2>2
  <1>5. PICK msg : /\ msg = [id |-> LocalId(k), text |-> x, mine |-> TRUE, status |-> "sent"]
                   /\ msg \in Messages /\ RowNumber[msg] = 0
    <2>1. [id |-> LocalId(k), text |-> x, mine |-> TRUE, status |-> "sent"] \in Messages
      BY DEF Messages, LocalId, Texts, Statuses, Numbers
    <2> QED
      BY <2>1 DEF RowNumber
  <1>6. b \in Peers /\ b # a /\ used'.sends = x /\ used.sends <= used'.sends
    BY <1>2, <1>3, <1>4 DEF Others
  <1>7. \A p, q \in Peers : Kept(p, q, 1) /\ Rising(dbMsgs'[p][q], RowNumber)
    <2>1. /\ \A p, q \in Peers : ~(p = a /\ q = b) => dbMsgs'[p][q] = dbMsgs[p][q]
          /\ \A n : In(dbMsgs'[a][b], RowNumber, n) => In(dbMsgs[a][b], RowNumber, n) \/ n = RowNumber[msg]
          /\ Rising(dbMsgs'[a][b], RowNumber)
      BY <1>4, <1>5, AddRow
    <2>2. Kept(a, b, 1)
      <3>1. \A n \in Numbers : At(a, b, 1, n)' => In(dbMsgs'[a][b], RowNumber, n)
        BY DEF At
      <3>2. \A n \in Numbers : In(dbMsgs[a][b], RowNumber, n) => At(a, b, 1, n)
        BY DEF At
      <3> QED
        BY <1>5, <2>1, <3>1, <3>2, NumbersNotZero DEF Kept
    <2>3. \A p, q \in Peers : QueuesInOrder(p, q)
      BY DEF OrderInv, InOrder
    <2> QED
      BY <2>1, <2>2, <2>3, SamePlaces
  <1> SUFFICES ASSUME NEW p \in Peers, NEW q \in Peers PROVE Passes(p, q) /\ QueuesInOrder(p, q)'
    BY DEF Carries
  <1>8. QueuesInOrder(p, q) /\ NumbersUsed(p, q)
    BY DEF OrderInv, InOrder
  <1>9. Kept(p, q, 1) /\ Kept(p, q, 2) /\ Kept(p, q, 3) /\ Kept(p, q, 4) /\ Kept(p, q, 5) /\ Kept(p, q, 6)
    BY <1>1, <1>7, <1>8, SamePlaces
  <1>10. CASE outq' = outq \/ q # a
    <2>1. outq'[q] = outq[q]
      <3>1. CASE outq' = [outq EXCEPT ![a] = Append(outq[a], [to |-> b, text |-> x])]
        BY <1>2, <1>10, <3>1, Entry, QueuesTyped
      <3>2. CASE outq' = outq
        BY <3>2
      <3> QED
        BY <1>4, <3>1, <3>2
    <2> QED
      BY <1>1, <1>6, <1>7, <1>8, <1>9, <2>1, SamePlaces, AllPlaces DEF Passes
  <1>11. CASE outq' = [outq EXCEPT ![a] = Append(outq[a], [to |-> b, text |-> x])] /\ q = a
    <2>1. PICK s, e, number :
             /\ s = outq[a] /\ e = [to |-> b, text |-> x] /\ number = OrderNumber(a, p)
      OBVIOUS
    <2>2. s \in Seq(Orders(a)) /\ e \in Orders(a) /\ outq'[a] = Append(s, e)
      <3>1. s \in Seq(Orders(a)) /\ DOMAIN outq = Peers
        BY <1>2, <2>1, QueuesTyped
      <3>2. e \in Orders(a)
        BY <2>1 DEF Orders
      <3> QED
        BY <1>11, <2>1, <3>1, <3>2, Entry
    <2>3. /\ number \in [Orders(a) -> 0 .. MaxSends] /\ Rising(s, number)
          /\ number[e] = IF p = b THEN x ELSE 0
      <3>1. number[e] = IF p = b THEN x ELSE 0
        BY <2>1, <2>2 DEF OrderNumber
      <3> QED
        BY <1>8, <1>11, <2>1, <3>1, NumbersTyped DEF QueuesInOrder
    <2>4. \A n \in Numbers : In(s, number, n) => n < x
      <3>1. \A n \in Numbers : In(s, number, n) => At(p, q, 7, n)
        BY <1>11, <2>1 DEF At
      <3>2. \A n \in Numbers : In(s, number, n) => n <= used.sends
        BY <1>8, <3>1 DEF NumbersUsed
      <3> QED
        BY <1>2, <1>3, <3>2, NumbersNotZero
    <2>5. /\ \A n : In(Append(s, e), number, n) => In(s, number, n) \/ n = number[e]
          /\ (number[e] # 0 => \A n \in Numbers : In(s, number, n) => n < number[e])
                => Rising(Append(s, e), number)
      BY <2>2, <2>3, RisingAppend
    <2>6. Rising(outq'[q], OrderNumber(q, p))
      <3>1. Rising(Append(s, e), number)
        BY <2>3, <2>4, <2>5
      <3> QED
        BY <1>11, <2>1, <2>2, <3>1
    <2>7. QueuesInOrder(p, q)'
      BY <1>1, <1>7, <1>8, <2>6, SamePlaces, AllPlaces
    <2>8. \A n \in Numbers : At(p, q, 7, n)' => At(p, q, 7, n) \/ n = number[e]
      <3>1. \A n \in Numbers : At(p, q, 7, n)' => In(outq'[q], OrderNumber(q, p), n)
        BY DEF At
      <3>2. \A n \in Numbers : In(outq[q], OrderNumber(q, p), n) => At(p, q, 7, n)
        BY DEF At
      <3> QED
        BY <1>11, <2>1, <2>2, <2>5, <3>1, <3>2
    <2>9. CASE p = b
      <3>1. Adds(p, q, x)
        <4>1. \A l \in 1 .. 6 : l = 1 \/ l = 2 \/ l = 3 \/ l = 4 \/ l = 5 \/ l = 6
          OBVIOUS
        <4>2. \A l \in 1 .. 6 : Kept(p, q, l)
          BY <1>9, <4>1
        <4> QED
          BY <1>3, <1>6, <2>3, <2>8, <2>9, <4>2 DEF Adds, OneMore
      <3> QED
        BY <1>6, <2>7, <3>1 DEF Passes
    <2>10. CASE p # b
      <3>1. Kept(p, q, 7)
        BY <2>3, <2>8, <2>10, NumbersNotZero DEF Kept
      <3> QED
        BY <1>6, <1>9, <2>7, <3>1, AllPlaces DEF Passes
    <2> QED
      BY <2>9, <2>10
  <1> QED
    BY <1>4, <1>10, <1>11

\* The UI takes the first update.
LEMMA TakeUpdate ==
    ASSUME OrderInv, NEW a \in Peers, UiApply(a)
    PROVE  /\ \A p, q \in Peers : Kept(p, q, 2) /\ Rising(uiq'[p], UpdateNumber(p, q))
           /\ Head(uiq[a]) \in Updates(a)
           /\ \A b, x : Head(uiq[a]).kind = "message" /\ b = Head(uiq[a]).peer /\ x = Head(uiq[a]).msg.id.n =>
                 /\ b \in Others(a) /\ b \in Peers /\ x \in Numbers /\ Head(uiq[a]).msg \in Messages
                 /\ At(a, b, 2, x) /\ \A n \in Numbers : At(a, b, 2, n)' => x < n
                 /\ ~Head(uiq[a]).msg.mine /\ Head(uiq[a]).msg.id.by = b
                 /\ Head(uiq[a]).msg.text \in {x, Unreadable}
  <1>1. uiq[a] # <<>> /\ uiq' = [uiq EXCEPT ![a] = Tail(uiq[a])]
    BY DEF UiApply
  <1>2. Typed /\ \A p, q \in Peers : QueuesInOrder(p, q)
    BY DEF OrderInv, Inv, InOrder
  <1>3. PICK s : s = uiq[a] /\ s \in Seq(Updates(a)) /\ s # <<>>
    BY <1>1, <1>2, QueuesTyped
  <1>4. uiq'[a] = Tail(s) /\ \A r \in Peers : r # a => uiq'[r] = uiq[r]
    BY <1>1, <1>2, <1>3, Entry, QueuesTyped
  <1>5. ASSUME NEW q \in Peers
        PROVE  /\ Kept(a, q, 2) /\ Rising(uiq'[a], UpdateNumber(a, q))
               /\ In(uiq[a], UpdateNumber(a, q), UpdateNumber(a, q)[Head(s)])
               /\ \A n \in Numbers : In(uiq'[a], UpdateNumber(a, q), n) /\ UpdateNumber(a, q)[Head(s)] # 0
                                      => UpdateNumber(a, q)[Head(s)] < n
    <2>1. PICK number : number = UpdateNumber(a, q)
      OBVIOUS
    <2>2. number \in [Updates(a) -> 0 .. MaxSends] /\ Rising(s, number)
      BY <1>2, <1>3, <2>1, NumbersTyped DEF QueuesInOrder
    <2>3. /\ Rising(Tail(s), number)
          /\ In(s, number, number[Head(s)])
          /\ \A n : In(Tail(s), number, n) => In(s, number, n)
          /\ \A n \in Numbers : In(Tail(s), number, n) /\ number[Head(s)] # 0 => number[Head(s)] < n
      BY <1>3, <2>2, RisingTail
    <2>4. Kept(a, q, 2)
      <3>1. \A n \in Numbers : At(a, q, 2, n)' => In(uiq'[a], UpdateNumber(a, q), n)
        BY DEF At
      <3>2. \A n \in Numbers : In(uiq[a], UpdateNumber(a, q), n) => At(a, q, 2, n)
        BY DEF At
      <3> QED
        BY <1>3, <1>4, <2>1, <2>3, <3>1, <3>2 DEF Kept
    <2> QED
      BY <1>3, <1>4, <2>1, <2>3, <2>4
  <1>6. \A p, q \in Peers : Kept(p, q, 2) /\ Rising(uiq'[p], UpdateNumber(p, q))
    BY <1>2, <1>4, <1>5, SamePlaces
  <1>7. Head(s) \in Updates(a) /\ 1 \in DOMAIN s /\ Head(s) = s[1]
    BY <1>3, TailTyped
  <1>8. ASSUME Head(uiq[a]).kind = "message", NEW b, b = Head(uiq[a]).peer, NEW x, x = Head(uiq[a]).msg.id.n
        PROVE  /\ b \in Others(a) /\ b \in Peers /\ x \in Numbers /\ Head(uiq[a]).msg \in Messages
               /\ At(a, b, 2, x) /\ \A n \in Numbers : At(a, b, 2, n)' => x < n
               /\ ~Head(uiq[a]).msg.mine /\ Head(uiq[a]).msg.id.by = b
               /\ Head(uiq[a]).msg.text \in {x, Unreadable}
    <2>1. b \in Others(a) /\ b \in Peers /\ Head(s).msg \in Messages
      BY <1>3, <1>7, <1>8 DEF Updates, Others
    <2>2. x \in Numbers
      BY <1>3, <1>8, <2>1 DEF Messages, Numbers
    <2>3. UpdateNumber(a, b)[Head(s)] = x /\ x # 0
      BY <1>3, <1>7, <1>8, <2>2, NumbersNotZero DEF UpdateNumber
    <2>4. At(a, b, 2, x)
      BY <1>5, <2>1, <2>3 DEF At
    <2>5. \A n \in Numbers : At(a, b, 2, n)' => x < n
      <3>1. \A n \in Numbers : At(a, b, 2, n)' => In(uiq'[a], UpdateNumber(a, b), n)
        BY DEF At
      <3> QED
        BY <1>5, <2>1, <2>3, <3>1
    <2>6. ReceivedFrom(b, Head(s).msg)
      BY <1>3, <1>7, <1>8 DEF OrderInv, UpdatesAreReceived, ReceivedIn
    <2>7. ~Head(s).msg.mine /\ Head(s).msg.id.by = b /\ Head(s).msg.text \in {x, Unreadable}
      BY <1>3, <1>8, <2>6 DEF ReceivedFrom
    <2> QED
      BY <1>3, <2>1, <2>2, <2>4, <2>5, <2>7
  <1> QED
    BY <1>3, <1>6, <1>7, <1>8

\* The UI coroutine stores a message, or the status of one, or neither.
LEMMA UiApplyCarries ==
    ASSUME OrderInv, NEW a \in Peers, UiApply(a)
    PROVE  Carries
  <1>1. UNCHANGED <<outq, inq, net, task, used>>
    BY DEF UiApply
  <1>2. Typed
    BY DEF OrderInv, Inv
  <1>3. /\ \A p, q \in Peers : Kept(p, q, 2) /\ Rising(uiq'[p], UpdateNumber(p, q))
        /\ Head(uiq[a]) \in Updates(a)
    BY TakeUpdate
  <1>4. \A p, q \in Peers :
           /\ QueuesInOrder(p, q) /\ PlacesInOrder(p, q) /\ used.sends <= used'.sends
           /\ Kept(p, q, 3) /\ Kept(p, q, 4) /\ Kept(p, q, 5) /\ Kept(p, q, 6) /\ Kept(p, q, 7)
           /\ Rising(dbMsgs'[p][q], RowNumber) => QueuesInOrder(p, q)'
    <2>1. \A p, q \in Peers : QueuesInOrder(p, q) /\ PlacesInOrder(p, q) /\ used.sends <= used'.sends
      BY <1>1, <1>2, QueuesTyped DEF OrderInv, InOrder
    <2> QED
      BY <1>1, <1>3, <2>1, SamePlaces, AllPlaces
  <1> SUFFICES ASSUME NEW p \in Peers, NEW q \in Peers PROVE Passes(p, q) /\ QueuesInOrder(p, q)'
    BY DEF Carries
  <1>5. CASE Head(uiq[a]).kind = "connected"
    <2>1. UNCHANGED dbMsgs
      BY <1>5 DEF UiApply
    <2> QED
      BY <1>3, <1>4, <2>1, SamePlaces, AllPlaces DEF Passes
  <1>6. CASE Head(uiq[a]).kind = "status"
    <2>1. PICK id, st : st \in Statuses /\ UpdateMessageStatus(a, id, st)
      <3>1. UpdateMessageStatus(a, Head(uiq[a]).id, Head(uiq[a]).status)
        BY <1>6 DEF UiApply
      <3>2. Head(uiq[a]).status \in Statuses
        BY <1>3, <1>6 DEF Updates
      <3> QED
        BY <3>1, <3>2
    <2>2. /\ dbMsgs'[a] = [z \in Peers |-> WithStatus(dbMsgs[a][z], id, st)]
          /\ \A r \in Peers : r # a => dbMsgs'[r] = dbMsgs[r]
      <3>1. DOMAIN dbMsgs = Peers
        BY <1>2 DEF Typed, DbMsgsTyped
      <3>2. dbMsgs' = [dbMsgs EXCEPT ![a] = [z \in Peers |-> WithStatus(dbMsgs[a][z], id, st)]]
        BY <2>1 DEF UpdateMessageStatus
      <3> QED
        BY <3>1, <3>2, Entry
    <2>3. Kept(p, q, 1) /\ Rising(dbMsgs'[p][q], RowNumber)
      <3>1. CASE p = a
        <4>1. PICK s : s = dbMsgs[a][q] /\ s \in Seq(Messages) /\ Rising(s, RowNumber)
          BY <1>2, <1>4, QueuesTyped DEF QueuesInOrder
        <4>2. /\ Rising(WithStatus(s, id, st), RowNumber)
              /\ \A n : In(WithStatus(s, id, st), RowNumber, n) => In(s, RowNumber, n)
          BY <2>1, <4>1, StatusNumbers
        <4>3. dbMsgs'[a][q] = WithStatus(s, id, st)
          BY <2>2, <4>1
        <4>4. \A n \in Numbers : At(p, q, 1, n)' => In(dbMsgs'[p][q], RowNumber, n)
          BY DEF At
        <4>5. \A n \in Numbers : In(dbMsgs[p][q], RowNumber, n) => At(p, q, 1, n)
          BY DEF At
        <4> QED
          BY <3>1, <4>1, <4>2, <4>3, <4>4, <4>5 DEF Kept
      <3>2. CASE p # a
        BY <1>4, <2>2, <3>2, SamePlaces
      <3> QED
        BY <3>1, <3>2
    <2> QED
      BY <1>3, <1>4, <2>3, AllPlaces DEF Passes
  <1>7. CASE Head(uiq[a]).kind = "message"
    <2>1. PICK msg, b, x :
             /\ msg = Head(uiq[a]).msg /\ b = Head(uiq[a]).peer /\ x = msg.id.n
             /\ b \in Others(a) /\ b \in Peers /\ x \in Numbers /\ msg \in Messages
             /\ At(a, b, 2, x) /\ \A n \in Numbers : At(a, b, 2, n)' => x < n
             /\ ~msg.mine
      BY <1>7, TakeUpdate
    <2>2. AddMessage(a, b, msg)
      BY <1>7, <2>1 DEF UiApply
    <2>3. RowNumber[msg] = x
      BY <2>1 DEF RowNumber
    <2>4. \A n \in Numbers : In(dbMsgs[a][b], RowNumber, n) => n < x
      <3>1. \A n : In(dbMsgs[a][b], RowNumber, n) => At(a, b, 1, n)
        BY DEF At
      <3> QED
        BY <1>4, <2>1, <3>1 DEF PlacesInOrder
    <2>5. /\ \A r, z \in Peers : ~(r = a /\ z = b) => dbMsgs'[r][z] = dbMsgs[r][z]
          /\ \A n : In(dbMsgs'[a][b], RowNumber, n) => In(dbMsgs[a][b], RowNumber, n) \/ n = x
          /\ Rising(dbMsgs'[a][b], RowNumber)
      <3>1. /\ \A r, z \in Peers : ~(r = a /\ z = b) => dbMsgs'[r][z] = dbMsgs[r][z]
            /\ \A n : In(dbMsgs'[a][b], RowNumber, n) => In(dbMsgs[a][b], RowNumber, n) \/ n = RowNumber[msg]
            /\ (RowNumber[msg] # 0 => \A n \in Numbers : In(dbMsgs[a][b], RowNumber, n) => n < RowNumber[msg])
                  => Rising(dbMsgs'[a][b], RowNumber)
        BY <2>1, <2>2, AddRow, ZenonT(60)
      <3> QED
        BY <2>3, <2>4, <3>1
    <2>6. CASE p = a /\ q = b
      <3>1. OneMore(p, q, 1, x)
        <4>1. \A n \in Numbers : At(p, q, 1, n)' => In(dbMsgs'[p][q], RowNumber, n)
          BY DEF At
        <4>2. \A n \in Numbers : In(dbMsgs[p][q], RowNumber, n) => At(p, q, 1, n)
          BY DEF At
        <4> QED
          BY <2>5, <2>6, <4>1, <4>2 DEF OneMore
      <3>2. \A l \in 1 .. 7 : l # 1 => Kept(p, q, l)
        <4>1. \A l \in 1 .. 7 : l # 1 => l = 2 \/ l = 3 \/ l = 4 \/ l = 5 \/ l = 6 \/ l = 7
          OBVIOUS
        <4> QED
          BY <1>3, <1>4, <4>1
      <3>3. Moves(p, q, 1, x)
        BY <2>1, <2>6, <3>1, <3>2 DEF Moves
      <3> QED
        BY <1>4, <2>1, <2>5, <2>6, <3>3 DEF Passes
    <2>7. CASE ~(p = a /\ q = b)
      BY <1>3, <1>4, <2>5, <2>7, SamePlaces, AllPlaces DEF Passes
    <2> QED
      BY <2>6, <2>7
  <1> QED
    BY <1>3, <1>5, <1>6, <1>7 DEF Updates

-----------------------------------------------------------------------------
(* Memory and the database *)

\* One more update keeps to what was received, if it does.
LEMMA AppendReceived ==
    ASSUME NEW S, NEW s \in Seq(S), NEW e \in S, ReceivedIn(s),
           e.kind = "message" => ReceivedFrom(e.peer, e.msg)
    PROVE  ReceivedIn(Append(s, e))
  <1>1. /\ DOMAIN Append(s, e) = DOMAIN s \cup {Len(s) + 1} /\ Append(s, e)[Len(s) + 1] = e
        /\ \A i \in DOMAIN s : Append(s, e)[i] = s[i]
    BY AppendTyped
  <1>2. PICK t, m : t = Append(s, e) /\ m = Len(s) + 1
    OBVIOUS
  <1>3. DOMAIN t = DOMAIN s \cup {m} /\ t[m] = e /\ \A i \in DOMAIN s : t[i] = s[i]
    BY <1>1, <1>2
  <1>4. ReceivedIn(t)
    BY <1>3 DEF ReceivedIn
  <1> QED
    BY <1>2, <1>4

\* Every step keeps to it.
LEMMA UpdatesStayReceived ==
    ASSUME OrderInv, [Next]_vars
    PROVE  UpdatesAreReceived'
  <1>1. /\ Typed /\ DOMAIN uiq = Peers
        /\ \A r \in Peers : uiq[r] \in Seq(Updates(r)) /\ ReceivedIn(uiq[r])
    BY DEF OrderInv, Inv, Typed, UiqTyped, UpdatesAreReceived
  <1>2. CASE UNCHANGED uiq
    BY <1>1, <1>2 DEF UpdatesAreReceived
  <1>3. ASSUME NEW a \in Peers, NEW s, ReceivedIn(s), uiq' = [uiq EXCEPT ![a] = s]
        PROVE  UpdatesAreReceived'
    <2>1. uiq'[a] = s /\ \A r \in Peers : r # a => uiq'[r] = uiq[r]
      BY <1>1, <1>3, Entry
    <2> QED
      BY <1>1, <1>3, <2>1 DEF UpdatesAreReceived
  <1>4. ASSUME NEW a \in Peers, HandleHello(a)
        PROVE  UpdatesAreReceived'
    <2>1. PICK e : /\ e = [kind |-> "connected", peer |-> Head(inq[a]).from, name |-> "nick",
                           key |-> Head(inq[a]).msg.key]
                   /\ uiq' = [uiq EXCEPT ![a] = Append(uiq[a], e)]
      BY <1>4 DEF HandleHello
    <2>2. e \in Updates(a)
      <3>1. Head(inq[a]).from \in Others(a) /\ Head(inq[a]).msg \in Wires /\ Head(inq[a]).msg.kind = "hello"
        BY <1>1, <1>4, ReceivedTyped DEF HandleHello
      <3>2. Head(inq[a]).msg.key \in Keys
        BY <3>1 DEF Wires, Keys
      <3> QED
        BY <2>1, <3>1, <3>2 DEF Updates, Names
    <2>3. ReceivedIn(Append(uiq[a], e))
      BY <1>1, <2>1, <2>2, AppendReceived
    <2> QED
      BY <1>3, <2>1, <2>3
  <1>5. ASSUME NEW a \in Peers, HandleAck(a)
        PROVE  UpdatesAreReceived'
    <2>1. PICK e : /\ e = [kind |-> "status", id |-> WireId(a, Head(inq[a]).msg.n), status |-> "delivered"]
                   /\ uiq' = [uiq EXCEPT ![a] = Append(uiq[a], e)]
      BY <1>5 DEF HandleAck
    <2>2. e \in Updates(a)
      <3>1. Head(inq[a]).msg \in Wires /\ Head(inq[a]).msg.kind = "ack"
        BY <1>1, <1>5, ReceivedTyped DEF HandleAck
      <3>2. Head(inq[a]).msg.n \in Numbers
        BY <3>1 DEF Wires
      <3> QED
        BY <2>1, <3>2 DEF Updates, WireId, Statuses
    <2>3. ReceivedIn(Append(uiq[a], e))
      BY <1>1, <2>1, <2>2, AppendReceived
    <2> QED
      BY <1>3, <2>1, <2>3
  <1>6. ASSUME NEW a \in Peers, DeliverToUi(a)
        PROVE  UpdatesAreReceived'
    <2>1. PICK c, d :
             /\ uiq' = [uiq EXCEPT ![a] = uiq[a] \o <<c, d>>] /\ c \in Updates(a) /\ d \in Updates(a)
             /\ c.kind = "connected" /\ ReceivedFrom(d.peer, d.msg)
      <3>1. /\ task[a].pc = "deliver"
            /\ uiq' = [uiq EXCEPT ![a] = uiq[a] \o <<Connected(a, task[a].from), Delivered(a, task[a].from)>>]
        BY <1>6 DEF DeliverToUi, Delivery
      <3>2. /\ Connected(a, task[a].from) \in Updates(a) /\ Delivered(a, task[a].from) \in Updates(a)
            /\ Connected(a, task[a].from).kind = "connected"
        BY <1>1, <3>1, DeliveryTyped
      <3>3. /\ Delivered(a, task[a].from).msg.id.by = task[a].from
            /\ Delivered(a, task[a].from).peer = task[a].from
            /\ Delivered(a, task[a].from).msg.id.n = task[a].n
            /\ ~Delivered(a, task[a].from).msg.mine
        BY <1>1, <3>1, DeliveryTyped
      <3>4. Delivered(a, task[a].from).msg.text \in {task[a].n, Unreadable}
        <4>1. Delivered(a, task[a].from).msg.text = task[a].text
          BY DEF Delivered
        <4> QED
          BY <3>1, <4>1 DEF OrderInv, TextsInHand, TextInHand
      <3>5. ReceivedFrom(Delivered(a, task[a].from).peer, Delivered(a, task[a].from).msg)
        BY <3>3, <3>4 DEF ReceivedFrom
      <3> QED
        BY <3>1, <3>2, <3>5
    <2>2. PICK s : s = uiq[a] /\ s \in Seq(Updates(a)) /\ ReceivedIn(s)
      BY <1>1
    <2>3. s \o <<c, d>> = Append(Append(s, c), d) /\ Append(s, c) \in Seq(Updates(a))
      BY <2>1, <2>2, AppendTyped, AppendTwoTyped
    <2>4. ReceivedIn(Append(s, c))
      BY <2>1, <2>2, AppendReceived
    <2>5. ReceivedIn(Append(Append(s, c), d))
      BY <2>1, <2>3, <2>4, AppendReceived
    <2> QED
      BY <1>3, <2>1, <2>2, <2>3, <2>5
  <1>7. ASSUME NEW a \in Peers, UiApply(a)
        PROVE  UpdatesAreReceived'
    <2>1. uiq[a] # <<>> /\ uiq' = [uiq EXCEPT ![a] = Tail(uiq[a])]
      BY <1>7 DEF UiApply
    <2>2. \A i \in DOMAIN Tail(uiq[a]) : i + 1 \in DOMAIN uiq[a] /\ Tail(uiq[a])[i] = uiq[a][i + 1]
      BY <1>1, <2>1, TailTyped
    <2>3. ReceivedIn(Tail(uiq[a]))
      BY <1>1, <2>2 DEF ReceivedIn
    <2> QED
      BY <1>3, <2>1, <2>3
  <1>8. ASSUME NEW a \in Peers, Crash(a)
        PROVE  UpdatesAreReceived'
    <2>1. uiq' = [uiq EXCEPT ![a] = <<>>]
      BY <1>8 DEF Crash
    <2>2. ReceivedIn(<<>>)
      BY EmptyTyped DEF ReceivedIn
    <2> QED
      BY <1>3, <2>1, <2>2
  <1>9. \/ UNCHANGED uiq
        \/ \E a \in Peers : \/ HandleHello(a) \/ HandleAck(a) \/ DeliverToUi(a) \/ UiApply(a) \/ Crash(a)
    <2>1. CASE UNCHANGED vars
      BY <2>1 DEF vars, volatile
    <2>2. CASE Next
      BY <2>2, ZenonT(60) DEF Next, OpenChat, UserSend, InviteSubmit, Listen, InviteStep, InviteSend, InviteFail,
                  InviteList, InviteRegisterKey, LoopStep, HandleChat, SendAck, SendMessage,
                  HandleOutgoing, Restart, NodeOnline, volatile
    <2> QED
      BY <2>1, <2>2
  <1> QED
    BY <1>2, <1>4, <1>5, <1>6, <1>7, <1>8, <1>9

\* The loop decides on a text when it takes a message, and sticks to it.
LEMMA TextsStayInHand ==
    ASSUME OrderInv, [Next]_vars
    PROVE  TextsInHand'
  <1>1. DOMAIN task = Peers /\ (\A r \in Peers : TextInHand(task[r])) /\ Typed
    BY DEF OrderInv, Inv, Typed, TaskTyped, TextsInHand
  <1>2. CASE UNCHANGED task
    BY <1>1, <1>2 DEF TextsInHand
  <1>3. ASSUME NEW a \in Peers, NEW t, TextInHand(t), task' = [task EXCEPT ![a] = t]
        PROVE  TextsInHand'
    <2>1. task'[a] = t /\ \A r \in Peers : r # a => task'[r] = task[r]
      BY <1>1, <1>3, Entry
    <2> QED
      BY <1>1, <1>3, <2>1 DEF TextsInHand
  <1>4. ASSUME NEW a \in Peers, NEW t, t.pc = "send", task' = [task EXCEPT ![a] = t]
        PROVE  TextsInHand'
    <2>1. TextInHand(t)
      BY <1>4 DEF TextInHand
    <2> QED
      BY <1>3, <1>4, <2>1
  <1>5. ASSUME NEW a \in Peers, HandleChat(a)
        PROVE  TextsInHand'
    <2>1. PICK t, n : /\ t.pc = "ack" /\ t.n = n /\ t.text \in {n, Unreadable}
                      /\ task' = [task EXCEPT ![a] = t]
      <3>1. PICK n, q, text : /\ text \in {n, Unreadable}
                              /\ task' = [task EXCEPT ![a] = [pc |-> "ack", from |-> q, n |-> n, text |-> text]]
        BY <1>5 DEF HandleChat
      <3> QED
        BY <3>1
    <2>2. TextInHand(t)
      BY <2>1 DEF TextInHand
    <2> QED
      BY <1>3, <2>1, <2>2
  <1>6. ASSUME NEW a \in Peers, SendAck(a)
        PROVE  TextsInHand'
    <2>1. task[a].pc = "ack" /\ task' = [task EXCEPT ![a] = [task[a] EXCEPT !.pc = "deliver"]]
      BY <1>6 DEF SendAck
    <2>2. TextInHand([task[a] EXCEPT !.pc = "deliver"])
      <3>1. PICK n, q, text : task[a] = [pc |-> "ack", from |-> q, n |-> n, text |-> text]
        BY <1>1, <2>1, TaskHolds
      <3> QED
        BY <1>1, <3>1 DEF TextInHand
    <2> QED
      BY <1>3, <2>1, <2>2
  <1>7. ASSUME NEW a \in Peers, HandleHello(a)
        PROVE  TextsInHand'
    <2>1. PICK t : /\ t = [pc |-> "send", to |-> Head(inq[a]).from, msg |-> Hello(a)]
                   /\ task' = task \/ task' = [task EXCEPT ![a] = t]
      BY <1>7 DEF HandleHello
    <2>2. t.pc = "send"
      BY <2>1
    <2> QED
      BY <1>2, <1>4, <2>1, <2>2
  <1>8. ASSUME NEW a \in Peers, HandleOutgoing(a)
        PROVE  TextsInHand'
    <2>1. \/ task' = task
          \/ \E q, m : task' = [task EXCEPT ![a] = [pc |-> "send", to |-> q, msg |-> m]]
      BY <1>8 DEF HandleOutgoing
    <2>2. CASE task' = task
      BY <1>2, <2>2
    <2>3. ASSUME NEW q, NEW m, task' = [task EXCEPT ![a] = [pc |-> "send", to |-> q, msg |-> m]]
          PROVE  TextsInHand'
      <3>1. PICK t : t = [pc |-> "send", to |-> q, msg |-> m] /\ task' = [task EXCEPT ![a] = t]
        BY <2>3
      <3>2. t.pc = "send"
        BY <3>1
      <3> QED
        BY <1>4, <3>1, <3>2
    <2> QED
      BY <2>1, <2>2, <2>3
  <1>9. ASSUME NEW a \in Peers, DeliverToUi(a) \/ SendMessage(a) \/ Crash(a)
        PROVE  TextsInHand'
    <2>1. PICK t : t = Select /\ task' = [task EXCEPT ![a] = t]
      BY <1>9 DEF DeliverToUi, SendMessage, Crash
    <2>2. TextInHand(t)
      BY <2>1 DEF Select, TextInHand
    <2> QED
      BY <1>3, <2>1, <2>2
  <1>10. \/ UNCHANGED task
         \/ \E a \in Peers : \/ HandleChat(a) \/ SendAck(a) \/ HandleHello(a) \/ HandleOutgoing(a)
                             \/ DeliverToUi(a) \/ SendMessage(a) \/ Crash(a)
    <2>1. CASE UNCHANGED vars
      BY <2>1 DEF vars, volatile
    <2>2. CASE Next
      BY <2>2, ZenonT(60) DEF Next, OpenChat, UserSend, InviteSubmit, Listen, InviteStep, InviteSend, InviteFail,
                  InviteList, InviteRegisterKey, LoopStep, HandleAck, UiApply, Restart, NodeOnline, volatile
    <2> QED
      BY <2>1, <2>2
  <1> QED
    BY <1>2, <1>5, <1>6, <1>7, <1>8, <1>9, <1>10

\* A step that neither stores a message nor changes what is in memory.
LEMMA SameMemory ==
    ASSUME OrderInv, UNCHANGED <<dbMsgs, mem>>, used.sends <= used'.sends, used'.sends \in Nat,
           \A r \in Peers : node'[r] # "off" => node[r] # "off"
    PROVE  StoredIds' /\ (~ClockCollides => ClockIds' /\ MemoryMatchesDb')
  <1>1. StoredIds'
    BY DEF OrderInv, StoredIds
  <1>2. ASSUME ~ClockCollides PROVE ClockIds'
    <2>1. used.sends \in Nat /\ dbMsgs \in [Peers -> [Peers -> Seq(Messages)]]
      BY BoundsAssumption DEF OrderInv, Inv, Typed, UsedTyped, DbMsgsTyped
    <2>2. \A m \in Messages : m.id.n \in Nat
      BY NumbersNotZero DEF Messages, Numbers
    <2> SUFFICES ASSUME NEW p \in Peers, NEW q \in Peers, NEW i \in DOMAIN dbMsgs[p][q], dbMsgs[p][q][i].mine
                 PROVE  dbMsgs[p][q][i].id.n <= used'.sends
      BY DEF ClockIds
    <2>3. dbMsgs[p][q][i].id.n \in Nat
      BY <2>1, <2>2, SeqElement
    <2>4. dbMsgs[p][q][i].id.n <= used.sends
      BY <1>2 DEF OrderInv, ClockIds
    <2> QED
      BY <2>1, <2>3, <2>4
  <1>3. ASSUME ~ClockCollides PROVE MemoryMatchesDb'
    BY <1>3 DEF OrderInv, MemoryMatchesDb
  <1> QED
    BY <1>1, <1>2, <1>3

\* A message whose id is new is stored where it is remembered.
LEMMA AddMemory ==
    ASSUME OrderInv, NEW a \in Peers, NEW b \in Others(a), NEW msg \in Messages, AddMessage(a, b, msg),
           UNCHANGED node, used.sends <= used'.sends, used'.sends \in Nat,
           IF msg.mine THEN msg.id.by = NoKey ELSE msg.id.by = b,
           ~ClockCollides => /\ msg.mine => msg.id.n <= used'.sends
                             /\ ~Taken(a, msg)
    PROVE  StoredIds' /\ (~ClockCollides => ClockIds' /\ MemoryMatchesDb')
  <1>1. /\ Typed /\ b \in Peers /\ mem \in [Peers -> [Peers -> Seq(Messages)]]
        /\ dbMsgs \in [Peers -> [Peers -> Seq(Messages)]] /\ used.sends \in Nat
    BY BoundsAssumption DEF OrderInv, Inv, Typed, UsedTyped, MemTyped, DbMsgsTyped, Others
  <1>2. PICK s : s = dbMsgs[a][b] /\ s \in Seq(Messages)
    BY <1>1
  <1>3. /\ mem' = [mem EXCEPT ![a][b] = Append(mem[a][b], msg)]
        /\ dbMsgs' = IF Taken(a, msg) THEN dbMsgs ELSE [dbMsgs EXCEPT ![a][b] = Append(s, msg)]
    BY <1>2 DEF AddMessage, InsertMessage, Taken
  <1>4. /\ Append(s, msg) \in Seq(Messages) /\ DOMAIN Append(s, msg) = DOMAIN s \cup {Len(s) + 1}
        /\ Append(s, msg)[Len(s) + 1] = msg /\ \A i \in DOMAIN s : Append(s, msg)[i] = s[i]
    BY <1>2, AppendTyped
  <1>5. ASSUME dbMsgs' = [dbMsgs EXCEPT ![a][b] = Append(s, msg)]
        PROVE  /\ dbMsgs'[a][b] = Append(s, msg)
               /\ \A r, z \in Peers : ~(r = a /\ z = b) => dbMsgs'[r][z] = dbMsgs[r][z]
    <2>1. PICK t, f, g : t = Append(s, msg) /\ f = dbMsgs /\ g = dbMsgs'
      OBVIOUS
    <2>2. DOMAIN f = Peers /\ (\A r \in Peers : DOMAIN f[r] = Peers) /\ g = [f EXCEPT ![a][b] = t]
      BY <1>1, <1>5, <2>1
    <2>3. g[a][b] = t /\ \A r, z \in Peers : ~(r = a /\ z = b) => g[r][z] = f[r][z]
      BY <1>1, <2>2
    <2> QED
      BY <2>1, <2>3
  <1>6. ASSUME NEW p \in Peers, NEW q \in Peers, NEW i \in DOMAIN dbMsgs'[p][q]
        PROVE  \/ i \in DOMAIN dbMsgs[p][q] /\ dbMsgs'[p][q][i] = dbMsgs[p][q][i]
               \/ p = a /\ q = b /\ dbMsgs'[p][q][i] = msg
    <2>1. CASE dbMsgs' = dbMsgs
      BY <1>6, <2>1
    <2>2. CASE dbMsgs' = [dbMsgs EXCEPT ![a][b] = Append(s, msg)]
      <3>1. /\ dbMsgs'[a][b] = Append(s, msg)
            /\ \A r, z \in Peers : ~(r = a /\ z = b) => dbMsgs'[r][z] = dbMsgs[r][z]
        BY <1>5, <2>2
      <3>2. PICK t, m : t = Append(s, msg) /\ m = Len(s) + 1
        OBVIOUS
      <3>3. DOMAIN t = DOMAIN s \cup {m} /\ t[m] = msg /\ \A j \in DOMAIN s : t[j] = s[j]
        BY <1>4, <3>2
      <3>4. CASE p = a /\ q = b
        <4>1. dbMsgs'[p][q] = t /\ dbMsgs[p][q] = s
          BY <1>2, <3>1, <3>2, <3>4
        <4> QED
          BY <1>6, <3>3, <3>4, <4>1
      <3>5. CASE ~(p = a /\ q = b)
        BY <1>6, <3>1, <3>5
      <3> QED
        BY <3>4, <3>5
    <2> QED
      BY <1>3, <2>1, <2>2
  <1>7. StoredIds'
    BY <1>6 DEF OrderInv, StoredIds
  <1>8. ASSUME ~ClockCollides PROVE ClockIds'
    <2>1. \A m \in Messages : m.id.n \in Nat
      BY NumbersNotZero DEF Messages, Numbers
    <2> SUFFICES ASSUME NEW p \in Peers, NEW q \in Peers, NEW i \in DOMAIN dbMsgs'[p][q], dbMsgs'[p][q][i].mine
                 PROVE  dbMsgs'[p][q][i].id.n <= used'.sends
      BY DEF ClockIds
    <2>2. CASE i \in DOMAIN dbMsgs[p][q] /\ dbMsgs'[p][q][i] = dbMsgs[p][q][i]
      <3>1. dbMsgs[p][q][i].id.n \in Nat
        BY <1>1, <2>1, <2>2, SeqElement
      <3>2. dbMsgs[p][q][i].id.n <= used.sends
        BY <1>8, <2>2 DEF OrderInv, ClockIds
      <3>3. dbMsgs[p][q][i].id.n <= used'.sends
        <4>1. PICK n, k, l : n = dbMsgs[p][q][i].id.n /\ k = used.sends /\ l = used'.sends
          OBVIOUS
        <4>2. n \in Nat /\ k \in Nat /\ l \in Nat /\ n <= k /\ k <= l
          BY <1>1, <3>1, <3>2, <4>1
        <4> QED
          BY <4>1, <4>2
      <3> QED
        BY <2>2, <3>3
    <2>3. CASE dbMsgs'[p][q][i] = msg
      BY <1>8, <2>3
    <2> QED
      BY <1>6, <2>2, <2>3
  <1>9. ASSUME ~ClockCollides PROVE MemoryMatchesDb'
    <2>1. dbMsgs' = [dbMsgs EXCEPT ![a][b] = Append(s, msg)]
      BY <1>3, <1>9
    <2>2. \A r \in Peers : node'[r] # "off" => mem[r] = dbMsgs[r]
      BY <1>9 DEF OrderInv, MemoryMatchesDb
    <2>3. Append(mem[a][b], msg) \in Seq(Messages)
      BY <1>1, AppendTyped
    <2>4. /\ mem'[a] = [mem[a] EXCEPT ![b] = Append(mem[a][b], msg)]
          /\ \A r \in Peers : r # a => mem'[r] = mem[r]
      BY <1>1, <1>3, <2>3, Entry2
    <2>5. /\ dbMsgs'[a] = [dbMsgs[a] EXCEPT ![b] = Append(s, msg)]
          /\ \A r \in Peers : r # a => dbMsgs'[r] = dbMsgs[r]
      BY <1>1, <1>4, <2>1, Entry2
    <2>6. mem[a] = dbMsgs[a] => mem'[a] = dbMsgs'[a]
      BY <1>2, <2>4, <2>5
    <2> QED
      BY <2>2, <2>4, <2>5, <2>6 DEF MemoryMatchesDb
  <1> QED
    BY <1>7, <1>8, <1>9

\* An id from a clock that never repeats itself is no row's.
LEMMA ClockIdIsNew ==
    ASSUME OrderInv, ~ClockCollides, NEW a \in Peers, NEW msg,
           msg.id.by = NoKey, msg.id.n = used.sends + 1
    PROVE  ~Taken(a, msg)
  <1> SUFFICES ASSUME NEW r \in Peers, NEW i \in DOMAIN dbMsgs[a][r], dbMsgs[a][r][i].id = msg.id
               PROVE  FALSE
    BY DEF Taken
  <1>1. IF dbMsgs[a][r][i].mine THEN dbMsgs[a][r][i].id.by = NoKey ELSE dbMsgs[a][r][i].id.by = r
    BY DEF OrderInv, StoredIds
  <1>2. dbMsgs[a][r][i].mine
    BY <1>1, KeysAssumption
  <1>3. dbMsgs[a][r][i].id.n <= used.sends
    BY <1>2 DEF OrderInv, ClockIds
  <1>4. used.sends \in Nat
    BY QueuesTyped DEF OrderInv, Inv
  <1> QED
    BY <1>3, <1>4

\* A typed message has an id of its own, if the clock never repeats itself.
LEMMA UserSendMemory ==
    ASSUME OrderInv, NEW a \in Peers, UserSend(a)
    PROVE  StoredIds' /\ (~ClockCollides => ClockIds' /\ MemoryMatchesDb')
  <1>1. /\ UNCHANGED node /\ view[a] # NoView /\ used.sends < MaxSends
        /\ Typed /\ used \in [sends : 0 .. MaxSends, invites : Nat, crashes : Nat, faults : Nat]
        /\ MaxSends \in Nat
    BY BoundsAssumption DEF UserSend, OrderInv, Inv, Typed, UsedTyped
  <1>2. PICK x \in Numbers, b \in Others(a) : x = used.sends + 1 /\ b = view[a].chat
    <2>1. used.sends + 1 \in Numbers
      BY <1>1 DEF Numbers
    <2>2. view[a].chat \in Others(a)
      BY <1>1, OpenViewTyped DEF Typed, ViewTyped
    <2> QED
      BY <2>1, <2>2
  <1>3. PICK k \in (IF ClockCollides THEN 1 .. MaxSends ELSE {x}) :
           /\ AddMessage(a, b, [id |-> LocalId(k), text |-> x, mine |-> TRUE, status |-> "sent"])
           /\ used' = [used EXCEPT !.sends = x]
    BY <1>2 DEF UserSend
  <1>4. k \in Numbers /\ (~ClockCollides => k = x)
    BY <1>2, <1>3 DEF Numbers
  <1>5. PICK msg : /\ msg = [id |-> LocalId(k), text |-> x, mine |-> TRUE, status |-> "sent"]
                   /\ msg \in Messages /\ msg.mine /\ msg.id.by = NoKey /\ msg.id.n = k
    <2>1. [id |-> LocalId(k), text |-> x, mine |-> TRUE, status |-> "sent"] \in Messages
      BY <1>2, <1>4 DEF Messages, LocalId, Texts, Statuses, Numbers
    <2> QED
      BY <2>1 DEF LocalId
  <1>6. used'.sends = x /\ used.sends <= used'.sends /\ used'.sends \in Nat /\ used.sends < x
    BY <1>1, <1>2, <1>3 DEF Numbers
  <1>7. ~ClockCollides => ~Taken(a, msg)
    BY <1>1, <1>2, <1>4, <1>5, ClockIdIsNew
  <1>8. ~ClockCollides => /\ msg.mine => msg.id.n <= used'.sends
                          /\ ~Taken(a, msg)
    BY <1>2, <1>4, <1>5, <1>6, <1>7, NumbersNotZero
  <1>9. AddMessage(a, b, msg) /\ IF msg.mine THEN msg.id.by = NoKey ELSE msg.id.by = b
    BY <1>3, <1>5
  <1> QED
    BY <1>1, <1>5, <1>6, <1>8, <1>9, AddMemory

\* No row has the number of a message that is still on its way to the UI.
LEMMA ArrivalIsNew ==
    ASSUME OrderInv, NEW a \in Peers, NEW b \in Peers, NEW msg \in Messages, NEW x \in Numbers,
           x = msg.id.n, msg.id.by = b, At(a, b, 2, x)
    PROVE  ~Taken(a, msg)
  <1> SUFFICES ASSUME NEW r \in Peers, NEW i \in DOMAIN dbMsgs[a][r], dbMsgs[a][r][i].id = msg.id
               PROVE  FALSE
    BY DEF Taken
  <1>1. IF dbMsgs[a][r][i].mine THEN dbMsgs[a][r][i].id.by = NoKey ELSE dbMsgs[a][r][i].id.by = r
    BY DEF OrderInv, StoredIds
  <1>2. r = b /\ ~dbMsgs[a][r][i].mine /\ dbMsgs[a][r][i].id.n = x
    BY <1>1, KeysAssumption
  <1>3. dbMsgs[a][r][i] \in Messages
    <2>1. dbMsgs[a][r] \in Seq(Messages)
      BY QueuesTyped DEF OrderInv, Inv
    <2> QED
      BY <2>1, SeqElement
  <1>4. RowNumber[dbMsgs[a][r][i]] = x
    BY <1>2, <1>3 DEF RowNumber
  <1>5. At(a, b, 1, x)
    BY <1>2, <1>4 DEF At, In
  <1>6. x < x
    BY <1>5 DEF OrderInv, InOrder, PlacesInOrder
  <1> QED
    BY <1>6, NumbersNotZero

\* A message of a peer is stored once only: no row has its number yet.
LEMMA ApplyMessageMemory ==
    ASSUME OrderInv, NEW a \in Peers, UiApply(a), Head(uiq[a]).kind = "message"
    PROVE  StoredIds' /\ (~ClockCollides => ClockIds' /\ MemoryMatchesDb')
  <1>1. PICK msg, b, x :
           /\ msg = Head(uiq[a]).msg /\ b = Head(uiq[a]).peer /\ x = msg.id.n
           /\ b \in Others(a) /\ b \in Peers /\ x \in Numbers /\ msg \in Messages
           /\ At(a, b, 2, x) /\ ~msg.mine /\ msg.id.by = b
    BY TakeUpdate
  <1>2. AddMessage(a, b, msg) /\ UNCHANGED <<node, used>>
    BY <1>1 DEF UiApply
  <1>3. Typed /\ used.sends \in Nat
    BY QueuesTyped DEF OrderInv, Inv
  <1>4. used.sends <= used'.sends /\ used'.sends \in Nat
    BY <1>2, <1>3
  <1>5. ~Taken(a, msg)
    BY <1>1, ArrivalIsNew
  <1> QED
    BY <1>1, <1>2, <1>4, <1>5, AddMemory

\* A status changes alike in both.
LEMMA ApplyStatusMemory ==
    ASSUME OrderInv, NEW a \in Peers, UiApply(a), Head(uiq[a]).kind = "status"
    PROVE  StoredIds' /\ (~ClockCollides => ClockIds' /\ MemoryMatchesDb')
  <1>1. PICK id, st : st \in Statuses /\ UpdateMessageStatus(a, id, st) /\ UNCHANGED <<node, used>>
    <2>1. UpdateMessageStatus(a, Head(uiq[a]).id, Head(uiq[a]).status) /\ UNCHANGED <<node, used>>
      BY DEF UiApply
    <2>2. Head(uiq[a]).status \in Statuses
      BY TakeUpdate DEF Updates
    <2> QED
      BY <2>1, <2>2
  <1>2. Typed /\ dbMsgs \in [Peers -> [Peers -> Seq(Messages)]]
    BY DEF OrderInv, Inv, Typed, DbMsgsTyped
  <1>3. /\ \A r \in Peers : r # a => dbMsgs'[r] = dbMsgs[r] /\ mem'[r] = mem[r]
        /\ mem'[a] = [q \in Peers |-> WithStatus(mem[a][q], id, st)]
        /\ dbMsgs'[a] = [q \in Peers |-> WithStatus(dbMsgs[a][q], id, st)]
    <2>1. Typed /\ st \in Statuses /\ UpdateMessageStatus(a, id, st)
      BY <1>1, <1>2
    <2>2. /\ DbMsgsTyped' /\ MemTyped' /\ ViewTyped'
          /\ \A r \in Peers : r # a => /\ dbMsgs'[r] = dbMsgs[r] /\ mem'[r] = mem[r]
                                       /\ view'[r] = view[r]
          /\ mem'[a] = [q \in Peers |-> WithStatus(mem[a][q], id, st)]
          /\ dbMsgs'[a] = [q \in Peers |-> WithStatus(dbMsgs[a][q], id, st)]
      BY <2>1, StatusEffect
    <2> QED
      BY <2>2
  <1>4. ASSUME NEW p \in Peers, NEW q \in Peers, NEW i \in DOMAIN dbMsgs'[p][q]
        PROVE  /\ i \in DOMAIN dbMsgs[p][q] /\ dbMsgs'[p][q][i].id = dbMsgs[p][q][i].id
               /\ dbMsgs'[p][q][i].mine = dbMsgs[p][q][i].mine
    <2>1. CASE p = a
      <3>1. dbMsgs'[p][q] = WithStatus(dbMsgs[p][q], id, st) /\ dbMsgs[p][q] \in Seq(Messages)
        BY <1>2, <1>3, <2>1
      <3> QED
        BY <1>1, <1>4, <3>1, WithStatusTyped
    <2>2. CASE p # a
      BY <1>3, <1>4, <2>2
    <2> QED
      BY <2>1, <2>2
  <1>5. StoredIds'
    BY <1>4 DEF OrderInv, StoredIds
  <1>6. ASSUME ~ClockCollides PROVE ClockIds'
    BY <1>1, <1>4, <1>6 DEF OrderInv, ClockIds
  <1>7. ASSUME ~ClockCollides PROVE MemoryMatchesDb'
    <2>1. \A r \in Peers : node[r] # "off" => mem[r] = dbMsgs[r]
      BY <1>7 DEF OrderInv, MemoryMatchesDb
    <2>2. mem[a] = dbMsgs[a] => mem'[a] = dbMsgs'[a]
      BY <1>3
    <2> QED
      BY <1>1, <1>3, <2>1, <2>2 DEF MemoryMatchesDb
  <1> QED
    BY <1>5, <1>6, <1>7

\* What is not there after a crash is all there after the restart.
LEMMA RestartMemory ==
    ASSUME OrderInv, NEW a \in Peers, Crash(a) \/ Restart(a), used.sends <= used'.sends, used'.sends \in Nat
    PROVE  StoredIds' /\ (~ClockCollides => ClockIds' /\ MemoryMatchesDb')
  <1>1. /\ UNCHANGED dbMsgs /\ DOMAIN node = Peers /\ DOMAIN mem = Peers
        /\ dbMsgs \in [Peers -> [Peers -> Seq(Messages)]] /\ used.sends \in Nat
    BY BoundsAssumption DEF OrderInv, Inv, Typed, NodeTyped, MemTyped, DbMsgsTyped, UsedTyped, Crash, Restart
  <1>2. StoredIds'
    BY <1>1 DEF OrderInv, StoredIds
  <1>3. ASSUME ~ClockCollides PROVE ClockIds'
    <2> SUFFICES ASSUME NEW p \in Peers, NEW q \in Peers, NEW i \in DOMAIN dbMsgs[p][q], dbMsgs[p][q][i].mine
                 PROVE  dbMsgs[p][q][i].id.n <= used'.sends
      BY <1>1 DEF ClockIds
    <2>1. dbMsgs[p][q][i] \in Messages
      BY <1>1, SeqElement
    <2>2. dbMsgs[p][q][i].id.n \in Nat
      BY <2>1, NumbersNotZero DEF Messages, Numbers
    <2>3. dbMsgs[p][q][i].id.n <= used.sends
      BY <1>3 DEF OrderInv, ClockIds
    <2> QED
      BY <1>1, <2>2, <2>3
  <1>4. ASSUME ~ClockCollides PROVE MemoryMatchesDb'
    <2>1. \A r \in Peers : node[r] # "off" => mem[r] = dbMsgs[r]
      BY <1>4 DEF OrderInv, MemoryMatchesDb
    <2>2. CASE Crash(a)
      <3>1. node' = [node EXCEPT ![a] = "off"] /\ mem' = [mem EXCEPT ![a] = [q \in Peers |-> <<>>]]
        BY <2>2 DEF Crash
      <3>2. node'[a] = "off" /\ \A r \in Peers : r # a => node'[r] = node[r] /\ mem'[r] = mem[r]
        BY <1>1, <3>1, Entry
      <3> QED
        BY <1>1, <2>1, <3>2 DEF MemoryMatchesDb
    <2>3. CASE Restart(a)
      <3>1. PICK stored, rows :
               /\ stored = {q \in Peers : dbChats[a][q] # NoChat}
               /\ rows = [q \in Peers |-> IF q \in stored THEN dbMsgs[a][q] ELSE <<>>]
               /\ node' = [node EXCEPT ![a] = "starting"] /\ mem' = [mem EXCEPT ![a] = rows]
        BY <2>3 DEF Restart
      <3>2. /\ mem'[a] = rows
            /\ \A r \in Peers : r # a => node'[r] = node[r] /\ mem'[r] = mem[r]
        BY <1>1, <3>1, Entry
      <3>3. \A q \in Peers : q \notin stored => dbMsgs[a][q] = <<>>
        BY <3>1 DEF OrderInv, Inv, MessagesHaveChat
      <3>4. rows = dbMsgs[a]
        BY <1>1, <3>1, <3>3
      <3> QED
        BY <1>1, <2>1, <3>2, <3>4 DEF MemoryMatchesDb
    <2> QED
      BY <2>2, <2>3
  <1> QED
    BY <1>2, <1>3, <1>4

\* Every step leaves memory and the database alike.
LEMMA NextMemory ==
    ASSUME OrderInv, Next, used.sends <= used'.sends, used'.sends \in Nat
    PROVE  StoredIds' /\ (~ClockCollides => ClockIds' /\ MemoryMatchesDb')
  <1>1. PICK a \in Peers :
           \/ OpenChat(a) \/ UserSend(a)
           \/ \E q \in Peers : InviteSubmit(a, q) \/ Listen(a, q)
           \/ InviteStep(a) \/ LoopStep(a) \/ HandleOutgoing(a) \/ UiApply(a)
           \/ Crash(a) \/ Restart(a) \/ NodeOnline(a)
    BY DEF Next
  <1>2. CASE UserSend(a)
    BY <1>2, UserSendMemory
  <1>3. CASE UiApply(a)
    <2>1. Head(uiq[a]).kind \in {"connected", "message", "status"}
      BY <1>3 DEF UiApply
    <2>2. CASE Head(uiq[a]).kind = "connected"
      <3>1. UNCHANGED <<dbMsgs, mem, node>>
        BY <1>3, <2>2 DEF UiApply
      <3> QED
        BY <3>1, SameMemory
    <2> QED
      BY <1>3, <2>1, <2>2, ApplyMessageMemory, ApplyStatusMemory
  <1>4. CASE Crash(a) \/ Restart(a)
    BY <1>4, RestartMemory
  <1>5. CASE NodeOnline(a)
    <2>1. UNCHANGED <<dbMsgs, mem>> /\ node[a] = "starting" /\ node' = [node EXCEPT ![a] = "online"]
      BY <1>5 DEF NodeOnline, volatile
    <2>2. DOMAIN node = Peers
      BY DEF OrderInv, Inv, Typed, NodeTyped
    <2>3. \A r \in Peers : node'[r] # "off" => node[r] # "off"
      BY <2>1, <2>2
    <2> QED
      BY <2>1, <2>3, SameMemory
  <1>6. CASE \/ OpenChat(a) \/ \E q \in Peers : InviteSubmit(a, q) \/ Listen(a, q)
             \/ InviteStep(a) \/ LoopStep(a) \/ HandleOutgoing(a)
    <2>1. UNCHANGED <<dbMsgs, mem, node>>
      BY <1>6 DEF OpenChat, InviteSubmit, Listen, InviteStep, InviteSend, InviteFail, InviteList,
                  InviteRegisterKey, LoopStep, HandleHello, HandleChat, HandleAck, SendAck, DeliverToUi,
                  SendMessage, HandleOutgoing
    <2> QED
      BY <2>1, SameMemory, SMTT(60)
  <1> QED
    BY <1>1, <1>2, <1>3, <1>4, <1>5, <1>6

-----------------------------------------------------------------------------
(* The invariant with the numbers of messages holds *)

\* At first there are no messages.
LEMMA InitOrder == Init => OrderInv
  <1> SUFFICES ASSUME Init PROVE OrderInv
    OBVIOUS
  <1>1. Inv
    BY InitInv
  <1>2. \A p, q \in Peers :
           /\ dbMsgs[p][q] = <<>> /\ uiq[p] = <<>> /\ inq[p] = <<>> /\ net[q][p] = <<>> /\ outq[q] = <<>>
           /\ task[p].pc = "select" /\ mem[p] = dbMsgs[p]
    BY DEF Init, Select
  <1>3. ASSUME NEW p \in Peers, NEW q \in Peers
        PROVE  PlacesInOrder(p, q) /\ QueuesInOrder(p, q) /\ NumbersUsed(p, q)
    <2>1. QueuesInOrder(p, q)
      BY <1>2, RisingEmpty DEF QueuesInOrder
    <2>2. \A k \in 1 .. 7 : \A n \in Numbers : ~At(p, q, k, n)
      BY <1>2, RisingEmpty DEF At
    <2> QED
      BY <2>1, <2>2 DEF PlacesInOrder, NumbersUsed
  <1>4. UpdatesAreReceived
    BY <1>2, EmptyTyped DEF UpdatesAreReceived, ReceivedIn
  <1>5. StoredIds /\ ClockIds /\ TextsInHand
    BY <1>2, EmptyTyped DEF StoredIds, ClockIds, TextsInHand, TextInHand
  <1>6. MemoryMatchesDb
    BY <1>2 DEF MemoryMatchesDb
  <1> QED
    BY <1>1, <1>3, <1>4, <1>5, <1>6 DEF OrderInv, InOrder

\* Every step drops messages, moves one on, or adds one with a new number.
LEMMA NextCarries ==
    ASSUME OrderInv, Next
    PROVE  Carries
  <1>1. used.sends \in Nat /\ used.sends <= used.sends
    BY QueuesTyped DEF OrderInv, Inv, Next
  <1>2. PICK a \in Peers :
           \/ OpenChat(a) \/ UserSend(a)
           \/ \E q \in Peers : InviteSubmit(a, q) \/ Listen(a, q)
           \/ InviteStep(a) \/ LoopStep(a) \/ HandleOutgoing(a) \/ UiApply(a)
           \/ Crash(a) \/ Restart(a) \/ NodeOnline(a)
    BY DEF Next
  <1>3. CASE UserSend(a) \/ UiApply(a) \/ Crash(a) \/ HandleOutgoing(a)
    BY <1>3, UserSendCarries, UiApplyCarries, CrashCarries, OutgoingCarries
  <1>4. CASE \E q \in Peers : Listen(a, q)
    BY <1>4, ListenCarries
  <1>5. CASE LoopStep(a)
    BY <1>5, HelloCarries, HandleChatCarries, HandleAckCarries, AckCarries, DeliverCarries, SendMessageCarries
       DEF LoopStep
  <1>6. CASE InviteSend(a)
    BY <1>6, InviteCarries
  <1>7. CASE \E q \in Peers : InviteSubmit(a, q)
    <2>1. UNCHANGED <<dbMsgs, uiq, task, inq, net, outq>> /\ used' = [used EXCEPT !.invites = used.invites + 1]
      BY <1>7 DEF InviteSubmit
    <2>2. used'.sends = used.sends
      BY <2>1 DEF OrderInv, Inv, Typed, UsedTyped
    <2> QED
      BY <1>1, <2>1, <2>2, QuietCarries
  <1>8. CASE \/ OpenChat(a) \/ InviteFail(a) \/ InviteList(a) \/ InviteRegisterKey(a)
             \/ Restart(a) \/ NodeOnline(a)
    <2>1. UNCHANGED <<dbMsgs, uiq, task, inq, net, outq>> /\ (UNCHANGED used \/ Fault)
      BY <1>8 DEF OpenChat, InviteFail, InviteList, InviteRegisterKey, Restart, NodeOnline, volatile
    <2>2. used'.sends = used.sends
      BY <2>1, FaultEffect DEF OrderInv, Inv
    <2> QED
      BY <1>1, <2>1, <2>2, QuietCarries
  <1> QED
    BY <1>2, <1>3, <1>4, <1>5, <1>6, <1>7, <1>8 DEF InviteStep

\* So every step keeps the messages in order.
LEMMA NextOrder == OrderInv /\ [Next]_vars => OrderInv'
  <1> SUFFICES ASSUME OrderInv, [Next]_vars PROVE OrderInv'
    OBVIOUS
  <1>1. Inv' /\ Typed /\ Typed'
    BY NextInv DEF OrderInv, Inv
  <1>2. UpdatesAreReceived' /\ TextsInHand'
    BY UpdatesStayReceived, TextsStayInHand
  <1>3. used.sends \in Nat /\ used'.sends \in Nat
    BY <1>1, BoundsAssumption DEF Typed, UsedTyped
  <1>4. CASE UNCHANGED vars
    <2>1. UNCHANGED <<node, dbMsgs, mem, uiq, task, inq, net, outq, used>>
      BY <1>4 DEF vars, volatile
    <2>2. UNCHANGED InOrder
      BY <2>1 DEF InOrder, PlacesInOrder, QueuesInOrder, NumbersUsed, At
    <2>3. StoredIds' /\ (~ClockCollides => ClockIds' /\ MemoryMatchesDb')
      BY <1>3, <2>1, SameMemory
    <2> QED
      BY <1>1, <1>2, <2>2, <2>3 DEF OrderInv
  <1>5. CASE Next
    <2>1. Carries
      BY <1>5, NextCarries
    <2>2. used.sends <= used'.sends
      <3>1. PICK p \in Peers : TRUE
        BY <1>5 DEF Next
      <3> QED
        BY <2>1, <3>1 DEF Carries, Passes
    <2>3. ASSUME NEW p \in Peers, NEW q \in Peers
          PROVE  PlacesInOrder(p, q)' /\ QueuesInOrder(p, q)' /\ NumbersUsed(p, q)'
      <3>1. PlacesInOrder(p, q) /\ NumbersUsed(p, q) /\ Passes(p, q) /\ QueuesInOrder(p, q)'
        BY <2>1 DEF Carries, OrderInv, InOrder
      <3> QED
        BY <1>1, <3>1, PassesInOrder
    <2>4. InOrder'
      BY <2>3 DEF InOrder
    <2>5. StoredIds' /\ (~ClockCollides => ClockIds' /\ MemoryMatchesDb')
      BY <1>3, <1>5, <2>2, NextMemory
    <2> QED
      BY <1>1, <1>2, <2>4, <2>5 DEF OrderInv
  <1> QED
    BY <1>4, <1>5

\* The invariant with the numbers of messages holds in every state.
THEOREM OrderInvariance == Spec => []OrderInv
  BY InitOrder, NextOrder, PTL DEF Spec

\* Rows of received messages, in the order of seq.
ReceivedOnceInOrder ==
    \A p, q \in Peers : \A i, j \in DOMAIN dbMsgs[p][q] :
       ~dbMsgs[p][q][i].mine =>
          /\ dbMsgs[p][q][i].id.by = q
          /\ i < j /\ ~dbMsgs[p][q][j].mine => dbMsgs[p][q][i].id.n < dbMsgs[p][q][j].id.n

\* What a user is shown of a peer comes from that peer, in the order in which it was
\* typed there and nothing twice, across the loops, the network, crashes and faults.
THEOREM MessagesInOrder == Spec => []ReceivedOnceInOrder
  <1>1. OrderInv => ReceivedOnceInOrder
    <2> SUFFICES ASSUME OrderInv, NEW p \in Peers, NEW q \in Peers,
                        NEW i \in DOMAIN dbMsgs[p][q], NEW j \in DOMAIN dbMsgs[p][q], ~dbMsgs[p][q][i].mine
                 PROVE  /\ dbMsgs[p][q][i].id.by = q
                        /\ i < j /\ ~dbMsgs[p][q][j].mine => dbMsgs[p][q][i].id.n < dbMsgs[p][q][j].id.n
      BY DEF ReceivedOnceInOrder
    <2>1. dbMsgs[p][q][i].id.by = q
      BY DEF OrderInv, StoredIds
    <2>2. ASSUME i < j, ~dbMsgs[p][q][j].mine
          PROVE  dbMsgs[p][q][i].id.n < dbMsgs[p][q][j].id.n
      <3>1. dbMsgs[p][q] \in Seq(Messages) /\ Rising(dbMsgs[p][q], RowNumber)
        BY QueuesTyped DEF OrderInv, Inv, InOrder, QueuesInOrder
      <3>2. dbMsgs[p][q][i] \in Messages /\ dbMsgs[p][q][j] \in Messages
        BY <3>1, SeqElement
      <3>3. /\ RowNumber[dbMsgs[p][q][i]] = dbMsgs[p][q][i].id.n
            /\ RowNumber[dbMsgs[p][q][j]] = dbMsgs[p][q][j].id.n
        BY <2>2, <3>2 DEF RowNumber
      <3>4. dbMsgs[p][q][i].id.n # 0 /\ dbMsgs[p][q][j].id.n # 0
        BY <3>2, NumbersNotZero DEF Messages, Numbers
      <3> QED
        BY <2>2, <3>1, <3>3, <3>4 DEF Rising
    <2> QED
      BY <2>1, <2>2
  <1> QED
    BY <1>1, OrderInvariance, PTL

\* With a clock that never repeats itself, ALL_MESSAGES and SQLite hold the same
\* messages in the same order, while typing, receiving and after every restart.
THEOREM MemoryIsTheDatabase == ~ClockCollides /\ Spec => []MemoryMatchesDb
  <1>1. CASE ~ClockCollides
    <2>1. OrderInv => MemoryMatchesDb
      BY <1>1 DEF OrderInv
    <2> QED
      BY <2>1, OrderInvariance, PTL
  <1>2. CASE ClockCollides
    BY <1>2
  <1> QED
    BY <1>1, <1>2

-----------------------------------------------------------------------------
(* What users are shown of each other *)

\* The number of a message one has typed, and 0 for a message received.
TypedNumber == [m \in Messages |-> IF m.mine THEN (IF m.text \in Numbers THEN m.text ELSE 0) ELSE 0]

\* One's own rows have the numbers given out so far, in the order of typing.
AsTyped(s, sends) ==
    /\ Rising(s, TypedNumber)
    /\ \A n \in Numbers : In(s, TypedNumber, n) => n <= sends
    /\ \A i \in DOMAIN s : s[i].mine => s[i].text \in Numbers
TypedInOrder == \A p, q \in Peers : AsTyped(dbMsgs[p][q], used.sends)

\* What is on its way from q to p, or stored there, is in the history of q.
AllTyped ==
    \A p, q \in Peers : \A k \in 1 .. 7 : \A n \in Numbers :
       At(p, q, k, n) => In(dbMsgs[q][p], TypedNumber, n)

\* The inductive invariant behind what users are shown.
TalkInv == OrderInv /\ TypedInOrder /\ AllTyped

-----------------------------------------------------------------------------
(* Chosen rows of a table *)

\* How many places are chosen up to one of them.
LEMMA PlacesCounted ==
    ASSUME NEW n \in Nat, NEW T \in SUBSET (1 .. n)
    PROVE  /\ IsFiniteSet(T) /\ Cardinality(T) \in Nat
           /\ \A i \in Nat : IsFiniteSet(T \cap 1 .. i) /\ Cardinality(T \cap 1 .. i) \in Nat
           /\ T \cap 1 .. n = T
           /\ \A i \in Nat, j \in T : i < j => Cardinality(T \cap 1 .. i) < Cardinality(T \cap 1 .. j)
  <1>1. IsFiniteSet(T) /\ Cardinality(T) \in Nat
    <2>1. IsFiniteSet(1 .. n)
      BY FS_Interval
    <2>2. IsFiniteSet(T)
      BY <2>1, FS_Subset
    <2> QED
      BY <2>2, FS_CardinalityType
  <1>2. \A i \in Nat : IsFiniteSet(T \cap 1 .. i) /\ Cardinality(T \cap 1 .. i) \in Nat
    <2> SUFFICES ASSUME NEW i \in Nat
                 PROVE  IsFiniteSet(T \cap 1 .. i) /\ Cardinality(T \cap 1 .. i) \in Nat
      OBVIOUS
    <2>1. PICK R : R = T \cap 1 .. i /\ R \in SUBSET T
      OBVIOUS
    <2>2. IsFiniteSet(R)
      BY <1>1, <2>1, FS_Subset
    <2> QED
      BY <2>1, <2>2, FS_CardinalityType
  <1>3. ASSUME NEW i \in Nat, NEW j \in T, i < j
        PROVE  Cardinality(T \cap 1 .. i) < Cardinality(T \cap 1 .. j)
    <2>1. PICK R, U : R = T \cap 1 .. i /\ U = T \cap 1 .. j
      OBVIOUS
    <2>2. j \in Nat /\ j \in U /\ j \notin R /\ R \in SUBSET U
      BY <1>3, <2>1
    <2>3. IsFiniteSet(U) /\ Cardinality(R) \in Nat /\ Cardinality(U) \in Nat
      BY <1>2, <2>1, <2>2
    <2>4. Cardinality(R) <= Cardinality(U) /\ (Cardinality(U) = Cardinality(R) => U = R)
      BY <2>2, <2>3, FS_Subset
    <2>5. Cardinality(U) # Cardinality(R)
      BY <2>2, <2>4
    <2>6. PICK a, b \in Nat : a = Cardinality(R) /\ b = Cardinality(U)
      BY <2>3
    <2>7. a < b
      BY <2>4, <2>5, <2>6
    <2> QED
      BY <2>1, <2>6, <2>7
  <1> QED
    BY <1>1, <1>2, <1>3

\* One more place at the end.
LEMMA OnePlaceMore ==
    ASSUME NEW n \in Nat, NEW T \in SUBSET (1 .. n)
    PROVE  /\ Cardinality(T \cup {n + 1}) = Cardinality(T) + 1
           /\ (T \cup {n + 1}) \cap 1 .. n + 1 = T \cup {n + 1}
           /\ \A i \in 1 .. n : (T \cup {n + 1}) \cap 1 .. i = T \cap 1 .. i
  <1>1. n + 1 \notin T /\ IsFiniteSet(T)
    BY PlacesCounted
  <1>2. Cardinality(T \cup {n + 1}) = Cardinality(T) + 1
    BY <1>1, FS_AddElement
  <1>3. (T \cup {n + 1}) \cap 1 .. n + 1 = T \cup {n + 1}
    <2>1. \A j \in T : j \in 1 .. n + 1
      OBVIOUS
    <2>2. n + 1 \in 1 .. n + 1
      OBVIOUS
    <2>3. T \cup {n + 1} \subseteq 1 .. n + 1
      BY <2>1, <2>2
    <2> QED
      BY <2>3
  <1>4. \A i \in 1 .. n : (T \cup {n + 1}) \cap 1 .. i = T \cap 1 .. i
    <2> SUFFICES ASSUME NEW i \in 1 .. n, NEW j \in Nat
                 PROVE  j \in (T \cup {n + 1}) \cap 1 .. i <=> j \in T \cap 1 .. i
      OBVIOUS
    <2> QED
      OBVIOUS
  <1> QED
    BY <1>2, <1>3, <1>4

\* The place with number k is the one with k places up to it.
LEMMA PlaceIs ==
    ASSUME NEW n \in Nat, NEW T \in SUBSET (1 .. n), NEW i \in T, NEW k, Cardinality(T \cap 1 .. i) = k
    PROVE  Place(T, k) = i
  <1>1. PICK j : j = Place(T, k)
    OBVIOUS
  <1>2. j \in T /\ Cardinality(T \cap 1 .. j) = k
    BY <1>1 DEF Place
  <1>3. i \in Nat /\ j \in Nat
    BY <1>2
  <1>4. \A a \in Nat, b \in T : a < b => Cardinality(T \cap 1 .. a) < Cardinality(T \cap 1 .. b)
    BY PlacesCounted
  <1>5. \A a \in Nat : Cardinality(T \cap 1 .. a) \in Nat
    BY PlacesCounted
  <1>6. k \in Nat
    BY <1>3, <1>5
  <1>7. ~(i < j) /\ ~(j < i)
    <2>1. i < j => k < k
      BY <1>2, <1>3, <1>4
    <2>2. j < i => k < k
      BY <1>2, <1>3, <1>4
    <2> QED
      BY <1>6, <2>1, <2>2
  <1> QED
    BY <1>1, <1>3, <1>7

\* There is one for every number up to how many there are.
LEMMA PlaceFound ==
    ASSUME NEW n \in Nat, NEW T \in SUBSET (1 .. n), NEW k \in 1 .. Cardinality(T)
    PROVE  Place(T, k) \in T /\ Cardinality(T \cap 1 .. Place(T, k)) = k
  <1>1. /\ Cardinality(T) \in Nat /\ T \cap 1 .. n = T
        /\ \A i \in Nat : IsFiniteSet(T \cap 1 .. i) /\ Cardinality(T \cap 1 .. i) \in Nat
    BY PlacesCounted
  <1>2. k \in Nat /\ 1 <= k /\ k <= Cardinality(T)
    BY <1>1
  <1>3. PICK R : R = {i \in Nat : k <= Cardinality(T \cap 1 .. i)}
    OBVIOUS
  <1>4. R \in SUBSET Nat /\ n \in R
    BY <1>1, <1>2, <1>3
  <1>5. PICK i \in R : \A y \in R : i <= y
    BY <1>4, LeastElement
  <1>6. i \in Nat /\ k <= Cardinality(T \cap 1 .. i)
    BY <1>3, <1>5
  <1>7. i # 0
    <2>1. T \cap 1 .. 0 = {}
      OBVIOUS
    <2>2. Cardinality({}) = 0
      BY FS_EmptySet
    <2> QED
      BY <1>2, <1>6, <2>1, <2>2
  <1>8. PICK h \in Nat : i = h + 1
    <2>1. i - 1 \in Nat /\ i = (i - 1) + 1
      BY <1>6, <1>7
    <2> QED
      BY <2>1
  <1>9. Cardinality(T \cap 1 .. h) < k
    <2>1. h \notin R
      BY <1>4, <1>5, <1>8
    <2>2. ~(k <= Cardinality(T \cap 1 .. h))
      BY <1>3, <2>1
    <2> QED
      BY <1>1, <1>2, <2>2
  <1>10. i \in T /\ Cardinality(T \cap 1 .. i) = Cardinality(T \cap 1 .. h) + 1
    <2>1. PICK U : U = T \cap 1 .. h /\ IsFiniteSet(U) /\ Cardinality(U) \in Nat
      BY <1>1
    <2>2. i \notin U
      BY <1>8, <2>1
    <2>3. CASE i \in T
      <3>1. T \cap 1 .. i = U \cup {i}
        BY <1>8, <2>1, <2>3
      <3>2. Cardinality(U \cup {i}) = Cardinality(U) + 1
        BY <2>1, <2>2, FS_AddElement
      <3> QED
        BY <2>1, <2>3, <3>1, <3>2
    <2>4. CASE i \notin T
      <3>1. T \cap 1 .. i = U
        BY <1>8, <2>1, <2>4
      <3>2. k <= Cardinality(U) /\ Cardinality(U) < k
        BY <1>6, <1>9, <2>1, <3>1
      <3> QED
        BY <1>2, <2>1, <3>2
    <2> QED
      BY <2>3, <2>4
  <1>11. Cardinality(T \cap 1 .. i) = k
    <2>1. PICK c \in Nat : c = Cardinality(T \cap 1 .. h)
      BY <1>1
    <2>2. k <= c + 1 /\ c < k
      BY <1>6, <1>9, <1>10, <2>1
    <2> QED
      BY <1>2, <1>10, <2>1, <2>2
  <1>12. Place(T, k) = i
    BY <1>10, <1>11, PlaceIs
  <1> QED
    BY <1>10, <1>11, <1>12

\* Every place has a number.
LEMMA PlaceNumbered ==
    ASSUME NEW n \in Nat, NEW T \in SUBSET (1 .. n), NEW i \in T
    PROVE  LET k == Cardinality(T \cap 1 .. i) IN k \in 1 .. Cardinality(T) /\ Place(T, k) = i
  <1>1. i \in 1 .. n /\ i \in Nat
    OBVIOUS
  <1>2. PICK k \in Nat : k = Cardinality(T \cap 1 .. i)
    BY <1>1, PlacesCounted
  <1>3. /\ IsFiniteSet(T) /\ Cardinality(T) \in Nat
        /\ \A a \in Nat, b \in T : a < b => Cardinality(T \cap 1 .. a) < Cardinality(T \cap 1 .. b)
    BY PlacesCounted
  <1>4. 1 <= k
    <2>1. T \cap 1 .. 0 = {}
      OBVIOUS
    <2>2. Cardinality({}) = 0
      BY FS_EmptySet
    <2>3. 0 < i /\ 0 \in Nat
      BY <1>1
    <2>4. Cardinality(T \cap 1 .. 0) < Cardinality(T \cap 1 .. i)
      BY <1>3, <2>3
    <2> QED
      BY <1>2, <2>1, <2>2, <2>4
  <1>5. k <= Cardinality(T)
    <2>1. T \cap 1 .. i \in SUBSET T
      OBVIOUS
    <2> QED
      BY <1>2, <1>3, <2>1, FS_Subset
  <1>6. k \in 1 .. Cardinality(T)
    BY <1>3, <1>4, <1>5
  <1>7. Place(T, k) = i
    BY <1>2, PlaceIs
  <1> QED
    BY <1>2, <1>6, <1>7

\* Places by number are places in order.
LEMMA PlacesRise ==
    ASSUME NEW n \in Nat, NEW T \in SUBSET (1 .. n), NEW i \in T, NEW j \in T, i < j
    PROVE  \E k, l \in 1 .. Cardinality(T) : k < l /\ Place(T, k) = i /\ Place(T, l) = j
  <1>1. i \in Nat /\ j \in Nat
    OBVIOUS
  <1>2. PICK k, l : k = Cardinality(T \cap 1 .. i) /\ l = Cardinality(T \cap 1 .. j)
    OBVIOUS
  <1>3. k < l
    BY <1>1, <1>2, PlacesCounted
  <1>4. k \in 1 .. Cardinality(T) /\ Place(T, k) = i
    BY <1>2, PlaceNumbered
  <1>5. l \in 1 .. Cardinality(T) /\ Place(T, l) = j
    BY <1>2, PlaceNumbered
  <1> QED
    BY <1>3, <1>4, <1>5

\* What is read off the chosen places of a sequence.
ReadOff(s, T, f) == [k \in 1 .. Cardinality(T) |-> f[s[Place(T, k)]]]

\* The places read are the chosen ones.
LEMMA PlacesChosen ==
    ASSUME NEW n \in Nat, NEW T \in SUBSET (1 .. n)
    PROVE  \A k \in 1 .. Cardinality(T) : Place(T, k) \in T
  BY PlaceFound

\* One more place at the end of the sequence, chosen.
LEMMA ReadOffAppend ==
    ASSUME NEW n \in Nat, NEW T \in SUBSET (1 .. n), NEW f, NEW s
    PROVE  ReadOff(s, T \cup {n + 1}, f) = Append(ReadOff(s, T, f), f[s[n + 1]])
  <1>1. PICK c \in Nat : c = Cardinality(T)
    BY PlacesCounted
  <1>2. PICK U, m : U = T \cup {n + 1} /\ m = n + 1
    OBVIOUS
  <1>3. /\ m \in Nat /\ U \in SUBSET (1 .. m) /\ m \in U /\ Cardinality(U) = c + 1
        /\ U \cap 1 .. m = U /\ \A i \in 1 .. n : U \cap 1 .. i = T \cap 1 .. i
    <2>1. U \in SUBSET (1 .. m)
      BY <1>2
    <2>2. /\ Cardinality(T \cup {n + 1}) = Cardinality(T) + 1
          /\ (T \cup {n + 1}) \cap 1 .. n + 1 = T \cup {n + 1}
          /\ \A i \in 1 .. n : (T \cup {n + 1}) \cap 1 .. i = T \cap 1 .. i
      BY OnePlaceMore
    <2> QED
      BY <1>1, <1>2, <2>1, <2>2
  <1>4. ASSUME NEW k \in 1 .. c PROVE Place(U, k) = Place(T, k)
    <2>1. PICK i \in T : i = Place(T, k) /\ Cardinality(T \cap 1 .. i) = k
      BY <1>1, PlaceFound
    <2>2. i \in U /\ i \in 1 .. n
      BY <1>2
    <2>3. Cardinality(U \cap 1 .. i) = k
      BY <1>3, <2>1, <2>2
    <2> QED
      <3>1. m \in Nat /\ U \in SUBSET (1 .. m)
        BY <1>3
      <3>2. Place(U, k) = i
        BY <2>2, <2>3, <3>1, PlaceIs
      <3> QED
        BY <2>1, <3>2
  <1>5. Place(U, c + 1) = m
    BY <1>3, PlaceIs
  <1>6. PICK r, t, v : r = ReadOff(s, T, f) /\ t = ReadOff(s, U, f) /\ v = f[s[m]]
    OBVIOUS
  <1>7. r = [k \in 1 .. c |-> f[s[Place(T, k)]]]
    BY <1>1, <1>6 DEF ReadOff
  <1>8. t = [k \in 1 .. c + 1 |-> f[s[Place(U, k)]]]
    BY <1>3, <1>6 DEF ReadOff
  <1>9. t[c + 1] = v /\ \A k \in 1 .. c : t[k] = r[k]
    <2>1. c + 1 \in 1 .. c + 1 /\ \A k \in 1 .. c : k \in 1 .. c + 1
      OBVIOUS
    <2> QED
      BY <1>4, <1>5, <1>6, <1>7, <1>8, <2>1
  <1>10. PICK V : V = {r[k] : k \in 1 .. c} \cup {v}
    OBVIOUS
  <1>11. r \in [1 .. c -> V] /\ t \in [1 .. c + 1 -> V] /\ v \in V
    <2>1. \A k \in 1 .. c + 1 : k \in 1 .. c \/ k = c + 1
      OBVIOUS
    <2>2. \A k \in 1 .. c + 1 : t[k] \in V
      BY <1>9, <1>10, <2>1
    <2> QED
      BY <1>7, <1>8, <1>10, <2>2
  <1>12. t = Append(r, v)
    <2>1. r \in Seq(V) /\ t \in Seq(V) /\ Len(r) = c /\ Len(t) = c + 1
      BY <1>11
    <2> QED
      BY <1>9, <1>11, <2>1
  <1> QED
    BY <1>2, <1>6, <1>12

-----------------------------------------------------------------------------
(* What a table of messages says was typed and shown *)

TextOf == [m \in Messages |-> m.text]
ShownAs == [m \in Messages |-> [of |-> m.id.n, text |-> m.text]]

\* Rows are one's own or received.
LEMMA RowsTyped ==
    ASSUME NEW s \in Seq(Messages)
    PROVE  /\ Len(s) \in Nat /\ DOMAIN s = 1 .. Len(s)
           /\ Mine(s) \in SUBSET (1 .. Len(s)) /\ Received(s) \in SUBSET (1 .. Len(s))
           /\ TypedOf(s) = ReadOff(s, Mine(s), TextOf)
           /\ ShownOf(s) = ReadOff(s, Received(s), ShownAs)
  <1>1. /\ Len(s) \in Nat /\ DOMAIN s = 1 .. Len(s)
        /\ Mine(s) \in SUBSET (1 .. Len(s)) /\ Received(s) \in SUBSET (1 .. Len(s))
    BY DEF Mine, Received
  <1>2. \A i \in DOMAIN s : s[i] \in Messages
    BY SeqElement
  <1>3. TypedOf(s) = ReadOff(s, Mine(s), TextOf)
    <2>1. \A k \in 1 .. Cardinality(Mine(s)) : Place(Mine(s), k) \in Mine(s)
      BY <1>1, PlaceFound
    <2>2. \A k \in 1 .. Cardinality(Mine(s)) : s[Place(Mine(s), k)] \in Messages
      BY <1>1, <1>2, <2>1
    <2>3. \A k \in 1 .. Cardinality(Mine(s)) :
             TextOf[s[Place(Mine(s), k)]] = s[Place(Mine(s), k)].text
      BY <2>2 DEF TextOf
    <2> QED
      BY <2>3, Zenon DEF TypedOf, ReadOff
  <1>4. ShownOf(s) = ReadOff(s, Received(s), ShownAs)
    <2>1. \A k \in 1 .. Cardinality(Received(s)) : Place(Received(s), k) \in Received(s)
      BY <1>1, PlaceFound
    <2>2. \A k \in 1 .. Cardinality(Received(s)) : s[Place(Received(s), k)] \in Messages
      BY <1>1, <1>2, <2>1
    <2>3. \A k \in 1 .. Cardinality(Received(s)) :
             ShownAs[s[Place(Received(s), k)]] = [of |-> s[Place(Received(s), k)].id.n,
                                                  text |-> s[Place(Received(s), k)].text]
      BY <2>2 DEF ShownAs
    <2> QED
      BY <2>3, Zenon DEF ShownOf, ReadOff
  <1> QED
    BY <1>1, <1>3, <1>4

\* Of an empty table.
LEMMA NothingTyped == TypedOf(<<>>) = <<>> /\ ShownOf(<<>>) = <<>>
  <1>1. Mine(<<>>) = {} /\ Received(<<>>) = {}
    BY DEF Mine, Received
  <1>2. Cardinality({}) = 0
    BY FS_EmptySet
  <1>3. \A f : f = [k \in 1 .. 0 |-> f[k]] => f = <<>>
    <2> SUFFICES ASSUME NEW f, f = [k \in 1 .. 0 |-> f[k]] PROVE f = <<>>
      OBVIOUS
    <2>1. f \in [1 .. 0 -> {}]
      OBVIOUS
    <2>2. f \in Seq({}) /\ Len(f) = 0
      BY <2>1
    <2> QED
      BY <2>2
  <1>4. TypedOf(<<>>) = [k \in 1 .. 0 |-> TypedOf(<<>>)[k]]
    BY <1>1, <1>2 DEF TypedOf
  <1>5. ShownOf(<<>>) = [k \in 1 .. 0 |-> ShownOf(<<>>)[k]]
    BY <1>1, <1>2 DEF ShownOf
  <1> QED
    BY <1>3, <1>4, <1>5

\* A row more.
LEMMA TypedAppend ==
    ASSUME NEW s \in Seq(Messages), NEW e \in Messages
    PROVE  /\ e.mine => /\ TypedOf(Append(s, e)) = Append(TypedOf(s), e.text)
                        /\ ShownOf(Append(s, e)) = ShownOf(s)
           /\ ~e.mine => /\ TypedOf(Append(s, e)) = TypedOf(s)
                         /\ ShownOf(Append(s, e)) = Append(ShownOf(s), [of |-> e.id.n, text |-> e.text])
  <1>1. PICK t, n : t = Append(s, e) /\ n = Len(s)
    OBVIOUS
  <1>2. /\ n \in Nat /\ t \in Seq(Messages) /\ DOMAIN t = DOMAIN s \cup {n + 1} /\ t[n + 1] = e
        /\ \A i \in DOMAIN s : i < n + 1 /\ t[i] = s[i]
    BY <1>1, AppendTyped
  <1>3. /\ Mine(s) \in SUBSET (1 .. n) /\ Received(s) \in SUBSET (1 .. n)
        /\ TypedOf(s) = ReadOff(s, Mine(s), TextOf)
        /\ ShownOf(s) = ReadOff(s, Received(s), ShownAs)
        /\ TypedOf(t) = ReadOff(t, Mine(t), TextOf)
        /\ ShownOf(t) = ReadOff(t, Received(t), ShownAs)
    BY <1>1, <1>2, RowsTyped
  <1>4. /\ e.mine => Mine(t) = Mine(s) \cup {n + 1} /\ Received(t) = Received(s)
        /\ ~e.mine => Received(t) = Received(s) \cup {n + 1} /\ Mine(t) = Mine(s)
    BY <1>2 DEF Mine, Received
  <1>5. /\ ReadOff(t, Mine(s), TextOf) = ReadOff(s, Mine(s), TextOf)
        /\ ReadOff(t, Received(s), ShownAs) = ReadOff(s, Received(s), ShownAs)
    <2>1. \A i \in Mine(s) : TextOf[t[i]] = TextOf[s[i]]
      BY <1>2 DEF Mine
    <2>2. \A i \in Received(s) : ShownAs[t[i]] = ShownAs[s[i]]
      BY <1>2 DEF Received
    <2>3. PICK T, U : T = Mine(s) /\ U = Received(s)
      OBVIOUS
    <2>4. n \in Nat /\ T \in SUBSET (1 .. n) /\ U \in SUBSET (1 .. n)
      BY <1>2, <1>3, <2>3
    <2>5. ReadOff(t, T, TextOf) = ReadOff(s, T, TextOf)
      <3>1. \A i \in T : TextOf[t[i]] = TextOf[s[i]]
        BY <2>1, <2>3
      <3>2. \A k \in 1 .. Cardinality(T) : Place(T, k) \in T
        BY <2>4, PlacesChosen
      <3>3. \A k \in 1 .. Cardinality(T) : TextOf[t[Place(T, k)]] = TextOf[s[Place(T, k)]]
        BY <3>1, <3>2
      <3> QED
        BY <3>3, Zenon DEF ReadOff
    <2>6. ReadOff(t, U, ShownAs) = ReadOff(s, U, ShownAs)
      <3>1. \A i \in U : ShownAs[t[i]] = ShownAs[s[i]]
        BY <2>2, <2>3
      <3>2. \A k \in 1 .. Cardinality(U) : Place(U, k) \in U
        BY <2>4, PlacesChosen
      <3>3. \A k \in 1 .. Cardinality(U) : ShownAs[t[Place(U, k)]] = ShownAs[s[Place(U, k)]]
        BY <3>1, <3>2
      <3> QED
        BY <3>3, Zenon DEF ReadOff
    <2> QED
      BY <2>3, <2>5, <2>6
  <1>6. /\ ReadOff(t, Mine(s) \cup {n + 1}, TextOf) = Append(ReadOff(t, Mine(s), TextOf), e.text)
        /\ ReadOff(t, Received(s) \cup {n + 1}, ShownAs)
              = Append(ReadOff(t, Received(s), ShownAs), [of |-> e.id.n, text |-> e.text])
    <2>1. TextOf[t[n + 1]] = e.text /\ ShownAs[t[n + 1]] = [of |-> e.id.n, text |-> e.text]
      BY <1>2 DEF TextOf, ShownAs
    <2>2. PICK T, U : T = Mine(s) /\ U = Received(s)
      OBVIOUS
    <2>3. n \in Nat /\ T \in SUBSET (1 .. n) /\ U \in SUBSET (1 .. n)
      BY <1>2, <1>3, <2>2
    <2>4. ReadOff(t, T \cup {n + 1}, TextOf) = Append(ReadOff(t, T, TextOf), TextOf[t[n + 1]])
      BY <2>3, ReadOffAppend
    <2>5. ReadOff(t, U \cup {n + 1}, ShownAs) = Append(ReadOff(t, U, ShownAs), ShownAs[t[n + 1]])
      BY <2>3, ReadOffAppend
    <2> QED
      BY <2>1, <2>2, <2>4, <2>5
  <1>7. CASE e.mine
    BY <1>1, <1>3, <1>4, <1>5, <1>6, <1>7
  <1>8. CASE ~e.mine
    BY <1>1, <1>3, <1>4, <1>5, <1>6, <1>8
  <1> QED
    BY <1>7, <1>8

\* A new status is neither typed nor shown as another message.
LEMMA TypedStatus ==
    ASSUME NEW s \in Seq(Messages), NEW id, NEW st \in Statuses
    PROVE  /\ TypedOf(WithStatus(s, id, st)) = TypedOf(s)
           /\ ShownOf(WithStatus(s, id, st)) = ShownOf(s)
  <1>1. PICK t, n : t = WithStatus(s, id, st) /\ n = Len(s)
    OBVIOUS
  <1>2. /\ t \in Seq(Messages) /\ DOMAIN t = DOMAIN s
        /\ \A i \in DOMAIN s : t[i].id = s[i].id /\ t[i].mine = s[i].mine /\ t[i].text = s[i].text
    BY <1>1, WithStatusTyped
  <1>3. \A i \in DOMAIN s : s[i] \in Messages /\ t[i] \in Messages
    BY <1>2, SeqElement
  <1>4. /\ n \in Nat /\ Mine(s) \in SUBSET (1 .. n) /\ Received(s) \in SUBSET (1 .. n)
        /\ TypedOf(s) = ReadOff(s, Mine(s), TextOf)
        /\ ShownOf(s) = ReadOff(s, Received(s), ShownAs)
        /\ TypedOf(t) = ReadOff(t, Mine(t), TextOf)
        /\ ShownOf(t) = ReadOff(t, Received(t), ShownAs)
    BY <1>1, <1>2, RowsTyped
  <1>5. Mine(t) = Mine(s) /\ Received(t) = Received(s)
    BY <1>2 DEF Mine, Received
  <1>6. \A i \in Mine(s) : TextOf[t[i]] = TextOf[s[i]]
    BY <1>2, <1>3 DEF Mine, TextOf
  <1>7. \A i \in Received(s) : ShownAs[t[i]] = ShownAs[s[i]]
    BY <1>2, <1>3 DEF Received, ShownAs
  <1>8. /\ ReadOff(t, Mine(s), TextOf) = ReadOff(s, Mine(s), TextOf)
        /\ ReadOff(t, Received(s), ShownAs) = ReadOff(s, Received(s), ShownAs)
    <2>1. PICK T, U : T = Mine(s) /\ U = Received(s)
      OBVIOUS
    <2>2. n \in Nat /\ T \in SUBSET (1 .. n) /\ U \in SUBSET (1 .. n)
      BY <1>4, <2>1
    <2>3. ReadOff(t, T, TextOf) = ReadOff(s, T, TextOf)
      <3>1. \A i \in T : TextOf[t[i]] = TextOf[s[i]]
        BY <1>6, <2>1
      <3>2. \A k \in 1 .. Cardinality(T) : Place(T, k) \in T
        BY <2>2, PlacesChosen
      <3>3. \A k \in 1 .. Cardinality(T) : TextOf[t[Place(T, k)]] = TextOf[s[Place(T, k)]]
        BY <3>1, <3>2
      <3> QED
        BY <3>3, Zenon DEF ReadOff
    <2>4. ReadOff(t, U, ShownAs) = ReadOff(s, U, ShownAs)
      <3>1. \A i \in U : ShownAs[t[i]] = ShownAs[s[i]]
        BY <1>7, <2>1
      <3>2. \A k \in 1 .. Cardinality(U) : Place(U, k) \in U
        BY <2>2, PlacesChosen
      <3>3. \A k \in 1 .. Cardinality(U) : ShownAs[t[Place(U, k)]] = ShownAs[s[Place(U, k)]]
        BY <3>1, <3>2
      <3> QED
        BY <3>3, Zenon DEF ReadOff
    <2> QED
      BY <2>1, <2>3, <2>4
  <1> QED
    BY <1>1, <1>4, <1>5, <1>8

\* What is typed, by its rows: in the same order.
LEMMA TypedHolds ==
    ASSUME NEW s \in Seq(Messages), NEW n \in Numbers, In(s, TypedNumber, n), Rising(s, TypedNumber)
    PROVE  /\ DOMAIN TypedOf(s) \subseteq Nat
           /\ \E l \in DOMAIN TypedOf(s) :
                 /\ TypedOf(s)[l] = n
                 /\ \A m \in Numbers : In(s, TypedNumber, m) /\ m < n =>
                       \E k \in 1 .. l - 1 : TypedOf(s)[k] = m
  <1>1. PICK len, T : /\ len \in Nat /\ len = Len(s) /\ T = Mine(s) /\ T \in SUBSET (1 .. len)
                       /\ DOMAIN s = 1 .. len
                       /\ TypedOf(s) = ReadOff(s, T, TextOf)
    BY RowsTyped
  <1>2. PICK c, r : c \in Nat /\ c = Cardinality(T) /\ r = TypedOf(s)
    BY <1>1, PlacesCounted
  <1>3. DOMAIN r = 1 .. c /\ \A k \in 1 .. c : r[k] = TextOf[s[Place(T, k)]]
    BY <1>1, <1>2 DEF ReadOff
  <1>4. ASSUME NEW i \in DOMAIN s, NEW m \in Numbers, TypedNumber[s[i]] = m
        PROVE  i \in T /\ TextOf[s[i]] = m
    <2>1. s[i] \in Messages
      BY SeqElement
    <2>2. s[i].mine /\ s[i].text = m
      BY <1>4, <2>1, NumbersNotZero DEF TypedNumber
    <2> QED
      BY <1>1, <2>1, <2>2 DEF Mine, TextOf
  <1>5. PICK j \in DOMAIN s : TypedNumber[s[j]] = n
    BY DEF In
  <1>6. j \in T /\ TextOf[s[j]] = n
    BY <1>4, <1>5
  <1>7. PICK l : l = Cardinality(T \cap 1 .. j)
    OBVIOUS
  <1>8. l \in 1 .. c /\ r[l] = n
    <2>1. l \in 1 .. Cardinality(T) /\ Place(T, l) = j
      BY <1>1, <1>6, <1>7, PlaceNumbered
    <2> QED
      BY <1>2, <1>3, <1>6, <2>1
  <1>9. ASSUME NEW m \in Numbers, In(s, TypedNumber, m), m < n
        PROVE  \E k \in 1 .. l - 1 : r[k] = m
    <2>1. PICK i \in DOMAIN s : TypedNumber[s[i]] = m
      BY <1>9 DEF In
    <2>2. i \in T /\ TextOf[s[i]] = m
      BY <1>4, <2>1
    <2>3. m # 0 /\ n # 0 /\ m \in Nat /\ n \in Nat
      BY NumbersNotZero
    <2>4. ~(j < i) /\ i # j
      <3>1. j < i => n < m
        BY <1>5, <2>1, <2>3 DEF Rising
      <3> QED
        BY <1>5, <1>9, <2>1, <2>3, <3>1
    <2>5. i < j /\ i \in Nat
      BY <1>1, <2>4
    <2>6. PICK k : k = Cardinality(T \cap 1 .. i)
      OBVIOUS
    <2>7. k \in 1 .. Cardinality(T) /\ Place(T, k) = i
      BY <1>1, <2>2, <2>6, PlaceNumbered
    <2>8. k < l
      BY <1>1, <1>6, <1>7, <2>5, <2>6, PlacesCounted
    <2>9. k \in 1 .. l - 1
      BY <1>2, <1>8, <2>7, <2>8
    <2> QED
      BY <1>2, <1>3, <2>2, <2>7, <2>9
  <1> QED
    BY <1>2, <1>3, <1>8, <1>9

\* What is shown, by its rows.
LEMMA ShownHolds ==
    ASSUME NEW s \in Seq(Messages), NEW k \in 1 .. Len(ShownOf(s))
    PROVE  \E m \in Numbers : ShownOf(s)[k].of = m /\ In(s, RowNumber, m)
  <1>1. PICK len, T : /\ len \in Nat /\ len = Len(s) /\ T = Received(s) /\ T \in SUBSET (1 .. len)
                       /\ DOMAIN s = 1 .. len
                       /\ ShownOf(s) = ReadOff(s, T, ShownAs)
    BY RowsTyped
  <1>2. PICK c, r : c \in Nat /\ c = Cardinality(T) /\ r = ShownOf(s)
    BY <1>1, PlacesCounted
  <1>3. r = [l \in 1 .. c |-> ShownAs[s[Place(T, l)]]]
    BY <1>1, <1>2 DEF ReadOff
  <1>4. k \in 1 .. c
    <2>1. PICK V : V = {ShownAs[s[Place(T, l)]] : l \in 1 .. c}
      OBVIOUS
    <2>2. r \in [1 .. c -> V]
      BY <1>3, <2>1
    <2>3. Len(r) = c
      BY <1>2, <2>2
    <2> QED
      BY <1>2, <2>3
  <1>5. PICK i \in T : i = Place(T, k)
    BY <1>1, <1>2, <1>4, PlaceFound
  <1>6. s[i] \in Messages /\ ~s[i].mine /\ i \in DOMAIN s
    BY <1>1, <1>5, SeqElement DEF Received
  <1>7. r[k].of = s[i].id.n /\ s[i].id.n \in Numbers
    BY <1>3, <1>4, <1>5, <1>6 DEF ShownAs, Messages, Numbers
  <1>8. RowNumber[s[i]] = s[i].id.n
    BY <1>6 DEF RowNumber
  <1> QED
    BY <1>2, <1>6, <1>7, <1>8 DEF In

-----------------------------------------------------------------------------
(* What a step does to the tables of messages *)

\* A row is added to the chat of a with b, of a message just typed or of one from the
\* UI queue; or the statuses of the chats of a change.
RowAdded(a, b, e) == dbMsgs' = [dbMsgs EXCEPT ![a][b] = Append(dbMsgs[a][b], e)]
Types(e) == e.mine /\ e.text \in Numbers /\ e.text = used.sends + 1 /\ used'.sends = e.text
Shows(a, b, e) ==
    /\ ~e.mine /\ e.id.n \in Numbers /\ e.text \in {e.id.n, Unreadable}
    /\ At(a, b, 2, e.id.n)
RowsMarked(a, id, st) ==
    /\ dbMsgs'[a] = [z \in Peers |-> WithStatus(dbMsgs[a][z], id, st)]
    /\ \A r \in Peers : r # a => dbMsgs'[r] = dbMsgs[r]

\* Typing stores the message and queues it, at most.
LEMMA UserSendRow ==
    ASSUME OrderInv, ~ClockCollides, NEW a \in Peers, UserSend(a)
    PROVE  \E b \in Others(a), e \in Messages :
              /\ RowAdded(a, b, e) /\ Types(e) /\ UNCHANGED <<uiq, task, inq, net>>
              /\ outq' = outq \/ outq' = [outq EXCEPT ![a] = Append(outq[a], [to |-> b, text |-> e.text])]
  <1>1. /\ UNCHANGED <<uiq, task, inq, net>> /\ view[a] # NoView /\ used.sends < MaxSends
        /\ Typed /\ used \in [sends : 0 .. MaxSends, invites : Nat, crashes : Nat, faults : Nat]
        /\ MaxSends \in Nat
    BY BoundsAssumption DEF UserSend, OrderInv, Inv, Typed, UsedTyped
  <1>2. PICK x \in Numbers, b \in Others(a) : x = used.sends + 1 /\ b = view[a].chat
    <2>1. used.sends + 1 \in Numbers
      BY <1>1 DEF Numbers
    <2>2. view[a].chat \in Others(a)
      BY <1>1, OpenViewTyped DEF Typed, ViewTyped
    <2> QED
      BY <2>1, <2>2
  <1>3. /\ AddMessage(a, b, [id |-> LocalId(x), text |-> x, mine |-> TRUE, status |-> "sent"])
        /\ outq' = outq \/ outq' = [outq EXCEPT ![a] = Append(outq[a], [to |-> b, text |-> x])]
        /\ used' = [used EXCEPT !.sends = x]
    BY <1>2 DEF UserSend
  <1>4. PICK e : /\ e = [id |-> LocalId(x), text |-> x, mine |-> TRUE, status |-> "sent"]
                 /\ e \in Messages /\ e.mine /\ e.id.by = NoKey /\ e.id.n = x /\ e.text = x
    <2>1. [id |-> LocalId(x), text |-> x, mine |-> TRUE, status |-> "sent"] \in Messages
      BY <1>2 DEF Messages, LocalId, Texts, Statuses, Numbers
    <2> QED
      BY <2>1 DEF LocalId
  <1>5. used'.sends = x
    BY <1>1, <1>3
  <1>6. ~Taken(a, e)
    BY <1>2, <1>4, ClockIdIsNew
  <1>7. RowAdded(a, b, e)
    <2>1. AddMessage(a, b, e)
      BY <1>3, <1>4
    <2> QED
      BY <1>6, <2>1 DEF AddMessage, InsertMessage, Taken, RowAdded
  <1>8. Types(e)
    BY <1>2, <1>4, <1>5 DEF Types
  <1> QED
    BY <1>1, <1>3, <1>4, <1>7, <1>8

\* The UI coroutine stores a message that was on its way, or a status.
LEMMA UiApplyRow ==
    ASSUME OrderInv, NEW a \in Peers, UiApply(a)
    PROVE  /\ used' = used
           /\ \/ dbMsgs' = dbMsgs
              \/ \E b \in Others(a), e \in Messages : RowAdded(a, b, e) /\ Shows(a, b, e)
              \/ \E id, st : st \in Statuses /\ RowsMarked(a, id, st)
  <1>1. used' = used /\ Head(uiq[a]).kind \in {"connected", "message", "status"}
    BY DEF UiApply
  <1>2. CASE Head(uiq[a]).kind = "connected"
    BY <1>1, <1>2 DEF UiApply
  <1>3. CASE Head(uiq[a]).kind = "message"
    <2>1. PICK e, b, x :
             /\ e = Head(uiq[a]).msg /\ b = Head(uiq[a]).peer /\ x = e.id.n
             /\ b \in Others(a) /\ b \in Peers /\ x \in Numbers /\ e \in Messages
             /\ At(a, b, 2, x) /\ ~e.mine /\ e.id.by = b /\ e.text \in {x, Unreadable}
      BY <1>3, TakeUpdate
    <2>2. AddMessage(a, b, e)
      BY <1>3, <2>1 DEF UiApply
    <2>3. ~Taken(a, e)
      BY <2>1, ArrivalIsNew
    <2>4. RowAdded(a, b, e)
      BY <2>2, <2>3 DEF AddMessage, InsertMessage, Taken, RowAdded
    <2>5. Shows(a, b, e)
      BY <2>1 DEF Shows
    <2> QED
      BY <1>1, <2>1, <2>4, <2>5
  <1>4. CASE Head(uiq[a]).kind = "status"
    <2>1. PICK id, st : st \in Statuses /\ UpdateMessageStatus(a, id, st)
      <3>1. UpdateMessageStatus(a, Head(uiq[a]).id, Head(uiq[a]).status)
        BY <1>4 DEF UiApply
      <3>2. Head(uiq[a]).status \in Statuses
        BY <1>4, TakeUpdate DEF Updates
      <3> QED
        BY <3>1, <3>2
    <2>2. RowsMarked(a, id, st)
      <3>1. DOMAIN dbMsgs = Peers
        BY DEF OrderInv, Inv, Typed, DbMsgsTyped
      <3>2. dbMsgs' = [dbMsgs EXCEPT ![a] = [z \in Peers |-> WithStatus(dbMsgs[a][z], id, st)]]
        BY <2>1 DEF UpdateMessageStatus
      <3> QED
        BY <3>1, <3>2, Entry DEF RowsMarked
    <2> QED
      BY <1>1, <2>1, <2>2
  <1> QED
    BY <1>1, <1>2, <1>3, <1>4

\* Nothing else touches the tables.
LEMMA RowsStep ==
    ASSUME OrderInv, [Next]_vars
    PROVE  \/ dbMsgs' = dbMsgs /\ used'.sends = used.sends
           \/ \E a \in Peers : UserSend(a) \/ UiApply(a)
  <1>1. used \in [sends : 0 .. MaxSends, invites : Nat, crashes : Nat, faults : Nat]
    BY DEF OrderInv, Inv, Typed, UsedTyped
  <1>2. CASE UNCHANGED vars
    BY <1>2 DEF vars, volatile
  <1>3. ASSUME NEW p, NEW q, NEW m, Send(p, q, m)
        PROVE  used'.sends = used.sends
    BY <1>1, <1>3 DEF Send, Fault
  <1>4. ASSUME NEW a \in Peers, NEW q \in Peers, InviteSubmit(a, q)
        PROVE  dbMsgs' = dbMsgs /\ used'.sends = used.sends
    BY <1>1, <1>4 DEF InviteSubmit
  <1>5. ASSUME NEW a \in Peers, InviteSend(a) \/ SendAck(a) \/ SendMessage(a)
        PROVE  dbMsgs' = dbMsgs /\ used'.sends = used.sends
    BY <1>3, <1>5 DEF InviteSend, SendAck, SendMessage
  <1>6. ASSUME NEW a \in Peers, Crash(a)
        PROVE  dbMsgs' = dbMsgs /\ used'.sends = used.sends
    BY <1>1, <1>6 DEF Crash
  <1>7. ASSUME NEW a \in Peers,
               \/ OpenChat(a) \/ (\E q \in Peers : Listen(a, q)) \/ InviteFail(a) \/ InviteList(a)
               \/ InviteRegisterKey(a) \/ HandleHello(a) \/ HandleChat(a) \/ HandleAck(a) \/ DeliverToUi(a)
               \/ HandleOutgoing(a) \/ Restart(a) \/ NodeOnline(a)
        PROVE  dbMsgs' = dbMsgs /\ used'.sends = used.sends
    <2>1. UNCHANGED dbMsgs /\ (UNCHANGED used \/ Fault)
      BY <1>7 DEF OpenChat, Listen, InviteFail, InviteList, InviteRegisterKey, HandleHello, HandleChat, HandleAck,
                  DeliverToUi, HandleOutgoing, Restart, NodeOnline
    <2> QED
      BY <1>1, <2>1 DEF Fault
  <1> QED
    BY <1>2, <1>4, <1>5, <1>6, <1>7 DEF Next, InviteStep, LoopStep

\* The number of what is typed is one of the numbers, or 0.
LEMMA TypedNumberTyped == TypedNumber \in [Messages -> 0 .. MaxSends]
  <1>1. Numbers \subseteq 0 .. MaxSends /\ 0 \in 0 .. MaxSends
    BY BoundsAssumption DEF Numbers
  <1> QED
    BY <1>1 DEF TypedNumber

\* A row more leaves one's own rows in order, if it has a new number.
LEMMA AsTypedAppend ==
    ASSUME NEW s \in Seq(Messages), NEW e \in Messages, NEW k \in Nat, NEW l \in Nat, AsTyped(s, k), k <= l,
           e.mine => e.text \in Numbers /\ e.text = k + 1 /\ e.text = l
    PROVE  /\ AsTyped(Append(s, e), l)
           /\ \A n : In(s, TypedNumber, n) => In(Append(s, e), TypedNumber, n)
           /\ e.mine => In(Append(s, e), TypedNumber, e.text)
  <1>1. TypedNumber[e] = IF e.mine THEN e.text ELSE 0
    BY DEF TypedNumber
  <1>2. PICK t, m : t = Append(s, e) /\ m = Len(s) + 1
    OBVIOUS
  <1>3. DOMAIN t = DOMAIN s \cup {m} /\ t[m] = e /\ \A i \in DOMAIN s : t[i] = s[i]
    BY <1>2, AppendTyped
  <1>4. \A n \in Numbers : In(s, TypedNumber, n) => n <= k
    BY DEF AsTyped
  <1>5. /\ \A n : In(t, TypedNumber, n) => In(s, TypedNumber, n) \/ n = TypedNumber[e]
        /\ Rising(t, TypedNumber)
    <2>1. /\ \A n : In(t, TypedNumber, n) => In(s, TypedNumber, n) \/ n = TypedNumber[e]
          /\ (TypedNumber[e] # 0 => \A n \in Numbers : In(s, TypedNumber, n) => n < TypedNumber[e])
                => Rising(t, TypedNumber)
      BY <1>2, TypedNumberTyped, RisingAppend DEF AsTyped
    <2>2. TypedNumber[e] # 0 => \A n \in Numbers : In(s, TypedNumber, n) => n < TypedNumber[e]
      BY <1>1, <1>4, NumbersNotZero
    <2> QED
      BY <2>1, <2>2
  <1>6. \A n \in Numbers : In(t, TypedNumber, n) => n <= l
    BY <1>1, <1>4, <1>5, NumbersNotZero
  <1>7. \A i \in DOMAIN t : t[i].mine => t[i].text \in Numbers
    BY <1>3 DEF AsTyped
  <1>8. \A n : In(s, TypedNumber, n) => In(t, TypedNumber, n)
    BY <1>3 DEF In
  <1>9. e.mine => In(t, TypedNumber, e.text)
    BY <1>1, <1>3 DEF In
  <1> QED
    BY <1>2, <1>5, <1>6, <1>7, <1>8, <1>9 DEF AsTyped

\* A new status does too.
LEMMA AsTypedStatus ==
    ASSUME NEW s \in Seq(Messages), NEW id, NEW st \in Statuses, NEW k, AsTyped(s, k)
    PROVE  /\ AsTyped(WithStatus(s, id, st), k)
           /\ \A n : In(s, TypedNumber, n) => In(WithStatus(s, id, st), TypedNumber, n)
  <1>1. PICK t : t = WithStatus(s, id, st)
    OBVIOUS
  <1>2. /\ t \in Seq(Messages) /\ DOMAIN t = DOMAIN s
        /\ \A i \in DOMAIN s : t[i].mine = s[i].mine /\ t[i].text = s[i].text
    BY <1>1, WithStatusTyped
  <1>3. \A i \in DOMAIN s : s[i] \in Messages /\ t[i] \in Messages
    BY <1>2, SeqElement
  <1>4. \A i \in DOMAIN s : TypedNumber[t[i]] = TypedNumber[s[i]]
    BY <1>2, <1>3 DEF TypedNumber
  <1>5. \A n : In(t, TypedNumber, n) <=> In(s, TypedNumber, n)
    BY <1>2, <1>4 DEF In
  <1>6. Rising(t, TypedNumber)
    BY <1>2, <1>4 DEF AsTyped, Rising
  <1>7. \A i \in DOMAIN t : t[i].mine => t[i].text \in Numbers
    BY <1>2 DEF AsTyped
  <1> QED
    BY <1>1, <1>5, <1>6, <1>7 DEF AsTyped

\* The one table to which a row is added.
LEMMA AddedRow ==
    ASSUME Typed, NEW a \in Peers, NEW b \in Others(a), NEW e \in Messages, RowAdded(a, b, e)
    PROVE  /\ b \in Peers /\ dbMsgs[a][b] \in Seq(Messages)
           /\ dbMsgs'[a][b] = Append(dbMsgs[a][b], e)
           /\ \A p, q \in Peers : ~(p = a /\ q = b) => dbMsgs'[p][q] = dbMsgs[p][q]
  <1>1. b \in Peers /\ dbMsgs \in [Peers -> [Peers -> Seq(Messages)]]
    BY DEF Typed, DbMsgsTyped, Others
  <1>2. PICK t : t = Append(dbMsgs[a][b], e)
    OBVIOUS
  <1>3. t \in Seq(Messages)
    BY <1>1, <1>2, AppendTyped
  <1>4. dbMsgs' = [dbMsgs EXCEPT ![a][b] = t]
    BY <1>2 DEF RowAdded
  <1> QED
    BY <1>1, <1>2, <1>3, <1>4, Entry2

\* Every step keeps what was typed, in the order of typing.
LEMMA HistoriesGrow ==
    ASSUME TalkInv, ~ClockCollides, [Next]_vars, used.sends \in Nat, used'.sends \in Nat
    PROVE  /\ TypedInOrder'
           /\ \A p, q \in Peers : \A n : In(dbMsgs[p][q], TypedNumber, n) => In(dbMsgs'[p][q], TypedNumber, n)
  <1>1. OrderInv /\ Typed /\ \A p, q \in Peers : AsTyped(dbMsgs[p][q], used.sends)
    BY DEF TalkInv, OrderInv, Inv, TypedInOrder
  <1>2. CASE dbMsgs' = dbMsgs /\ used'.sends = used.sends
    BY <1>1, <1>2 DEF TypedInOrder
  <1>3. ASSUME NEW a \in Peers, NEW b \in Others(a), NEW e \in Messages, RowAdded(a, b, e),
               Types(e) \/ (~e.mine /\ used' = used)
        PROVE  /\ TypedInOrder'
               /\ \A p, q \in Peers : \A n : In(dbMsgs[p][q], TypedNumber, n) => In(dbMsgs'[p][q], TypedNumber, n)
    <2>1. /\ b \in Peers /\ dbMsgs[a][b] \in Seq(Messages)
          /\ dbMsgs'[a][b] = Append(dbMsgs[a][b], e)
          /\ \A p, q \in Peers : ~(p = a /\ q = b) => dbMsgs'[p][q] = dbMsgs[p][q]
      BY <1>1, <1>3, AddedRow
    <2>2. PICK k, l \in Nat : k = used.sends /\ l = used'.sends
      OBVIOUS
    <2>3. k <= l /\ (e.mine => e.text \in Numbers /\ e.text = k + 1 /\ e.text = l)
      BY <1>3, <2>2 DEF Types
    <2>4. /\ AsTyped(Append(dbMsgs[a][b], e), l)
          /\ \A n : In(dbMsgs[a][b], TypedNumber, n) => In(Append(dbMsgs[a][b], e), TypedNumber, n)
      BY <1>1, <2>1, <2>2, <2>3, AsTypedAppend
    <2>5. ASSUME NEW p \in Peers, NEW q \in Peers, ~(p = a /\ q = b)
          PROVE  AsTyped(dbMsgs'[p][q], l)
      <3>1. AsTyped(dbMsgs[p][q], k) /\ dbMsgs'[p][q] = dbMsgs[p][q]
        BY <1>1, <2>1, <2>2, <2>5
      <3> QED
        BY <2>3, <3>1, NumbersNotZero DEF AsTyped
    <2> QED
      BY <2>1, <2>2, <2>4, <2>5 DEF TypedInOrder
  <1>4. ASSUME NEW a \in Peers, NEW id, NEW st \in Statuses, RowsMarked(a, id, st), used' = used
        PROVE  /\ TypedInOrder'
               /\ \A p, q \in Peers : \A n : In(dbMsgs[p][q], TypedNumber, n) => In(dbMsgs'[p][q], TypedNumber, n)
    <2> SUFFICES ASSUME NEW p \in Peers, NEW q \in Peers
                 PROVE  /\ AsTyped(dbMsgs'[p][q], used'.sends)
                        /\ \A n : In(dbMsgs[p][q], TypedNumber, n) => In(dbMsgs'[p][q], TypedNumber, n)
      BY DEF TypedInOrder
    <2>1. dbMsgs[p][q] \in Seq(Messages)
      BY <1>1, QueuesTyped
    <2>2. CASE p = a
      <3>1. dbMsgs'[p][q] = WithStatus(dbMsgs[p][q], id, st)
        BY <1>4, <2>2 DEF RowsMarked
      <3> QED
        BY <1>1, <1>4, <2>1, <3>1, AsTypedStatus
    <2>3. CASE p # a
      BY <1>1, <1>4, <2>3 DEF RowsMarked
    <2> QED
      BY <2>2, <2>3
  <1>5. CASE \E a \in Peers : UserSend(a)
    <2>1. PICK a \in Peers : UserSend(a)
      BY <1>5
    <2>2. PICK b \in Others(a), e \in Messages : RowAdded(a, b, e) /\ Types(e)
      BY <1>1, <2>1, UserSendRow
    <2> QED
      BY <1>3, <2>2
  <1>6. CASE \E a \in Peers : UiApply(a)
    <2>1. PICK a \in Peers : UiApply(a)
      BY <1>6
    <2>2. /\ used' = used
          /\ \/ dbMsgs' = dbMsgs
             \/ \E b \in Others(a), e \in Messages : RowAdded(a, b, e) /\ Shows(a, b, e)
             \/ \E id, st : st \in Statuses /\ RowsMarked(a, id, st)
      BY <1>1, <2>1, UiApplyRow
    <2> QED
      BY <1>2, <1>3, <1>4, <2>2 DEF Shows
  <1> QED
    BY <1>1, <1>2, <1>5, <1>6, RowsStep

\* A message that is new with its peer was typed there.
LEMMA NewIsTyped ==
    ASSUME TalkInv, ~ClockCollides, [Next]_vars, NEW p \in Peers, NEW q \in Peers, NEW x, Adds(p, q, x),
           x \in Numbers, At(p, q, 7, x)'
    PROVE  In(dbMsgs'[q][p], TypedNumber, x)
  <1>1. OrderInv /\ Typed /\ AsTyped(dbMsgs[q][p], used.sends) /\ NumbersUsed(p, q) /\ DOMAIN outq = Peers
    BY DEF TalkInv, OrderInv, Inv, TypedInOrder, InOrder, Typed, OutqTyped
  <1>2. used.sends \in Nat /\ x = used.sends + 1 /\ used'.sends = x
    BY <1>1, QueuesTyped DEF Adds
  <1>3. ~At(p, q, 7, x)
    BY <1>1, <1>2 DEF NumbersUsed
  <1>4. PICK a \in Peers : UserSend(a)
    <2>1. used'.sends # used.sends
      BY <1>2
    <2>2. \A a \in Peers : ~UiApply(a)
      BY <2>1 DEF UiApply
    <2> QED
      BY <1>1, <2>1, <2>2, RowsStep
  <1>5. PICK b \in Others(a), e \in Messages :
           /\ RowAdded(a, b, e) /\ Types(e)
           /\ outq' = outq \/ outq' = [outq EXCEPT ![a] = Append(outq[a], [to |-> b, text |-> e.text])]
    BY <1>1, <1>4, UserSendRow
  <1>6. In(outq'[q], OrderNumber(q, p), x) /\ ~In(outq[q], OrderNumber(q, p), x)
    BY <1>3 DEF At
  <1>7. PICK o : o = [to |-> b, text |-> e.text]
    OBVIOUS
  <1>8. q = a /\ outq'[q] = Append(outq[q], o)
    <2>1. outq' = [outq EXCEPT ![a] = Append(outq[a], o)]
      BY <1>5, <1>6, <1>7
    <2>2. outq'[a] = Append(outq[a], o) /\ \A r \in Peers : r # a => outq'[r] = outq[r]
      BY <1>1, <2>1, Entry
    <2> QED
      BY <1>6, <2>2
  <1>9. p = b
    <2>1. o \in Orders(q) /\ outq[q] \in Seq(Orders(q)) /\ o.to = b
      BY <1>1, <1>5, <1>7, <1>8, QueuesTyped DEF Orders, Types
    <2>2. Rising(outq[q], OrderNumber(q, p)) /\ OrderNumber(q, p) \in [Orders(q) -> 0 .. MaxSends]
      BY <1>1, NumbersTyped DEF OrderInv, InOrder, QueuesInOrder
    <2>3. x = OrderNumber(q, p)[o]
      BY <1>6, <1>8, <2>1, <2>2, RisingAppend
    <2> QED
      BY <2>1, <2>3, NumbersNotZero DEF OrderNumber
  <1>10. /\ dbMsgs[a][b] \in Seq(Messages)
         /\ dbMsgs'[a][b] = Append(dbMsgs[a][b], e)
    BY <1>1, <1>5, AddedRow
  <1>11. e.mine /\ e.text \in Numbers /\ e.text = x
    BY <1>2, <1>5 DEF Types
  <1>12. In(Append(dbMsgs[a][b], e), TypedNumber, x)
    <2>1. PICK k, l \in Nat : k = used.sends /\ l = x
      BY <1>2
    <2>2. k <= l /\ (e.mine => e.text \in Numbers /\ e.text = k + 1 /\ e.text = l) /\ AsTyped(dbMsgs[a][b], k)
      BY <1>1, <1>2, <1>8, <1>9, <1>11, <2>1
    <2> QED
      BY <1>10, <1>11, <2>1, <2>2, AsTypedAppend
  <1> QED
    BY <1>8, <1>9, <1>10, <1>12

\* So what is on its way, or has arrived, stays in the history of its author.
LEMMA NextTalk ==
    ASSUME ~ClockCollides, TalkInv, [Next]_vars
    PROVE  TalkInv'
  <1>1. OrderInv /\ Typed
    BY DEF TalkInv, OrderInv, Inv
  <1>2. OrderInv' /\ Typed'
    <2>1. OrderInv'
      BY <1>1, NextOrder
    <2> QED
      BY <2>1 DEF OrderInv, Inv
  <1>3. used.sends \in Nat /\ used'.sends \in Nat
    BY <1>1, <1>2, BoundsAssumption DEF Typed, UsedTyped
  <1>4. /\ TypedInOrder'
        /\ \A p, q \in Peers : \A n : In(dbMsgs[p][q], TypedNumber, n) => In(dbMsgs'[p][q], TypedNumber, n)
    BY <1>3, HistoriesGrow
  <1>5. ASSUME NEW p \in Peers, NEW q \in Peers, NEW k \in 1 .. 7, NEW n \in Numbers, At(p, q, k, n)'
        PROVE  In(dbMsgs'[q][p], TypedNumber, n)
    <2>1. \A l \in 1 .. 7 : \A m \in Numbers : At(p, q, l, m) => In(dbMsgs'[q][p], TypedNumber, m)
      BY <1>4 DEF TalkInv, AllTyped
    <2>2. CASE UNCHANGED vars
      <3>1. UNCHANGED <<dbMsgs, uiq, task, inq, net, outq>>
        BY <2>2 DEF vars, volatile
      <3>2. At(p, q, k, n)
        BY <1>5, <3>1 DEF At
      <3> QED
        BY <2>1, <3>2
    <2>3. CASE Next
      <3>1. Passes(p, q)
        BY <1>1, <2>3, NextCarries DEF Carries
      <3>2. CASE Drops(p, q)
        BY <1>5, <2>1, <3>2 DEF Drops, Kept
      <3>3. ASSUME NEW l \in 1 .. 6, NEW x \in Numbers, Moves(p, q, l, x)
            PROVE  In(dbMsgs'[q][p], TypedNumber, n)
        <4>1. At(p, q, l + 1, x) /\ l + 1 \in 1 .. 7 /\ (At(p, q, k, n) \/ n = x)
          BY <1>5, <3>3 DEF Moves, OneMore, Kept
        <4> QED
          BY <2>1, <4>1
      <3>4. ASSUME NEW x, Adds(p, q, x)
            PROVE  In(dbMsgs'[q][p], TypedNumber, n)
        <4>1. At(p, q, k, n) \/ (k = 7 /\ n = x)
          BY <1>5, <3>4 DEF Adds, OneMore, Kept
        <4>2. CASE k = 7 /\ n = x
          BY <1>5, <3>4, <4>2, NewIsTyped
        <4> QED
          BY <2>1, <4>1, <4>2
      <3> QED
        BY <3>1, <3>2, <3>3, <3>4 DEF Passes
    <2> QED
      BY <2>2, <2>3
  <1> QED
    BY <1>2, <1>4, <1>5 DEF TalkInv, AllTyped

\* At first nothing is typed.
LEMMA InitTalk == Init => TalkInv
  <1> SUFFICES ASSUME Init PROVE TalkInv
    OBVIOUS
  <1>1. OrderInv
    BY InitOrder
  <1>2. \A p, q \in Peers :
           /\ dbMsgs[p][q] = <<>> /\ uiq[p] = <<>> /\ inq[p] = <<>> /\ net[q][p] = <<>> /\ outq[q] = <<>>
           /\ task[p].pc = "select"
    BY DEF Init, Select
  <1>3. ASSUME NEW p \in Peers, NEW q \in Peers
        PROVE  \A k \in 1 .. 7 : \A n \in Numbers : ~At(p, q, k, n)
    BY <1>2, RisingEmpty DEF At
  <1>4. \A p, q \in Peers : AsTyped(dbMsgs[p][q], used.sends)
    BY <1>2, RisingEmpty, EmptyTyped DEF AsTyped
  <1> QED
    BY <1>1, <1>3, <1>4 DEF TalkInv, TypedInOrder, AllTyped

-----------------------------------------------------------------------------
(* Conversation is implemented *)

\* What the tables of messages say was typed and shown, as one table each.
TypedTable == [p \in Peers |-> [q \in Peers |-> TypedOf(dbMsgs[p][q])]]
ShownTable == [p \in Peers |-> [q \in Peers |-> ShownOf(dbMsgs[p][q])]]

\* A table that differs in one entry.
LEMMA TableEntry ==
    ASSUME NEW F, NEW G, NEW a \in Peers, NEW b \in Peers,
           F = [p \in Peers |-> [q \in Peers |-> F[p][q]]],
           G = [p \in Peers |-> [q \in Peers |-> G[p][q]]],
           \A p, q \in Peers : ~(p = a /\ q = b) => G[p][q] = F[p][q]
    PROVE  G = [F EXCEPT ![a][b] = G[a][b]]
  <1>1. DOMAIN F = Peers /\ DOMAIN G = Peers
    OBVIOUS
  <1>2. \A p \in Peers : DOMAIN F[p] = Peers /\ DOMAIN G[p] = Peers
                         /\ F[p] = [q \in Peers |-> F[p][q]] /\ G[p] = [q \in Peers |-> G[p][q]]
    OBVIOUS
  <1>3. PICK f : f = [F[a] EXCEPT ![b] = G[a][b]]
    OBVIOUS
  <1>4. G[a] = f
    <2>1. f = [q \in Peers |-> IF q = b THEN G[a][b] ELSE F[a][q]]
      BY <1>2, <1>3
    <2>2. \A q \in Peers : f[q] = G[a][q]
      BY <2>1
    <2>3. f = [q \in Peers |-> f[q]]
      BY <2>1
    <2> QED
      BY <1>2, <2>2, <2>3
  <1>5. \A p \in Peers : p # a => G[p] = F[p]
    <2>1. ASSUME NEW p \in Peers, p # a PROVE G[p] = F[p]
      <3>1. \A q \in Peers : G[p][q] = F[p][q]
        BY <2>1
      <3> QED
        BY <1>2, <3>1
    <2> QED
      BY <2>1
  <1>6. PICK H : H = [F EXCEPT ![a] = f]
    OBVIOUS
  <1>7. H = [p \in Peers |-> IF p = a THEN f ELSE F[p]]
    BY <1>1, <1>6
  <1>8. \A p \in Peers : G[p] = IF p = a THEN f ELSE F[p]
    BY <1>4, <1>5
  <1>9. G = H
    BY <1>7, <1>8
  <1> QED
    BY <1>3, <1>6, <1>9

\* A table that differs in no entry.
LEMMA TableSame ==
    ASSUME NEW F, NEW G,
           F = [p \in Peers |-> [q \in Peers |-> F[p][q]]],
           G = [p \in Peers |-> [q \in Peers |-> G[p][q]]],
           \A p, q \in Peers : G[p][q] = F[p][q]
    PROVE  G = F
  <1>1. \A p \in Peers : G[p] = F[p]
    <2>1. \A p \in Peers : F[p] = [q \in Peers |-> F[p][q]] /\ G[p] = [q \in Peers |-> G[p][q]]
      OBVIOUS
    <2> QED
      BY <2>1
  <1>2. F = [p \in Peers |-> F[p]] /\ G = [p \in Peers |-> G[p]]
    OBVIOUS
  <1> QED
    BY <1>1, <1>2

\* The tables by their entries.
LEMMA TablesTyped ==
    /\ TypedTable = [p \in Peers |-> [q \in Peers |-> TypedTable[p][q]]]
    /\ ShownTable = [p \in Peers |-> [q \in Peers |-> ShownTable[p][q]]]
    /\ TypedTable' = [p \in Peers |-> [q \in Peers |-> TypedTable'[p][q]]]
    /\ ShownTable' = [p \in Peers |-> [q \in Peers |-> ShownTable'[p][q]]]
    /\ \A p, q \in Peers :
          /\ TypedTable[p][q] = TypedOf(dbMsgs[p][q]) /\ ShownTable[p][q] = ShownOf(dbMsgs[p][q])
          /\ TypedTable'[p][q] = TypedOf(dbMsgs'[p][q]) /\ ShownTable'[p][q] = ShownOf(dbMsgs'[p][q])
  BY DEF TypedTable, ShownTable

\* A row of one's own is something typed, a row received something shown.
LEMMA AddedEntry ==
    ASSUME Typed, NEW a \in Peers, NEW b \in Others(a), NEW e \in Messages, RowAdded(a, b, e)
    PROVE  /\ e.mine => /\ TypedTable' = [TypedTable EXCEPT ![a][b] = Append(TypedTable[a][b], e.text)]
                        /\ ShownTable' = ShownTable
           /\ ~e.mine => /\ ShownTable' = [ShownTable EXCEPT ![a][b] =
                                             Append(ShownTable[a][b], [of |-> e.id.n, text |-> e.text])]
                         /\ TypedTable' = TypedTable
  <1>1. /\ b \in Peers /\ dbMsgs[a][b] \in Seq(Messages)
        /\ dbMsgs'[a][b] = Append(dbMsgs[a][b], e)
        /\ \A p, q \in Peers : ~(p = a /\ q = b) => dbMsgs'[p][q] = dbMsgs[p][q]
    BY AddedRow
  <1>2. PICK t, s : t = e.text /\ s = [of |-> e.id.n, text |-> e.text]
    OBVIOUS
  <1>3. \A p, q \in Peers : ~(p = a /\ q = b) => /\ TypedTable'[p][q] = TypedTable[p][q]
                                                 /\ ShownTable'[p][q] = ShownTable[p][q]
    BY <1>1, TablesTyped
  <1>4. /\ TypedTable' = [TypedTable EXCEPT ![a][b] = TypedTable'[a][b]]
        /\ ShownTable' = [ShownTable EXCEPT ![a][b] = ShownTable'[a][b]]
    <2>1. PICK F, G : F = TypedTable /\ G = TypedTable'
      OBVIOUS
    <2>2. G = [F EXCEPT ![a][b] = G[a][b]]
      BY <1>1, <1>3, <2>1, TablesTyped, TableEntry
    <2>3. PICK K, L : K = ShownTable /\ L = ShownTable'
      OBVIOUS
    <2>4. L = [K EXCEPT ![a][b] = L[a][b]]
      BY <1>1, <1>3, <2>3, TablesTyped, TableEntry
    <2> QED
      BY <2>1, <2>2, <2>3, <2>4
  <1>5. /\ e.mine => /\ TypedTable'[a][b] = Append(TypedTable[a][b], t)
                     /\ ShownTable'[a][b] = ShownTable[a][b]
        /\ ~e.mine => /\ TypedTable'[a][b] = TypedTable[a][b]
                      /\ ShownTable'[a][b] = Append(ShownTable[a][b], s)
    <2>1. PICK r, x : r = dbMsgs[a][b] /\ x = Append(r, e)
      OBVIOUS
    <2>2. /\ e.mine => TypedOf(x) = Append(TypedOf(r), t) /\ ShownOf(x) = ShownOf(r)
          /\ ~e.mine => TypedOf(x) = TypedOf(r) /\ ShownOf(x) = Append(ShownOf(r), s)
      BY <1>1, <1>2, <2>1, TypedAppend
    <2>3. /\ TypedTable[a][b] = TypedOf(r) /\ ShownTable[a][b] = ShownOf(r)
          /\ TypedTable'[a][b] = TypedOf(x) /\ ShownTable'[a][b] = ShownOf(x)
      <3>1. /\ TypedTable[a][b] = TypedOf(dbMsgs[a][b]) /\ ShownTable[a][b] = ShownOf(dbMsgs[a][b])
            /\ TypedTable'[a][b] = TypedOf(dbMsgs'[a][b]) /\ ShownTable'[a][b] = ShownOf(dbMsgs'[a][b])
        BY <1>1, TablesTyped
      <3> QED
        BY <1>1, <2>1, <3>1
    <2> QED
      BY <2>2, <2>3
  <1>6. e.mine => ShownTable' = ShownTable
    <2>1. e.mine => \A p, q \in Peers : ShownTable'[p][q] = ShownTable[p][q]
      BY <1>3, <1>5
    <2>2. PICK F, G : F = ShownTable /\ G = ShownTable'
      OBVIOUS
    <2>3. e.mine => G = F
      BY <2>1, <2>2, TablesTyped, TableSame
    <2> QED
      BY <2>2, <2>3
  <1>7. ~e.mine => TypedTable' = TypedTable
    <2>1. ~e.mine => \A p, q \in Peers : TypedTable'[p][q] = TypedTable[p][q]
      BY <1>3, <1>5
    <2>2. PICK F, G : F = TypedTable /\ G = TypedTable'
      OBVIOUS
    <2>3. ~e.mine => G = F
      BY <2>1, <2>2, TablesTyped, TableSame
    <2> QED
      BY <2>2, <2>3
  <1> QED
    BY <1>2, <1>4, <1>5, <1>6, <1>7

\* A status is neither.
LEMMA MarkedEntries ==
    ASSUME Typed, NEW a \in Peers, NEW id, NEW st \in Statuses, RowsMarked(a, id, st)
    PROVE  TypedTable' = TypedTable /\ ShownTable' = ShownTable
  <1>1. ASSUME NEW p \in Peers, NEW q \in Peers
        PROVE  TypedTable'[p][q] = TypedTable[p][q] /\ ShownTable'[p][q] = ShownTable[p][q]
    <2>1. dbMsgs[p][q] \in Seq(Messages)
      BY QueuesTyped
    <2>2. dbMsgs'[p][q] = dbMsgs[p][q] \/ dbMsgs'[p][q] = WithStatus(dbMsgs[p][q], id, st)
      BY DEF RowsMarked
    <2> QED
      BY <2>1, <2>2, TablesTyped, TypedStatus
  <1>2. PICK F, G, K, L : F = TypedTable /\ G = TypedTable' /\ K = ShownTable /\ L = ShownTable'
    OBVIOUS
  <1>3. G = F
    BY <1>1, <1>2, TablesTyped, TableSame
  <1>4. L = K
    BY <1>1, <1>2, TablesTyped, TableSame
  <1> QED
    BY <1>2, <1>3, <1>4

\* What a user is shown has been typed after all that was shown before.
LEMMA ShownIsNext ==
    ASSUME TalkInv, NEW a \in Peers, NEW b \in Peers, NEW n \in Numbers, At(a, b, 2, n)
    PROVE  /\ DOMAIN TypedOf(dbMsgs[b][a]) \subseteq Nat
           /\ \E l \in DOMAIN TypedOf(dbMsgs[b][a]) :
                 /\ TypedOf(dbMsgs[b][a])[l] = n
                 /\ \A k \in 1 .. Len(ShownOf(dbMsgs[a][b])) :
                       \E j \in 1 .. l - 1 : TypedOf(dbMsgs[b][a])[j] = ShownOf(dbMsgs[a][b])[k].of
  <1>1. /\ dbMsgs[b][a] \in Seq(Messages) /\ dbMsgs[a][b] \in Seq(Messages)
        /\ Rising(dbMsgs[b][a], TypedNumber) /\ PlacesInOrder(a, b)
        /\ \A k \in 1 .. 7 : \A m \in Numbers : At(a, b, k, m) => In(dbMsgs[b][a], TypedNumber, m)
    BY QueuesTyped DEF TalkInv, OrderInv, Inv, TypedInOrder, AsTyped, AllTyped, InOrder
  <1>2. In(dbMsgs[b][a], TypedNumber, n)
    BY <1>1
  <1>3. /\ DOMAIN TypedOf(dbMsgs[b][a]) \subseteq Nat
        /\ \E l \in DOMAIN TypedOf(dbMsgs[b][a]) :
              /\ TypedOf(dbMsgs[b][a])[l] = n
              /\ \A m \in Numbers : In(dbMsgs[b][a], TypedNumber, m) /\ m < n =>
                    \E k \in 1 .. l - 1 : TypedOf(dbMsgs[b][a])[k] = m
    BY <1>1, <1>2, TypedHolds
  <1>4. ASSUME NEW k \in 1 .. Len(ShownOf(dbMsgs[a][b]))
        PROVE  \E m \in Numbers : /\ ShownOf(dbMsgs[a][b])[k].of = m
                                  /\ In(dbMsgs[b][a], TypedNumber, m) /\ m < n
    <2>1. PICK m \in Numbers : ShownOf(dbMsgs[a][b])[k].of = m /\ In(dbMsgs[a][b], RowNumber, m)
      BY <1>1, ShownHolds
    <2>2. At(a, b, 1, m) /\ 1 \in 1 .. 7 /\ 2 \in 1 .. 7
      BY <2>1 DEF At
    <2>3. m < n
      BY <1>1, <2>2 DEF PlacesInOrder
    <2> QED
      BY <1>1, <2>1, <2>2, <2>3
  <1> QED
    BY <1>3, <1>4

\* With a clock that never repeats itself, the messengers of all peers together
\* implement Conversation: what a user is shown of a peer is part of what that peer
\* typed, in the order of typing, nothing twice, each as typed or as unreadable, and no
\* history loses anything, across queues, acknowledgements, crashes and faults.
THEOREM MessengerIsConversation == ~ClockCollides /\ Spec => ImplementsConversation
  <1>1. Init => Talk!Init
    <2> SUFFICES ASSUME Init PROVE Talk!Init
      OBVIOUS
    <2>1. \A p, q \in Peers : dbMsgs[p][q] = <<>>
      BY DEF Init
    <2>2. \A p, q \in Peers : TypedOf(dbMsgs[p][q]) = <<>> /\ ShownOf(dbMsgs[p][q]) = <<>>
      BY <2>1, NothingTyped
    <2> QED
      BY <2>2 DEF Talk!Init
  <1>2. CASE ~ClockCollides
    <2>1. TalkInv /\ [Next]_vars => TalkInv'
      BY <1>2, NextTalk
    <2>2. TalkInv /\ [Next]_vars => [Talk!Next]_<<TypedTable, ShownTable>>
      <3> SUFFICES ASSUME TalkInv, [Next]_vars PROVE [Talk!Next]_<<TypedTable, ShownTable>>
        OBVIOUS
      <3>1. OrderInv /\ Typed
        BY DEF TalkInv, OrderInv, Inv
      <3>3. ASSUME NEW a \in Peers, NEW b \in Others(a), NEW e \in Messages, RowAdded(a, b, e), Types(e)
            PROVE  Talk!Type(a, b)
        <4>1. /\ TypedTable' = [TypedTable EXCEPT ![a][b] = Append(TypedTable[a][b], e.text)]
              /\ ShownTable' = ShownTable /\ e.text \in 1 .. MaxSends
          <5>1. e.mine /\ e.text \in 1 .. MaxSends
            BY <3>3 DEF Types, Numbers
          <5>2. e.mine => /\ TypedTable' = [TypedTable EXCEPT ![a][b] = Append(TypedTable[a][b], e.text)]
                          /\ ShownTable' = ShownTable
            BY <3>1, <3>3, AddedEntry
          <5> QED
            BY <5>1, <5>2
        <4> QED
          BY <4>1 DEF Talk!Type, TypedTable, ShownTable
      <3>4. ASSUME NEW a \in Peers, NEW b \in Others(a), NEW e \in Messages, RowAdded(a, b, e), Shows(a, b, e)
            PROVE  Talk!Show(a, b)
        <4>1. /\ ShownTable' = [ShownTable EXCEPT ![a][b] =
                                   Append(ShownTable[a][b], [of |-> e.id.n, text |-> e.text])]
              /\ TypedTable' = TypedTable
          BY <3>1, <3>4, AddedEntry DEF Shows
        <4>2. b \in Peers /\ e.id.n \in Numbers /\ e.text \in {e.id.n, Unreadable} /\ At(a, b, 2, e.id.n)
          BY <3>4 DEF Shows, Others
        <4>3. PICK l \in DOMAIN TypedOf(dbMsgs[b][a]) :
                 /\ TypedOf(dbMsgs[b][a])[l] = e.id.n
                 /\ \A k \in 1 .. Len(ShownOf(dbMsgs[a][b])) :
                       \E j \in 1 .. l - 1 : TypedOf(dbMsgs[b][a])[j] = ShownOf(dbMsgs[a][b])[k].of
          BY <4>2, ShownIsNext
        <4>4. /\ l \in DOMAIN TypedTable[b][a] /\ e.text \in {TypedTable[b][a][l], Unreadable}
              /\ TypedTable[b][a][l] = e.id.n
              /\ \A k \in 1 .. Len(ShownTable[a][b]) :
                    \E j \in 1 .. l - 1 : TypedTable[b][a][j] = ShownTable[a][b][k].of
          <5>1. TypedTable[b][a] = TypedOf(dbMsgs[b][a]) /\ ShownTable[a][b] = ShownOf(dbMsgs[a][b])
            BY <4>2, TablesTyped
          <5> QED
            BY <4>2, <4>3, <5>1
        <4>5. Talk!IsNext(a, b, l)
          BY <4>4 DEF Talk!IsNext, TypedTable, ShownTable
        <4>6. PICK text : text = e.text
          OBVIOUS
        <4>7. /\ text \in {TypedTable[b][a][l], Unreadable}
              /\ ShownTable' = [ShownTable EXCEPT ![a][b] =
                                   Append(ShownTable[a][b], [of |-> TypedTable[b][a][l], text |-> text])]
          BY <4>1, <4>4, <4>6
        <4>8. \E i \in DOMAIN TypedTable[b][a] : \E x \in {TypedTable[b][a][i], Unreadable} :
                 /\ Talk!IsNext(a, b, i)
                 /\ ShownTable' = [ShownTable EXCEPT ![a][b] =
                                      Append(ShownTable[a][b], [of |-> TypedTable[b][a][i], text |-> x])]
          BY <4>4, <4>5, <4>7, Zenon
        <4>9. TypedTable' = TypedTable
          BY <4>1
        <4> QED
          BY <4>8, <4>9, Zenon DEF Talk!Show, TypedTable, ShownTable
      <3>5. ASSUME NEW a \in Peers, NEW id, NEW st \in Statuses, RowsMarked(a, id, st)
            PROVE  UNCHANGED <<TypedTable, ShownTable>>
        BY <3>1, <3>5, MarkedEntries
      <3>6. ASSUME NEW a \in Peers, UserSend(a)
            PROVE  \E b \in Others(a), e \in Messages : RowAdded(a, b, e) /\ Types(e)
        BY <1>2, <3>1, <3>6, UserSendRow
      <3>7. ASSUME NEW a \in Peers, UiApply(a)
            PROVE  \/ dbMsgs' = dbMsgs
                   \/ \E b \in Others(a), e \in Messages : RowAdded(a, b, e) /\ Shows(a, b, e)
                   \/ \E id, st : st \in Statuses /\ RowsMarked(a, id, st)
        BY <3>1, <3>7, UiApplyRow
      <3>8. \A a \in Peers : Others(a) \subseteq Peers
        BY DEF Others
      <3>9. \/ UNCHANGED <<TypedTable, ShownTable>>
            \/ \E a, b \in Peers : Talk!Type(a, b) \/ Talk!Show(a, b)
        <4>1. CASE \E a \in Peers : UserSend(a)
          BY <3>3, <3>6, <3>8, <4>1
        <4>2. CASE \E a \in Peers : UiApply(a)
          <5>1. PICK a \in Peers : UiApply(a)
            BY <4>2
          <5>2. CASE dbMsgs' = dbMsgs
            BY <5>2 DEF TypedTable, ShownTable
          <5> QED
            BY <3>4, <3>5, <3>7, <3>8, <5>1, <5>2
        <4>3. CASE dbMsgs' = dbMsgs
          BY <4>3 DEF TypedTable, ShownTable
        <4> QED
          BY <3>1, <4>1, <4>2, <4>3, RowsStep
      <3> QED
        BY <3>9 DEF Talk!Next
    <2> QED
      BY <1>1, <2>1, <2>2, InitTalk, PTL DEF Spec, ImplementsConversation, Talk!Spec, TypedTable, ShownTable
  <1>3. CASE ClockCollides
    BY <1>3
  <1> QED
    BY <1>2, <1>3
=============================================================================
