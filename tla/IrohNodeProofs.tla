--------------------------- MODULE IrohNodeProofs ---------------------------
(* What holds of the network layer for every set of nodes and senders and every
   number of messages, connections, restarts and shutdowns. *)
EXTENDS IrohNode, TLAPS

-----------------------------------------------------------------------------
(* The inductive invariant *)

\* A connection has two different ends, and is open at none but these.
ConnsTyped ==
    /\ conns \in Seq([ends : SUBSET Nodes, open : SUBSET Nodes])
    /\ \A c \in Ids :
          /\ \E p, q \in Nodes : p # q /\ conns[c].ends = {p, q}
          /\ conns[c].open \subseteq conns[c].ends

\* A connection has a stream of numbers in each direction.
StreamsTyped ==
    /\ streams \in Seq([Nodes -> Seq(Nat)])
    /\ Len(streams) = Len(conns)
    /\ written \in [Nodes -> [Nodes -> Nat]]
    /\ rx \in [Nodes -> [Nodes -> Seq(Nat)]]

\* A connection of p, as the accept loop and the listeners of p know them.
Ours(p) == {c \in Ids : p \in conns[c].ends}

\* A cached connection is one to the peer it is cached for.
CacheTyped ==
    /\ cache \in [Nodes -> [Nodes -> Nat]]
    /\ \A p, q \in Nodes : cache[p][q] # 0 => cache[p][q] \in Ids /\ conns[cache[p][q]].ends = {p, q}

\* The accept loop of a node is given connections of that node only.
QueuesTyped ==
    /\ DOMAIN incoming = Nodes /\ DOMAIN registered = Nodes
    /\ \A p \in Nodes : incoming[p] \in Seq(Ours(p)) /\ registered[p] \in Seq(Ours(p))

\* So are its listeners; shutdown ends three things.
LoopsTyped ==
    /\ readers \in [Nodes -> SUBSET Nat]
    /\ \A p \in Nodes : readers[p] \subseteq Ours(p)
    /\ listening \in [Nodes -> SUBSET Nodes]
    /\ ended \in [Nodes -> SUBSET {"token", "loop", "endpoint"}]
    /\ ends \in Nat

\* A sender that has a connection has one between its node and its peer.
Sending(p) ==
    {Idle}
      \cup [pc : {"check", "connect"}, to : Nodes \ {p}, conn : {0}]
      \cup {t \in [pc : {"insert", "register", "write"}, to : Nodes \ {p}, conn : Ids] :
               conns[t.conn].ends = {p, t.to}}

SendersTyped ==
    /\ DOMAIN sender = Nodes
    /\ \A p \in Nodes : sender[p] \in [Senders -> Sending(p)]

\* The peer of a running listener is listed, and has no other running listener.
ListenersKnown ==
    \A p \in Nodes :
       /\ p \notin listening[p]
       /\ \A c \in readers[p] : Other(c, p) \in listening[p]
       /\ \A c, d \in readers[p] : Other(c, p) = Other(d, p) => c = d

\* endpoint.close() leaves no connection open, and none is opened after it.
ClosedIsClosed ==
    \A p \in Nodes : "endpoint" \in ended[p] => \A c \in Ids : p \notin conns[c].open

\* No number is there twice, and none before a smaller one.
Increasing(s) == \A i, j \in DOMAIN s : i < j => s[i] < s[j]

\* On a connection messages stay in the order of writing.
StreamsInOrder ==
    \A c \in Ids : \A q \in conns[c].ends :
       /\ Increasing(streams[c][q])
       /\ \A i \in DOMAIN streams[c][q] : streams[c][q][i] \in 1 .. written[q][Other(c, q)]

\* The process that runs at p has come to know connection c, if it is not forgotten again.
Live(p, c) ==
    \/ p \in conns[c].open
    \/ c \in ToSet(registered[p])
    \/ \E s \in Senders : sender[p][s].conn = c

\* The connections that p reads, or on which a listener may still be started.
MayRead(p, c) == c \in readers[p] \/ (Other(c, p) \notin listening[p] /\ Live(p, c))

\* So is all that was received, and on a connection that a listener reads or may come
\* to read there are only messages that are later.
ReceivedInOrder ==
    /\ \A p, q \in Nodes :
          /\ Increasing(rx[p][q])
          /\ \A i \in DOMAIN rx[p][q] : rx[p][q][i] \in 1 .. written[q][p]
    /\ \A c \in Ids : \A p \in conns[c].ends :
          LET q == Other(c, p)
          IN  MayRead(p, c) =>
                 \A i \in DOMAIN rx[p][q], j \in DOMAIN streams[c][q] : rx[p][q][i] < streams[c][q][j]

\* A listener has at most one message in hand.
HandsKnown ==
    /\ hand \in [Nodes -> SUBSET [conn : Nat, n : Nat]]
    /\ \A p \in Nodes : \A h \in hand[p] :
          h.conn \in readers[p] /\ \A g \in hand[p] : g.conn = h.conn => g = h

\* It is later than all that was received, and earlier than all that waits.
HandsInOrder ==
    \A p \in Nodes : \A h \in hand[p] :
       LET q == Other(h.conn, p)
       IN  /\ h.n \in 1 .. written[q][p]
           /\ \A i \in DOMAIN rx[p][q] : rx[p][q][i] < h.n
           /\ \A j \in DOMAIN streams[h.conn][q] : h.n < streams[h.conn][q][j]

\* The inductive invariant.
Inv ==
    /\ ConnsTyped /\ StreamsTyped /\ CacheTyped /\ QueuesTyped /\ LoopsTyped /\ SendersTyped
    /\ ListenersKnown
    /\ ClosedIsClosed
    /\ StreamsInOrder
    /\ ReceivedInOrder
    /\ HandsKnown /\ HandsInOrder

-----------------------------------------------------------------------------
(* The operators *)

\* The other end of a connection of p is a node, and not p.
LEMMA OtherEnd ==
    ASSUME ConnsTyped, NEW c \in Ids, NEW p \in conns[c].ends
    PROVE  /\ Other(c, p) \in Nodes \ {p} /\ p \in Nodes
           /\ conns[c].ends = {p, Other(c, p)}
           /\ Other(c, Other(c, p)) = p
  <1>1. PICK q \in Nodes : p \in Nodes /\ p # q /\ conns[c].ends = {p, q}
    BY DEF ConnsTyped
  <1>2. Other(c, p) = q /\ Other(c, q) = p
    BY <1>1 DEF Other
  <1> QED
    BY <1>1, <1>2

\* A sequence over a set is one over every larger set.
LEMMA SeqWidens ==
    ASSUME NEW S, NEW T, S \subseteq T, NEW s \in Seq(S)
    PROVE  s \in Seq(T)
  OBVIOUS

\* What a sequence over a set holds.
LEMMA SeqElement ==
    ASSUME NEW S, NEW s \in Seq(S), NEW i \in DOMAIN s
    PROVE  s[i] \in S
  OBVIOUS

\* Head and tail of a sequence over a set.
LEMMA TailTyped ==
    ASSUME NEW S, NEW s \in Seq(S), s # <<>>
    PROVE  /\ Head(s) \in S /\ Tail(s) \in Seq(S)
           /\ Head(s) = s[1] /\ Len(Tail(s)) = Len(s) - 1
           /\ \A i \in DOMAIN Tail(s) : i + 1 \in DOMAIN s /\ Tail(s)[i] = s[i + 1]
  OBVIOUS

\* Appending to a sequence over a set.
LEMMA AppendTyped ==
    ASSUME NEW S, NEW s \in Seq(S), NEW e \in S
    PROVE  /\ Append(s, e) \in Seq(S) /\ Len(Append(s, e)) = Len(s) + 1
           /\ DOMAIN Append(s, e) = DOMAIN s \cup {Len(s) + 1}
           /\ Append(s, e)[Len(s) + 1] = e
           /\ \A i \in DOMAIN s : Append(s, e)[i] = s[i]
  OBVIOUS

\* One entry of a table by two nodes changes.
LEMMA EntryTyped ==
    ASSUME NEW T, NEW f \in [Nodes -> [Nodes -> T]], NEW p \in Nodes, NEW q \in Nodes, NEW v \in T,
           NEW g, g = [f EXCEPT ![p][q] = v]
    PROVE  /\ g \in [Nodes -> [Nodes -> T]]
           /\ \A r, z \in Nodes : g[r][z] = IF r = p /\ z = q THEN v ELSE f[r][z]
  OBVIOUS

\* One direction of one connection changes.
LEMMA DirectionTyped ==
    ASSUME NEW f \in Seq([Nodes -> Seq(Nat)]), NEW c \in DOMAIN f, NEW p \in Nodes, NEW v \in Seq(Nat)
    PROVE  LET g == [f EXCEPT ![c][p] = v]
           IN  /\ g \in Seq([Nodes -> Seq(Nat)]) /\ Len(g) = Len(f) /\ DOMAIN g = DOMAIN f
               /\ \A d \in DOMAIN f, r \in Nodes : g[d][r] = IF d = c /\ r = p THEN v ELSE f[d][r]
  <1> DEFINE T == Seq(Nat)
             g == [f EXCEPT ![c][p] = v]
  <1>1. v \in T /\ f \in Seq([Nodes -> T])
    OBVIOUS
  <1> HIDE DEF T
  <1>2. f[c] \in [Nodes -> T] /\ [f[c] EXCEPT ![p] = v] \in [Nodes -> T]
    BY <1>1
  <1>3. /\ g \in Seq([Nodes -> T]) /\ Len(g) = Len(f) /\ DOMAIN g = DOMAIN f
        /\ \A d \in DOMAIN f : g[d] = IF d = c THEN [f[c] EXCEPT ![p] = v] ELSE f[d]
    BY <1>1, <1>2
  <1>4. \A d \in DOMAIN f, r \in Nodes : g[d][r] = IF d = c /\ r = p THEN v ELSE f[d][r]
    BY <1>1, <1>2, <1>3
  <1> QED
    BY <1>3, <1>4 DEF T

\* A last number that is larger than all before keeps the order.
LEMMA IncreasingAppend ==
    ASSUME NEW s \in Seq(Nat), NEW n \in Nat, Increasing(s), \A i \in DOMAIN s : s[i] < n
    PROVE  Increasing(Append(s, n))
  <1>1. \A i, j \in DOMAIN Append(s, n) : i < j => i \in DOMAIN s
    OBVIOUS
  <1> QED
    BY <1>1, AppendTyped DEF Increasing

\* What comes after the first number is larger, and still in order.
LEMMA IncreasingTail ==
    ASSUME NEW s \in Seq(Nat), Increasing(s), s # <<>>
    PROVE  Increasing(Tail(s)) /\ \A i \in DOMAIN Tail(s) : Head(s) < Tail(s)[i]
  <1>1. \A i \in DOMAIN Tail(s) : i \in Nat /\ 1 < i + 1 /\ 1 \in DOMAIN s
    OBVIOUS
  <1> QED
    BY <1>1, TailTyped, SMTT(60) DEF Increasing

-----------------------------------------------------------------------------
(* Senders *)

\* Before anything is sent the invariant holds.
LEMMA InitInv == Init => Inv
  <1> SUFFICES ASSUME Init PROVE Inv
    OBVIOUS
  <1> USE DEF Init, Ids
  <1>1. ConnsTyped /\ StreamsTyped
    BY DEF ConnsTyped, StreamsTyped
  <1>2. CacheTyped /\ QueuesTyped /\ LoopsTyped
    BY DEF CacheTyped, QueuesTyped, LoopsTyped, Ours
  <1>3. SendersTyped
    BY DEF SendersTyped, Sending
  <1>4. ListenersKnown /\ ClosedIsClosed /\ StreamsInOrder /\ ReceivedInOrder
    BY DEF ListenersKnown, ClosedIsClosed, StreamsInOrder, ReceivedInOrder, Increasing
  <1>5. HandsKnown /\ HandsInOrder
    BY DEF HandsKnown, HandsInOrder
  <1> QED
    BY <1>1, <1>2, <1>3, <1>4, <1>5 DEF Inv

\* Connections are closed at some of their ends, or none.
ConnsClose ==
    /\ DOMAIN conns' = Ids /\ conns' \in Seq([ends : SUBSET Nodes, open : SUBSET Nodes])
    /\ \A c \in Ids : conns'[c].ends = conns[c].ends /\ conns'[c].open \subseteq conns[c].open

\* Also when none is closed.
LEMMA NoneClosed ==
    ASSUME Inv, UNCHANGED conns
    PROVE  ConnsClose
  BY DEF Inv, ConnsTyped, ConnsClose, Ids

\* What keeps its type as long as no connection is opened.
LEMMA KeptTypes ==
    ASSUME Inv, ConnsClose
    PROVE  /\ ConnsTyped' /\ Ids' = Ids /\ \A c \in Ids, p \in Nodes : Other(c, p)' = Other(c, p)
           /\ \A p \in Nodes : Ours(p)' = Ours(p) /\ Sending(p)' = Sending(p)
           /\ UNCHANGED cache => CacheTyped'
           /\ UNCHANGED <<incoming, registered>> => QueuesTyped'
           /\ UNCHANGED <<listening, readers, ended, ends>> => LoopsTyped'
           /\ UNCHANGED sender => SendersTyped'
  <1>1. /\ Ids' = Ids
        /\ \A c \in Ids : conns'[c].ends = conns[c].ends /\ conns'[c].open \subseteq conns[c].open
    BY DEF ConnsClose, Ids
  <1>2. ConnsTyped'
    BY <1>1 DEF Inv, ConnsTyped, ConnsClose
  <1>3. \A c \in Ids, p \in Nodes : Other(c, p)' = Other(c, p)
    BY <1>1 DEF Other
  <1>4. \A p \in Nodes : Ours(p)' = Ours(p) /\ Sending(p)' = Sending(p)
    BY <1>1 DEF Ours, Sending
  <1>5. UNCHANGED cache => CacheTyped'
    <2>1. CacheTyped
      BY DEF Inv
    <2>2. ASSUME UNCHANGED cache, NEW p \in Nodes, NEW q \in Nodes, cache'[p][q] # 0
          PROVE  cache'[p][q] \in Ids' /\ conns'[cache'[p][q]].ends = {p, q}
      <3>1. cache[p][q] \in Ids /\ conns[cache[p][q]].ends = {p, q}
        BY <2>1, <2>2 DEF CacheTyped
      <3> QED
        BY <1>1, <2>2, <3>1
    <2> QED
      BY <2>1, <2>2 DEF CacheTyped
  <1>6. UNCHANGED <<incoming, registered>> => QueuesTyped'
    BY <1>4 DEF Inv, QueuesTyped
  <1>7. UNCHANGED <<listening, readers, ended, ends>> => LoopsTyped'
    BY <1>4 DEF Inv, LoopsTyped
  <1>8. UNCHANGED sender => SendersTyped'
    BY <1>4 DEF Inv, SendersTyped
  <1> QED
    BY <1>1, <1>2, <1>3, <1>4, <1>5, <1>6, <1>7, <1>8

\* What is received stays in order as long as no other connection may be read.
LEMMA OrderKept ==
    ASSUME Inv, ConnsClose, UNCHANGED <<streams, written, rx>>,
           \A c \in Ids : \A p \in conns[c].ends : MayRead(p, c)' => MayRead(p, c)
    PROVE  ReceivedInOrder'
  <1>1. /\ Ids' = Ids /\ \A c \in Ids, p \in Nodes : Other(c, p)' = Other(c, p)
        /\ \A c \in Ids : conns'[c].ends = conns[c].ends
    BY KeptTypes DEF ConnsClose
  <1>2. \A c \in Ids : conns[c].ends \subseteq Nodes
    BY DEF Inv, ConnsTyped
  <1>3. ASSUME NEW c \in Ids', NEW p \in conns'[c].ends, MayRead(p, c)',
               NEW i \in DOMAIN rx'[p][Other(c, p)'], NEW j \in DOMAIN streams'[c][Other(c, p)']
        PROVE  rx'[p][Other(c, p)'][i] < streams'[c][Other(c, p)'][j]
    <2>1. c \in Ids /\ p \in conns[c].ends /\ p \in Nodes /\ Other(c, p)' = Other(c, p)
      BY <1>1, <1>2, <1>3
    <2>2. MayRead(p, c)
      BY <1>3, <2>1
    <2> QED
      BY <1>3, <2>1, <2>2 DEF Inv, ReceivedInOrder
  <1>4. \A p, q \in Nodes : /\ Increasing(rx'[p][q])
                            /\ \A i \in DOMAIN rx'[p][q] : rx'[p][q][i] \in 1 .. written'[q][p]
    BY DEF Inv, ReceivedInOrder
  <1> QED
    BY <1>3, <1>4 DEF ReceivedInOrder

\* What a step keeps that opens no connection and moves no message or listener.
LEMMA QuietStep ==
    ASSUME Inv, ConnsClose, UNCHANGED <<streams, written, rx>>
    PROVE  /\ StreamsTyped' /\ StreamsInOrder'
           /\ UNCHANGED <<listening, readers>> => ListenersKnown'
           /\ UNCHANGED <<listening, readers, registered, sender>> => ReceivedInOrder'
           /\ UNCHANGED ended => ClosedIsClosed'
           /\ UNCHANGED hand => HandsInOrder'
           /\ UNCHANGED <<readers, hand>> => HandsKnown'
  <1>1. /\ Ids' = Ids /\ \A c \in Ids, p \in Nodes : Other(c, p)' = Other(c, p)
        /\ \A c \in Ids : conns'[c].ends = conns[c].ends /\ conns'[c].open \subseteq conns[c].open
    BY KeptTypes DEF ConnsClose
  <1>2. \A c \in Ids : conns[c].ends \subseteq Nodes /\ conns[c].open \subseteq Nodes
    BY DEF Inv, ConnsTyped
  <1>3. StreamsTyped'
    <2>1. Len(conns') = Len(conns)
      BY DEF ConnsClose, Inv, ConnsTyped, Ids
    <2> QED
      BY <2>1 DEF Inv, StreamsTyped
  <1>4. StreamsInOrder'
    BY <1>1, <1>2 DEF Inv, StreamsInOrder
  <1>5. UNCHANGED <<listening, readers>> => ListenersKnown'
    BY <1>1 DEF Inv, ListenersKnown, LoopsTyped, Ours
  <1>6. UNCHANGED <<listening, readers, registered, sender>> => ReceivedInOrder'
    <2> SUFFICES ASSUME UNCHANGED <<listening, readers, registered, sender>>
                 PROVE  ReceivedInOrder'
      OBVIOUS
    <2>1. ASSUME NEW c \in Ids, NEW p \in conns[c].ends, MayRead(p, c)' PROVE MayRead(p, c)
      BY <1>1, <1>2, <2>1 DEF MayRead, Live
    <2> QED
      BY <2>1, OrderKept
  <1>7. UNCHANGED ended => ClosedIsClosed'
    BY <1>1 DEF Inv, ClosedIsClosed
  <1>8. UNCHANGED hand => HandsInOrder'
    <2>1. \A p \in Nodes : \A h \in hand[p] : h.conn \in Ids
      BY DEF Inv, HandsKnown, LoopsTyped, Ours
    <2> QED
      BY <1>1, <2>1 DEF Inv, HandsInOrder
  <1>9. UNCHANGED <<readers, hand>> => HandsKnown'
    BY DEF Inv, HandsKnown
  <1> QED
    BY <1>3, <1>4, <1>5, <1>6, <1>7, <1>8, <1>9

\* A sender that is not idle has a peer, and a connection to it from "insert" on.
LEMMA SenderState ==
    ASSUME SendersTyped, NEW p \in Nodes, NEW s \in Senders, sender[p][s].pc # "idle"
    PROVE  /\ sender[p][s].to \in Nodes \ {p}
           /\ sender[p][s] = [pc |-> sender[p][s].pc, to |-> sender[p][s].to, conn |-> sender[p][s].conn]
           /\ sender[p][s].pc \in {"check", "connect"} => sender[p][s].conn = 0
           /\ sender[p][s].pc \notin {"check", "connect"} =>
                 /\ sender[p][s].pc \in {"insert", "register", "write"}
                 /\ sender[p][s].conn \in Ids
                 /\ conns[sender[p][s].conn].ends = {p, sender[p][s].to}
  <1>1. sender[p][s] \in Sending(p)
    BY DEF SendersTyped
  <1> QED
    BY <1>1 DEF Sending, Idle

\* One sender moves on.
LEMMA SenderMoves ==
    ASSUME SendersTyped, NEW p \in Nodes, NEW s \in Senders, NEW t, t \in Sending(p)',
           \A r \in Nodes : Sending(r) \subseteq Sending(r)',
           sender' = [sender EXCEPT ![p][s] = t]
    PROVE  SendersTyped'
  <1>1. \A r \in Nodes : sender[r] \in [Senders -> Sending(r)']
    BY DEF SendersTyped
  <1>2. \A r \in Nodes : sender'[r] = IF r = p THEN [sender[p] EXCEPT ![s] = t] ELSE sender[r]
    BY DEF SendersTyped
  <1>3. [sender[p] EXCEPT ![s] = t] \in [Senders -> Sending(p)']
    BY <1>1
  <1> QED
    BY <1>1, <1>2, <1>3 DEF SendersTyped

\* An entry of the cache is replaced by a connection to the same peer.
LEMMA CacheInsert ==
    ASSUME ConnsTyped, CacheTyped, NEW p \in Nodes, NEW q \in Nodes, NEW c \in Ids,
           conns[c].ends = {p, q}, UNCHANGED conns,
           cache' = [cache EXCEPT ![p][q] = c]
    PROVE  CacheTyped'
  <1>1. c \in Nat
    BY DEF Ids, ConnsTyped
  <1>2. cache \in [Nodes -> [Nodes -> Nat]]
    BY DEF CacheTyped
  <1>3. \A r, z \in Nodes : cache'[r][z] = IF r = p /\ z = q THEN c ELSE cache[r][z]
    BY <1>2
  <1>4. cache' \in [Nodes -> [Nodes -> Nat]]
    BY <1>1, <1>2
  <1>5. Ids' = Ids
    BY DEF Ids
  <1>6. ASSUME NEW r \in Nodes, NEW z \in Nodes, cache'[r][z] # 0
        PROVE  cache'[r][z] \in Ids /\ conns[cache'[r][z]].ends = {r, z}
    <2>1. CASE r = p /\ z = q
      BY <1>3, <2>1
    <2>2. CASE ~(r = p /\ z = q)
      <3>1. cache'[r][z] = cache[r][z]
        BY <1>3, <2>2
      <3> QED
        BY <1>6, <3>1 DEF CacheTyped
    <2> QED
      BY <2>1, <2>2
  <1> QED
    BY <1>4, <1>5, <1>6 DEF CacheTyped

\* A connection enters a queue of the accept loop.
LEMMA QueueAppend ==
    ASSUME NEW Q, DOMAIN Q = Nodes, \A r \in Nodes : Q[r] \in Seq(Ours(r)),
           NEW p \in Nodes, NEW c \in Ours(p),
           NEW R, R = [Q EXCEPT ![p] = Append(@, c)]
    PROVE  DOMAIN R = Nodes /\ \A r \in Nodes : R[r] \in Seq(Ours(r))
  <1>1. Append(Q[p], c) \in Seq(Ours(p))
    BY AppendTyped
  <1>2. \A r \in Nodes : R[r] = IF r = p THEN Append(Q[p], c) ELSE Q[r]
    OBVIOUS
  <1> QED
    BY <1>1, <1>2

\* A sender only takes connections that are open, and only registers its own.
LEMMA SendersKnow ==
    ASSUME Inv, NEW p \in Nodes, NEW s \in Senders,
           \/ \E q \in Nodes : SendStart(p, s, q)
           \/ CheckCache(p, s) \/ ConnectFails(p, s) \/ InsertConn(p, s) \/ RegisterConn(p, s)
           \/ Write(p, s),
           NEW d \in Ids, NEW r \in Nodes, Live(r, d)'
    PROVE  Live(r, d)
  <1>1. /\ UNCHANGED conns /\ d # 0
        /\ registered' # registered => RegisterConn(p, s)
    BY DEF SendStart, CheckCache, ConnectFails, InsertConn, RegisterConn, Write, Inv, ConnsTyped, Ids
  <1>2. ASSUME d \in ToSet(registered'[r]), d \notin ToSet(registered[r])
        PROVE  r = p /\ d = sender[p][s].conn
    <2>1. registered' = [registered EXCEPT ![p] = Append(@, sender[p][s].conn)]
      BY <1>1, <1>2 DEF RegisterConn
    <2>2. registered[p] \in Seq(Ours(p)) /\ DOMAIN registered = Nodes /\ sender[p][s].conn \in Ours(p)
      <3>1. sender[p][s].pc = "register"
        BY <1>1, <1>2 DEF RegisterConn
      <3>2. SendersTyped /\ QueuesTyped
        BY DEF Inv
      <3>3. sender[p][s].conn \in Ids /\ conns[sender[p][s].conn].ends = {p, sender[p][s].to}
        BY <3>1, <3>2, SenderState
      <3>4. sender[p][s].conn \in Ours(p)
        BY <3>3 DEF Ours
      <3> QED
        BY <3>2, <3>4 DEF QueuesTyped
    <2>3. r = p
      BY <1>2, <2>1, <2>2
    <2> QED
      BY <1>2, <2>1, <2>2, <2>3, AppendTyped DEF ToSet
  <1>3. ASSUME NEW z \in Senders, sender'[r][z].conn = d, sender[r][z].conn # d
        PROVE  r \in conns[d].open
    <2>1. DOMAIN sender = Nodes /\ \A x \in Nodes : DOMAIN sender[x] = Senders
      BY DEF Inv, SendersTyped
    <2>2. ASSUME NEW t, sender' = [sender EXCEPT ![p][s] = t] PROVE r = p /\ z = s /\ t.conn = d
      BY <1>3, <2>1, <2>2
    <2>3. CASE \E q \in Nodes : SendStart(p, s, q)
      <3>1. PICK q, t : t = [pc |-> "check", to |-> q, conn |-> 0] /\ sender' = [sender EXCEPT ![p][s] = t]
        BY <2>3 DEF SendStart
      <3>2. t.conn = 0
        BY <3>1
      <3> QED
        BY <1>1, <2>2, <3>1, <3>2
    <2>4. CASE ConnectFails(p, s) \/ Write(p, s)
      BY <1>1, <2>2, <2>4 DEF ConnectFails, Write, Idle
    <2>5. CASE InsertConn(p, s)
      <3>1. PICK t : t = [sender[p][s] EXCEPT !.pc = "register"]
        OBVIOUS
      <3>2. sender[p][s] = [pc |-> "insert", to |-> sender[p][s].to, conn |-> sender[p][s].conn]
        BY <2>5, SenderState DEF InsertConn, Inv
      <3>3. t.conn = sender[p][s].conn
        BY <3>1, <3>2
      <3>4. sender' = [sender EXCEPT ![p][s] = t]
        BY <2>5, <3>1 DEF InsertConn
      <3> QED
        BY <1>3, <2>2, <3>3, <3>4
    <2>6. CASE RegisterConn(p, s)
      <3>1. PICK t : t = [sender[p][s] EXCEPT !.pc = "write"]
        OBVIOUS
      <3>2. sender[p][s] = [pc |-> "register", to |-> sender[p][s].to, conn |-> sender[p][s].conn]
        BY <2>6, SenderState DEF RegisterConn, Inv
      <3>3. t.conn = sender[p][s].conn
        BY <3>1, <3>2
      <3>4. sender' = [sender EXCEPT ![p][s] = t]
        BY <2>6, <3>1 DEF RegisterConn
      <3> QED
        BY <1>3, <2>2, <3>3, <3>4
    <2>7. CASE CheckCache(p, s)
      <3>1. PICK c : c = cache[p][sender[p][s].to]
        OBVIOUS
      <3>2. sender[p][s] = [pc |-> "check", to |-> sender[p][s].to, conn |-> 0]
        BY <2>7, SenderState, ZenonT(60) DEF CheckCache, Inv
      <3>3. CASE c # 0 /\ Open(c, p)
        <4>1. PICK t : t = [[sender[p][s] EXCEPT !.pc = "write"] EXCEPT !.conn = c]
          OBVIOUS
        <4>2. sender' = [sender EXCEPT ![p][s] = t]
          BY <2>7, <3>1, <3>3, <4>1 DEF CheckCache
        <4>3. t.conn = c
          BY <3>2, <4>1
        <4>4. d = c /\ r = p
          BY <2>2, <4>2, <4>3
        <4> QED
          BY <3>3, <4>4 DEF Open
      <3>4. CASE ~(c # 0 /\ Open(c, p))
        <4>1. PICK t : t = [sender[p][s] EXCEPT !.pc = "connect"]
          OBVIOUS
        <4>2. sender' = [sender EXCEPT ![p][s] = t]
          BY <2>7, <3>1, <3>4, <4>1 DEF CheckCache
        <4>3. t.conn = 0
          BY <3>2, <4>1
        <4> QED
          BY <1>1, <2>2, <4>2, <4>3
      <3> QED
        BY <3>3, <3>4
    <2> QED
      BY <2>3, <2>4, <2>5, <2>6, <2>7
  <1> QED
    BY <1>1, <1>2, <1>3 DEF Live

\* The steps of send_to_peer that touch no stream.
LEMMA SenderSteps ==
    ASSUME Inv, NEW p \in Nodes, NEW s \in Senders,
           \/ \E q \in Nodes : SendStart(p, s, q)
           \/ CheckCache(p, s) \/ ConnectFails(p, s) \/ InsertConn(p, s) \/ RegisterConn(p, s)
    PROVE  Inv'
  <1> DEFINE q == sender[p][s].to
             c == sender[p][s].conn
  <1>1. SendersTyped /\ CacheTyped /\ QueuesTyped /\ LoopsTyped
    BY DEF Inv
  <1>2. /\ UNCHANGED <<conns, streams, listening, readers, hand, written, rx, ended, ends, incoming>>
    BY DEF SendStart, CheckCache, ConnectFails, InsertConn, RegisterConn
  <1>3. /\ ConnsTyped' /\ StreamsTyped' /\ LoopsTyped' /\ ListenersKnown' /\ ClosedIsClosed'
        /\ StreamsInOrder' /\ ReceivedInOrder' /\ HandsKnown' /\ HandsInOrder'
        /\ \A r \in Nodes : Ours(r)' = Ours(r) /\ Sending(r)' = Sending(r)
    <2>1. ASSUME NEW d \in Ids, NEW r \in conns[d].ends, MayRead(r, d)' PROVE MayRead(r, d)
      <3>1. r \in Nodes /\ (Live(r, d)' => Live(r, d)) /\ Other(d, r)' = Other(d, r)
        BY <1>2, SendersKnow DEF Inv, ConnsTyped, Other
      <3> QED
        BY <1>2, <2>1, <3>1 DEF MayRead
    <2>2. ReceivedInOrder'
      BY <1>2, <2>1, NoneClosed, OrderKept
    <2> QED
      BY <1>2, <2>2, NoneClosed, QuietStep, KeptTypes
  <1>4. ASSUME NEW r \in Nodes, SendStart(p, s, r) PROVE Inv'
    <2>1. [pc |-> "check", to |-> r, conn |-> 0] \in Sending(p)
      BY <1>4 DEF SendStart, Sending
    <2>2. SendersTyped'
      BY <1>1, <1>3, <1>4, <2>1, SenderMoves DEF SendStart
    <2>3. CacheTyped' /\ QueuesTyped'
      BY <1>2, <1>4, NoneClosed, KeptTypes DEF SendStart
    <2> QED
      BY <1>3, <2>2, <2>3 DEF Inv
  <1>5. CASE CheckCache(p, s)
    <2> DEFINE d == cache[p][q]
               t == IF d # 0 /\ Open(d, p)
                    THEN [sender[p][s] EXCEPT !.pc = "write", !.conn = d]
                    ELSE [sender[p][s] EXCEPT !.pc = "connect"]
    <2>1. sender' = [sender EXCEPT ![p][s] = t]
      BY <1>5 DEF CheckCache
    <2>2. t \in Sending(p)
      <3>1. q \in Nodes \ {p} /\ sender[p][s] = [pc |-> "check", to |-> q, conn |-> 0]
        BY <1>1, <1>5, SenderState, ZenonT(60) DEF CheckCache
      <3>2. CASE d # 0 /\ Open(d, p)
        <4>1. t = [pc |-> "write", to |-> q, conn |-> d]
          BY <3>1, <3>2
        <4>2. d \in Ids /\ conns[d].ends = {p, q}
          BY <1>1, <3>1, <3>2 DEF CacheTyped
        <4> QED
          BY <3>1, <4>1, <4>2 DEF Sending
      <3>3. CASE ~(d # 0 /\ Open(d, p))
        <4>1. t = [pc |-> "connect", to |-> q, conn |-> 0]
          BY <3>1, <3>3
        <4> QED
          BY <3>1, <4>1 DEF Sending
      <3> QED
        BY <3>2, <3>3
    <2> HIDE DEF t
    <2>3. SendersTyped'
      BY <1>1, <1>3, <2>1, <2>2, SenderMoves
    <2>4. CacheTyped' /\ QueuesTyped'
      BY <1>2, <1>5, NoneClosed, KeptTypes DEF CheckCache
    <2> QED
      BY <1>3, <2>3, <2>4 DEF Inv
  <1>6. CASE ConnectFails(p, s)
    <2>1. Idle \in Sending(p)
      BY DEF Sending
    <2>2. SendersTyped'
      BY <1>1, <1>3, <1>6, <2>1, SenderMoves DEF ConnectFails
    <2>3. CacheTyped' /\ QueuesTyped'
      BY <1>2, <1>6, NoneClosed, KeptTypes DEF ConnectFails
    <2> QED
      BY <1>3, <2>2, <2>3 DEF Inv
  <1>7. CASE InsertConn(p, s)
    <2> DEFINE t == [sender[p][s] EXCEPT !.pc = "register"]
    <2>1. sender' = [sender EXCEPT ![p][s] = t]
      BY <1>7 DEF InsertConn
    <2>2. /\ q \in Nodes /\ c \in Ids /\ conns[c].ends = {p, q} /\ q # p
          /\ sender[p][s] = [pc |-> "insert", to |-> q, conn |-> c]
      BY <1>1, <1>7, SenderState DEF InsertConn
    <2>3. t = [pc |-> "register", to |-> q, conn |-> c]
      BY <2>2
    <2>4. t \in Sending(p)
      BY <2>2, <2>3 DEF Sending
    <2> HIDE DEF t
    <2>5. SendersTyped'
      BY <1>1, <1>3, <2>1, <2>4, SenderMoves
    <2>6. cache' = [cache EXCEPT ![p][q] = c] /\ UNCHANGED registered
      BY <1>7 DEF InsertConn
    <2>7. CacheTyped'
      BY <1>1, <1>2, <2>2, <2>6, CacheInsert DEF Inv
    <2>8. QueuesTyped'
      BY <1>2, <2>6, NoneClosed, KeptTypes
    <2> QED
      BY <1>3, <2>5, <2>7, <2>8 DEF Inv
  <1>8. CASE RegisterConn(p, s)
    <2> DEFINE t == [sender[p][s] EXCEPT !.pc = "write"]
    <2>1. sender' = [sender EXCEPT ![p][s] = t]
      BY <1>8 DEF RegisterConn
    <2>2. /\ q \in Nodes /\ c \in Ids /\ conns[c].ends = {p, q} /\ q # p
          /\ sender[p][s] = [pc |-> "register", to |-> q, conn |-> c]
      BY <1>1, <1>8, SenderState DEF RegisterConn
    <2>3. t = [pc |-> "write", to |-> q, conn |-> c]
      BY <2>2
    <2>4. t \in Sending(p)
      BY <2>2, <2>3 DEF Sending
    <2> HIDE DEF t
    <2>5. SendersTyped'
      BY <1>1, <1>3, <2>1, <2>4, SenderMoves
    <2>6. UNCHANGED cache
          /\ registered' \in {registered, [registered EXCEPT ![p] = Append(@, c)]}
      BY <1>1, <1>8 DEF RegisterConn
    <2>7. c \in Ours(p)
      BY <2>2 DEF Ours
    <2>8. DOMAIN registered' = Nodes /\ \A r \in Nodes : registered'[r] \in Seq(Ours(r))
      BY <1>1, <2>6, <2>7, QueueAppend DEF QueuesTyped
    <2>9. CacheTyped'
      BY <1>2, <2>6, NoneClosed, KeptTypes
    <2>10. QueuesTyped'
      BY <1>1, <1>2, <1>3, <2>8 DEF QueuesTyped
    <2> QED
      BY <1>3, <2>5, <2>9, <2>10 DEF Inv
  <1> QED
    BY <1>4, <1>5, <1>6, <1>7, <1>8
-----------------------------------------------------------------------------
(* Messages *)

\* A message is written as the last one of its connection, and has the highest number.
LEMMA WriteStep ==
    ASSUME Inv, NEW p \in Nodes, NEW s \in Senders, Write(p, s)
    PROVE  Inv'
  <1> DEFINE q == sender[p][s].to
             c == sender[p][s].conn
             n == written[p][q] + 1
  <1>1. /\ ConnsTyped' /\ CacheTyped' /\ QueuesTyped' /\ LoopsTyped'
        /\ \A r \in Nodes : Ours(r)' = Ours(r) /\ Sending(r)' = Sending(r)
        /\ Ids' = Ids /\ \A d \in Ids, r \in Nodes : Other(d, r)' = Other(d, r)
    BY NoneClosed, KeptTypes DEF Write
  <1>2. SendersTyped'
    <2>1. sender' = [sender EXCEPT ![p][s] = Idle]
      BY DEF Write
    <2>2. Idle \in Sending(p)
      BY DEF Sending
    <2> QED
      BY <1>1, <2>1, <2>2, SenderMoves DEF Inv
  <1>3. ASSUME NEW d \in Ids, NEW r \in conns[d].ends, MayRead(r, d)' PROVE MayRead(r, d)
    <2>1. r \in Nodes /\ (Live(r, d)' => Live(r, d)) /\ Other(d, r)' = Other(d, r)
      BY <1>1, SendersKnow DEF Inv, ConnsTyped
    <2> QED
      BY <1>3, <2>1 DEF MayRead, Write
  <1>4. CASE ~Open(c, p)
    <2>1. UNCHANGED <<conns, streams, written, rx, hand, readers, listening, ended>>
      BY <1>4 DEF Write
    <2>2. ReceivedInOrder'
      BY <1>3, <2>1, NoneClosed, OrderKept
    <2> QED
      BY <1>1, <1>2, <2>1, <2>2, NoneClosed, QuietStep DEF Inv
  <1>5. q \in Nodes \ {p} /\ c \in Ids /\ conns[c].ends = {p, q}
    BY SenderState DEF Write, Inv
  <1>6. CASE Open(c, p) /\ ~Open(c, q)
    <2>1. /\ written' = [written EXCEPT ![p][q] = n]
          /\ UNCHANGED <<conns, streams, listening, readers, hand, rx, ended>>
      BY <1>6 DEF Write
    <2>2. written \in [Nodes -> [Nodes -> Nat]] /\ n \in Nat /\ written[p][q] \in Nat
      BY <1>5, SMTT(60) DEF Inv, StreamsTyped
    <2>3. /\ written' \in [Nodes -> [Nodes -> Nat]]
          /\ \A r, z \in Nodes : written'[r][z] = IF r = p /\ z = q THEN n ELSE written[r][z]
      BY <1>5, <2>1, <2>2, EntryTyped
    <2>4. \A r, z \in Nodes : written[r][z] \in Nat /\ written'[r][z] \in Nat /\ written[r][z] <= written'[r][z]
      BY <1>5, <2>2, <2>3
    <2>5. StreamsTyped' /\ ListenersKnown' /\ ClosedIsClosed'
      <3>1. StreamsTyped'
        BY <2>1, <2>3 DEF Inv, StreamsTyped
      <3>2. ListenersKnown' /\ ClosedIsClosed'
        BY <1>1, <2>1 DEF Inv, ListenersKnown, ClosedIsClosed, LoopsTyped, Ours
      <3> QED
        BY <3>1, <3>2
    <2>6. StreamsInOrder'
      <3>1. ASSUME NEW d \in Ids, NEW r \in conns[d].ends
            PROVE  /\ Increasing(streams[d][r])
                   /\ \A i \in DOMAIN streams[d][r] : streams[d][r][i] \in 1 .. written'[r][Other(d, r)]
        <4>1. r \in Nodes /\ Other(d, r) \in Nodes
          BY OtherEnd DEF Inv
        <4>2. /\ written[r][Other(d, r)] \in Nat /\ written'[r][Other(d, r)] \in Nat
              /\ written[r][Other(d, r)] <= written'[r][Other(d, r)]
          BY <2>4, <4>1
        <4> QED
          BY <4>2 DEF Inv, StreamsInOrder
      <3>2. \A d \in Ids : \A r \in conns[d].ends : Other(d, r)' = Other(d, r)
        BY <1>1 DEF Inv, ConnsTyped
      <3> QED
        BY <1>1, <2>1, <3>1, <3>2 DEF StreamsInOrder
    <2>7. ReceivedInOrder'
      <3>1. \A r, z \in Nodes : /\ Increasing(rx[r][z])
                                /\ \A i \in DOMAIN rx[r][z] : rx[r][z][i] \in 1 .. written'[z][r]
        BY <2>4 DEF Inv, ReceivedInOrder
      <3>2. \A d \in Ids : \A r \in conns[d].ends : Other(d, r)' = Other(d, r)
        BY <1>1 DEF Inv, ConnsTyped
      <3> QED
        BY <1>1, <1>3, <2>1, <3>1, <3>2 DEF Inv, ReceivedInOrder
    <2>8. HandsKnown'
      BY <2>1 DEF Inv, HandsKnown
    <2>9. HandsInOrder'
      <3>1. ASSUME NEW r \in Nodes, NEW h \in hand[r]
            PROVE  Other(h.conn, r)' = Other(h.conn, r) /\ h.n \in 1 .. written'[Other(h.conn, r)][r]
        <4>1. h.conn \in Ids /\ r \in conns[h.conn].ends
          BY DEF Inv, HandsKnown, LoopsTyped, Ours
        <4>2. Other(h.conn, r) \in Nodes
          BY <4>1, OtherEnd DEF Inv
        <4>3. h.n \in 1 .. written[Other(h.conn, r)][r]
          BY DEF Inv, HandsInOrder
        <4> QED
          BY <1>1, <2>4, <4>1, <4>2, <4>3
      <3> QED
        BY <2>1, <3>1 DEF Inv, HandsInOrder
    <2> QED
      BY <1>1, <1>2, <2>5, <2>6, <2>7, <2>8, <2>9 DEF Inv
  <1>7. CASE Open(c, p) /\ Open(c, q)
    <2>1. /\ written' = [written EXCEPT ![p][q] = n]
          /\ streams' = [streams EXCEPT ![c][p] = Append(@, written'[p][q])]
          /\ UNCHANGED <<conns, listening, readers, hand, rx, ended>>
      BY <1>7 DEF Write
    <2>2. q \in Nodes \ {p} /\ c \in Ids /\ conns[c].ends = {p, q}
      BY <1>5
    <2>3. Other(c, p) = q /\ Other(c, q) = p
      BY <2>2 DEF Other
    <2>4. /\ streams \in Seq([Nodes -> Seq(Nat)]) /\ DOMAIN streams = Ids
          /\ written \in [Nodes -> [Nodes -> Nat]]
      BY DEF Inv, StreamsTyped, ConnsTyped, Ids
    <2>5. /\ written[p][q] \in Nat /\ n \in Nat /\ n > written[p][q]
          /\ \A r, z \in Nodes : written[r][z] \in Nat
      BY <2>2, <2>4, SMTT(60)
    <2> HIDE DEF n
    <2>6. /\ written' \in [Nodes -> [Nodes -> Nat]]
          /\ \A r, z \in Nodes : written'[r][z] = IF r = p /\ z = q THEN n ELSE written[r][z]
      BY <2>1, <2>2, <2>4, <2>5, EntryTyped
    <2>7. streams[c][p] \in Seq(Nat) /\ Append(streams[c][p], n) \in Seq(Nat)
      BY <2>2, <2>4, <2>5, SMTT(60)
    <2>8. /\ streams' \in Seq([Nodes -> Seq(Nat)]) /\ Len(streams') = Len(streams)
          /\ \A d \in Ids, r \in Nodes :
                streams'[d][r] = IF d = c /\ r = p THEN Append(streams[c][p], n) ELSE streams[d][r]
      <3>1. streams' = [streams EXCEPT ![c][p] = Append(streams[c][p], n)]
        BY <2>1, <2>2, <2>6
      <3>2. c \in DOMAIN streams /\ streams \in Seq([Nodes -> Seq(Nat)])
        BY <2>2, <2>4
      <3>3. /\ streams' \in Seq([Nodes -> Seq(Nat)]) /\ Len(streams') = Len(streams)
            /\ \A d \in DOMAIN streams, r \in Nodes :
                  streams'[d][r] = IF d = c /\ r = p THEN Append(streams[c][p], n) ELSE streams[d][r]
        BY <2>7, <3>1, <3>2, DirectionTyped, SMTT(60)
      <3> QED
        BY <2>4, <3>3, SMTT(60)
    <2>9. StreamsTyped'
      BY <2>1, <2>6, <2>8 DEF Inv, StreamsTyped
    <2>10. ListenersKnown' /\ ClosedIsClosed'
      BY <1>1, <2>1 DEF Inv, ListenersKnown, ClosedIsClosed, LoopsTyped, Ours
    <2>11. \A d \in Ids : conns[d].ends \subseteq Nodes /\ conns[d].open \subseteq conns[d].ends
      BY DEF Inv, ConnsTyped
    <2>12. \A r, z \in Nodes : written[r][z] \in Nat /\ written'[r][z] \in Nat /\ written[r][z] <= written'[r][z]
      BY <2>2, <2>5, <2>6
    <2>13. StreamsInOrder'
      <3>1. ASSUME NEW d \in Ids, NEW r \in conns[d].ends
            PROVE  /\ Increasing(streams'[d][r])
                   /\ \A i \in DOMAIN streams'[d][r] : streams'[d][r][i] \in 1 .. written'[r][Other(d, r)]
        <4>1. /\ Increasing(streams[d][r]) /\ r \in Nodes /\ Other(d, r) \in Nodes
              /\ \A i \in DOMAIN streams[d][r] : streams[d][r][i] \in 1 .. written[r][Other(d, r)]
          BY <2>11, OtherEnd DEF Inv, StreamsInOrder
        <4>2. CASE d = c /\ r = p
          <5>1. \A i \in DOMAIN streams[c][p] : streams[c][p][i] < n
            BY <2>3, <2>5, <4>1, <4>2
          <5>2. Increasing(Append(streams[c][p], n))
            BY <2>5, <2>7, <4>1, <4>2, <5>1, IncreasingAppend
          <5>3. \A i \in DOMAIN Append(streams[c][p], n) : Append(streams[c][p], n)[i] \in 1 .. n
            <6>1. \A i \in DOMAIN streams[c][p] : streams[c][p][i] \in 1 .. n
              BY <2>3, <2>5, <4>1, <4>2, SMTT(60)
            <6>2. n \in 1 .. n
              BY <2>5
            <6> QED
              BY <2>5, <2>7, <6>1, <6>2, AppendTyped, SMTT(60)
          <5> QED
            BY <2>2, <2>3, <2>6, <2>8, <4>2, <5>2, <5>3
        <4>3. CASE ~(d = c /\ r = p)
          <5>1. streams'[d][r] = streams[d][r]
            BY <2>8, <4>1, <4>3
          <5>2. written[r][Other(d, r)] \in Nat /\ written'[r][Other(d, r)] \in Nat
                /\ written[r][Other(d, r)] <= written'[r][Other(d, r)]
            BY <2>12, <4>1, SMTT(60)
          <5> QED
            BY <4>1, <5>1, <5>2
        <4> QED
          BY <4>2, <4>3
      <3> QED
        BY <1>1, <2>1, <2>11, <3>1, ZenonT(60) DEF StreamsInOrder
    <2>14. ReceivedInOrder'
      <3>1. \A r, z \in Nodes : /\ Increasing(rx[r][z])
                                /\ \A i \in DOMAIN rx[r][z] : rx[r][z][i] \in 1 .. written[z][r]
        BY DEF Inv, ReceivedInOrder
      <3>2. \A r, z \in Nodes : \A i \in DOMAIN rx[r][z] : rx[r][z][i] \in 1 .. written'[z][r]
        BY <2>12, <3>1
      <3>3. ASSUME NEW d \in Ids, NEW r \in conns[d].ends, MayRead(r, d),
                   NEW i \in DOMAIN rx[r][Other(d, r)], NEW j \in DOMAIN streams'[d][Other(d, r)]
            PROVE  rx[r][Other(d, r)][i] < streams'[d][Other(d, r)][j]
        <4>1. r \in Nodes /\ Other(d, r) \in Nodes /\ Other(d, Other(d, r)) = r
          BY <2>11, OtherEnd DEF Inv
        <4>2. \A k \in DOMAIN streams[d][Other(d, r)] : rx[r][Other(d, r)][i] < streams[d][Other(d, r)][k]
          BY <3>3, SMTT(60) DEF Inv, ReceivedInOrder
        <4>3. CASE d = c /\ Other(d, r) = p
          <5>1. r = q
            BY <2>3, <4>1, <4>3
          <5>2. rx[q][p][i] \in 1 .. written[p][q]
            BY <3>1, <3>3, <4>1, <4>3, <5>1
          <5>3. rx[q][p][i] < n
            BY <2>5, <5>2
          <5>4. streams'[c][p] = Append(streams[c][p], n) /\ j \in DOMAIN Append(streams[c][p], n)
            BY <2>2, <2>8, <3>3, <4>3
          <5>5. \A k \in DOMAIN streams[c][p] : rx[q][p][i] < streams[c][p][k]
            BY <4>2, <4>3, <5>1
          <5>6. j \in DOMAIN streams[c][p] \/ j = Len(streams[c][p]) + 1
            BY <2>7, <5>4, SMTT(60)
          <5>7. /\ Append(streams[c][p], n)[Len(streams[c][p]) + 1] = n
                /\ \A k \in DOMAIN streams[c][p] : Append(streams[c][p], n)[k] = streams[c][p][k]
            <6>1. \A st \in Seq(Nat), m \in Nat : /\ Append(st, m)[Len(st) + 1] = m
                                                  /\ \A k \in DOMAIN st : Append(st, m)[k] = st[k]
              OBVIOUS
            <6> QED
              BY <2>5, <2>7, <6>1
          <5>8. rx[q][p][i] < Append(streams[c][p], n)[j]
            BY <5>3, <5>5, <5>6, <5>7
          <5> QED
            BY <2>3, <4>1, <4>3, <5>1, <5>4, <5>8
        <4>4. CASE ~(d = c /\ Other(d, r) = p)
          BY <2>8, <3>3, <4>1, <4>2, <4>4
        <4> QED
          BY <4>3, <4>4
      <3>4. \A r, z \in Nodes : /\ Increasing(rx'[r][z])
                                /\ \A i \in DOMAIN rx'[r][z] : rx'[r][z][i] \in 1 .. written'[z][r]
        BY <2>1, <3>1, <3>2
      <3>5. ASSUME NEW d \in Ids', NEW r \in conns'[d].ends, MayRead(r, d)',
                   NEW i \in DOMAIN rx'[r][Other(d, r)'], NEW j \in DOMAIN streams'[d][Other(d, r)']
            PROVE  rx'[r][Other(d, r)'][i] < streams'[d][Other(d, r)'][j]
        <4>1. d \in Ids /\ r \in conns[d].ends /\ r \in Nodes
          BY <1>1, <2>1, <2>11, <3>5
        <4>2. Other(d, r)' = Other(d, r) /\ MayRead(r, d)
          BY <1>1, <1>3, <3>5, <4>1
        <4> QED
          BY <2>1, <3>3, <3>5, <4>1, <4>2
      <3> QED
        BY <3>4, <3>5 DEF ReceivedInOrder
    <2>15. HandsKnown'
      BY <2>1 DEF Inv, HandsKnown
    <2>16. HandsInOrder'
      <3>1. ASSUME NEW r \in Nodes, NEW h \in hand[r]
            PROVE  /\ Other(h.conn, r)' = Other(h.conn, r)
                   /\ h.n \in 1 .. written'[Other(h.conn, r)][r]
                   /\ \A j \in DOMAIN streams'[h.conn][Other(h.conn, r)] :
                         h.n < streams'[h.conn][Other(h.conn, r)][j]
        <4>1. PICK d \in Ids : d = h.conn /\ r \in conns[d].ends
          BY DEF Inv, HandsKnown, LoopsTyped, Ours
        <4>2. PICK z \in Nodes : z = Other(d, r) /\ Other(d, z) = r
          BY <4>1, OtherEnd DEF Inv
        <4>3. h.n \in 1 .. written[z][r] /\ \A j \in DOMAIN streams[d][z] : h.n < streams[d][z][j]
          BY <4>1, <4>2 DEF Inv, HandsInOrder
        <4>4. h.n \in 1 .. written'[z][r]
          BY <2>12, <4>2, <4>3
        <4>5. CASE d = c /\ z = p
          <5>1. r = q
            BY <2>3, <4>2, <4>5
          <5>2. h.n < n
            BY <2>5, <4>3, <4>5, <5>1
          <5>3. streams'[d][z] = Append(streams[c][p], n)
            BY <2>2, <2>8, <4>5
          <5>4. \A j \in DOMAIN Append(streams[c][p], n) : h.n < Append(streams[c][p], n)[j]
            BY <2>5, <2>7, <4>3, <4>5, <5>2, AppendTyped, SMTT(60)
          <5> QED
            BY <1>1, <4>1, <4>2, <4>4, <5>3, <5>4
        <4>6. CASE ~(d = c /\ z = p)
          BY <1>1, <2>8, <4>1, <4>2, <4>3, <4>4, <4>6
        <4> QED
          BY <4>5, <4>6
      <3> QED
        BY <2>1, <3>1 DEF Inv, HandsInOrder
    <2> QED
      BY <1>1, <1>2, <2>9, <2>10, <2>13, <2>14, <2>15, <2>16 DEF Inv
  <1> QED
    BY <1>4, <1>6, <1>7

\* Whether a connection may be read depends on nothing that a listener does.
LEMMA SameReaders ==
    ASSUME Inv, UNCHANGED <<conns, listening, readers, registered, sender>>
    PROVE  \A d \in Ids, r \in Nodes : MayRead(r, d)' = MayRead(r, d) /\ Other(d, r)' = Other(d, r)
  BY DEF MayRead, Live, Other

\* A listener takes the first message that waits, which is later than all before.
LEMMA AcceptStreamStep ==
    ASSUME Inv, NEW p \in Nodes, NEW c \in Ours(p), AcceptStream(p, c)
    PROVE  Inv'
  <1>1. PICK q : q = Other(c, p)
    OBVIOUS
  <1>2. PICK m : m = Head(streams[c][q])
    OBVIOUS
  <1>3. PICK g : g = [conn |-> c, n |-> m]
    OBVIOUS
  <1>4. /\ ConnsTyped' /\ CacheTyped' /\ QueuesTyped' /\ LoopsTyped' /\ SendersTyped'
        /\ Ids' = Ids
        /\ \A d \in Ids, r \in Nodes : Other(d, r)' = Other(d, r) /\ MayRead(r, d)' = MayRead(r, d)
    BY NoneClosed, KeptTypes, SameReaders DEF AcceptStream
  <1>5. /\ c \in readers[p] /\ Reading(p, c) = {} /\ streams[c][q] # <<>>
        /\ hand' = [hand EXCEPT ![p] = @ \cup {g}]
        /\ streams' = [streams EXCEPT ![c][q] = Tail(@)]
        /\ UNCHANGED <<conns, listening, readers, written, rx, ended>>
    BY <1>1, <1>2, <1>3 DEF AcceptStream
  <1>6. c \in Ids /\ q \in Nodes \ {p} /\ conns[c].ends = {p, q} /\ Other(c, q) = p
    BY <1>1, OtherEnd DEF Inv, Ours
  <1>7. \A d \in Ids : conns[d].ends \subseteq Nodes
    BY DEF Inv, ConnsTyped
  <1>8. streams \in Seq([Nodes -> Seq(Nat)]) /\ DOMAIN streams = Ids
    BY DEF Inv, StreamsTyped, ConnsTyped, Ids
  <1>9. streams[c][q] \in Seq(Nat) /\ 1 \in DOMAIN streams[c][q]
    BY <1>5, <1>6, <1>8
  <1>10. m \in Nat /\ m = streams[c][q][1] /\ Tail(streams[c][q]) \in Seq(Nat)
    BY <1>2, <1>5, <1>9, TailTyped
  <1>11. /\ Increasing(streams[c][q])
         /\ \A i \in DOMAIN streams[c][q] : streams[c][q][i] \in 1 .. written[q][p]
    BY <1>6 DEF Inv, StreamsInOrder
  <1>12. /\ Increasing(Tail(streams[c][q]))
         /\ \A i \in DOMAIN Tail(streams[c][q]) :
               /\ m < Tail(streams[c][q])[i]
               /\ i + 1 \in DOMAIN streams[c][q] /\ Tail(streams[c][q])[i] = streams[c][q][i + 1]
    BY <1>2, <1>5, <1>9, <1>11, IncreasingTail, TailTyped
  <1>13. /\ streams' \in Seq([Nodes -> Seq(Nat)]) /\ Len(streams') = Len(streams)
         /\ \A d \in Ids, r \in Nodes :
               streams'[d][r] = IF d = c /\ r = q THEN Tail(streams[c][q]) ELSE streams[d][r]
    <2>1. /\ streams \in Seq([Nodes -> Seq(Nat)]) /\ c \in DOMAIN streams
          /\ q \in Nodes /\ Tail(streams[c][q]) \in Seq(Nat)
          /\ streams' = [streams EXCEPT ![c][q] = Tail(streams[c][q])]
      BY <1>5, <1>6, <1>8, <1>10
    <2>2. /\ streams' \in Seq([Nodes -> Seq(Nat)]) /\ Len(streams') = Len(streams)
          /\ \A d \in DOMAIN streams, r \in Nodes :
                streams'[d][r] = IF d = c /\ r = q THEN Tail(streams[c][q]) ELSE streams[d][r]
      BY <2>1, DirectionTyped, SMTT(60)
    <2> QED
      BY <1>8, <2>2
  <1>14. StreamsTyped' /\ ListenersKnown' /\ ClosedIsClosed'
    <2>1. StreamsTyped'
      BY <1>5, <1>13 DEF Inv, StreamsTyped
    <2>2. ListenersKnown' /\ ClosedIsClosed'
      BY <1>4, <1>5 DEF Inv, ListenersKnown, ClosedIsClosed, LoopsTyped, Ours
    <2> QED
      BY <2>1, <2>2
  <1>15. StreamsInOrder'
    <2>1. ASSUME NEW d \in Ids, NEW r \in conns[d].ends
          PROVE  /\ Increasing(streams'[d][r])
                 /\ \A i \in DOMAIN streams'[d][r] : streams'[d][r][i] \in 1 .. written[r][Other(d, r)]
      <3>1. CASE d = c /\ r = q
        <4>1. streams'[d][r] = Tail(streams[c][q]) /\ Other(d, r) = p
          BY <1>6, <1>13, <3>1
        <4>2. \A i \in DOMAIN Tail(streams[c][q]) : Tail(streams[c][q])[i] \in 1 .. written[q][p]
          BY <1>11, <1>12
        <4> QED
          BY <1>12, <3>1, <4>1, <4>2
      <3>2. CASE ~(d = c /\ r = q)
        <4>1. streams'[d][r] = streams[d][r]
          BY <1>7, <1>13, <3>2
        <4> QED
          BY <4>1 DEF Inv, StreamsInOrder
      <3> QED
        BY <3>1, <3>2
    <2> QED
      BY <1>4, <1>5, <1>7, <2>1 DEF StreamsInOrder
  <1>16. ReceivedInOrder'
    <2>1. ASSUME NEW d \in Ids, NEW r \in conns[d].ends, MayRead(r, d),
                 NEW i \in DOMAIN rx[r][Other(d, r)], NEW j \in DOMAIN streams'[d][Other(d, r)]
          PROVE  rx[r][Other(d, r)][i] < streams'[d][Other(d, r)][j]
      <3>1. \A k \in DOMAIN rx[r][Other(d, r)], l \in DOMAIN streams[d][Other(d, r)] :
               rx[r][Other(d, r)][k] < streams[d][Other(d, r)][l]
        BY <2>1 DEF Inv, ReceivedInOrder
      <3>2. Other(d, r) \in Nodes
        BY OtherEnd DEF Inv
      <3>3. CASE d = c /\ Other(d, r) = q
        <4>1. streams'[d][Other(d, r)] = Tail(streams[c][q])
          BY <1>6, <1>13, <3>3
        <4>2. j + 1 \in DOMAIN streams[c][q] /\ Tail(streams[c][q])[j] = streams[c][q][j + 1]
          BY <1>12, <2>1, <4>1
        <4> QED
          BY <3>1, <3>3, <4>1, <4>2
      <3>4. CASE ~(d = c /\ Other(d, r) = q)
        BY <1>13, <2>1, <3>1, <3>2, <3>4
      <3> QED
        BY <3>3, <3>4
    <2>2. \A d \in Ids : \A r \in conns[d].ends : Other(d, r)' = Other(d, r) /\ MayRead(r, d)' = MayRead(r, d)
      BY <1>4, <1>7
    <2> QED
      BY <1>4, <1>5, <2>1, <2>2 DEF Inv, ReceivedInOrder
  <1>17. \A r \in Nodes : hand'[r] = IF r = p THEN hand[p] \cup {g} ELSE hand[r]
    BY <1>5 DEF Inv, HandsKnown
  <1>18. HandsKnown'
    <2>1. hand \in [Nodes -> SUBSET [conn : Nat, n : Nat]] /\ g \in [conn : Nat, n : Nat]
      BY <1>3, <1>6, <1>10 DEF Inv, HandsKnown, ConnsTyped, Ids
    <2>2. hand' \in [Nodes -> SUBSET [conn : Nat, n : Nat]]
      BY <1>5, <2>1
    <2>3. g.conn = c /\ \A h \in hand[p] : h.conn # c
      BY <1>3, <1>5 DEF Reading
    <2> QED
      BY <1>5, <1>17, <2>2, <2>3 DEF Inv, HandsKnown
  <1>19. HandsInOrder'
    <2>1. ASSUME NEW r \in Nodes, NEW h \in hand'[r]
          PROVE  /\ Other(h.conn, r)' = Other(h.conn, r)
                 /\ h.n \in 1 .. written[Other(h.conn, r)][r]
                 /\ \A i \in DOMAIN rx[r][Other(h.conn, r)] : rx[r][Other(h.conn, r)][i] < h.n
                 /\ \A j \in DOMAIN streams'[h.conn][Other(h.conn, r)] :
                       h.n < streams'[h.conn][Other(h.conn, r)][j]
      <3>1. CASE r = p /\ h = g
        <4>1. h.conn = c /\ h.n = m /\ Other(h.conn, r) = q
          BY <1>1, <1>3, <3>1
        <4>2. m \in 1 .. written[q][p]
          BY <1>9, <1>10, <1>11
        <4>3. \A i \in DOMAIN rx[p][q] : rx[p][q][i] < m
          BY <1>1, <1>5, <1>6, <1>9, <1>10 DEF Inv, ReceivedInOrder, MayRead
        <4>4. \A j \in DOMAIN streams'[c][q] : m < streams'[c][q][j]
          BY <1>6, <1>12, <1>13
        <4>5. Other(h.conn, r)' = Other(h.conn, r)
          BY <1>4, <1>6, <4>1
        <4> QED
          BY <3>1, <4>1, <4>2, <4>3, <4>4, <4>5
      <3>2. CASE ~(r = p /\ h = g)
        <4>1. h \in hand[r]
          BY <1>17, <2>1, <3>2
        <4>2. PICK d \in Ids : d = h.conn /\ r \in conns[d].ends
          BY <4>1 DEF Inv, HandsKnown, LoopsTyped, Ours
        <4>3. PICK z \in Nodes : z = Other(d, r) /\ z # r
          BY <4>2, OtherEnd DEF Inv
        <4>4. ~(d = c /\ z = q)
          <5>1. r = p => d # c
            BY <1>5, <4>1, <4>2 DEF Reading
          <5>2. r # p /\ d = c => z = p
            BY <1>1, <1>6, <4>2, <4>3
          <5> QED
            BY <1>6, <5>1, <5>2
        <4>5. streams'[d][z] = streams[d][z]
          BY <1>13, <4>4
        <4> QED
          BY <1>4, <4>1, <4>2, <4>3, <4>5 DEF Inv, HandsInOrder
      <3> QED
        BY <3>1, <3>2
    <2> QED
      BY <1>5, <2>1 DEF HandsInOrder
  <1> QED
    BY <1>4, <1>14, <1>15, <1>16, <1>18, <1>19 DEF Inv

\* A listener forwards the message it has in hand, before all that waits.
LEMMA ForwardStep ==
    ASSUME Inv, NEW p \in Nodes, NEW c \in Ours(p), Forward(p, c)
    PROVE  Inv'
  <1>1. PICK q : q = Other(c, p)
    OBVIOUS
  <1>2. PICK h \in hand[p] :
           /\ h.conn = c
           /\ rx' = [rx EXCEPT ![p][q] = Append(@, h.n)]
           /\ hand' = [hand EXCEPT ![p] = @ \ {h}]
           /\ UNCHANGED <<conns, streams, listening, readers, written, ended>>
    BY <1>1 DEF Forward, Reading
  <1>3. PICK m : m = h.n
    OBVIOUS
  <1>4. /\ ConnsTyped' /\ CacheTyped' /\ QueuesTyped' /\ LoopsTyped' /\ SendersTyped'
        /\ Ids' = Ids
        /\ \A d \in Ids, r \in Nodes : Other(d, r)' = Other(d, r) /\ MayRead(r, d)' = MayRead(r, d)
    BY NoneClosed, KeptTypes, SameReaders DEF Forward
  <1>5. c \in Ids /\ q \in Nodes \ {p} /\ conns[c].ends = {p, q} /\ Other(c, q) = p /\ c \in readers[p]
    BY <1>1, <1>2, OtherEnd DEF Inv, Ours, HandsKnown
  <1>6. \A d \in Ids : conns[d].ends \subseteq Nodes
    BY DEF Inv, ConnsTyped
  <1>7. /\ rx \in [Nodes -> [Nodes -> Seq(Nat)]] /\ rx[p][q] \in Seq(Nat) /\ m \in Nat
    BY <1>2, <1>3, <1>5 DEF Inv, StreamsTyped, HandsKnown
  <1>8. /\ m \in 1 .. written[q][p]
        /\ \A i \in DOMAIN rx[p][q] : rx[p][q][i] < m
        /\ \A j \in DOMAIN streams[c][q] : m < streams[c][q][j]
    BY <1>1, <1>2, <1>3 DEF Inv, HandsInOrder
  <1>9. Append(rx[p][q], m) \in Seq(Nat)
    BY <1>7, AppendTyped
  <1>10. /\ rx' \in [Nodes -> [Nodes -> Seq(Nat)]]
         /\ \A r, z \in Nodes : rx'[r][z] = IF r = p /\ z = q THEN Append(rx[p][q], m) ELSE rx[r][z]
    <2>1. rx' = [rx EXCEPT ![p][q] = Append(rx[p][q], m)]
      BY <1>2, <1>3, <1>5, <1>7
    <2> QED
      BY <1>5, <1>7, <1>9, <2>1, EntryTyped, ZenonT(60)
  <1>11. StreamsTyped' /\ ListenersKnown' /\ ClosedIsClosed'
    <2>1. StreamsTyped'
      BY <1>2, <1>10 DEF Inv, StreamsTyped
    <2>2. ListenersKnown' /\ ClosedIsClosed'
      BY <1>2, <1>4 DEF Inv, ListenersKnown, ClosedIsClosed, LoopsTyped, Ours
    <2> QED
      BY <2>1, <2>2
  <1>12. StreamsInOrder'
    BY <1>2, <1>4, <1>6 DEF Inv, StreamsInOrder
  <1>13. \A i \in DOMAIN Append(rx[p][q], m) :
            (i \in DOMAIN rx[p][q] /\ Append(rx[p][q], m)[i] = rx[p][q][i]) \/ Append(rx[p][q], m)[i] = m
    BY <1>7, AppendTyped
  <1>14. \A r, z \in Nodes : /\ Increasing(rx[r][z])
                             /\ \A i \in DOMAIN rx[r][z] : rx[r][z][i] \in 1 .. written[z][r]
    BY DEF Inv, ReceivedInOrder
  <1>15. ASSUME NEW r \in Nodes, NEW z \in Nodes
         PROVE  /\ Increasing(rx'[r][z])
                /\ \A i \in DOMAIN rx'[r][z] : rx'[r][z][i] \in 1 .. written[z][r]
    <2>1. CASE r = p /\ z = q
      <3>1. Increasing(Append(rx[p][q], m))
        BY <1>5, <1>7, <1>8, <1>14, IncreasingAppend
      <3>2. \A i \in DOMAIN Append(rx[p][q], m) : Append(rx[p][q], m)[i] \in 1 .. written[q][p]
        BY <1>5, <1>8, <1>13, <1>14
      <3> QED
        BY <1>10, <2>1, <3>1, <3>2
    <2>2. CASE ~(r = p /\ z = q)
      BY <1>10, <1>14, <2>2
    <2> QED
      BY <2>1, <2>2
  <1>16. ASSUME NEW d \in Ids, NEW r \in conns[d].ends, MayRead(r, d),
                NEW i \in DOMAIN rx'[r][Other(d, r)], NEW j \in DOMAIN streams[d][Other(d, r)]
         PROVE  rx'[r][Other(d, r)][i] < streams[d][Other(d, r)][j]
    <2>1. r \in Nodes /\ Other(d, r) \in Nodes
      BY <1>6, OtherEnd DEF Inv
    <2>2. \A k \in DOMAIN rx[r][Other(d, r)], l \in DOMAIN streams[d][Other(d, r)] :
             rx[r][Other(d, r)][k] < streams[d][Other(d, r)][l]
      BY <1>16 DEF Inv, ReceivedInOrder
    <2>3. CASE r = p /\ Other(d, r) = q
      <3>1. d = c
        <4>1. q \in listening[p]
          BY <1>1, <1>5 DEF Inv, ListenersKnown
        <4>2. d \in readers[p]
          BY <1>16, <2>3, <4>1 DEF MayRead
        <4> QED
          BY <1>1, <1>5, <2>3, <4>2 DEF Inv, ListenersKnown
      <3>2. rx'[p][q] = Append(rx[p][q], m)
        BY <1>5, <1>10
      <3>3. m < streams[c][q][j] /\ \A k \in DOMAIN rx[p][q] : rx[p][q][k] < streams[c][q][j]
        BY <1>8, <1>16, <2>2, <2>3, <3>1
      <3>4. (i \in DOMAIN rx[p][q] /\ Append(rx[p][q], m)[i] = rx[p][q][i]) \/ Append(rx[p][q], m)[i] = m
        BY <1>13, <1>16, <2>3, <3>2
      <3>5. Append(rx[p][q], m)[i] < streams[c][q][j]
        BY <3>3, <3>4
      <3> QED
        BY <2>3, <3>1, <3>2, <3>5
    <2>4. CASE ~(r = p /\ Other(d, r) = q)
      <3>1. rx'[r][Other(d, r)] = rx[r][Other(d, r)]
        BY <1>10, <2>1, <2>4
      <3> QED
        BY <1>16, <2>2, <3>1
    <2> QED
      BY <2>3, <2>4
  <1>17. ReceivedInOrder'
    <2>1. \A d \in Ids : \A r \in conns[d].ends : Other(d, r)' = Other(d, r) /\ MayRead(r, d)' = MayRead(r, d)
      BY <1>4, <1>6
    <2> QED
      BY <1>2, <1>4, <1>15, <1>16, <2>1 DEF ReceivedInOrder
  <1>18. \A r \in Nodes : hand'[r] = IF r = p THEN hand[p] \ {h} ELSE hand[r]
    BY <1>2 DEF Inv, HandsKnown
  <1>19. HandsKnown'
    BY <1>2, <1>18 DEF Inv, HandsKnown
  <1>20. HandsInOrder'
    <2>1. ASSUME NEW r \in Nodes, NEW g \in hand'[r]
          PROVE  /\ Other(g.conn, r)' = Other(g.conn, r)
                 /\ g.n \in 1 .. written[Other(g.conn, r)][r]
                 /\ \A i \in DOMAIN rx'[r][Other(g.conn, r)] : rx'[r][Other(g.conn, r)][i] < g.n
                 /\ \A j \in DOMAIN streams[g.conn][Other(g.conn, r)] :
                       g.n < streams[g.conn][Other(g.conn, r)][j]
      <3>1. g \in hand[r] /\ (r = p => g # h)
        BY <1>18, <2>1
      <3>2. PICK d \in Ids : d = g.conn /\ r \in conns[d].ends /\ d \in readers[r]
        BY <3>1 DEF Inv, HandsKnown, LoopsTyped, Ours
      <3>3. PICK z \in Nodes : z = Other(d, r)
        BY <3>2, OtherEnd DEF Inv
      <3>4. ~(r = p /\ z = q)
        <4>1. r = p /\ z = q => d = c
          BY <1>1, <1>5, <3>2, <3>3 DEF Inv, ListenersKnown
        <4> QED
          BY <1>2, <3>1, <3>2, <4>1 DEF Inv, HandsKnown
      <3>5. rx'[r][z] = rx[r][z]
        BY <1>10, <3>4
      <3> QED
        BY <1>4, <3>1, <3>2, <3>3, <3>5 DEF Inv, HandsInOrder
    <2> QED
      BY <1>2, <2>1 DEF HandsInOrder
  <1> QED
    BY <1>4, <1>11, <1>12, <1>17, <1>19, <1>20 DEF Inv

\* Fewer messages are in hand.
LEMMA HandsShrink ==
    ASSUME Inv, ConnsClose, UNCHANGED <<streams, written, rx>>,
           hand' \in [Nodes -> SUBSET [conn : Nat, n : Nat]],
           \A r \in Nodes : hand'[r] \subseteq hand[r],
           \A r \in Nodes : \A h \in hand'[r] : h.conn \in readers'[r]
    PROVE  HandsKnown' /\ HandsInOrder'
  <1>1. Ids' = Ids /\ \A c \in Ids, p \in Nodes : Other(c, p)' = Other(c, p)
    BY KeptTypes
  <1>2. \A p \in Nodes : \A h \in hand[p] : h.conn \in Ids
    BY DEF Inv, HandsKnown, LoopsTyped, Ours
  <1>3. HandsKnown'
    BY DEF Inv, HandsKnown
  <1>4. HandsInOrder'
    BY <1>1, <1>2 DEF Inv, HandsInOrder
  <1> QED
    BY <1>3, <1>4

\* A message that could not be read to its end is lost.
LEMMA ReadFailsStep ==
    ASSUME Inv, NEW p \in Nodes, NEW c \in Ours(p), ReadFails(p, c)
    PROVE  Inv'
  <1>1. /\ UNCHANGED <<conns, streams, cache, incoming, registered, listening, readers, sender,
                       written, rx, ended, ends>>
        /\ hand' = [hand EXCEPT ![p] = @ \ Reading(p, c)]
    BY DEF ReadFails
  <1>2. /\ ConnsTyped' /\ CacheTyped' /\ QueuesTyped' /\ LoopsTyped' /\ SendersTyped'
        /\ StreamsTyped' /\ StreamsInOrder' /\ ListenersKnown' /\ ReceivedInOrder' /\ ClosedIsClosed'
    BY <1>1, NoneClosed, KeptTypes, QuietStep
  <1>3. /\ hand' \in [Nodes -> SUBSET [conn : Nat, n : Nat]]
        /\ \A r \in Nodes : hand'[r] \subseteq hand[r]
    BY <1>1 DEF Inv, HandsKnown
  <1>4. HandsKnown' /\ HandsInOrder'
    BY <1>1, <1>3, NoneClosed, HandsShrink DEF Inv, HandsKnown
  <1> QED
    BY <1>2, <1>4 DEF Inv

-----------------------------------------------------------------------------
(* The accept loop and the listeners *)

\* A listener is started for a peer that has none, or none is started.
LEMMA SpawnStep ==
    ASSUME Inv, NEW p \in Nodes, NEW c \in Ours(p), SpawnListener(p, c), Live(p, c),
           \A r \in Nodes : ToSet(registered'[r]) \subseteq ToSet(registered[r]),
           UNCHANGED <<conns, streams, hand, sender, written, rx, ended, ends>>
    PROVE  LoopsTyped' /\ ListenersKnown' /\ ReceivedInOrder' /\ HandsKnown'
  <1> DEFINE q == Other(c, p)
  <1>1. /\ Ids' = Ids /\ \A d \in Ids, r \in Nodes : Other(d, r)' = Other(d, r)
        /\ \A r \in Nodes : Ours(r)' = Ours(r)
    BY NoneClosed, KeptTypes
  <1>2. q \in Nodes \ {p} /\ c \in Ids /\ c \in Nat
    BY OtherEnd DEF Inv, Ours, ConnsTyped, Ids
  <1>3. /\ \A d \in Ids : conns[d].open \subseteq conns[d].ends /\ conns[d].ends \subseteq Nodes
        /\ \A d \in Ids, r \in Nodes : Live(r, d)' => Live(r, d)
    BY DEF Inv, ConnsTyped, Live
  <1>4. CASE q \in listening[p]
    <2>1. UNCHANGED <<listening, readers>>
      BY <1>4 DEF SpawnListener
    <2>2. \A d \in Ids : \A r \in conns[d].ends : MayRead(r, d)' => MayRead(r, d)
      BY <1>1, <1>3, <2>1 DEF MayRead
    <2>3. ReceivedInOrder'
      BY <2>2, NoneClosed, OrderKept
    <2> QED
      BY <2>1, <2>3, NoneClosed, KeptTypes, QuietStep
  <1>5. CASE q \notin listening[p]
    <2>1. LoopsTyped
      BY DEF Inv
    <2>2. \A r \in Nodes : /\ listening'[r] = IF r = p THEN listening[p] \cup {q} ELSE listening[r]
                           /\ readers'[r] = IF r = p THEN readers[p] \cup {c} ELSE readers[r]
      BY <1>5, <2>1 DEF SpawnListener, LoopsTyped
    <2>3. LoopsTyped'
      BY <1>1, <1>2, <1>5, <2>1, <2>2 DEF SpawnListener, LoopsTyped
    <2>4. ListenersKnown'
      BY <1>1, <1>2, <1>5, <2>1, <2>2 DEF Inv, ListenersKnown, LoopsTyped, Ours
    <2>5. ASSUME NEW d \in Ids, NEW r \in conns[d].ends, MayRead(r, d)' PROVE MayRead(r, d)
      <3>1. r \in Nodes /\ Other(d, r)' = Other(d, r) /\ (Live(r, d)' => Live(r, d))
        BY <1>1, <1>3
      <3>2. CASE r = p /\ d = c
        BY <1>5, <3>2 DEF MayRead
      <3>3. CASE ~(r = p /\ d = c)
        BY <2>2, <2>5, <3>1, <3>3 DEF MayRead
      <3> QED
        BY <3>2, <3>3
    <2>6. ReceivedInOrder'
      BY <2>5, NoneClosed, OrderKept
    <2>7. HandsKnown'
      BY <2>2 DEF Inv, HandsKnown
    <2> QED
      BY <2>3, <2>4, <2>6, <2>7
  <1> QED
    BY <1>4, <1>5

\* The accept loop takes a connection that came in or was registered.
LEMMA LoopSteps ==
    ASSUME Inv, NEW p \in Nodes, Accept(p) \/ TakeRegistered(p)
    PROVE  Inv'
  <1>1. UNCHANGED <<conns, streams, sender, hand, written, rx, ended, ends>>
    BY DEF Accept, TakeRegistered
  <1>2. /\ ConnsTyped' /\ SendersTyped' /\ StreamsTyped' /\ StreamsInOrder' /\ ClosedIsClosed'
        /\ HandsInOrder'
        /\ \A r \in Nodes : Ours(r)' = Ours(r)
    BY <1>1, NoneClosed, KeptTypes, QuietStep
  <1>3. CASE Accept(p)
    <2> DEFINE c == Head(incoming[p])
    <2>1. c \in Ours(p) /\ Tail(incoming[p]) \in Seq(Ours(p))
      BY <1>3, TailTyped DEF Accept, Inv, QueuesTyped
    <2>2. QueuesTyped' /\ UNCHANGED registered
      BY <1>2, <1>3, <2>1 DEF Accept, Inv, QueuesTyped
    <2>3. CASE Open(c, p)
      <3>1. SpawnListener(p, c) /\ cache' = [cache EXCEPT ![p][Other(c, p)] = c]
        BY <1>3, <2>3 DEF Accept, CacheIncoming
      <3>2. Other(c, p) \in Nodes /\ c \in Ids /\ conns[c].ends = {p, Other(c, p)}
        BY <2>1, OtherEnd DEF Ours, Inv
      <3>3. CacheTyped'
        BY <1>1, <3>1, <3>2, CacheInsert DEF Inv
      <3>4. Live(p, c)
        BY <2>3 DEF Open, Live
      <3>5. LoopsTyped' /\ ListenersKnown' /\ ReceivedInOrder' /\ HandsKnown'
        BY <1>1, <2>1, <2>2, <3>1, <3>4, SpawnStep
      <3> QED
        BY <1>2, <2>2, <3>3, <3>5 DEF Inv
    <2>4. CASE ~Open(c, p)
      <3>1. UNCHANGED <<cache, listening, readers>>
        BY <1>3, <2>4 DEF Accept
      <3> QED
        BY <1>1, <1>2, <2>2, <3>1, NoneClosed, KeptTypes, QuietStep DEF Inv
    <2> QED
      BY <2>3, <2>4
  <1>4. CASE TakeRegistered(p)
    <2> DEFINE c == Head(registered[p])
    <2>1. c \in Ours(p) /\ Tail(registered[p]) \in Seq(Ours(p))
      BY <1>4, TailTyped DEF TakeRegistered, Inv, QueuesTyped
    <2>2. QueuesTyped'
      BY <1>2, <1>4, <2>1 DEF TakeRegistered, Inv, QueuesTyped
    <2>3. CacheTyped'
      BY <1>1, <1>4, NoneClosed, KeptTypes DEF TakeRegistered
    <2>4. c \in ToSet(registered[p]) /\ ToSet(Tail(registered[p])) \subseteq ToSet(registered[p])
      BY <1>4, TailTyped DEF TakeRegistered, Inv, QueuesTyped, ToSet
    <2>5. Live(p, c) /\ \A r \in Nodes : ToSet(registered'[r]) \subseteq ToSet(registered[r])
      BY <1>4, <2>4 DEF TakeRegistered, Inv, QueuesTyped, Live
    <2>6. LoopsTyped' /\ ListenersKnown' /\ ReceivedInOrder' /\ HandsKnown'
      BY <1>1, <1>4, <2>1, <2>5, SpawnStep DEF TakeRegistered
    <2> QED
      BY <1>2, <2>2, <2>3, <2>6 DEF Inv
  <1> QED
    BY <1>3, <1>4

\* A listener ends with nothing in hand, and its peer gets no other one.
LEMMA ListenerEndsStep ==
    ASSUME Inv, NEW p \in Nodes, NEW c \in Ours(p), ListenerEnds(p, c)
    PROVE  Inv'
  <1>1. /\ UNCHANGED <<conns, streams, cache, incoming, registered, listening, hand, sender, written, rx,
                       ended, ends>>
        /\ readers' = [readers EXCEPT ![p] = @ \ {c}]
        /\ Reading(p, c) = {}
    BY DEF ListenerEnds
  <1>2. /\ ConnsTyped' /\ CacheTyped' /\ QueuesTyped' /\ SendersTyped'
        /\ StreamsTyped' /\ StreamsInOrder' /\ ClosedIsClosed' /\ HandsInOrder'
        /\ Ids' = Ids /\ \A d \in Ids, r \in Nodes : Other(d, r)' = Other(d, r)
        /\ \A r \in Nodes : Ours(r)' = Ours(r)
    BY <1>1, NoneClosed, KeptTypes, QuietStep
  <1>3. /\ readers' \in [Nodes -> SUBSET Nat]
        /\ \A r \in Nodes : readers'[r] = IF r = p THEN readers[p] \ {c} ELSE readers[r]
    BY <1>1 DEF Inv, LoopsTyped
  <1>4. LoopsTyped'
    BY <1>1, <1>2, <1>3 DEF Inv, LoopsTyped
  <1>5. ListenersKnown'
    BY <1>1, <1>2, <1>3 DEF Inv, ListenersKnown, LoopsTyped, Ours
  <1>6. \A d \in Ids : conns[d].ends \subseteq Nodes
    BY DEF Inv, ConnsTyped
  <1>7. \A d \in Ids : \A r \in conns[d].ends : MayRead(r, d)' => MayRead(r, d)
    BY <1>1, <1>2, <1>3, <1>6 DEF MayRead, Live
  <1>8. ReceivedInOrder'
    BY <1>1, <1>7, NoneClosed, OrderKept
  <1>9. HandsKnown'
    BY <1>1, <1>3 DEF Inv, HandsKnown, Reading
  <1> QED
    BY <1>2, <1>4, <1>5, <1>8, <1>9 DEF Inv

-----------------------------------------------------------------------------
(* Connections *)

\* A connection is opened between two nodes that are not shut down, with nothing on it.
LEMMA ConnectStep ==
    ASSUME Inv, NEW p \in Nodes, NEW s \in Senders, Connect(p, s)
    PROVE  Inv'
  <1>1. PICK q : q \in Nodes \ {p} /\ sender[p][s] = [pc |-> "connect", to |-> q, conn |-> 0]
    <2>1. sender[p][s].pc = "connect" /\ SendersTyped
      BY DEF Connect, Inv
    <2>2. /\ sender[p][s].to \in Nodes \ {p}
          /\ sender[p][s] = [pc |-> "connect", to |-> sender[p][s].to, conn |-> 0]
      BY <2>1, SenderState, ZenonT(60)
    <2> QED
      BY <2>2
  <1>2. PICK c : c = Len(conns) + 1
    OBVIOUS
  <1> DEFINE conn == [ends |-> {p, q}, open |-> {p, q}]
             t == [pc |-> "insert", to |-> q, conn |-> c]
  <1>3. /\ "endpoint" \notin ended[p] /\ "endpoint" \notin ended[q]
        /\ conns' = Append(conns, conn)
        /\ streams' = Append(streams, [r \in Nodes |-> <<>>])
        /\ incoming' = [incoming EXCEPT ![q] = Append(@, c)]
        /\ UNCHANGED <<cache, registered, listening, readers, hand, written, rx, ended, ends>>
    BY <1>1, <1>2 DEF Connect
  <1>4. sender' = [sender EXCEPT ![p][s] = t]
    <2>1. sender' = [sender EXCEPT ![p][s] = [[sender[p][s] EXCEPT !.pc = "insert"] EXCEPT !.conn = c]]
      BY <1>2 DEF Connect
    <2>2. [sender[p][s] EXCEPT !.pc = "insert"] = [pc |-> "insert", to |-> q, conn |-> 0]
      BY <1>1
    <2>3. [[pc |-> "insert", to |-> q, conn |-> 0] EXCEPT !.conn = c] = t
      OBVIOUS
    <2> QED
      BY <2>1, <2>2, <2>3
  <1>5. /\ conns \in Seq([ends : SUBSET Nodes, open : SUBSET Nodes])
        /\ conn \in [ends : SUBSET Nodes, open : SUBSET Nodes]
    BY <1>1 DEF Inv, ConnsTyped
  <1>6. /\ conns' \in Seq([ends : SUBSET Nodes, open : SUBSET Nodes])
        /\ Len(conns') = Len(conns) + 1 /\ Ids' = Ids \cup {c} /\ c \notin Ids
        /\ conns'[c] = conn /\ \A d \in Ids : conns'[d] = conns[d]
    BY <1>2, <1>3, <1>5, AppendTyped DEF Ids
  <1>7. \A d \in Ids, r \in Nodes : Other(d, r)' = Other(d, r)
    BY <1>6 DEF Other
  <1>8. \A d \in Ids : conns[d].ends \subseteq Nodes /\ conns[d].open \subseteq conns[d].ends
    BY DEF Inv, ConnsTyped
  <1>9. ConnsTyped'
    BY <1>1, <1>6 DEF Inv, ConnsTyped
  <1>10. /\ streams' \in Seq([Nodes -> Seq(Nat)]) /\ Len(streams') = Len(conns')
         /\ streams'[c] = [r \in Nodes |-> <<>>] /\ \A d \in Ids : streams'[d] = streams[d]
    <2>1. streams \in Seq([Nodes -> Seq(Nat)]) /\ Len(streams) = Len(conns) /\ DOMAIN streams = Ids
      BY DEF Inv, StreamsTyped, ConnsTyped, Ids
    <2>2. [r \in Nodes |-> <<>>] \in [Nodes -> Seq(Nat)]
      OBVIOUS
    <2> DEFINE e == [r \in Nodes |-> <<>>]
               S == [Nodes -> Seq(Nat)]
    <2>3. e \in S /\ streams \in Seq(S) /\ streams' = Append(streams, e)
      BY <1>3, <2>1, <2>2
    <2> HIDE DEF e, S
    <2>4. /\ streams' \in Seq(S) /\ Len(streams') = Len(streams) + 1
          /\ streams'[Len(streams) + 1] = e /\ \A d \in DOMAIN streams : streams'[d] = streams[d]
      BY <2>3, AppendTyped
    <2> QED
      BY <1>2, <1>6, <2>1, <2>4 DEF e, S
  <1>11. StreamsTyped'
    BY <1>3, <1>10 DEF Inv, StreamsTyped
  <1>12. /\ \A r \in Nodes : Ours(r) \subseteq Ours(r)' /\ Sending(r) \subseteq Sending(r)'
         /\ c \in Ours(q)' /\ t \in Sending(p)'
    <2>1. \A r \in Nodes : Ours(r) \subseteq Ours(r)'
      BY <1>6 DEF Ours
    <2>2. c \in Ours(q)'
      BY <1>6 DEF Ours
    <2>3. \A r \in Nodes : Sending(r) \subseteq Sending(r)'
      BY <1>6 DEF Sending
    <2>4. t \in Sending(p)'
      BY <1>1, <1>6 DEF Sending
    <2> QED
      BY <2>1, <2>2, <2>3, <2>4
  <1>13. SendersTyped'
    BY <1>4, <1>12, SenderMoves DEF Inv
  <1>14. CacheTyped'
    <2>1. CacheTyped
      BY DEF Inv
    <2>2. ASSUME NEW r \in Nodes, NEW z \in Nodes, cache'[r][z] # 0
          PROVE  cache'[r][z] \in Ids' /\ conns'[cache'[r][z]].ends = {r, z}
      <3>1. cache[r][z] \in Ids /\ conns[cache[r][z]].ends = {r, z}
        BY <1>3, <2>1, <2>2 DEF CacheTyped
      <3> QED
        BY <1>3, <1>6, <3>1
    <2> QED
      BY <1>3, <2>1, <2>2 DEF CacheTyped
  <1>15. QueuesTyped'
    <2>1. \A r \in Nodes : incoming[r] \in Seq(Ours(r)') /\ registered[r] \in Seq(Ours(r)')
      BY <1>12, SeqWidens DEF Inv, QueuesTyped
    <2>2. Append(incoming[q], c) \in Seq(Ours(q)')
      BY <1>1, <1>12, <2>1, AppendTyped
    <2>3. /\ DOMAIN incoming' = Nodes
          /\ \A r \in Nodes : incoming'[r] = IF r = q THEN Append(incoming[q], c) ELSE incoming[r]
      BY <1>3, <1>1 DEF Inv, QueuesTyped
    <2>4. \A r \in Nodes : incoming'[r] \in Seq(Ours(r)')
      BY <2>1, <2>2, <2>3
    <2> QED
      BY <1>3, <2>1, <2>3, <2>4 DEF Inv, QueuesTyped
  <1>16. LoopsTyped'
    BY <1>3, <1>12 DEF Inv, LoopsTyped
  <1>17. ListenersKnown'
    BY <1>3, <1>7 DEF Inv, ListenersKnown, LoopsTyped, Ours
  <1>18. ClosedIsClosed'
    <2>1. ASSUME NEW r \in Nodes, "endpoint" \in ended[r], NEW d \in Ids'
          PROVE  r \notin conns'[d].open
      <3>1. CASE d = c
        <4>1. conns'[c].open = {p, q}
          BY <1>6
        <4>2. r # p /\ r # q
          BY <1>3, <2>1
        <4> QED
          BY <3>1, <4>1, <4>2
      <3>2. CASE d # c
        BY <1>6, <2>1, <3>2 DEF Inv, ClosedIsClosed
      <3> QED
        BY <3>1, <3>2
    <2> QED
      BY <1>3, <2>1 DEF ClosedIsClosed
  <1>19. StreamsInOrder'
    <2>1. ASSUME NEW d \in Ids, NEW r \in conns[d].ends
          PROVE  /\ Increasing(streams'[d][r])
                 /\ \A i \in DOMAIN streams'[d][r] : streams'[d][r][i] \in 1 .. written[r][Other(d, r)]
      BY <1>10 DEF Inv, StreamsInOrder
    <2>2. ASSUME NEW r \in {p, q} PROVE streams'[c][r] = <<>>
      BY <1>1, <1>10
    <2>3. Increasing(<<>>)
      BY DEF Increasing
    <2>4. ASSUME NEW d \in Ids', NEW r \in conns'[d].ends
          PROVE  /\ Increasing(streams'[d][r])
                 /\ \A i \in DOMAIN streams'[d][r] : streams'[d][r][i] \in 1 .. written'[r][Other(d, r)']
      <3>1. CASE d = c
        BY <1>6, <2>2, <2>3, <2>4, <3>1
      <3>2. CASE d # c
        <4>1. d \in Ids /\ r \in conns[d].ends /\ r \in Nodes
          BY <1>6, <1>8, <2>4, <3>2
        <4> QED
          BY <1>3, <1>7, <2>1, <4>1
      <3> QED
        BY <3>1, <3>2
    <2> QED
      BY <2>4 DEF StreamsInOrder
  <1>20. ReceivedInOrder'
    <2>1. Other(c, p)' = q /\ Other(c, q)' = p
      BY <1>1, <1>6 DEF Other
    <2>2. streams'[c][p] = <<>> /\ streams'[c][q] = <<>>
      BY <1>1, <1>10
    <2>3. ASSUME NEW d \in Ids, NEW r \in conns[d].ends, MayRead(r, d)
          PROVE  \A i \in DOMAIN rx[r][Other(d, r)], j \in DOMAIN streams'[d][Other(d, r)] :
                    rx[r][Other(d, r)][i] < streams'[d][Other(d, r)][j]
      BY <1>10, <2>3 DEF Inv, ReceivedInOrder
    <2>4. \A r, z \in Nodes : /\ Increasing(rx[r][z])
                              /\ \A i \in DOMAIN rx[r][z] : rx[r][z][i] \in 1 .. written[z][r]
      BY DEF Inv, ReceivedInOrder
    <2>5. ASSUME NEW d \in Ids', NEW r \in conns'[d].ends, MayRead(r, d)'
          PROVE  \A i \in DOMAIN rx'[r][Other(d, r)'], j \in DOMAIN streams'[d][Other(d, r)'] :
                    rx'[r][Other(d, r)'][i] < streams'[d][Other(d, r)'][j]
      <3>1. CASE d = c
        BY <1>6, <2>1, <2>2, <2>5, <3>1
      <3>2. CASE d # c
        <4>1. d \in Ids /\ r \in conns[d].ends /\ r \in Nodes
          BY <1>6, <1>8, <2>5, <3>2
        <4>2. Other(d, r)' = Other(d, r)
          BY <1>7, <4>1
        <4>3. \A z \in Senders : sender'[r][z].conn = d => sender[r][z].conn = d
          BY <1>4, <3>2 DEF Inv, SendersTyped
        <4>4. MayRead(r, d)
          BY <1>3, <1>6, <2>5, <4>1, <4>2, <4>3 DEF MayRead, Live
        <4> QED
          BY <1>3, <2>3, <2>5, <4>1, <4>2, <4>4
      <3> QED
        BY <3>1, <3>2
    <2> QED
      BY <1>3, <2>4, <2>5 DEF ReceivedInOrder
  <1>21. HandsKnown'
    BY <1>3 DEF Inv, HandsKnown
  <1>22. HandsInOrder'
    <2>1. ASSUME NEW r \in Nodes, NEW h \in hand[r]
          PROVE  Other(h.conn, r)' = Other(h.conn, r) /\ streams'[h.conn] = streams[h.conn]
      <3>1. h.conn \in Ids
        BY DEF Inv, HandsKnown, LoopsTyped, Ours
      <3> QED
        BY <1>7, <1>10, <3>1
    <2> QED
      BY <1>3, <2>1 DEF Inv, HandsInOrder
  <1> QED
    BY <1>9, <1>11, <1>13, <1>14, <1>15, <1>16, <1>17, <1>18, <1>19, <1>20, <1>21, <1>22 DEF Inv

\* Connections end: by their last handle, by what the other end did, with the endpoint
\* or with the process.
LEMMA CloseSteps ==
    ASSUME Inv, NEW p \in Nodes,
           \/ \E c \in Ours(p) : CloseEnd(p, c)
           \/ CloseEndpoint(p)
           \/ Restart(p)
    PROVE  /\ ConnsClose
           /\ CloseEndpoint(p) \/ Restart(p) => \A c \in Ids : p \notin conns'[c].open
  <1>1. conns \in Seq([ends : SUBSET Nodes, open : SUBSET Nodes])
    BY DEF Inv, ConnsTyped
  <1>2. CASE CloseEndpoint(p) \/ Restart(p)
    <2>1. conns' = [c \in Ids |-> [conns[c] EXCEPT !.open = @ \ {p}]]
      BY <1>2 DEF CloseEndpoint, Restart
    <2>2. ASSUME NEW c \in Ids
          PROVE  /\ conns'[c] \in [ends : SUBSET Nodes, open : SUBSET Nodes]
                 /\ conns'[c].ends = conns[c].ends /\ conns'[c].open = conns[c].open \ {p}
      <3>1. conns[c] \in [ends : SUBSET Nodes, open : SUBSET Nodes]
        BY <1>1, SeqElement DEF Ids
      <3>2. conns'[c] = [conns[c] EXCEPT !.open = conns[c].open \ {p}]
        BY <2>1
      <3> QED
        BY <3>1, <3>2
    <2>3. Ids = 1 .. Len(conns) /\ Len(conns) \in Nat /\ DOMAIN conns' = Ids
      BY <1>1, <2>1 DEF Ids
    <2> QED
      BY <2>1, <2>2, <2>3 DEF ConnsClose
  <1>3. ASSUME \E c \in Ours(p) : CloseEnd(p, c) PROVE ConnsClose
    <2>1. PICK c \in Ours(p) : CloseEnd(p, c)
      BY <1>3
    <2>2. PICK b : b = [conns[c] EXCEPT !.open = conns[c].open \ {p}]
      OBVIOUS
    <2>3. conns' = [conns EXCEPT ![c] = b]
      BY <2>1, <2>2 DEF CloseEnd
    <2>4. c \in Ids /\ conns[c] \in [ends : SUBSET Nodes, open : SUBSET Nodes]
      BY <1>1, SeqElement DEF Ours, Ids
    <2>5. /\ b \in [ends : SUBSET Nodes, open : SUBSET Nodes]
          /\ b.ends = conns[c].ends /\ b.open = conns[c].open \ {p}
      BY <2>2, <2>4
    <2> QED
      BY <1>1, <2>3, <2>4, <2>5 DEF ConnsClose, Ids
  <1> QED
    BY <1>2, <1>3

\* One end of one connection closes.
LEMMA CloseEndStep ==
    ASSUME Inv, NEW p \in Nodes, NEW c \in Ours(p), CloseEnd(p, c)
    PROVE  Inv'
  <1>1. UNCHANGED <<streams, cache, incoming, registered, listening, readers, hand, sender, written, rx,
                    ended, ends>>
    BY DEF CloseEnd
  <1>2. ConnsClose
    BY CloseSteps
  <1>3. /\ ConnsTyped' /\ CacheTyped' /\ QueuesTyped' /\ LoopsTyped' /\ SendersTyped'
    BY <1>1, <1>2, KeptTypes
  <1>4. /\ StreamsTyped' /\ StreamsInOrder' /\ ListenersKnown' /\ ReceivedInOrder' /\ ClosedIsClosed'
        /\ HandsKnown' /\ HandsInOrder'
    BY <1>1, <1>2, QuietStep
  <1> QED
    BY <1>3, <1>4 DEF Inv

\* A queue of the accept loop is emptied.
LEMMA QueueEmptied ==
    ASSUME NEW Q, DOMAIN Q = Nodes, \A r \in Nodes : Q[r] \in Seq(Ours(r)),
           NEW p \in Nodes, NEW R, R = [Q EXCEPT ![p] = <<>>]
    PROVE  DOMAIN R = Nodes /\ \A r \in Nodes : R[r] \in Seq(Ours(r))
  OBVIOUS

\* The entries of a node leave the cache.
LEMMA CacheCleared ==
    ASSUME CacheTyped, NEW p \in Nodes, Ids' = Ids, \A c \in Ids : conns'[c].ends = conns[c].ends,
           cache' = [cache EXCEPT ![p] = [q \in Nodes |-> 0]]
    PROVE  CacheTyped'
  <1>1. /\ cache' \in [Nodes -> [Nodes -> Nat]]
        /\ \A r, z \in Nodes : cache'[r][z] = IF r = p THEN 0 ELSE cache[r][z]
    BY DEF CacheTyped
  <1>2. ASSUME NEW r \in Nodes, NEW z \in Nodes, cache'[r][z] # 0
        PROVE  cache'[r][z] \in Ids' /\ conns'[cache'[r][z]].ends = {r, z}
    <2>1. cache'[r][z] = cache[r][z] /\ cache[r][z] # 0
      BY <1>1, <1>2
    <2>2. cache[r][z] \in Ids /\ conns[cache[r][z]].ends = {r, z}
      BY <2>1 DEF CacheTyped
    <2> QED
      BY <2>1, <2>2
  <1> QED
    BY <1>1, <1>2 DEF CacheTyped

\* The node is shut down: its token, its loop and its endpoint, one after the other.
LEMMA ShutdownSteps ==
    ASSUME Inv, NEW p \in Nodes, Shutdown(p) \/ LoopEnds(p) \/ CloseEndpoint(p)
    PROVE  Inv'
  <1>1. UNCHANGED <<streams, listening, readers, hand, sender, written, rx>>
    BY DEF Shutdown, LoopEnds, CloseEndpoint
  <1>2. ConnsClose
    <2>1. CASE Shutdown(p) \/ LoopEnds(p)
      BY <2>1, NoneClosed DEF Shutdown, LoopEnds
    <2>2. CASE CloseEndpoint(p)
      BY <2>2, CloseSteps
    <2> QED
      BY <2>1, <2>2
  <1>3. /\ ConnsTyped' /\ SendersTyped' /\ Ids' = Ids
        /\ StreamsTyped' /\ StreamsInOrder' /\ ListenersKnown' /\ HandsKnown' /\ HandsInOrder'
        /\ \A r \in Nodes : Ours(r)' = Ours(r)
        /\ \A c \in Ids : conns'[c].ends = conns[c].ends /\ conns'[c].open \subseteq conns[c].open
        /\ \A c \in Ids, r \in Nodes : Other(c, r)' = Other(c, r)
    BY <1>1, <1>2, KeptTypes, QuietStep DEF ConnsClose
  <1>4. CacheTyped'
    <2>1. CASE Shutdown(p)
      BY <1>3, <2>1, CacheCleared DEF Shutdown, Inv
    <2>2. CASE LoopEnds(p) \/ CloseEndpoint(p)
      BY <1>2, <2>2, KeptTypes DEF LoopEnds, CloseEndpoint
    <2> QED
      BY <2>1, <2>2
  <1>5. QueuesTyped'
    <2>1. QueuesTyped
      BY DEF Inv
    <2>2. /\ incoming' = incoming \/ incoming' = [incoming EXCEPT ![p] = <<>>]
          /\ registered' = registered \/ registered' = [registered EXCEPT ![p] = <<>>]
      BY DEF Shutdown, LoopEnds, CloseEndpoint
    <2>3. DOMAIN incoming' = Nodes /\ \A r \in Nodes : incoming'[r] \in Seq(Ours(r))
      BY <2>1, <2>2, QueueEmptied DEF QueuesTyped
    <2>4. DOMAIN registered' = Nodes /\ \A r \in Nodes : registered'[r] \in Seq(Ours(r))
      BY <2>1, <2>2, QueueEmptied DEF QueuesTyped
    <2> QED
      BY <1>3, <2>3, <2>4 DEF QueuesTyped
  <1>9. ReceivedInOrder'
    <2>1. \A r \in Nodes : ToSet(registered'[r]) \subseteq ToSet(registered[r])
      <3>1. registered' = registered \/ registered' = [registered EXCEPT ![p] = <<>>]
        BY DEF Shutdown, LoopEnds, CloseEndpoint
      <3> QED
        BY <3>1 DEF Inv, QueuesTyped, ToSet
    <2>2. \A d \in Ids : conns[d].ends \subseteq Nodes
      BY DEF Inv, ConnsTyped
    <2>3. \A d \in Ids : \A r \in conns[d].ends : MayRead(r, d)' => MayRead(r, d)
      BY <1>1, <1>3, <2>1, <2>2 DEF MayRead, Live
    <2> QED
      BY <1>1, <1>2, <2>3, OrderKept
  <1>6. /\ ended' \in [Nodes -> SUBSET {"token", "loop", "endpoint"}] /\ ends' \in Nat
        /\ \A r \in Nodes \ {p} : ended'[r] = ended[r]
    <2>1. ended \in [Nodes -> SUBSET {"token", "loop", "endpoint"}] /\ ends \in Nat
      BY DEF Inv, LoopsTyped
    <2>2. \/ /\ ended' = [ended EXCEPT ![p] = {"token"}] /\ ends' = ends + 1
          \/ /\ ended' = [ended EXCEPT ![p] = @ \cup {"loop"}] /\ ends' = ends
          \/ /\ ended' = [ended EXCEPT ![p] = @ \cup {"endpoint"}] /\ ends' = ends
      BY DEF Shutdown, LoopEnds, CloseEndpoint
    <2> QED
      BY <2>1, <2>2
  <1>7. LoopsTyped'
    BY <1>1, <1>3, <1>6 DEF Inv, LoopsTyped
  <1>8. ClosedIsClosed'
    <2>1. ClosedIsClosed /\ LoopsTyped
      BY DEF Inv
    <2>2. CASE Shutdown(p) \/ LoopEnds(p)
      <3>1. UNCHANGED conns /\ ("endpoint" \in ended'[p] => "endpoint" \in ended[p])
        BY <2>1, <2>2 DEF Shutdown, LoopEnds, LoopsTyped
      <3> QED
        BY <1>3, <1>6, <2>1, <3>1 DEF ClosedIsClosed
    <2>3. CASE CloseEndpoint(p)
      <3>1. \A c \in Ids : conns'[c].open \subseteq conns[c].open
        BY <1>2 DEF ConnsClose
      <3>2. \A c \in Ids : p \notin conns'[c].open
        BY <2>3, CloseSteps
      <3> QED
        BY <1>3, <1>6, <2>1, <3>1, <3>2 DEF ClosedIsClosed
    <2> QED
      BY <2>2, <2>3
  <1> QED
    BY <1>3, <1>4, <1>5, <1>7, <1>8, <1>9 DEF Inv

\* The process dies, and the next one knows nobody.
LEMMA RestartStep ==
    ASSUME Inv, NEW p \in Nodes, Restart(p)
    PROVE  Inv'
  <1>1. UNCHANGED <<streams, written, rx>>
    BY DEF Restart
  <1>2. ConnsClose /\ \A c \in Ids : p \notin conns'[c].open
    BY CloseSteps
  <1>3. /\ ConnsTyped' /\ Ids' = Ids /\ StreamsTyped' /\ StreamsInOrder'
        /\ \A r \in Nodes : Ours(r)' = Ours(r) /\ Sending(r)' = Sending(r)
        /\ \A c \in Ids, r \in Nodes : Other(c, r)' = Other(c, r)
        /\ \A c \in Ids : conns'[c].ends = conns[c].ends /\ conns'[c].open \subseteq conns[c].open
    BY <1>1, <1>2, KeptTypes, QuietStep DEF ConnsClose
  <1>4. CacheTyped'
    BY <1>3, CacheCleared DEF Restart, Inv
  <1>5. QueuesTyped'
    <2>1. QueuesTyped
      BY DEF Inv
    <2>2. incoming' = [incoming EXCEPT ![p] = <<>>] /\ registered' = [registered EXCEPT ![p] = <<>>]
      BY DEF Restart
    <2>3. DOMAIN incoming' = Nodes /\ \A r \in Nodes : incoming'[r] \in Seq(Ours(r))
      BY <2>1, <2>2, QueueEmptied DEF QueuesTyped
    <2>4. DOMAIN registered' = Nodes /\ \A r \in Nodes : registered'[r] \in Seq(Ours(r))
      BY <2>1, <2>2, QueueEmptied DEF QueuesTyped
    <2> QED
      BY <1>3, <2>3, <2>4 DEF QueuesTyped
  <1>6. LoopsTyped /\ SendersTyped
    BY DEF Inv
  <1>7. \A r \in Nodes : /\ listening'[r] = IF r = p THEN {} ELSE listening[r]
                         /\ readers'[r] = IF r = p THEN {} ELSE readers[r]
                         /\ ended'[r] = IF r = p THEN {} ELSE ended[r]
    BY <1>6 DEF Restart, LoopsTyped
  <1>8. /\ listening' \in [Nodes -> SUBSET Nodes] /\ readers' \in [Nodes -> SUBSET Nat]
        /\ ended' \in [Nodes -> SUBSET {"token", "loop", "endpoint"}] /\ ends' \in Nat
    BY <1>6 DEF Restart, LoopsTyped
  <1>9. LoopsTyped'
    BY <1>3, <1>6, <1>7, <1>8 DEF LoopsTyped
  <1>10. SendersTyped'
    <2>1. sender' = [sender EXCEPT ![p] = [s \in Senders |-> Idle]]
      BY DEF Restart
    <2>2. [s \in Senders |-> Idle] \in [Senders -> Sending(p)]
      BY DEF Sending
    <2> QED
      BY <1>3, <1>6, <2>1, <2>2 DEF SendersTyped
  <1>11. ListenersKnown'
    BY <1>3, <1>6, <1>7 DEF Inv, ListenersKnown, LoopsTyped, Ours
  <1>12. ClosedIsClosed'
    BY <1>3, <1>7 DEF Inv, ClosedIsClosed
  <1>13. ReceivedInOrder'
    <2>1. ASSUME NEW d \in Ids, NEW r \in conns[d].ends, MayRead(r, d)' PROVE MayRead(r, d)
      <3>1. r \in Nodes /\ Other(d, r)' = Other(d, r) /\ d # 0
        BY <1>3 DEF Inv, ConnsTyped, Ids
      <3>2. /\ registered'[r] = IF r = p THEN <<>> ELSE registered[r]
            /\ sender'[r] = IF r = p THEN [s \in Senders |-> Idle] ELSE sender[r]
        BY <3>1 DEF Restart, Inv, QueuesTyped, SendersTyped
      <3>3. CASE r = p
        BY <1>2, <1>7, <2>1, <3>1, <3>2, <3>3 DEF MayRead, Live, ToSet, Idle
      <3>4. CASE r # p
        BY <1>3, <1>7, <2>1, <3>1, <3>2, <3>4 DEF MayRead, Live
      <3> QED
        BY <3>3, <3>4
    <2> QED
      BY <1>1, <1>2, <2>1, OrderKept
  <1>14. HandsKnown' /\ HandsInOrder'
    <2>1. hand \in [Nodes -> SUBSET [conn : Nat, n : Nat]] /\ hand' = [hand EXCEPT ![p] = {}]
      BY DEF Restart, Inv, HandsKnown
    <2>2. hand' \in [Nodes -> SUBSET [conn : Nat, n : Nat]]
          /\ \A r \in Nodes : hand'[r] = IF r = p THEN {} ELSE hand[r]
      BY <2>1
    <2> QED
      BY <1>1, <1>2, <1>7, <2>2, HandsShrink DEF Inv, HandsKnown
  <1> QED
    BY <1>3, <1>4, <1>5, <1>9, <1>10, <1>11, <1>12, <1>13, <1>14 DEF Inv

-----------------------------------------------------------------------------
(* Every behaviour *)

\* Every action keeps the invariant.
LEMMA StepInv == Inv /\ [Next]_vars => Inv'
  <1> SUFFICES ASSUME Inv, [Next]_vars PROVE Inv'
    OBVIOUS
  <1>1. ASSUME NEW p \in Nodes, NEW s \in Senders,
               SenderStep(p, s) \/ \E q \in Nodes : SendStart(p, s, q)
        PROVE  Inv'
    BY <1>1, SenderSteps, ConnectStep, WriteStep DEF SenderStep
  <1>2. ASSUME NEW p \in Nodes, LoopStep(p) PROVE Inv'
    BY <1>2, LoopSteps DEF LoopStep
  <1>3. ASSUME NEW p \in Nodes, NEW c \in Ours(p), ConnStep(p, c) PROVE Inv'
    BY <1>3, AcceptStreamStep, ForwardStep, ReadFailsStep, ListenerEndsStep, CloseEndStep
       DEF ConnStep, DropConn, NoticeClosed
  <1>4. ASSUME NEW p \in Nodes, Shutdown(p) \/ LoopEnds(p) \/ CloseEndpoint(p) \/ Restart(p)
        PROVE  Inv'
    BY <1>4, ShutdownSteps, RestartStep
  <1>5. CASE UNCHANGED vars
    <2>1. UNCHANGED <<conns, streams, cache, incoming, registered, listening, readers, hand, sender,
                      written, rx, ended, ends>>
      BY <1>5 DEF vars
    <2>2. /\ ConnsTyped' /\ CacheTyped' /\ QueuesTyped' /\ LoopsTyped' /\ SendersTyped'
      BY <2>1, NoneClosed, KeptTypes
    <2>3. /\ StreamsTyped' /\ StreamsInOrder' /\ ListenersKnown' /\ ReceivedInOrder' /\ ClosedIsClosed'
          /\ HandsKnown' /\ HandsInOrder'
      BY <2>1, NoneClosed, QuietStep
    <2> QED
      BY <2>2, <2>3 DEF Inv
  <1> QED
    BY <1>1, <1>2, <1>3, <1>4, <1>5 DEF Next, Ours

\* The invariant holds in every state of every behaviour.
LEMMA Invariance == Spec => []Inv
  BY InitInv, StepInv, PTL DEF Spec

\* Every id that a task of a node holds is one of a connection of that node, and a
\* cached one leads to the peer it is cached for.
THEOREM TypeCorrect == Spec => []TypeOK
  <1>1. Inv => TypeOK
    <2> SUFFICES ASSUME Inv PROVE TypeOK
      OBVIOUS
    <2>1. DOMAIN streams = Ids
      BY DEF Inv, StreamsTyped, ConnsTyped, Ids
    <2>2. \A p, q \in Nodes : cache[p][q] # 0 => cache[p][q] \in Ids /\ conns[cache[p][q]].ends = {p, q}
      BY DEF Inv, CacheTyped
    <2>3. \A p \in Nodes : listening[p] \subseteq Nodes \ {p}
      BY DEF Inv, LoopsTyped, ListenersKnown
    <2>4. \A p \in Nodes : ToSet(incoming[p]) \subseteq Ours(p) /\ ToSet(registered[p]) \subseteq Ours(p)
      BY DEF Inv, QueuesTyped, ToSet
    <2>5. \A p \in Nodes : readers[p] \subseteq Ours(p)
      BY DEF Inv, LoopsTyped
    <2>6. \A p \in Nodes, s \in Senders : sender[p][s].conn \in Ids \cup {0}
      <3>1. ASSUME NEW p \in Nodes, NEW s \in Senders PROVE sender[p][s] \in Sending(p)
        BY DEF Inv, SendersTyped
      <3> QED
        BY <3>1 DEF Sending, Idle
    <2>7. \A p \in Nodes : \A h \in hand[p] : h.conn \in readers[p] /\ Reading(p, h.conn) = {h}
      BY DEF Inv, HandsKnown, Reading
    <2> QED
      BY <2>1, <2>2, <2>3, <2>4, <2>5, <2>6, <2>7 DEF TypeOK, Ours
  <1> QED
    BY <1>1, Invariance, PTL

\* However connections cross, are replaced in the cache and end, no two listeners of a
\* node read connections to the same peer.
THEOREM NoTwoReaders == Spec => []OneReaderPerPeer
  <1>1. Inv => OneReaderPerPeer
    <2> SUFFICES ASSUME Inv, NEW p \in Nodes, NEW c \in readers[p], NEW d \in readers[p],
                        conns[c].ends = conns[d].ends
                 PROVE  c = d
      BY DEF OneReaderPerPeer
    <2>1. Other(c, p) = Other(d, p)
      BY DEF Other
    <2> QED
      BY <2>1 DEF Inv, ListenersKnown
  <1> QED
    BY <1>1, Invariance, PTL

\* The steps by what they do to messages: they leave them, or drop those in hand; open a
\* connection; write one; take one in hand; forward it.
LEMMA MessageSteps ==
    ASSUME Inv, [Next]_vars
    PROVE  \/ /\ ConnsClose /\ UNCHANGED <<streams, written, rx>>
              /\ \A r \in Nodes : hand'[r] \subseteq hand[r]
           \/ \E r \in Nodes, s \in Senders : Connect(r, s)
           \/ \E r \in Nodes, s \in Senders : Write(r, s)
           \/ \E r \in Nodes : \E c \in Ours(r) : AcceptStream(r, c)
           \/ \E r \in Nodes : \E c \in Ours(r) : Forward(r, c)
  <1> DEFINE Quiet == /\ ConnsClose /\ UNCHANGED <<streams, written, rx>>
                      /\ \A r \in Nodes : hand'[r] \subseteq hand[r]
  <1>1. ASSUME NEW r \in Nodes, NEW s \in Senders,
               SenderStep(r, s) \/ \E q \in Nodes : SendStart(r, s, q)
        PROVE  Quiet \/ Connect(r, s) \/ Write(r, s)
    BY <1>1, NoneClosed DEF SenderStep, SendStart, CheckCache, ConnectFails, InsertConn, RegisterConn
  <1>2. ASSUME NEW r \in Nodes, LoopStep(r) PROVE Quiet
    BY <1>2, NoneClosed DEF LoopStep, Accept, TakeRegistered
  <1>3. ASSUME NEW r \in Nodes, NEW c \in Ours(r), ConnStep(r, c)
        PROVE  Quiet \/ AcceptStream(r, c) \/ Forward(r, c)
    <2>1. CASE ReadFails(r, c)
      <3>1. hand' = [hand EXCEPT ![r] = @ \ Reading(r, c)] /\ UNCHANGED <<conns, streams, written, rx>>
        BY <2>1 DEF ReadFails
      <3> QED
        BY <3>1, NoneClosed DEF Inv, HandsKnown
    <2>2. CASE ListenerEnds(r, c)
      BY <2>2, NoneClosed DEF ListenerEnds
    <2>3. CASE DropConn(r, c) \/ NoticeClosed(r, c)
      BY <2>3, CloseSteps DEF DropConn, NoticeClosed, CloseEnd
    <2> QED
      BY <1>3, <2>1, <2>2, <2>3 DEF ConnStep
  <1>4. ASSUME NEW r \in Nodes, Shutdown(r) \/ LoopEnds(r) \/ CloseEndpoint(r) PROVE Quiet
    <2>1. CASE Shutdown(r) \/ LoopEnds(r)
      BY <2>1, NoneClosed DEF Shutdown, LoopEnds
    <2>2. CASE CloseEndpoint(r)
      BY <2>2, CloseSteps DEF CloseEndpoint
    <2> QED
      BY <1>4, <2>1, <2>2
  <1>5. ASSUME NEW r \in Nodes, Restart(r) PROVE Quiet
    <2>1. hand' = [hand EXCEPT ![r] = {}] /\ UNCHANGED <<streams, written, rx>>
      BY <1>5 DEF Restart
    <2> QED
      BY <1>5, <2>1, CloseSteps DEF Inv, HandsKnown
  <1>6. CASE UNCHANGED vars
    BY <1>6, NoneClosed DEF vars
  <1> QED
    BY <1>1, <1>2, <1>3, <1>4, <1>5, <1>6 DEF Next, Ours

\* A node with no open connection gets no message that had not arrived before.
LEMMA NothingArrives ==
    ASSUME Inv, [Next]_vars, NEW p \in Nodes, NEW q \in Nodes \ {p},
           "endpoint" \in ended[p], \A c \in Ids : p \notin conns[c].open
    PROVE  Arrived(p, q)' \subseteq Arrived(p, q)
  <1>1. PICK A : A = Arrived(p, q)
    OBVIOUS
  <1>2. /\ ToSet(rx[p][q]) \subseteq A
        /\ \A h \in hand[p] : Other(h.conn, p) = q => h.n \in A
        /\ \A c \in Ids : conns[c].ends = {p, q} => ToSet(streams[c][q]) \subseteq A
    BY <1>1 DEF Arrived
  <1>3. \A h \in hand[p] : h.conn \in Ids
    BY DEF Inv, HandsKnown, LoopsTyped, Ours
  <1>4. SUFFICES /\ ToSet(rx'[p][q]) \subseteq A
                 /\ \A h \in hand'[p] : Other(h.conn, p)' = q => h.n \in A
                 /\ \A c \in Ids' : conns'[c].ends = {p, q} => ToSet(streams'[c][q]) \subseteq A
    BY <1>1 DEF Arrived
  <1>5. CASE /\ ConnsClose /\ UNCHANGED <<streams, written, rx>>
             /\ \A r \in Nodes : hand'[r] \subseteq hand[r]
    <2>1. /\ Ids' = Ids /\ \A c \in Ids : Other(c, p)' = Other(c, p) /\ conns'[c].ends = conns[c].ends
      BY <1>5, KeptTypes DEF ConnsClose
    <2> QED
      BY <1>2, <1>3, <1>5, <2>1
  <1>6. ASSUME NEW r \in Nodes, NEW s \in Senders, Connect(r, s)
        PROVE  /\ ToSet(rx'[p][q]) \subseteq A
               /\ \A h \in hand'[p] : Other(h.conn, p)' = q => h.n \in A
               /\ \A c \in Ids' : conns'[c].ends = {p, q} => ToSet(streams'[c][q]) \subseteq A
    <2>1. sender[r][s].to \in Nodes \ {r}
      BY <1>6, SenderState DEF Connect, Inv
    <2>2. /\ r # p /\ sender[r][s].to # p
          /\ conns' = Append(conns, [ends |-> {r, sender[r][s].to}, open |-> {r, sender[r][s].to}])
          /\ streams' = Append(streams, [z \in Nodes |-> <<>>]) /\ UNCHANGED <<rx, hand>>
      BY <1>6 DEF Connect
    <2>3. /\ conns \in Seq([ends : SUBSET Nodes, open : SUBSET Nodes])
          /\ [ends |-> {r, sender[r][s].to}, open |-> {r, sender[r][s].to}]
                \in [ends : SUBSET Nodes, open : SUBSET Nodes]
      BY <2>1 DEF Inv, ConnsTyped
    <2>4. /\ Ids' = Ids \cup {Len(conns) + 1}
          /\ conns'[Len(conns) + 1] = [ends |-> {r, sender[r][s].to}, open |-> {r, sender[r][s].to}]
          /\ \A c \in Ids : conns'[c] = conns[c]
      BY <2>2, <2>3, AppendTyped DEF Ids
    <2>5. conns'[Len(conns) + 1].ends # {p, q}
      <3>1. conns'[Len(conns) + 1].ends = {r, sender[r][s].to}
        BY <2>4
      <3>2. p \notin {r, sender[r][s].to}
        BY <2>2
      <3> QED
        BY <3>1, <3>2
    <2>6. \A c \in Ids : streams'[c] = streams[c]
      <3> DEFINE S == [Nodes -> Seq(Nat)]
      <3>1. streams \in Seq(S) /\ DOMAIN streams = Ids /\ [z \in Nodes |-> <<>>] \in S
        BY DEF Inv, StreamsTyped, ConnsTyped, Ids
      <3> HIDE DEF S
      <3> QED
        BY <2>2, <3>1, AppendTyped
    <2>7. \A c \in Ids : Other(c, p)' = Other(c, p)
      BY <2>4 DEF Other
    <2> QED
      BY <1>2, <1>3, <2>2, <2>4, <2>5, <2>6, <2>7
  <1>7. ASSUME NEW r \in Nodes, NEW s \in Senders, Write(r, s)
        PROVE  /\ ToSet(rx'[p][q]) \subseteq A
               /\ \A h \in hand'[p] : Other(h.conn, p)' = q => h.n \in A
               /\ \A c \in Ids' : conns'[c].ends = {p, q} => ToSet(streams'[c][q]) \subseteq A
    <2>1. PICK d : d = sender[r][s].conn
      OBVIOUS
    <2>2. PICK z : z = sender[r][s].to
      OBVIOUS
    <2>3. d \in Ids /\ conns[d].ends = {r, z} /\ r # z
      <3>1. /\ sender[r][s].to \in Nodes \ {r} /\ sender[r][s].conn \in Ids
            /\ conns[sender[r][s].conn].ends = {r, sender[r][s].to}
        BY <1>7, SenderState DEF Write, Inv
      <3> QED
        BY <2>1, <2>2, <3>1
    <2>4. UNCHANGED <<conns, rx, hand>>
      BY <1>7 DEF Write
    <2>5. UNCHANGED streams \/ (streams' = [streams EXCEPT ![d][r] = Append(@, written'[r][z])]
                                /\ r \in conns[d].open /\ z \in conns[d].open)
      BY <1>7, <2>1, <2>2 DEF Write, Open
    <2>6. ASSUME NEW c \in Ids, conns[c].ends = {p, q} PROVE streams'[c] = streams[c]
      <3>1. streams' # streams => c # d
        BY <2>3, <2>5, <2>6
      <3>2. c \in DOMAIN streams
        BY DEF Inv, StreamsTyped, ConnsTyped, Ids
      <3> QED
        BY <2>5, <3>1, <3>2
    <2> QED
      BY <1>2, <1>3, <2>4, <2>6 DEF Ids, Other
  <1>8. ASSUME NEW r \in Nodes, NEW d \in Ours(r), AcceptStream(r, d)
        PROVE  /\ ToSet(rx'[p][q]) \subseteq A
               /\ \A h \in hand'[p] : Other(h.conn, p)' = q => h.n \in A
               /\ \A c \in Ids' : conns'[c].ends = {p, q} => ToSet(streams'[c][q]) \subseteq A
    <2>1. PICK z : z = Other(d, r)
      OBVIOUS
    <2>2. /\ d \in Ids /\ z \in Nodes /\ conns[d].ends = {r, z}
      BY <2>1, OtherEnd DEF Inv, Ours
    <2>3. /\ streams[d][z] # <<>>
          /\ hand' = [hand EXCEPT ![r] = @ \cup {[conn |-> d, n |-> Head(streams[d][z])]}]
          /\ streams' = [streams EXCEPT ![d][z] = Tail(@)] /\ UNCHANGED <<conns, rx>>
      BY <1>8, <2>1 DEF AcceptStream
    <2>4. streams \in Seq([Nodes -> Seq(Nat)]) /\ DOMAIN streams = Ids
      BY DEF Inv, StreamsTyped, ConnsTyped, Ids
    <2>5. streams[d] \in [Nodes -> Seq(Nat)] /\ streams[d][z] \in Seq(Nat)
      BY <2>2, <2>4
    <2>6. Head(streams[d][z]) \in ToSet(streams[d][z]) /\ ToSet(Tail(streams[d][z])) \subseteq ToSet(streams[d][z])
      BY <2>3, <2>5, TailTyped DEF ToSet
    <2>7. ASSUME NEW c \in Ids, conns[c].ends = {p, q} PROVE ToSet(streams'[c][q]) \subseteq A
      <3>1. streams'[c][q] = streams[c][q] \/ (c = d /\ q = z /\ streams'[c][q] = Tail(streams[d][z]))
        BY <2>3, <2>4, <2>5, <2>7
      <3> QED
        BY <1>2, <2>6, <2>7, <3>1
    <2>8. ASSUME NEW h \in hand'[p], Other(h.conn, p)' = q PROVE h.n \in A
      <3>1. h \in hand[p] \/ (r = p /\ h = [conn |-> d, n |-> Head(streams[d][z])])
        BY <2>3 DEF Inv, HandsKnown
      <3>2. CASE h \in hand[p]
        BY <1>2, <2>3, <2>8, <3>2 DEF Other
      <3>3. CASE r = p /\ h = [conn |-> d, n |-> Head(streams[d][z])]
        <4>1. h.conn = d /\ h.n = Head(streams[d][z])
          BY <3>3
        <4>2. z = q
          BY <2>1, <2>3, <2>8, <3>3, <4>1 DEF Other
        <4> QED
          BY <1>2, <2>2, <2>6, <3>3, <4>1, <4>2
      <3> QED
        BY <3>1, <3>2, <3>3
    <2> QED
      BY <1>2, <2>3, <2>7, <2>8 DEF Ids
  <1>9. ASSUME NEW r \in Nodes, NEW d \in Ours(r), Forward(r, d)
        PROVE  /\ ToSet(rx'[p][q]) \subseteq A
               /\ \A h \in hand'[p] : Other(h.conn, p)' = q => h.n \in A
               /\ \A c \in Ids' : conns'[c].ends = {p, q} => ToSet(streams'[c][q]) \subseteq A
    <2>1. PICK h \in hand[r] : /\ h.conn = d
                               /\ rx' = [rx EXCEPT ![r][Other(d, r)] = Append(@, h.n)]
                               /\ hand' = [hand EXCEPT ![r] = @ \ {h}]
      BY <1>9 DEF Forward, Reading
    <2>2. UNCHANGED <<conns, streams>>
      BY <1>9 DEF Forward
    <2>3. rx[p][q] \in Seq(Nat) /\ h.n \in Nat
      BY DEF Inv, StreamsTyped, HandsKnown
    <2>4. rx'[p][q] = rx[p][q] \/ (r = p /\ Other(d, p) = q /\ rx'[p][q] = Append(rx[p][q], h.n))
      BY <2>1 DEF Inv, StreamsTyped
    <2>5. ToSet(Append(rx[p][q], h.n)) = ToSet(rx[p][q]) \cup {h.n}
      BY <2>3, AppendTyped DEF ToSet
    <2>6. ToSet(rx'[p][q]) \subseteq A
      BY <1>2, <2>1, <2>4, <2>5
    <2>7. hand'[p] \subseteq hand[p]
      BY <2>1 DEF Inv, HandsKnown
    <2> QED
      BY <1>2, <2>2, <2>6, <2>7 DEF Ids, Other
  <1> QED
    BY <1>5, <1>6, <1>7, <1>8, <1>9, MessageSteps

\* After its endpoint is closed a node opens nothing, writes nothing and gets nothing
\* more, whatever its senders and listeners were doing: they can only forward what
\* had arrived.
THEOREM FinalAfterShutdown == Spec => ShutDownIsFinal
  <1> DEFINE Final(p) == /\ \A c \in DOMAIN conns' : p \notin conns'[c].open
                         /\ written'[p] = written[p]
                         /\ \A q \in Nodes \ {p} : Arrived(p, q)' \subseteq Arrived(p, q)
  <1>1. Inv /\ Inv' /\ [Next]_vars => \A p \in Nodes : "endpoint" \in ended[p] => Final(p)
    <2> SUFFICES ASSUME Inv, Inv', [Next]_vars, NEW p \in Nodes, "endpoint" \in ended[p]
                 PROVE  Final(p)
      OBVIOUS
    <2>1. \A c \in Ids : p \notin conns[c].open
      BY DEF Inv, ClosedIsClosed
    <2>2. \A q \in Nodes \ {p} : Arrived(p, q)' \subseteq Arrived(p, q)
      BY <2>1, NothingArrives
    <2>3. ASSUME NEW r \in Nodes, NEW s \in Senders, Write(r, s)
          PROVE  written'[p] = written[p] /\ UNCHANGED conns
      <3>1. sender[r][s].conn \in Ids
        BY <2>3, SenderState DEF Write, Inv
      <3>2. r = p => UNCHANGED written
        BY <2>1, <2>3, <3>1 DEF Write, Open
      <3>3. r # p => written'[p] = written[p]
        BY <2>3 DEF Write, Inv, StreamsTyped
      <3> QED
        BY <2>3, <3>2, <3>3 DEF Write
    <2>4. ASSUME NEW r \in Nodes, NEW s \in Senders, Connect(r, s)
          PROVE  UNCHANGED <<written, ended>>
      BY <2>4 DEF Connect
    <2>5. CASE ConnsClose /\ UNCHANGED written
      BY <2>1, <2>2, <2>5 DEF ConnsClose
    <2>6. CASE \E r \in Nodes, s \in Senders : Connect(r, s)
      BY <2>2, <2>4, <2>6 DEF Inv, ClosedIsClosed, Ids
    <2>7. CASE \E r \in Nodes, s \in Senders : Write(r, s)
      BY <2>1, <2>2, <2>3, <2>7 DEF Ids
    <2>8. CASE \E r \in Nodes : \E c \in Ours(r) : AcceptStream(r, c) \/ Forward(r, c)
      BY <2>1, <2>2, <2>8 DEF AcceptStream, Forward, Ids
    <2> QED
      BY <2>5, <2>6, <2>7, <2>8, MessageSteps
  <1> QED
    BY <1>1, Invariance, StepInv, PTL DEF Spec, ShutDownIsFinal

\* The only steps that messages take are those of Transport: one is written, or one
\* that is newer than all before it arrives.
THEOREM NodeIsTransport == Spec => ImplementsTransport
  <1>1. Init => Link!Init
    BY DEF Init, Link!Init
  <1>2. Inv /\ [Next]_vars => [Link!Next]_<<written, rx>>
    <2> SUFFICES ASSUME Inv, [Next]_vars PROVE [Link!Next]_<<written, rx>>
      OBVIOUS
    <2>1. ASSUME NEW p \in Nodes, NEW s \in Senders, Write(p, s), ~UNCHANGED written
          PROVE  \E q \in Nodes : Link!Write(p, q)
      <3>1. /\ written' = [written EXCEPT ![p][sender[p][s].to] = @ + 1] /\ UNCHANGED rx
        BY <2>1 DEF Write
      <3>2. sender[p][s].to \in Nodes
        BY <2>1, SenderState DEF Write, Inv
      <3> QED
        BY <3>1, <3>2 DEF Link!Write
    <2>2. ASSUME NEW p \in Nodes, NEW c \in Ours(p), Forward(p, c)
          PROVE  \E q \in Nodes : Link!Receive(p, q)
      <3> DEFINE q == Other(c, p)
      <3>1. PICK h \in hand[p] : h.conn = c /\ rx' = [rx EXCEPT ![p][q] = Append(@, h.n)]
        BY <2>2 DEF Forward, Reading
      <3>2. UNCHANGED written
        BY <2>2 DEF Forward
      <3>3. c \in Ids /\ q \in Nodes \ {p}
        BY OtherEnd DEF Inv, Ours
      <3>4. rx[p][q] \in Seq(Nat) /\ written[q][p] \in Nat
        BY <3>3 DEF Inv, StreamsTyped
      <3>5. h.n \in 1 .. written[q][p] /\ \A i \in DOMAIN rx[p][q] : rx[p][q][i] < h.n
        BY <3>1, <3>3 DEF Inv, HandsInOrder
      <3>6. Link!Newest(rx[p][q]) \in Nat /\ Link!Newest(rx[p][q]) < h.n
        BY <3>4, <3>5 DEF Link!Newest
      <3>7. h.n \in (Link!Newest(rx[p][q]) + 1) .. written[q][p]
        BY <3>4, <3>5, <3>6
      <3> QED
        BY <3>1, <3>2, <3>3, <3>7 DEF Link!Receive
    <2>3. ASSUME NEW p \in Nodes, NEW s \in Senders, Connect(p, s) PROVE UNCHANGED <<written, rx>>
      BY <2>3 DEF Connect
    <2>4. ASSUME NEW p \in Nodes, NEW c \in Ours(p), AcceptStream(p, c) PROVE UNCHANGED <<written, rx>>
      BY <2>4 DEF AcceptStream
    <2>5. ASSUME NEW p \in Nodes, NEW s \in Senders, Write(p, s) PROVE UNCHANGED rx
      BY <2>5 DEF Write
    <2> QED
      BY <2>1, <2>2, <2>3, <2>4, <2>5, MessageSteps DEF Link!Next
  <1> QED
    BY <1>1, <1>2, Invariance, PTL DEF Spec, ImplementsTransport, Link!Spec

\* What a node gets from a peer is in the order of writing and without repetition.
THEOREM ReceivedOnceInOrder == Spec => [](\A p, q \in Nodes : Increasing(rx[p][q]))
  <1>1. Inv => \A p, q \in Nodes : Increasing(rx[p][q])
    BY DEF Inv, ReceivedInOrder
  <1> QED
    BY <1>1, Invariance, PTL

-----------------------------------------------------------------------------
(* The only connection of two nodes *)

\* Connection c is in a queue of the accept loop of p, or about to be registered.
Waiting(p, c) ==
    \/ c \in ToSet(incoming[p]) \cup ToSet(registered[p])
    \/ \E s \in Senders : sender[p][s].pc \in {"insert", "register"} /\ sender[p][s].conn = c

\* Who is listed has had a connection.
ListedHaveMet == \A p \in Nodes : \A q \in listening[p] : \E c \in Ids : conns[c].ends = {p, q}

\* A node that runs reads its only connection to a peer, or its accept loop is still to
\* be given it.
SoleIsKept ==
    \A c \in Ids : \A p \in conns[c].open :
       Sole(c) /\ ended[p] = {} => c \in readers[p] \/ Waiting(p, c)

\* As long as it is not read, there is no listener for the peer that would keep it from
\* being read.
SoleIsRead ==
    \A c \in Ids : \A p \in conns[c].open :
       Sole(c) /\ ended[p] = {} /\ Other(c, p) \in listening[p] => c \in readers[p]

\* The inductive invariant of sole connections.
SoleInv == ListedHaveMet /\ SoleIsKept /\ SoleIsRead

\* Nobody has met before the first connection.
LEMMA InitSole == Init => SoleInv
  BY DEF Init, SoleInv, ListedHaveMet, SoleIsKept, SoleIsRead, Ids

\* A connection is the only one as long as none is opened.
LEMMA SoleStays ==
    ASSUME Inv, ConnsClose
    PROVE  \A c \in Ids : Sole(c)' = Sole(c)
  BY DEF ConnsClose, Sole, Ids

\* A step that opens no connection keeps the invariant, if no node that goes on running
\* lists another peer, stops reading an open connection or forgets one that waits.
LEMMA SoleQuiet ==
    ASSUME Inv, SoleInv, ConnsClose,
           \A r \in Nodes : listening'[r] \subseteq listening[r],
           \A c \in Ids : \A r \in conns'[c].open : ended'[r] = {} =>
              /\ ended[r] = {}
              /\ c \in readers[r] => c \in readers'[r]
              /\ Waiting(r, c) => Waiting(r, c)' \/ c \in readers'[r]
    PROVE  SoleInv'
  <1>1. /\ Ids' = Ids /\ \A c \in Ids : conns'[c].open \subseteq conns[c].open /\ conns'[c].ends = conns[c].ends
        /\ \A c \in Ids : conns[c].open \subseteq Nodes /\ conns[c].open \subseteq conns[c].ends
        /\ \A c \in Ids, r \in Nodes : Other(c, r)' = Other(c, r)
        /\ \A c \in Ids : Sole(c)' = Sole(c)
    BY KeptTypes, SoleStays DEF Inv, ConnsTyped, ConnsClose
  <1>2. ListedHaveMet'
    BY <1>1 DEF SoleInv, ListedHaveMet
  <1>3. SoleIsKept'
    <2>1. ASSUME NEW c \in Ids, NEW r \in conns'[c].open, Sole(c), ended'[r] = {}
          PROVE  c \in readers'[r] \/ Waiting(r, c)'
      <3>1. r \in conns[c].open /\ ended[r] = {}
        BY <1>1, <2>1
      <3>2. c \in readers[r] \/ Waiting(r, c)
        BY <2>1, <3>1 DEF SoleInv, SoleIsKept
      <3> QED
        BY <2>1, <3>2
    <2> QED
      BY <1>1, <2>1 DEF SoleIsKept
  <1>4. SoleIsRead'
    <2>1. ASSUME NEW c \in Ids, NEW r \in conns'[c].open, Sole(c), ended'[r] = {},
                 Other(c, r) \in listening'[r]
          PROVE  c \in readers'[r]
      <3>1. r \in conns[c].open /\ ended[r] = {} /\ Other(c, r) \in listening[r]
        BY <1>1, <2>1
      <3>2. c \in readers[r]
        BY <2>1, <3>1 DEF SoleInv, SoleIsRead
      <3> QED
        BY <2>1, <3>2
    <2> QED
      BY <1>1, <2>1 DEF SoleIsRead
  <1> QED
    BY <1>2, <1>3, <1>4 DEF SoleInv

\* A sender that has opened a connection registers it.
LEMMA SoleSenders ==
    ASSUME Inv, SoleInv, NEW p \in Nodes, NEW s \in Senders,
           \/ \E q \in Nodes : SendStart(p, s, q)
           \/ CheckCache(p, s) \/ ConnectFails(p, s) \/ InsertConn(p, s) \/ RegisterConn(p, s)
           \/ Write(p, s)
    PROVE  SoleInv'
  <1>1. /\ UNCHANGED <<conns, incoming, listening, readers, ended>>
        /\ registered' # registered => RegisterConn(p, s)
    BY DEF SendStart, CheckCache, ConnectFails, InsertConn, RegisterConn, Write
  <1>2. \A r \in Nodes : ToSet(registered[r]) \subseteq ToSet(registered'[r])
    <2>1. ASSUME RegisterConn(p, s) PROVE \A r \in Nodes : ToSet(registered[r]) \subseteq ToSet(registered'[r])
      <3>1. registered[p] \in Seq(Ours(p)) /\ DOMAIN registered = Nodes /\ sender[p][s].conn \in Ours(p)
        <4>1. SendersTyped /\ QueuesTyped /\ sender[p][s].pc = "register"
          BY <2>1 DEF RegisterConn, Inv
        <4>2. sender[p][s].conn \in Ids /\ conns[sender[p][s].conn].ends = {p, sender[p][s].to}
          BY <4>1, SenderState
        <4>3. sender[p][s].conn \in Ours(p)
          BY <4>2 DEF Ours
        <4> QED
          BY <4>1, <4>3 DEF QueuesTyped
      <3>2. registered' \in {registered, [registered EXCEPT ![p] = Append(@, sender[p][s].conn)]}
        BY <2>1 DEF RegisterConn
      <3>3. ToSet(registered[p]) \subseteq ToSet(Append(registered[p], sender[p][s].conn))
        BY <3>1, AppendTyped DEF ToSet
      <3> QED
        BY <3>1, <3>2, <3>3
    <2> QED
      BY <1>1, <2>1
  <1>3. ASSUME NEW c \in Ids, NEW r \in conns[c].open, ended[r] = {}, NEW z \in Senders,
               sender[r][z].pc \in {"insert", "register"}, sender[r][z].conn = c
        PROVE  Waiting(r, c)'
    <2>1. r \in Nodes /\ DOMAIN sender = Nodes /\ \A x \in Nodes : DOMAIN sender[x] = Senders
      BY DEF Inv, ConnsTyped, SendersTyped
    <2>2. \A t : sender' = [sender EXCEPT ![p][s] = t] =>
                    sender'[r][z] = IF r = p /\ z = s THEN t ELSE sender[r][z]
      BY <2>1
    <2>3. CASE InsertConn(p, s)
      <3>1. PICK t : t = [sender[p][s] EXCEPT !.pc = "register"]
        OBVIOUS
      <3>2. sender[p][s] = [pc |-> "insert", to |-> sender[p][s].to, conn |-> sender[p][s].conn]
        BY <2>3, SenderState DEF InsertConn, Inv
      <3>3. t.conn = sender[p][s].conn /\ t.pc = "register"
        BY <3>1, <3>2
      <3>4. sender'[r][z] = IF r = p /\ z = s THEN t ELSE sender[r][z]
        BY <2>2, <2>3, <3>1 DEF InsertConn
      <3> QED
        BY <1>3, <3>3, <3>4 DEF Waiting
    <2>4. CASE RegisterConn(p, s)
      <3>1. CASE r = p /\ z = s
        <4>1. registered' = [registered EXCEPT ![p] = Append(@, c)]
          BY <1>3, <2>4, <3>1 DEF RegisterConn
        <4>2. registered[p] \in Seq(Ours(p)) /\ DOMAIN registered = Nodes /\ c \in Ours(p)
          BY <1>3, <2>1, <3>1 DEF Inv, QueuesTyped, Ours, ConnsTyped
        <4>3. c \in ToSet(Append(registered[p], c))
          BY <4>2, AppendTyped DEF ToSet
        <4> QED
          BY <3>1, <4>1, <4>2, <4>3 DEF Waiting
      <3>2. CASE ~(r = p /\ z = s)
        <4>1. sender'[r][z] = sender[r][z]
          BY <2>2, <2>4, <3>2 DEF RegisterConn
        <4> QED
          BY <1>3, <4>1 DEF Waiting
      <3> QED
        BY <3>1, <3>2
    <2>5. CASE \/ \E q \in Nodes : SendStart(p, s, q)
               \/ CheckCache(p, s) \/ ConnectFails(p, s) \/ Write(p, s)
      <3>1. \E t : sender' = [sender EXCEPT ![p][s] = t]
        <4>1. CASE \E q \in Nodes : SendStart(p, s, q)
          BY <4>1 DEF SendStart
        <4>2. CASE CheckCache(p, s)
          BY <4>2 DEF CheckCache
        <4>3. CASE ConnectFails(p, s) \/ Write(p, s)
          BY <4>3 DEF ConnectFails, Write
        <4> QED
          BY <2>5, <4>1, <4>2, <4>3
      <3>2. sender[p][s].pc \notin {"insert", "register"}
        BY <2>5 DEF SendStart, CheckCache, ConnectFails, Write, Idle
      <3>3. sender'[r][z] = sender[r][z]
        BY <1>3, <2>2, <3>1, <3>2
      <3> QED
        BY <1>3, <3>3 DEF Waiting
    <2> QED
      BY <2>3, <2>4, <2>5
  <1>4. \A c \in Ids : conns[c].open \subseteq Nodes
    BY DEF Inv, ConnsTyped
  <1>5. ASSUME NEW c \in Ids, NEW r \in conns[c].open, ended[r] = {}, Waiting(r, c) PROVE Waiting(r, c)'
    <2>1. CASE c \in ToSet(incoming[r]) \cup ToSet(registered[r])
      BY <1>1, <1>2, <1>4, <2>1 DEF Waiting
    <2>2. CASE c \notin ToSet(incoming[r]) \cup ToSet(registered[r])
      BY <1>3, <1>5, <2>2 DEF Waiting
    <2> QED
      BY <2>1, <2>2
  <1> QED
    BY <1>1, <1>5, NoneClosed, SoleQuiet

\* A connection that is opened waits at both ends, and is the only one of two nodes
\* only if neither had listed the other.
LEMMA SoleConnect ==
    ASSUME Inv, SoleInv, NEW p \in Nodes, NEW s \in Senders, Connect(p, s)
    PROVE  SoleInv'
  <1>1. PICK q : q \in Nodes \ {p} /\ sender[p][s] = [pc |-> "connect", to |-> q, conn |-> 0]
    <2>1. sender[p][s].pc = "connect" /\ SendersTyped
      BY DEF Connect, Inv
    <2>2. /\ sender[p][s].to \in Nodes \ {p}
          /\ sender[p][s] = [pc |-> "connect", to |-> sender[p][s].to, conn |-> 0]
      BY <2>1, SenderState, ZenonT(60)
    <2> QED
      BY <2>2
  <1>2. PICK c : c = Len(conns) + 1
    OBVIOUS
  <1> DEFINE conn == [ends |-> {p, q}, open |-> {p, q}]
             t == [pc |-> "insert", to |-> q, conn |-> c]
  <1>3. /\ conns' = Append(conns, conn)
        /\ incoming' = [incoming EXCEPT ![q] = Append(@, c)]
        /\ UNCHANGED <<registered, listening, readers, ended>>
    BY <1>1, <1>2 DEF Connect
  <1>4. sender' = [sender EXCEPT ![p][s] = t]
    <2>1. sender' = [sender EXCEPT ![p][s] = [[sender[p][s] EXCEPT !.pc = "insert"] EXCEPT !.conn = c]]
      BY <1>2 DEF Connect
    <2>2. [sender[p][s] EXCEPT !.pc = "insert"] = [pc |-> "insert", to |-> q, conn |-> 0]
      BY <1>1
    <2>3. [[pc |-> "insert", to |-> q, conn |-> 0] EXCEPT !.conn = c] = t
      OBVIOUS
    <2> QED
      BY <2>1, <2>2, <2>3
  <1>5. /\ conns \in Seq([ends : SUBSET Nodes, open : SUBSET Nodes])
        /\ conn \in [ends : SUBSET Nodes, open : SUBSET Nodes]
    BY <1>1 DEF Inv, ConnsTyped
  <1>6. /\ Ids' = Ids \cup {c} /\ c \notin Ids /\ 0 \notin Ids
        /\ conns'[c] = conn /\ \A d \in Ids : conns'[d] = conns[d]
    BY <1>2, <1>3, <1>5, AppendTyped DEF Ids
  <1>7. /\ \A d \in Ids, r \in Nodes : Other(d, r)' = Other(d, r)
        /\ \A d \in Ids : Sole(d)' => Sole(d)
        /\ \A d \in Ids : conns[d].open \subseteq Nodes
    BY <1>6 DEF Other, Sole, Inv, ConnsTyped
  <1>8. ASSUME NEW d \in Ids, NEW r \in Nodes, Waiting(r, d) PROVE Waiting(r, d)'
    <2>1. /\ DOMAIN sender = Nodes /\ \A x \in Nodes : DOMAIN sender[x] = Senders
          /\ DOMAIN incoming = Nodes /\ incoming[q] \in Seq(Ours(q))
      BY <1>1 DEF Inv, SendersTyped, QueuesTyped
    <2>2. \A z \in Senders : sender[r][z].pc \in {"insert", "register"} => sender'[r][z] = sender[r][z]
      BY <1>1, <1>4, <2>1
    <2>3. ToSet(incoming[r]) \subseteq ToSet(incoming'[r])
      <3>1. incoming[q] \in Seq(Ours(q) \cup {c})
        BY <2>1, SeqWidens
      <3>2. ToSet(incoming[q]) \subseteq ToSet(Append(incoming[q], c))
        BY <3>1, AppendTyped DEF ToSet
      <3> QED
        BY <1>3, <2>1, <3>2
    <2> QED
      BY <1>3, <1>8, <2>2, <2>3 DEF Waiting
  <1>9. Waiting(p, c)' /\ Waiting(q, c)'
    <2>1. Waiting(p, c)'
      <3>1. sender'[p][s] = t
        BY <1>4 DEF Inv, SendersTyped
      <3> QED
        BY <3>1 DEF Waiting
    <2>2. Waiting(q, c)'
      <3>1. incoming[q] \in Seq(Ours(q) \cup {c}) /\ DOMAIN incoming = Nodes
        <4>1. incoming[q] \in Seq(Ours(q)) /\ DOMAIN incoming = Nodes
          BY <1>1 DEF Inv, QueuesTyped
        <4> QED
          BY <4>1, SeqWidens
      <3>2. PICK S : S = Ours(q) \cup {c}
        OBVIOUS
      <3>3. incoming[q] \in Seq(S) /\ c \in S
        BY <3>1, <3>2
      <3>4. c \in ToSet(Append(incoming[q], c))
        BY <3>3, AppendTyped DEF ToSet
      <3> QED
        BY <1>1, <1>3, <3>1, <3>4 DEF Waiting
    <2> QED
      BY <2>1, <2>2
  <1>10. ListedHaveMet'
    <2>1. ASSUME NEW r \in Nodes, NEW z \in listening[r] PROVE \E d \in Ids' : conns'[d].ends = {r, z}
      <3>1. PICK d \in Ids : conns[d].ends = {r, z}
        BY <2>1 DEF SoleInv, ListedHaveMet
      <3> QED
        BY <1>6, <3>1
    <2> QED
      BY <1>3, <2>1 DEF ListedHaveMet
  <1>11. SoleIsKept'
    <2>1. ASSUME NEW d \in Ids', NEW r \in conns'[d].open, Sole(d)', ended'[r] = {}
          PROVE  d \in readers'[r] \/ Waiting(r, d)'
      <3>1. CASE d = c
        <4>1. r = p \/ r = q
          BY <1>6, <2>1, <3>1
        <4> QED
          BY <1>9, <3>1, <4>1
      <3>2. CASE d # c
        <4>1. d \in Ids /\ r \in conns[d].open /\ Sole(d) /\ r \in Nodes
          BY <1>6, <1>7, <2>1, <3>2
        <4>2. d \in readers[r] \/ Waiting(r, d)
          BY <1>3, <2>1, <4>1 DEF SoleInv, SoleIsKept
        <4> QED
          BY <1>3, <1>8, <4>1, <4>2
      <3> QED
        BY <3>1, <3>2
    <2> QED
      BY <2>1 DEF SoleIsKept
  <1>12. SoleIsRead'
    <2>1. ASSUME NEW d \in Ids', NEW r \in conns'[d].open, Sole(d)', ended'[r] = {},
                 Other(d, r)' \in listening'[r]
          PROVE  d \in readers'[r]
      <3>1. CASE d = c
        <4>1. r \in {p, q} /\ r \in Nodes
          BY <1>1, <1>6, <2>1, <3>1
        <4>2. {r, Other(c, r)'} = {p, q}
          BY <1>1, <1>6, <4>1 DEF Other
        <4>3. PICK e \in Ids : conns[e].ends = {p, q}
          <5>1. Other(c, r)' \in listening[r]
            BY <1>3, <2>1, <3>1
          <5>2. \E e \in Ids : conns[e].ends = {r, Other(c, r)'}
            BY <4>1, <5>1 DEF SoleInv, ListedHaveMet
          <5> QED
            BY <4>2, <5>2
        <4>4. e \in Ids' /\ conns'[e].ends = {p, q} /\ conns'[c].ends = {p, q} /\ e # c
          BY <1>6, <4>3
        <4> QED
          BY <2>1, <3>1, <4>4 DEF Sole
      <3>2. CASE d # c
        <4>1. d \in Ids /\ r \in conns[d].open /\ Sole(d) /\ r \in Nodes
          BY <1>6, <1>7, <2>1, <3>2
        <4> QED
          BY <1>3, <1>7, <2>1, <4>1 DEF SoleInv, SoleIsRead
      <3> QED
        BY <3>1, <3>2
    <2> QED
      BY <2>1 DEF SoleIsRead
  <1> QED
    BY <1>10, <1>11, <1>12 DEF SoleInv

\* The accept loop is given a connection, and reads it if it is the only one.
LEMMA SoleSpawn ==
    ASSUME Inv, SoleInv, NEW p \in Nodes, NEW c \in Ours(p), SpawnListener(p, c),
           UNCHANGED <<conns, sender, ended>>,
           \A r \in Nodes, d \in Ids : Waiting(r, d) => Waiting(r, d)' \/ (r = p /\ d = c)
    PROVE  SoleInv'
  <1>1. /\ Ids' = Ids /\ \A d \in Ids, r \in Nodes : Other(d, r)' = Other(d, r)
        /\ \A d \in Ids : Sole(d)' = Sole(d)
        /\ \A d \in Ids : conns[d].open \subseteq Nodes /\ conns[d].open \subseteq conns[d].ends
    BY NoneClosed, KeptTypes, SoleStays DEF Inv, ConnsTyped
  <1>2. c \in Ids /\ conns[c].ends = {p, Other(c, p)}
    BY OtherEnd DEF Inv, Ours
  <1>3. CASE Other(c, p) \in listening[p]
    <2>1. UNCHANGED <<listening, readers>>
      BY <1>3 DEF SpawnListener
    <2>2. ListedHaveMet' /\ SoleIsRead'
      BY <1>1, <2>1 DEF SoleInv, ListedHaveMet, SoleIsRead
    <2>3. ASSUME NEW d \in Ids, NEW r \in conns[d].open, Sole(d), ended[r] = {}
          PROVE  d \in readers[r] \/ Waiting(r, d)'
      <3>1. d \in readers[r] \/ Waiting(r, d)
        BY <2>3 DEF SoleInv, SoleIsKept
      <3>2. CASE r = p /\ d = c
        BY <1>3, <2>3, <3>2 DEF SoleInv, SoleIsRead
      <3>3. CASE ~(r = p /\ d = c)
        BY <1>1, <3>1, <3>3
      <3> QED
        BY <3>2, <3>3
    <2>4. SoleIsKept'
      BY <1>1, <2>1, <2>3 DEF SoleIsKept
    <2> QED
      BY <2>2, <2>4 DEF SoleInv
  <1>4. CASE Other(c, p) \notin listening[p]
    <2>1. \A r \in Nodes :
             /\ listening'[r] = IF r = p THEN listening[p] \cup {Other(c, p)} ELSE listening[r]
             /\ readers'[r] = IF r = p THEN readers[p] \cup {c} ELSE readers[r]
      BY <1>4 DEF SpawnListener, Inv, LoopsTyped
    <2>2. ListedHaveMet'
      BY <1>1, <1>2, <2>1 DEF SoleInv, ListedHaveMet
    <2>3. ASSUME NEW d \in Ids, NEW r \in conns[d].open, Sole(d), ended[r] = {}
          PROVE  d \in readers'[r] \/ Waiting(r, d)'
      <3>1. d \in readers[r] \/ Waiting(r, d)
        BY <2>3 DEF SoleInv, SoleIsKept
      <3> QED
        BY <1>1, <2>1, <3>1
    <2>4. ASSUME NEW d \in Ids, NEW r \in conns[d].open, Sole(d), ended[r] = {},
                 Other(d, r) \in listening'[r]
          PROVE  d \in readers'[r]
      <3>1. r \in Nodes /\ conns[d].ends = {r, Other(d, r)}
        BY <1>1, OtherEnd DEF Inv
      <3>2. CASE r = p /\ Other(d, r) = Other(c, p)
        <4>1. d = c
          BY <1>2, <2>4, <3>1, <3>2 DEF Sole
        <4> QED
          BY <2>1, <3>2, <4>1
      <3>3. CASE ~(r = p /\ Other(d, r) = Other(c, p))
        <4>1. Other(d, r) \in listening[r]
          BY <2>1, <2>4, <3>1, <3>3
        <4>2. d \in readers[r]
          BY <2>4, <4>1 DEF SoleInv, SoleIsRead
        <4> QED
          BY <2>1, <3>1, <4>2
      <3> QED
        BY <3>2, <3>3
    <2>5. SoleIsKept' /\ SoleIsRead'
      <3>1. SoleIsKept'
        BY <1>1, <2>3 DEF SoleIsKept
      <3>2. SoleIsRead'
        BY <1>1, <2>4 DEF SoleIsRead
      <3> QED
        BY <3>1, <3>2
    <2> QED
      BY <2>2, <2>5 DEF SoleInv
  <1> QED
    BY <1>3, <1>4

\* The head of a queue leaves it.
LEMMA HeadOrTail ==
    ASSUME NEW S, NEW s \in Seq(S), s # <<>>
    PROVE  \A e \in ToSet(s) : e = Head(s) \/ e \in ToSet(Tail(s))
  <1>1. ASSUME NEW i \in DOMAIN s PROVE s[i] = Head(s) \/ s[i] \in ToSet(Tail(s))
    <2>1. CASE i = 1
      BY <2>1
    <2>2. CASE i # 1
      <3>1. i - 1 \in DOMAIN Tail(s) /\ Tail(s)[i - 1] = s[i]
        BY <2>2
      <3> QED
        BY <3>1 DEF ToSet
    <2> QED
      BY <2>1, <2>2
  <1> QED
    BY <1>1 DEF ToSet

\* The accept loop takes a connection that came in or was registered.
LEMMA SoleLoop ==
    ASSUME Inv, SoleInv, NEW p \in Nodes, Accept(p) \/ TakeRegistered(p)
    PROVE  SoleInv'
  <1>1. UNCHANGED <<conns, sender, ended>>
    BY DEF Accept, TakeRegistered
  <1>2. CASE Accept(p)
    <2>1. PICK c : c = Head(incoming[p])
      OBVIOUS
    <2>2. /\ incoming[p] \in Seq(Ours(p)) /\ incoming[p] # <<>> /\ DOMAIN incoming = Nodes
          /\ incoming' = [incoming EXCEPT ![p] = Tail(@)] /\ UNCHANGED registered
      BY <1>2 DEF Accept, Inv, QueuesTyped
    <2>3. c \in Ours(p) /\ \A d \in ToSet(incoming[p]) : d = c \/ d \in ToSet(Tail(incoming[p]))
      BY <2>1, <2>2, HeadOrTail
    <2>4. \A r \in Nodes, d \in Ids : Waiting(r, d) => Waiting(r, d)' \/ (r = p /\ d = c)
      BY <1>1, <2>2, <2>3 DEF Waiting
    <2>5. CASE Open(c, p)
      <3>1. SpawnListener(p, c)
        BY <1>2, <2>1, <2>5 DEF Accept
      <3> QED
        BY <1>1, <2>3, <2>4, <3>1, SoleSpawn
    <2>6. CASE ~Open(c, p)
      <3>1. UNCHANGED <<listening, readers>> /\ p \notin conns[c].open
        BY <1>2, <2>1, <2>6 DEF Accept, Open
      <3>2. \A d \in Ids : conns[d].open \subseteq Nodes
        BY DEF Inv, ConnsTyped
      <3>3. \A d \in Ids : \A r \in conns[d].open : Waiting(r, d) => Waiting(r, d)'
        BY <2>4, <3>1, <3>2
      <3> QED
        BY <1>1, <3>1, <3>3, NoneClosed, SoleQuiet
    <2> QED
      BY <2>5, <2>6
  <1>3. CASE TakeRegistered(p)
    <2>1. PICK c : c = Head(registered[p])
      OBVIOUS
    <2>2. /\ registered[p] \in Seq(Ours(p)) /\ registered[p] # <<>> /\ DOMAIN registered = Nodes
          /\ SpawnListener(p, c)
          /\ registered' = [registered EXCEPT ![p] = Tail(@)] /\ UNCHANGED incoming
      BY <1>3, <2>1 DEF TakeRegistered, Inv, QueuesTyped
    <2>3. c \in Ours(p) /\ \A d \in ToSet(registered[p]) : d = c \/ d \in ToSet(Tail(registered[p]))
      BY <2>1, <2>2, HeadOrTail
    <2>4. \A r \in Nodes, d \in Ids : Waiting(r, d) => Waiting(r, d)' \/ (r = p /\ d = c)
      BY <1>1, <2>2, <2>3 DEF Waiting
    <2> QED
      BY <1>1, <2>2, <2>3, <2>4, SoleSpawn
  <1> QED
    BY <1>2, <1>3

\* A listener ends only with its connection or its node, and what ends at a node ends
\* nothing at the others.
LEMMA SoleEnds ==
    ASSUME Inv, SoleInv, NEW p \in Nodes,
           \/ \E c \in Ours(p) : ConnStep(p, c)
           \/ Shutdown(p) \/ LoopEnds(p) \/ CloseEndpoint(p) \/ Restart(p)
    PROVE  SoleInv'
  <1>1. \A c \in Ids : conns[c].open \subseteq Nodes
    BY DEF Inv, ConnsTyped
  <1>2. ASSUME NEW c \in Ours(p), ConnStep(p, c) PROVE SoleInv'
    <2>1. UNCHANGED <<listening, ended, incoming, registered, sender>>
      BY <1>2 DEF ConnStep, AcceptStream, Forward, ReadFails, ListenerEnds, DropConn, NoticeClosed, CloseEnd
    <2>2. ConnsClose
      <3>1. CASE AcceptStream(p, c) \/ Forward(p, c) \/ ReadFails(p, c) \/ ListenerEnds(p, c)
        BY <3>1, NoneClosed DEF AcceptStream, Forward, ReadFails, ListenerEnds
      <3>2. CASE DropConn(p, c) \/ NoticeClosed(p, c)
        BY <3>2, CloseSteps DEF DropConn, NoticeClosed
      <3> QED
        BY <1>2, <3>1, <3>2 DEF ConnStep
    <2>3. ASSUME NEW d \in Ids, NEW r \in conns'[d].open, ended[r] = {}, d \in readers[r]
          PROVE  d \in readers'[r]
      <3>1. CASE ListenerEnds(p, c)
        <4>1. /\ readers' = [readers EXCEPT ![p] = @ \ {c}] /\ UNCHANGED conns
              /\ p \notin conns[c].open \/ ended[p] # {}
          BY <3>1 DEF ListenerEnds, Open
        <4> QED
          BY <1>1, <2>3, <4>1 DEF Inv, LoopsTyped
      <3>2. CASE ~ListenerEnds(p, c)
        BY <1>2, <2>3, <3>2 DEF ConnStep, AcceptStream, Forward, ReadFails, DropConn, NoticeClosed, CloseEnd
      <3> QED
        BY <3>1, <3>2
    <2>4. \A d \in Ids, r \in Nodes : Waiting(r, d)' = Waiting(r, d)
      BY <2>1 DEF Waiting
    <2>5. \A d \in Ids : conns'[d].open \subseteq Nodes
      BY <1>1, <2>2 DEF ConnsClose
    <2> QED
      BY <2>1, <2>2, <2>3, <2>4, <2>5, SoleQuiet
  <1>3. ASSUME Shutdown(p) \/ LoopEnds(p) \/ CloseEndpoint(p) PROVE SoleInv'
    <2>1. ConnsClose
      BY <1>3, NoneClosed, CloseSteps DEF Shutdown, LoopEnds
    <2>2. UNCHANGED <<listening, readers, sender>>
      BY <1>3 DEF Shutdown, LoopEnds, CloseEndpoint
    <2>3. /\ ended'[p] # {}
          /\ \A r \in Nodes \ {p} : /\ ended'[r] = ended[r]
                                    /\ incoming'[r] = incoming[r] /\ registered'[r] = registered[r]
      <3>1. DOMAIN incoming = Nodes /\ DOMAIN registered = Nodes /\ DOMAIN ended = Nodes
        BY DEF Inv, QueuesTyped, LoopsTyped
      <3> QED
        BY <1>3, <3>1 DEF Shutdown, LoopEnds, CloseEndpoint
    <2>4. \A d \in Ids : \A r \in conns'[d].open : ended'[r] = {} =>
             r \in Nodes \ {p} /\ ended[r] = {} /\ (Waiting(r, d) => Waiting(r, d)')
      BY <1>1, <2>1, <2>2, <2>3 DEF ConnsClose, Waiting
    <2> QED
      BY <2>1, <2>2, <2>4, SoleQuiet
  <1>4. ASSUME Restart(p) PROVE SoleInv'
    <2>1. ConnsClose /\ \A d \in Ids : p \notin conns'[d].open
      BY <1>4, CloseSteps
    <2>2. /\ DOMAIN incoming = Nodes /\ DOMAIN registered = Nodes /\ DOMAIN ended = Nodes
          /\ DOMAIN sender = Nodes /\ DOMAIN listening = Nodes /\ DOMAIN readers = Nodes
      BY DEF Inv, QueuesTyped, LoopsTyped, SendersTyped
    <2>3. /\ \A r \in Nodes : listening'[r] \subseteq listening[r]
          /\ \A r \in Nodes \ {p} : /\ ended'[r] = ended[r] /\ readers'[r] = readers[r] /\ sender'[r] = sender[r]
                                    /\ incoming'[r] = incoming[r] /\ registered'[r] = registered[r]
      BY <1>4, <2>2 DEF Restart
    <2>4. \A d \in Ids : \A r \in conns'[d].open :
             /\ ended'[r] = ended[r] /\ readers'[r] = readers[r]
             /\ Waiting(r, d) => Waiting(r, d)'
      BY <1>1, <2>1, <2>3 DEF ConnsClose, Waiting
    <2> QED
      BY <2>1, <2>3, <2>4, SoleQuiet
  <1> QED
    BY <1>2, <1>3, <1>4

\* Every step keeps the invariant.
LEMMA StepSole == Inv /\ SoleInv /\ [Next]_vars => SoleInv'
  <1> SUFFICES ASSUME Inv, SoleInv, [Next]_vars PROVE SoleInv'
    OBVIOUS
  <1>1. ASSUME NEW p \in Nodes, NEW s \in Senders,
               SenderStep(p, s) \/ \E q \in Nodes : SendStart(p, s, q)
        PROVE  SoleInv'
    BY <1>1, SoleSenders, SoleConnect DEF SenderStep
  <1>2. ASSUME NEW p \in Nodes, LoopStep(p) PROVE SoleInv'
    BY <1>2, SoleLoop DEF LoopStep
  <1>3. ASSUME NEW p \in Nodes,
               \/ \E c \in Ours(p) : ConnStep(p, c)
               \/ Shutdown(p) \/ LoopEnds(p) \/ CloseEndpoint(p) \/ Restart(p)
        PROVE  SoleInv'
    BY <1>3, SoleEnds
  <1>4. CASE UNCHANGED vars
    BY <1>4, NoneClosed, SoleQuiet DEF vars, Waiting
  <1> QED
    BY <1>1, <1>2, <1>3, <1>4 DEF Next, Ours

\* Whoever invites, whichever tasks send at once and whatever is shut down or restarted:
\* when the accept loops have caught up, a connection that two nodes would send on, and
\* the only one they ever had, is read at both of its ends.
THEOREM SoleLinksRead == Spec => []SoleLinksAreRead
  <1>1. Inv /\ SoleInv => SoleLinksAreRead
    <2> SUFFICES ASSUME Inv, SoleInv, Settled, NEW p \in Nodes, NEW q \in Nodes,
                        cache[p][q] # 0, Open(cache[p][q], p), Sole(cache[p][q]), ended[q] = {}
                 PROVE  cache[p][q] \in readers[q]
      BY DEF SoleLinksAreRead
    <2>1. PICK c : c = cache[p][q]
      OBVIOUS
    <2>2. c \in Ids /\ conns[c].ends = {p, q}
      BY <2>1 DEF Inv, CacheTyped
    <2>3. p # q /\ Other(c, p) = q
      <3>1. p \in conns[c].ends
        BY <2>2
      <3>2. Other(c, p) \in Nodes \ {p} /\ conns[c].ends = {p, Other(c, p)}
        BY <2>2, <3>1, OtherEnd DEF Inv
      <3> QED
        BY <2>2, <3>2
    <2>4. q \in conns[c].open
      BY <2>1, <2>2, <2>3 DEF Settled, Open
    <2>5. incoming[q] = <<>> /\ registered[q] = <<>> /\ \A s \in Senders : sender[q][s].pc = "idle"
      BY DEF Settled, Idle
    <2>6. ~Waiting(q, c)
      BY <2>5 DEF Waiting, ToSet
    <2> QED
      BY <2>1, <2>2, <2>4, <2>6 DEF SoleInv, SoleIsKept
  <1> QED
    BY <1>1, InitInv, StepInv, InitSole, StepSole, PTL DEF Spec
=============================================================================
