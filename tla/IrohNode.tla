------------------------------ MODULE IrohNode ------------------------------
(* The network layer of network/node.rs: the connection cache, the accept loop,
   the stream listeners and concurrent senders of every node, over QUIC
   connections that end when a process dies or an end drops its last handle.

   A message is its number in the order of writing from one node to another. *)
EXTENDS Integers, SequencesExt

CONSTANTS
    Nodes,         \* the nodes
    Senders,       \* the tasks of a node that send: the message loop, the invite modal
    Initiators,    \* the nodes that may send to a node they have not heard from
    MaxWrites,     \* bound: messages written, by all nodes together
    MaxConns,      \* bound: connections ever opened
    MaxEnds        \* bound: restarts and shutdowns, of all nodes together

ASSUME BoundsAssumption ==
    /\ Initiators \subseteq Nodes
    /\ MaxWrites \in Nat /\ MaxConns \in Nat /\ MaxEnds \in Nat

VARIABLES
    conns,         \* the connections opened: their ends, and the ends that hold them open
    streams,       \* streams[c][p]: messages written by p on connection c and not yet read
    cache,         \* cache[p][q]: the entry for q in connections, 0 for none
    incoming,      \* connections the accept loop has not taken from the endpoint
    registered,    \* conn_reg_rx: outgoing connections the accept loop has not taken
    listening,     \* the peers that have, or had, a stream listener
    readers,       \* the connections with a running stream listener
    hand,          \* the messages that listeners have accepted and are still reading
    sender,        \* sender[p][s]: where send_to_peer is in task s of p
    written,       \* written[p][q]: messages p has written to q
    rx,            \* rx[p][q]: messages from q that p's listeners have forwarded
    ended,         \* ended[p]: what shutdown has ended at p so far
    ends           \* restarts and shutdowns so far

vars == <<conns, streams, cache, incoming, registered, listening, readers, hand,
          sender, written, rx, ended, ends>>

Idle == [pc |-> "idle", conn |-> 0]

Ids == DOMAIN conns
Open(c, p) == p \in conns[c].open
Other(c, p) == CHOOSE q \in conns[c].ends : q # p

Total(f) == FoldSet(LAMBDA p, n : n + FoldFunction(+, 0, f[p]), 0, Nodes)

Init ==
    /\ conns = <<>>
    /\ streams = <<>>
    /\ cache = [p \in Nodes |-> [q \in Nodes |-> 0]]
    /\ incoming = [p \in Nodes |-> <<>>]
    /\ registered = [p \in Nodes |-> <<>>]
    /\ listening = [p \in Nodes |-> {}]
    /\ readers = [p \in Nodes |-> {}]
    /\ hand = [p \in Nodes |-> {}]
    /\ sender = [p \in Nodes |-> [s \in Senders |-> Idle]]
    /\ written = [p \in Nodes |-> [q \in Nodes |-> 0]]
    /\ rx = [p \in Nodes |-> [q \in Nodes |-> <<>>]]
    /\ ended = [p \in Nodes |-> {}]
    /\ ends = 0

-----------------------------------------------------------------------------
(* send_to_peer and send_to_addr: the same steps for every sender *)

\* A task calls send_to_peer; a node that does not initiate only answers.
SendStart(p, s, q) ==
    /\ sender[p][s] = Idle
    /\ p # q
    /\ p \in Initiators \/ rx[p][q] # <<>>
    /\ Total(written) < MaxWrites
    /\ sender' = [sender EXCEPT ![p][s] = [pc |-> "check", to |-> q, conn |-> 0]]
    /\ UNCHANGED <<conns, streams, cache, incoming, registered, listening, readers,
                   hand, written, rx, ended, ends>>

\* 1. Check cache: an entry whose connection is not closed is used.
CheckCache(p, s) ==
    /\ sender[p][s].pc = "check"
    /\ LET c == cache[p][sender[p][s].to]
       IN  sender' = [sender EXCEPT ![p][s] =
                        IF c # 0 /\ Open(c, p)
                        THEN [@ EXCEPT !.pc = "write", !.conn = c]
                        ELSE [@ EXCEPT !.pc = "connect"]]
    /\ UNCHANGED <<conns, streams, cache, incoming, registered, listening, readers,
                   hand, written, rx, ended, ends>>

\* 2. New connection, which the accept loop at the other end has still to cache.
Connect(p, s) ==
    /\ sender[p][s].pc = "connect"
    /\ "endpoint" \notin ended[p]
    /\ {"loop", "endpoint"} \cap ended[sender[p][s].to] = {}
    /\ Len(conns) < MaxConns
    /\ LET q == sender[p][s].to
           c == Len(conns) + 1
       IN  /\ conns' = Append(conns, [ends |-> {p, q}, open |-> {p, q}])
           /\ streams' = Append(streams, [r \in Nodes |-> <<>>])
           /\ incoming' = [incoming EXCEPT ![q] = Append(@, c)]
           /\ sender' = [sender EXCEPT ![p][s].pc = "insert", ![p][s].conn = c]
    /\ UNCHANGED <<cache, registered, listening, readers, hand, written, rx, ended, ends>>

\* The peer cannot be reached: the message is dropped and the caller gets an error.
ConnectFails(p, s) ==
    /\ sender[p][s].pc = "connect"
    /\ sender' = [sender EXCEPT ![p][s] = Idle]
    /\ UNCHANGED <<conns, streams, cache, incoming, registered, listening, readers,
                   hand, written, rx, ended, ends>>

\* 3. Cache it, over whatever entry there is by now.
InsertConn(p, s) ==
    /\ sender[p][s].pc = "insert"
    /\ cache' = [cache EXCEPT ![p][sender[p][s].to] = sender[p][s].conn]
    /\ sender' = [sender EXCEPT ![p][s].pc = "register"]
    /\ UNCHANGED <<conns, streams, incoming, registered, listening, readers,
                   hand, written, rx, ended, ends>>

\* As RegisterConn, for a connection that nobody registers.
RegisterNothing(p, s) ==
    /\ sender[p][s].pc = "register"
    /\ sender' = [sender EXCEPT ![p][s].pc = "write"]
    /\ UNCHANGED <<conns, streams, cache, incoming, registered, listening, readers,
                   hand, written, rx, ended, ends>>

\* 4. Register for stream listening, unless shutdown has dropped the channel.
RegisterConn(p, s) ==
    /\ sender[p][s].pc = "register"
    /\ registered' = IF ended[p] = {}
                     THEN [registered EXCEPT ![p] = Append(@, sender[p][s].conn)]
                     ELSE registered
    /\ sender' = [sender EXCEPT ![p][s].pc = "write"]
    /\ UNCHANGED <<conns, streams, cache, incoming, listening, readers, hand, written, rx, ended, ends>>

\* open_bi, write_all, finish: one message on a stream of its own, or an error.  An
\* end that has closed the connection, unknown to this one, gets nothing of it.
Write(p, s) ==
    /\ sender[p][s].pc = "write"
    /\ LET q == sender[p][s].to
           c == sender[p][s].conn
       IN  IF Open(c, p)
           THEN /\ written' = [written EXCEPT ![p][q] = @ + 1]
                /\ streams' = IF Open(c, q)
                              THEN [streams EXCEPT ![c][p] = Append(@, written'[p][q])]
                              ELSE streams
           ELSE UNCHANGED <<written, streams>>
    /\ sender' = [sender EXCEPT ![p][s] = Idle]
    /\ UNCHANGED <<conns, cache, incoming, registered, listening, readers, hand, rx, ended, ends>>

-----------------------------------------------------------------------------
(* run_accept_loop and spawn_stream_listener *)

\* As SpawnListener, for every connection.
SpawnListenerAlways(p, c) ==
    /\ listening' = [listening EXCEPT ![p] = @ \cup {Other(c, p)}]
    /\ readers' = [readers EXCEPT ![p] = @ \cup {c}]

\* listening.insert(remote_id): one listener per peer, for the life of the loop
SpawnListener(p, c) ==
    IF Other(c, p) \in listening[p]
    THEN UNCHANGED <<listening, readers>>
    ELSE /\ listening' = [listening EXCEPT ![p] = @ \cup {Other(c, p)}]
         /\ readers' = [readers EXCEPT ![p] = @ \cup {c}]

\* As CacheIncoming, under the id of the endpoint it came in at.
CacheUnderOwnId(p, c) == cache' = [cache EXCEPT ![p][p] = c]

CacheIncoming(p, c) == cache' = [cache EXCEPT ![p][Other(c, p)] = c]

\* New incoming connection: cached, and read if its peer has no listener yet.
Accept(p) ==
    /\ "loop" \notin ended[p]
    /\ incoming[p] # <<>>
    /\ LET c == Head(incoming[p])
       IN  IF Open(c, p)
           THEN CacheIncoming(p, c) /\ SpawnListener(p, c)
           ELSE UNCHANGED <<cache, listening, readers>>
    /\ incoming' = [incoming EXCEPT ![p] = Tail(@)]
    /\ UNCHANGED <<conns, streams, registered, sender, hand, written, rx, ended, ends>>

\* Outgoing connection registered for stream listening.
TakeRegistered(p) ==
    /\ "loop" \notin ended[p]
    /\ registered[p] # <<>>
    /\ SpawnListener(p, Head(registered[p]))
    /\ registered' = [registered EXCEPT ![p] = Tail(@)]
    /\ UNCHANGED <<conns, streams, cache, incoming, sender, hand, written, rx, ended, ends>>

Reading(p, c) == {h \in hand[p] : h.conn = c}

\* accept_bi gives a listener the next stream of the peer, also one that arrived before
\* the connection was closed; select! may prefer it to the token.
AcceptStream(p, c) ==
    /\ c \in readers[p] /\ Reading(p, c) = {}
    /\ LET q == Other(c, p)
       IN  /\ streams[c][q] # <<>>
           /\ hand' = [hand EXCEPT ![p] = @ \cup {[conn |-> c, n |-> Head(streams[c][q])]}]
           /\ streams' = [streams EXCEPT ![c][q] = Tail(@)]
    /\ UNCHANGED <<conns, cache, incoming, registered, listening, readers, sender,
                   written, rx, ended, ends>>

\* read_to_end returns and the message is forwarded, whatever was closed or cancelled
\* meanwhile ...
Forward(p, c) ==
    /\ \E h \in Reading(p, c) :
          /\ rx' = [rx EXCEPT ![p][Other(c, p)] = Append(@, h.n)]
          /\ hand' = [hand EXCEPT ![p] = @ \ {h}]
    /\ UNCHANGED <<conns, streams, cache, incoming, registered, listening, readers, sender,
                   written, ended, ends>>

\* ... or fails on a connection that an end has closed; the listener goes on.
ReadFails(p, c) ==
    /\ Reading(p, c) # {}
    /\ ~Open(c, p) \/ ~Open(c, Other(c, p))
    /\ hand' = [hand EXCEPT ![p] = @ \ Reading(p, c)]
    /\ UNCHANGED <<conns, streams, cache, incoming, registered, listening, readers, sender,
                   written, rx, ended, ends>>

\* accept_bi fails on a closed connection, or the token is cancelled: the listener
\* ends, its peer stays in listening.
ListenerEnds(p, c) ==
    /\ c \in readers[p] /\ Reading(p, c) = {}
    /\ ~Open(c, p) \/ ended[p] # {}
    /\ readers' = [readers EXCEPT ![p] = @ \ {c}]
    /\ UNCHANGED <<conns, streams, cache, incoming, registered, listening, hand, sender,
                   written, rx, ended, ends>>

-----------------------------------------------------------------------------
(* Connections end *)

\* Who keeps a connection alive at p: the cache, the two queues of the accept
\* loop, a listener, or a sender that is about to use it.
Held(p, c) ==
    \/ cache[p][Other(c, p)] = c
    \/ c \in ToSet(incoming[p]) \cup ToSet(registered[p])
    \/ c \in readers[p]
    \/ \E s \in Senders : sender[p][s].conn = c

CloseEnd(p, c) ==
    /\ conns' = [conns EXCEPT ![c].open = @ \ {p}]
    /\ UNCHANGED <<streams, cache, incoming, registered, listening, readers, sender,
                   hand, written, rx, ended, ends>>

\* The last handle of an end is dropped, which closes the connection.
DropConn(p, c) == Open(c, p) /\ ~Held(p, c) /\ CloseEnd(p, c)

\* An end learns from the other, or from the idle timeout, that it is closed.
NoticeClosed(p, c) == Open(c, p) /\ ~Open(c, Other(c, p)) /\ CloseEnd(p, c)

\* shutdown_node cancels the token of all tasks, and shutdown drops the registration
\* channel and clears the cache.  Sends go on, and so may every task until it is polled.
Shutdown(p) ==
    /\ ended[p] = {}
    /\ ends < MaxEnds
    /\ ends' = ends + 1
    /\ ended' = [ended EXCEPT ![p] = {"token"}]
    /\ cache' = [cache EXCEPT ![p] = [q \in Nodes |-> 0]]
    /\ UNCHANGED <<conns, streams, incoming, registered, listening, readers, sender,
                   hand, written, rx>>

\* The accept loop breaks at its select!, with the connections registered until then.
LoopEnds(p) ==
    /\ ended[p] # {} /\ "loop" \notin ended[p]
    /\ ended' = [ended EXCEPT ![p] = @ \cup {"loop"}]
    /\ registered' = [registered EXCEPT ![p] = <<>>]
    /\ UNCHANGED <<conns, streams, cache, incoming, listening, readers, sender,
                   hand, written, rx, ends>>

\* As CloseEndpoint, for the connections of the accept loop's listeners only.
CloseListened(p) ==
    /\ ended[p] # {} /\ "endpoint" \notin ended[p]
    /\ ended' = [ended EXCEPT ![p] = @ \cup {"endpoint"}]
    /\ conns' = [c \in Ids |-> IF c \in readers[p] THEN [conns[c] EXCEPT !.open = @ \ {p}] ELSE conns[c]]
    /\ incoming' = [incoming EXCEPT ![p] = <<>>]
    /\ UNCHANGED <<streams, cache, registered, listening, readers, sender,
                   hand, written, rx, ends>>

\* endpoint.close() closes every connection, those that are in no cache as well.
CloseEndpoint(p) ==
    /\ ended[p] # {} /\ "endpoint" \notin ended[p]
    /\ ended' = [ended EXCEPT ![p] = @ \cup {"endpoint"}]
    /\ conns' = [c \in Ids |-> [conns[c] EXCEPT !.open = @ \ {p}]]
    /\ incoming' = [incoming EXCEPT ![p] = <<>>]
    /\ UNCHANGED <<streams, cache, registered, listening, readers, sender,
                   hand, written, rx, ends>>

\* The process dies and a new one starts with nothing; the peers notice later.
Restart(p) ==
    /\ ends < MaxEnds
    /\ ends' = ends + 1
    /\ conns' = [c \in Ids |-> [conns[c] EXCEPT !.open = @ \ {p}]]
    /\ cache' = [cache EXCEPT ![p] = [q \in Nodes |-> 0]]
    /\ incoming' = [incoming EXCEPT ![p] = <<>>]
    /\ registered' = [registered EXCEPT ![p] = <<>>]
    /\ listening' = [listening EXCEPT ![p] = {}]
    /\ readers' = [readers EXCEPT ![p] = {}]
    /\ hand' = [hand EXCEPT ![p] = {}]
    /\ sender' = [sender EXCEPT ![p] = [s \in Senders |-> Idle]]
    /\ ended' = [ended EXCEPT ![p] = {}]
    /\ UNCHANGED <<streams, written, rx>>

-----------------------------------------------------------------------------
SenderStep(p, s) ==
    \/ CheckCache(p, s)
    \/ Connect(p, s)
    \/ ConnectFails(p, s)
    \/ InsertConn(p, s)
    \/ RegisterConn(p, s)
    \/ Write(p, s)

LoopStep(p) == Accept(p) \/ TakeRegistered(p)

ConnStep(p, c) ==
    \/ AcceptStream(p, c) \/ Forward(p, c) \/ ReadFails(p, c) \/ ListenerEnds(p, c)
    \/ DropConn(p, c) \/ NoticeClosed(p, c)

Next ==
    \E p \in Nodes :
       \/ \E s \in Senders : SenderStep(p, s) \/ \E q \in Nodes : SendStart(p, s, q)
       \/ LoopStep(p)
       \/ \E c \in {d \in Ids : p \in conns[d].ends} : ConnStep(p, c)
       \/ Shutdown(p) \/ LoopEnds(p) \/ CloseEndpoint(p)
       \/ Restart(p)

Spec == Init /\ [][Next]_vars

\* Every task that can go on is polled; select! takes one of the branches that are ready,
\* and only so many connections come.  Listeners of different connections are
\* tasks of their own, so each is treated fairly.
Fairness ==
    \A p \in Nodes :
       /\ \A s \in Senders : WF_vars(SenderStep(p, s))
       /\ WF_vars(LoopStep(p))
       /\ \A c \in 1..MaxConns : WF_vars(c \in Ids /\ p \in conns[c].ends /\ ConnStep(p, c))

FairSpec == Spec /\ Fairness

-----------------------------------------------------------------------------
(* Properties *)

\* Ids are ids of open or past connections, between the nodes that hold them.
TypeOK ==
    /\ DOMAIN streams = Ids
    /\ \A p, q \in Nodes : cache[p][q] # 0 => cache[p][q] \in Ids /\ conns[cache[p][q]].ends = {p, q}
    /\ \A p \in Nodes :
          /\ listening[p] \subseteq Nodes \ {p}
          /\ \A c \in readers[p] \cup ToSet(incoming[p]) \cup ToSet(registered[p]) :
                c \in Ids /\ p \in conns[c].ends
          /\ \A h \in hand[p] : h.conn \in readers[p] /\ Reading(p, h.conn) = {h}
          /\ \A s \in Senders : sender[p][s].conn \in Ids \cup {0}

\* Of several connections to one peer at most one is ever read: no two listeners
\* race to forward that peer's messages.
OneReaderPerPeer ==
    \A p \in Nodes : \A c, d \in readers[p] : conns[c].ends = conns[d].ends => c = d

\* What a node gets from a peer is in the order of writing and without
\* repetition, over all the connections and restarts between the two.
Link == INSTANCE Transport
ImplementsTransport == Link!Spec

\* The rest state: no send, accept or registration is in progress, and every
\* end knows which connections are closed.
Settled ==
    \A p \in Nodes :
       /\ incoming[p] = <<>> /\ registered[p] = <<>>
       /\ \A s \in Senders : sender[p][s] = Idle
       /\ \A c \in Ids : Open(c, p) => Open(c, Other(c, p)) /\ Held(p, c)

\* The messages from q that p has forwarded, has in hand, or that have arrived and
\* wait for a listener.
Arrived(p, q) ==
    ToSet(rx[p][q])
      \cup {h.n : h \in {g \in hand[p] : Other(g.conn, p) = q}}
      \cup UNION {ToSet(streams[c][q]) : c \in {d \in Ids : conns[d].ends = {p, q}}}

\* Once its endpoint is closed, a node has no open connection, writes nothing and gets
\* nothing more: whatever its senders and listeners were doing, they can only
\* forward what had arrived before.
ShutDownIsFinal ==
    [][\A p \in Nodes : "endpoint" \in ended[p] =>
          /\ \A c \in DOMAIN conns' : p \notin conns'[c].open
          /\ written'[p] = written[p]
          /\ \A q \in Nodes \ {p} : Arrived(p, q)' \subseteq Arrived(p, q)]_vars

\* No other connection was ever opened between the two ends of this one.
Sole(c) == \A d \in Ids : conns[d].ends = conns[c].ends => d = c

\* At rest, the one connection two nodes have ever had is read at both ends, whoever
\* opened it, whichever of their tasks send on it and whatever else was restarted.
SoleLinksAreRead ==
    Settled => \A p, q \in Nodes :
       LET c == cache[p][q]
       IN  c # 0 /\ Open(c, p) /\ Sole(c) /\ ended[q] = {} => c \in readers[q]

\* "handles both new connections and new streams on existing connections" (node.rs:166):
\* at rest, the connection a node would send on is read at its other end.
SettledLinksAreRead ==
    Settled => \A p, q \in Nodes :
       LET c == cache[p][q] IN c # 0 /\ Open(c, p) => c \in readers[q]

\* Something may be lost between p and q: they have had a second connection, or an end
\* was restarted or shut down.
Disturbed(p, q) == ends > 0 \/ \E c \in Ids : conns[c].ends = {p, q} /\ ~Sole(c)

\* Every message that was written is received, unless connections crossed or ended.
WrittenIsReceived ==
    \A p \in Nodes : \A q \in Nodes \ {p}, n \in 1..MaxWrites :
       written[p][q] >= n ~> n \in ToSet(rx[q][p]) \/ Disturbed(p, q)
=============================================================================
