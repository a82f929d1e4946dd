----------------------------- MODULE Messenger -----------------------------
(* Peers running imax, each with one active profile: the invite modal, the
   message loop of the P2P task, the queues between it and the UI, the UI
   coroutine, and what is kept in memory and in SQLite.

   The chat of two peers is named by the other peer (the code names it by four
   bytes of the other peer's endpoint id), and a public key by its owner.  The
   network is an ordered stream of messages per direction that may lose messages
   at any time (IrohNode models when it does: a peer that is off or restarted, and
   two peers that connect to each other at once).  Message previews and times are
   left out. *)
EXTENDS Integers, SequencesExt

CONSTANTS
    Peers,         \* the peers
    NoKey,         \* no public key: None in PEER_PUBKEYS and SYM_KEYS
    Zero,          \* the placeholder key [0; 32]
    Malformed,     \* the peers whose public key, as announced, is no curve point
    Plain,         \* the nonce [0; 24], which marks a message sent in the clear
    Unreadable,    \* the text shown in place of a message that cannot be decrypted
    ClockCollides, \* whether two subsecond clock readings may be equal
    MaxSends,      \* bound: messages typed, by all users together
    MaxInvites,    \* bound: invite codes submitted, by all users together
    MaxCrashes,    \* bound: crashes, of all peers together
    MaxFaults      \* bound: sends and encryptions that fail while no peer has crashed

ASSUME BoundsAssumption ==
    /\ MaxSends \in Nat /\ MaxInvites \in Nat /\ MaxCrashes \in Nat /\ MaxFaults \in Nat
    /\ ClockCollides \in BOOLEAN

\* The peers are told apart from the keys and texts that stand for none.
ASSUME KeysAssumption ==
    /\ IsFiniteSet(Peers) /\ Malformed \subseteq Peers
    /\ Zero \notin Peers /\ NoKey \notin Peers \cup {Zero}
    /\ \A p, q \in Peers : Plain # {p, q}
    /\ Unreadable \notin 1..MaxSends

VARIABLES
    node,          \* node[p]: the process is off, its node is starting, or online
    dbChats,       \* dbChats[p][q]: row of table chats, or NoChat
    dbMsgs,        \* dbMsgs[p][q]: rows of table messages in the order of seq
    chats,         \* CHATS: the chats listed in the sidebar
    mem,           \* ALL_MESSAGES
    view,          \* ACTIVE_CHAT_ID and MESSAGES: the open chat and what it shows
    peerIds,       \* PEER_IDS: the peers whose endpoint is known
    peerKeys,      \* PEER_PUBKEYS
    symKeys,       \* SYM_KEYS: the public key each cached key was derived from
    outq,          \* the channel of OUTGOING_TX
    inq,           \* incoming_rx, the channel from the stream listeners
    uiq,           \* the channel of UI_UPDATE_TX
    task,          \* where the message loop is
    invite,        \* where the task of the invite modal is
    net,           \* net[p][q]: messages on their way from p to q
    used           \* how much of each bound is used up

volatile == <<chats, mem, view, peerIds, peerKeys, symKeys, outq, inq, uiq, task, invite>>
vars == <<node, dbChats, dbMsgs, volatile, net, used>>

Keys == Peers \cup {Zero}
NoChat == [name |-> "", key |-> NoKey]
NoView == [chat |-> NoKey, msgs |-> <<>>]
Select == [pc |-> "select"]
Closed == [pc |-> "closed"]

\* Ids of typed messages come from the clock, ids on the wire are fresh UUIDs.
LocalId(k) == [by |-> NoKey, n |-> k]
WireId(p, n) == [by |-> p, n |-> n]

Hello(p) == [kind |-> "hello", key |-> p]

\* As SharedKey, without the sorting.
SharedKeyUnsorted(p, pk) == <<p, pk>>

\* Diffie-Hellman and the sorted salt: both ends derive the same key from each other's.
SharedKey(p, pk) == {p, pk}

Init ==
    /\ node = [p \in Peers |-> "starting"]
    /\ dbChats = [p \in Peers |-> [q \in Peers |-> NoChat]]
    /\ dbMsgs = [p \in Peers |-> [q \in Peers |-> <<>>]]
    /\ chats = [p \in Peers |-> <<>>]
    /\ mem = [p \in Peers |-> [q \in Peers |-> <<>>]]
    /\ view = [p \in Peers |-> NoView]
    /\ peerIds = [p \in Peers |-> {}]
    /\ peerKeys = [p \in Peers |-> [q \in Peers |-> NoKey]]
    /\ symKeys = [p \in Peers |-> [q \in Peers |-> NoKey]]
    /\ outq = [p \in Peers |-> <<>>]
    /\ inq = [p \in Peers |-> <<>>]
    /\ uiq = [p \in Peers |-> <<>>]
    /\ task = [p \in Peers |-> Select]
    /\ invite = [p \in Peers |-> Closed]
    /\ net = [p \in Peers |-> [q \in Peers |-> <<>>]]
    /\ used = [sends |-> 0, invites |-> 0, crashes |-> 0, faults |-> 0]

-----------------------------------------------------------------------------
(* Shared steps *)

\* Something fails though no peer has crashed.
Fault ==
    /\ used.faults < MaxFaults
    /\ used' = [used EXCEPT !.faults = @ + 1]

\* send_to_peer and send_to_addr, once connected: the message is on its way, or
\* it is lost and the caller is not told (the result of stopped() is dropped): the
\* peer is gone, or the connection is one that the peer does not read.
Send(p, q, m) ==
    \/ /\ node[q] # "off"
       /\ net' = [net EXCEPT ![p][q] = Append(@, m)]
       /\ UNCHANGED used
    \/ /\ node[q] = "off" \/ used.crashes > 0
       /\ UNCHANGED <<net, used>>
    \/ Fault /\ UNCHANGED net

\* The UI thread is free: the invite task is not in the middle of its last lines.
UiFree(p) == node[p] # "off" /\ invite[p].pc # "registering"

\* As InsertMessage, for received messages only.
InsertMessageOfPeer(p, q, msg) ==
    dbMsgs' = IF msg.mine THEN dbMsgs ELSE [dbMsgs EXCEPT ![p][q] = Append(@, msg)]

\* INSERT INTO messages: refused when the id is taken, in whatever chat
InsertMessage(p, q, msg) ==
    dbMsgs' = IF \E r \in Peers : \E i \in DOMAIN dbMsgs[p][r] : dbMsgs[p][r][i].id = msg.id
              THEN dbMsgs
              ELSE [dbMsgs EXCEPT ![p][q] = Append(@, msg)]

\* As RefreshView, when the message is one's own.
RefreshViewOfMine(p, q) ==
    view' = IF view[p].chat = q /\ Last(mem'[p][q]).mine
            THEN [view EXCEPT ![p].msgs = mem'[p][q]]
            ELSE view

\* If this chat is the one the user is looking at, MESSAGES is copied anew.
RefreshView(p, q) ==
    view' = IF view[p].chat = q THEN [view EXCEPT ![p].msgs = mem'[p][q]] ELSE view

\* As AddMessage, newest first.
AddMessageInFront(p, q, msg) ==
    /\ InsertMessage(p, q, msg)
    /\ mem' = [mem EXCEPT ![p][q] = <<msg>> \o @]
    /\ RefreshView(p, q)

\* Insert into the database, log an error if that fails, push to memory.
AddMessage(p, q, msg) ==
    /\ InsertMessage(p, q, msg)
    /\ mem' = [mem EXCEPT ![p][q] = Append(@, msg)]
    /\ RefreshView(p, q)

\* The message with this id gets the status; an id on the wire names one message at most.
WithStatus(msgs, id, st) ==
    [i \in DOMAIN msgs |-> IF msgs[i].id = id THEN [msgs[i] EXCEPT !.status = st] ELSE msgs[i]]

UpdateMessageStatus(p, id, st) ==
    /\ mem' = [mem EXCEPT ![p] = [q \in Peers |-> WithStatus(@[q], id, st)]]
    /\ view' = IF \E m \in ToSet(view[p].msgs) : m.id = id
               THEN [view EXCEPT ![p].msgs = mem'[p][view[p].chat]]
               ELSE view
    /\ dbMsgs' = [dbMsgs EXCEPT ![p] = [q \in Peers |-> WithStatus(@[q], id, st)]]

\* As UpsertChat, for peers whose key is known.
UpsertKnownChat(p, q, c) ==
    dbChats' = IF c.key = Zero
               THEN dbChats
               ELSE [dbChats EXCEPT ![p][q] = [name |-> c.name, key |-> c.key]]

UpsertChat(p, q, c) ==
    dbChats' = [dbChats EXCEPT ![p][q] = [name |-> c.name, key |-> c.key]]

\* What the key of a chat with a known peer is derived from: the cached one, or the
\* one derived now, which takes a public key that is a curve point.
KeySource(p, q) ==
    IF symKeys[p][q] # NoKey /\ peerKeys[p][q] # NoKey THEN symKeys[p][q]
    ELSE IF peerKeys[p][q] \in Malformed THEN NoKey ELSE peerKeys[p][q]

-----------------------------------------------------------------------------
(* The user *)

\* A listed chat is opened.
OpenChat(p) ==
    /\ UiFree(p)
    /\ \E c \in ToSet(chats[p]) :
          view' = [view EXCEPT ![p] = [chat |-> c.peer, msgs |-> mem[p][c.peer]]]
    /\ UNCHANGED <<node, dbChats, dbMsgs, chats, mem, peerIds, peerKeys, symKeys,
                   outq, inq, uiq, task, invite, net, used>>

\* A message is typed into the open chat: saved as sent, then queued for the
\* message loop, if one has been started.
UserSend(p) ==
    /\ UiFree(p)
    /\ used.sends < MaxSends
    /\ view[p] # NoView
    /\ LET n == used.sends + 1
           q == view[p].chat
       IN  \E k \in (IF ClockCollides THEN 1..MaxSends ELSE {n}) :
          /\ AddMessage(p, q, [id |-> LocalId(k), text |-> n, mine |-> TRUE, status |-> "sent"])
          /\ outq' = IF node[p] = "online"
                     THEN [outq EXCEPT ![p] = Append(@, [to |-> q, text |-> n])]
                     ELSE outq
          /\ used' = [used EXCEPT !.sends = n]
    /\ UNCHANGED <<node, dbChats, chats, peerIds, peerKeys, symKeys, inq, uiq, task, invite, net>>

\* The user pastes q's invite code; the button is disabled while an earlier one is in progress.
InviteSubmit(p, q) ==
    /\ UiFree(p) /\ node[p] = "online"
    /\ invite[p] = Closed
    /\ p # q /\ used.invites < MaxInvites
    /\ invite' = [invite EXCEPT ![p] = [pc |-> "sending", to |-> q]]
    /\ used' = [used EXCEPT !.invites = @ + 1]
    /\ UNCHANGED <<node, dbChats, dbMsgs, chats, mem, view, peerIds, peerKeys, symKeys,
                   outq, inq, uiq, task, net>>

\* send_to_addr(Hello) returns Ok ...
InviteSend(p) ==
    /\ node[p] # "off" /\ invite[p].pc = "sending"
    /\ Send(p, invite[p].to, Hello(p))
    /\ invite' = [invite EXCEPT ![p].pc = "sent"]
    /\ UNCHANGED <<node, dbChats, dbMsgs, chats, mem, view, peerIds, peerKeys, symKeys,
                   outq, inq, uiq, task>>

\* ... or an error, shown in the modal: no connection, no stream, or a failed write.
InviteFail(p) ==
    /\ node[p] # "off" /\ invite[p].pc = "sending"
    /\ \/ (node[invite[p].to] = "off" \/ used.crashes > 0) /\ UNCHANGED used
       \/ Fault
    /\ invite' = [invite EXCEPT ![p] = Closed]
    /\ UNCHANGED <<node, dbChats, dbMsgs, chats, mem, view, peerIds, peerKeys, symKeys,
                   outq, inq, uiq, task, net>>

\* As InviteList, without register_peer.
InviteListOnly(p) ==
    /\ node[p] # "off" /\ invite[p].pc = "sent"
    /\ LET c == [peer |-> invite[p].to, name |-> "Peer", key |-> invite[p].to]
       IN  /\ chats' = [chats EXCEPT ![p] = Append(@, c)]
           /\ UpsertChat(p, c.peer, c)
    /\ invite' = [invite EXCEPT ![p].pc = "registering"]
    /\ UNCHANGED <<node, dbMsgs, mem, view, peerIds, peerKeys, symKeys, outq, inq, uiq, task, net, used>>

\* Back from the await: the chat is listed and saved and the endpoint registered ...
InviteList(p) ==
    /\ node[p] # "off" /\ invite[p].pc = "sent"
    /\ LET q == invite[p].to
           c == [peer |-> q, name |-> "Peer", key |-> q]
       IN  /\ chats' = [chats EXCEPT ![p] = Append(@, c)]
           /\ UpsertChat(p, q, c)
           /\ peerIds' = [peerIds EXCEPT ![p] = @ \cup {q}]
    /\ invite' = [invite EXCEPT ![p].pc = "registering"]
    /\ UNCHANGED <<node, dbMsgs, mem, view, peerKeys, symKeys, outq, inq, uiq, task, net, used>>

\* As InviteRegisterKey, without register_peer_pubkey.
InviteForgetKey(p) ==
    /\ node[p] # "off" /\ invite[p].pc = "registering"
    /\ invite' = [invite EXCEPT ![p] = Closed]
    /\ UNCHANGED <<node, dbChats, dbMsgs, chats, mem, view, peerIds, peerKeys, symKeys,
                   outq, inq, uiq, task, net, used>>

\* ... and then its key, which the message loop, on another thread, may need before that.
InviteRegisterKey(p) ==
    /\ node[p] # "off" /\ invite[p].pc = "registering"
    /\ peerKeys' = [peerKeys EXCEPT ![p][invite[p].to] = invite[p].to]
    /\ invite' = [invite EXCEPT ![p] = Closed]
    /\ UNCHANGED <<node, dbChats, dbMsgs, chats, mem, view, peerIds, symKeys,
                   outq, inq, uiq, task, net, used>>

-----------------------------------------------------------------------------
(* The message loop *)

\* As Listen, with every stream read by a task of its own.
ListenUnordered(p, q) ==
    /\ node[p] = "online"
    /\ \E i \in DOMAIN net[q][p] :
          /\ inq' = [inq EXCEPT ![p] = Append(@, [from |-> q, msg |-> net[q][p][i]])]
          /\ net' = [net EXCEPT ![q][p] = RemoveAt(@, i)]
    /\ UNCHANGED <<node, dbChats, dbMsgs, chats, mem, view, peerIds, peerKeys, symKeys,
                   outq, uiq, task, invite, used>>

\* A stream listener decodes the next message and forwards it to the loop.
Listen(p, q) ==
    /\ node[p] = "online"
    /\ net[q][p] # <<>>
    /\ inq' = [inq EXCEPT ![p] = Append(@, [from |-> q, msg |-> Head(net[q][p])])]
    /\ net' = [net EXCEPT ![q][p] = Tail(@)]
    /\ UNCHANGED <<node, dbChats, dbMsgs, chats, mem, view, peerIds, peerKeys, symKeys,
                   outq, uiq, task, invite, used>>

\* The loop is at its select! and takes a message of this kind from incoming_rx.
Receives(p, kind) ==
    /\ node[p] = "online"
    /\ task[p] = Select
    /\ inq[p] # <<>>
    /\ Head(inq[p]).msg.kind = kind
    /\ inq' = [inq EXCEPT ![p] = Tail(@)]

\* As AnswersHello, whoever greets.
AnswersEveryHello(p, q) == TRUE

\* A Hello goes back only to a peer not registered before ("prevents Hello loop").
AnswersHello(p, q) == q \notin peerIds[p]

\* The peer is registered, the UI told, and a new peer greeted in return.
HandleHello(p) ==
    /\ Receives(p, "hello")
    /\ LET q == Head(inq[p]).from
           key == Head(inq[p]).msg.key
       IN  /\ peerIds' = [peerIds EXCEPT ![p] = @ \cup {q}]
           /\ peerKeys' = [peerKeys EXCEPT ![p][q] = key]
           /\ uiq' = [uiq EXCEPT ![p] =
                        Append(@, [kind |-> "connected", peer |-> q, name |-> "nick", key |-> key])]
           /\ task' = IF AnswersHello(p, q)
                      THEN [task EXCEPT ![p] = [pc |-> "send", to |-> q, msg |-> Hello(p)]]
                      ELSE task
    /\ UNCHANGED <<node, dbChats, dbMsgs, chats, mem, view, symKeys, outq, invite, net, used>>

\* The content is decided, with the keys known now, before the Ack is sent.
HandleChat(p) ==
    /\ Receives(p, "chat")
    /\ LET q == Head(inq[p]).from
           m == Head(inq[p]).msg
           known == KeySource(p, q) # NoKey
           readable == \/ m.sealed = Plain
                       \/ known /\ m.sealed = SharedKey(p, KeySource(p, q))
       IN  /\ symKeys' = IF m.sealed # Plain /\ known
                         THEN [symKeys EXCEPT ![p][q] = KeySource(p, q)]
                         ELSE symKeys
           /\ task' = [task EXCEPT ![p] = [pc |-> "ack", from |-> q, n |-> m.n,
                                           text |-> IF readable THEN m.n ELSE Unreadable]]
    /\ UNCHANGED <<node, dbChats, dbMsgs, chats, mem, view, peerIds, peerKeys, outq, uiq,
                   invite, net, used>>

\* Ack(Delivered), before anything is stored or shown
SendAck(p) ==
    /\ node[p] = "online" /\ task[p].pc = "ack"
    /\ Send(p, task[p].from, [kind |-> "ack", n |-> task[p].n])
    /\ task' = [task EXCEPT ![p].pc = "deliver"]
    /\ UNCHANGED <<node, dbChats, dbMsgs, chats, mem, view, peerIds, peerKeys, symKeys,
                   outq, inq, uiq, invite>>

\* As KeyOrZero, without the placeholder.
KeyOrNone(p, q) == peerKeys[p][q]

\* get_peer_pubkey(..).unwrap_or([0; 32])
KeyOrZero(p, q) == IF peerKeys[p][q] = NoKey THEN Zero ELSE peerKeys[p][q]

Connected(p, q) == [kind |-> "connected", peer |-> q, name |-> "Unknown", key |-> KeyOrZero(p, q)]

Delivered(p, q) ==
    [kind |-> "message", peer |-> q,
     msg |-> [id |-> WireId(q, task[p].n), text |-> task[p].text,
              mine |-> FALSE, status |-> "delivered"]]

\* As Delivery, in the other order.
DeliveryBeforeChat(p, q) == <<Delivered(p, q), Connected(p, q)>>

\* The chat is announced first, then the message.
Delivery(p, q) == <<Connected(p, q), Delivered(p, q)>>

\* Back from the await: the key announced is the one known now.
DeliverToUi(p) ==
    /\ node[p] = "online" /\ task[p].pc = "deliver"
    /\ uiq' = [uiq EXCEPT ![p] = @ \o Delivery(p, task[p].from)]
    /\ task' = [task EXCEPT ![p] = Select]
    /\ UNCHANGED <<node, dbChats, dbMsgs, chats, mem, view, peerIds, peerKeys, symKeys,
                   outq, inq, invite, net, used>>

HandleAck(p) ==
    /\ Receives(p, "ack")
    /\ uiq' = [uiq EXCEPT ![p] =
                 Append(@, [kind |-> "status", id |-> WireId(p, Head(inq[p]).msg.n),
                            status |-> "delivered"])]
    /\ UNCHANGED <<node, dbChats, dbMsgs, chats, mem, view, peerIds, peerKeys, symKeys,
                   outq, task, invite, net, used>>

\* A queued message is sealed under the key of its chat, or goes out in the clear
\* when there is none or the encryption fails, or is dropped when the peer's
\* endpoint is not known.
HandleOutgoing(p) ==
    /\ node[p] = "online"
    /\ task[p] = Select
    /\ outq[p] # <<>>
    /\ outq' = [outq EXCEPT ![p] = Tail(@)]
    /\ LET o == Head(outq[p])
           q == o.to
           known == KeySource(p, q) # NoKey
           Sends(sealed) ==
              task' = [task EXCEPT ![p] =
                         [pc |-> "send", to |-> q,
                          msg |-> [kind |-> "chat", n |-> o.text, sealed |-> sealed]]]
       IN  IF q \in peerIds[p]
           THEN /\ \/ /\ Sends(IF known THEN SharedKey(p, KeySource(p, q)) ELSE Plain)
                      /\ UNCHANGED used
                   \/ known /\ Fault /\ Sends(Plain)
                /\ symKeys' = IF known THEN [symKeys EXCEPT ![p][q] = KeySource(p, q)] ELSE symKeys
           ELSE UNCHANGED <<task, symKeys, used>>
    /\ UNCHANGED <<node, dbChats, dbMsgs, chats, mem, view, peerIds, peerKeys, inq, uiq,
                   invite, net>>

\* The await of a Hello or of a chat message, after which the loop does nothing more.
SendMessage(p) ==
    /\ node[p] = "online" /\ task[p].pc = "send"
    /\ Send(p, task[p].to, task[p].msg)
    /\ task' = [task EXCEPT ![p] = Select]
    /\ UNCHANGED <<node, dbChats, dbMsgs, chats, mem, view, peerIds, peerKeys, symKeys,
                   outq, inq, uiq, invite>>

-----------------------------------------------------------------------------
(* The UI coroutine *)

\* As ApplyConnected, for a chat already listed.
ApplyConnectedToListed(p, u) ==
    IF \E c \in ToSet(chats[p]) : c.peer = u.peer
    THEN UpsertChat(p, u.peer, [name |-> u.name, key |-> u.key]) /\ UNCHANGED chats
    ELSE UNCHANGED <<chats, dbChats>>

\* The first entry of CHATS for the peer gets what it lacks, a new entry is
\* pushed if there is none, and the entry is saved.
ApplyConnected(p, u) ==
    LET listed == {i \in DOMAIN chats[p] : chats[p][i].peer = u.peer}
        first == Min(listed)
        old == chats[p][first]
        merged == [old EXCEPT !.name = IF @ \in {"Peer", "Unknown"} THEN u.name ELSE @,
                              !.key = IF @ = NoKey THEN u.key ELSE @]
        new == [peer |-> u.peer, name |-> u.name, key |-> u.key]
    IN  /\ chats' = IF listed = {}
                    THEN [chats EXCEPT ![p] = Append(@, new)]
                    ELSE [chats EXCEPT ![p][first] = merged]
        /\ UpsertChat(p, u.peer, IF listed = {} THEN new ELSE merged)

UiApply(p) ==
    /\ UiFree(p)
    /\ uiq[p] # <<>>
    /\ uiq' = [uiq EXCEPT ![p] = Tail(@)]
    /\ LET u == Head(uiq[p]) IN
       \/ /\ u.kind = "connected"
          /\ ApplyConnected(p, u)
          /\ UNCHANGED <<dbMsgs, mem, view>>
       \/ /\ u.kind = "message"
          /\ AddMessage(p, u.peer, u.msg)
          /\ UNCHANGED <<dbChats, chats>>
       \/ /\ u.kind = "status"
          /\ UpdateMessageStatus(p, u.id, u.status)
          /\ UNCHANGED <<dbChats, chats>>
    /\ UNCHANGED <<node, peerIds, peerKeys, symKeys, outq, inq, task, invite, net, used>>

-----------------------------------------------------------------------------
(* Crash and restart *)

\* The process dies: memory, queues and undelivered incoming messages are gone.
Crash(p) ==
    /\ node[p] # "off"
    /\ used.crashes < MaxCrashes
    /\ used' = [used EXCEPT !.crashes = @ + 1]
    /\ node' = [node EXCEPT ![p] = "off"]
    /\ chats' = [chats EXCEPT ![p] = <<>>]
    /\ mem' = [mem EXCEPT ![p] = [q \in Peers |-> <<>>]]
    /\ view' = [view EXCEPT ![p] = NoView]
    /\ peerIds' = [peerIds EXCEPT ![p] = {}]
    /\ peerKeys' = [peerKeys EXCEPT ![p] = [q \in Peers |-> NoKey]]
    /\ symKeys' = [symKeys EXCEPT ![p] = [q \in Peers |-> NoKey]]
    /\ outq' = [outq EXCEPT ![p] = <<>>]
    /\ inq' = [inq EXCEPT ![p] = <<>>]
    /\ uiq' = [uiq EXCEPT ![p] = <<>>]
    /\ task' = [task EXCEPT ![p] = Select]
    /\ invite' = [invite EXCEPT ![p] = Closed]
    /\ net' = [q \in Peers |-> [net[q] EXCEPT ![p] = <<>>]]
    /\ UNCHANGED <<dbChats, dbMsgs>>

\* load_and_restore: chats, their messages, endpoints and keys come back from SQLite.
Restart(p) ==
    LET stored == {q \in Peers : dbChats[p][q] # NoChat} IN
    /\ node[p] = "off"
    /\ node' = [node EXCEPT ![p] = "starting"]
    /\ \E order \in SetToSeqs(stored) :
          chats' = [chats EXCEPT ![p] =
                      [i \in DOMAIN order |->
                         [peer |-> order[i], name |-> dbChats[p][order[i]].name,
                          key |-> dbChats[p][order[i]].key]]]
    /\ mem' = [mem EXCEPT ![p] = [q \in Peers |-> IF q \in stored THEN dbMsgs[p][q] ELSE <<>>]]
    /\ peerIds' = [peerIds EXCEPT ![p] = stored]
    /\ peerKeys' = [peerKeys EXCEPT ![p] = [q \in Peers |-> dbChats[p][q].key]]
    /\ UNCHANGED <<dbChats, dbMsgs, view, symKeys, outq, inq, uiq, task, invite, net, used>>

\* start_node has its endpoint and starts the message loop.
NodeOnline(p) ==
    /\ node[p] = "starting"
    /\ node' = [node EXCEPT ![p] = "online"]
    /\ UNCHANGED <<dbChats, dbMsgs, volatile, net, used>>

-----------------------------------------------------------------------------
LoopStep(p) ==
    \/ HandleHello(p)
    \/ HandleChat(p)
    \/ HandleAck(p)
    \/ SendAck(p)
    \/ DeliverToUi(p)
    \/ SendMessage(p)

InviteStep(p) == InviteSend(p) \/ InviteFail(p) \/ InviteList(p) \/ InviteRegisterKey(p)

Next ==
    \E p \in Peers :
       \/ OpenChat(p) \/ UserSend(p)
       \/ \E q \in Peers : InviteSubmit(p, q) \/ Listen(p, q)
       \/ InviteStep(p)
       \/ LoopStep(p)
       \/ HandleOutgoing(p)
       \/ UiApply(p)
       \/ Crash(p)
       \/ Restart(p)
       \/ NodeOnline(p)

Spec == Init /\ [][Next]_vars

\* The runtime polls every task that can go on, and select! is fair between its
\* branches; what users do and what fails is left open.
Fairness ==
    \A p \in Peers :
       /\ \A q \in Peers : WF_vars(Listen(p, q))
       /\ WF_vars(LoopStep(p))
       /\ WF_vars(HandleOutgoing(p))
       /\ WF_vars(InviteStep(p))
       /\ WF_vars(UiApply(p))
       /\ WF_vars(NodeOnline(p))

FairSpec == Spec /\ Fairness

-----------------------------------------------------------------------------
(* Properties *)

Statuses == {"sent", "delivered", "read"}
Texts == 1..MaxSends \cup {Unreadable}
Messages == [id : [by : Peers \cup {NoKey}, n : 1..MaxSends], text : Texts,
             mine : BOOLEAN, status : Statuses]

\* Everything stored, listed and cached is of its type.
TypeOK ==
    \A p \in Peers :
       /\ node[p] \in {"off", "starting", "online"}
       /\ \A q \in Peers :
             /\ dbChats[p][q] \in {NoChat} \cup [name : {"Peer", "Unknown", "nick"}, key : Keys]
             /\ \A m \in ToSet(dbMsgs[p][q]) \cup ToSet(mem[p][q]) : m \in Messages
             /\ peerKeys[p][q] \in Keys \cup {NoKey}
             /\ symKeys[p][q] \in Keys \cup {NoKey}
       /\ view[p].chat \in Peers \cup {NoKey}
       /\ \A c \in ToSet(chats[p]) : c.peer \in Peers \ {p} /\ c.key \in Keys
       /\ peerIds[p] \subseteq Peers \ {p}
       /\ invite[p].pc \in {"closed", "sending", "sent", "registering"}
       /\ task[p].pc \in {"select", "send", "ack", "deliver"}

\* ALL_MESSAGES shows what SQLite holds, in the same order, through every
\* interleaving of typing, receiving and invites, and again after a restart.
MemoryMatchesDb == \A p \in Peers : node[p] # "off" => mem[p] = dbMsgs[p]

\* load_and_restore finds messages through their chat: a message saved without a
\* row for its chat would be lost to the user at the next start.
MessagesHaveChat ==
    \A p, q \in Peers : dbMsgs[p][q] # <<>> => dbChats[p][q] # NoChat

\* The open chat shows what is in memory, whoever wrote there last: the input, the
\* coroutine with a message, or a receipt that changed a status.
ViewShowsChat ==
    \A p \in Peers : view[p] # NoView => view[p].msgs = mem[p][view[p].chat]

\* What a user sees of a peer is what that peer typed, in the order it was typed and
\* nothing twice; its author's history has it too; and neither loses any of it,
\* across queues, acknowledgements, crashes and losses.  The k-th typed and the k-th
\* shown message are those of the k-th row of their kind.
Place(T, k) == CHOOSE i \in T : Cardinality(T \cap 1..i) = k
Mine(s) == {i \in DOMAIN s : s[i].mine}
Received(s) == {i \in DOMAIN s : ~s[i].mine}
TypedOf(s) == [k \in 1..Cardinality(Mine(s)) |-> s[Place(Mine(s), k)].text]
ShownOf(s) == [k \in 1..Cardinality(Received(s)) |->
                 LET m == s[Place(Received(s), k)] IN [of |-> m.id.n, text |-> m.text]]
Talk == INSTANCE Conversation WITH
    Texts <- 1..MaxSends,
    typed <- [p \in Peers |-> [q \in Peers |-> TypedOf(dbMsgs[p][q])]],
    shown <- [p \in Peers |-> [q \in Peers |-> ShownOf(dbMsgs[p][q])]]
ImplementsConversation == Talk!Spec

\* A chat is listed in the sidebar exactly when a restart would list it again.
ListedIsSaved ==
    \A p \in Peers : node[p] # "off" =>
       {c.peer : c \in ToSet(chats[p])} = {q \in Peers : dbChats[p][q] # NoChat}

\* No peer has crashed, the network has lost nothing and nothing has failed yet.
NoFaults == used.crashes = 0 /\ used.faults = 0

\* Until the first crash, loss or failure every message arrives readable, as the Hello
\* that carries a key is ahead of every message sealed with it: all but those of a
\* peer whose key no one can derive from.
EveryMessageReadable ==
    NoFaults => \A p, q \in Peers : \A m \in ToSet(dbMsgs[p][q]) :
                   m.text = Unreadable => q \in Malformed

\* Messages are end-to-end encrypted: until the first crash, loss or failure none is
\* sent in the clear, whoever invites whom and however soon the user types, but to a
\* peer whose key no one can derive from.
NothingInTheClear ==
    NoFaults => \A p, q \in Peers : \A m \in ToSet(net[p][q]) :
                   m.kind = "chat" /\ m.sealed = Plain => q \in Malformed

\* A queued message reaches the peer's history, unless the network loses one, an
\* operation fails or a peer crashes.
Stored(q, p, n) == \E m \in ToSet(dbMsgs[q][p]) : m.id = WireId(p, n)
QueuedIsDelivered ==
    \A p \in Peers : \A q \in Peers \ {p}, n \in 1..MaxSends :
       [to |-> q, text |-> n] \in ToSet(outq[p]) ~> Stored(q, p, n) \/ ~NoFaults

\* The exchange of Hellos ends, whoever invites whom and in whatever order: no
\* two loops keep greeting each other, also after losses and restarts.
NoHelloLeft ==
    \A p, q \in Peers :
       /\ Hello(p) \notin ToSet(net[p][q])
       /\ \A m \in ToSet(inq[p]) : m.msg # Hello(q)
       /\ task[p].pc = "send" => task[p].msg # Hello(p)
HellosEnd == <>[]NoHelloLeft

\* An invite ends with both peers listing and knowing each other, unless the network
\* loses a message, an operation fails or a peer crashes.
Knows(p, q) == (\E c \in ToSet(chats[p]) : c.peer = q) /\ q \in peerIds[p] /\ peerKeys[p][q] = q
InviteConnectsBoth ==
    \A p \in Peers : \A q \in Peers \ {p} :
       invite[p] = [pc |-> "sending", to |-> q] ~> (Knows(p, q) /\ Knows(q, p)) \/ ~NoFaults

\* The rest state: nothing queued, nothing on its way, no task in progress.
Quiet ==
    \A p \in Peers :
       /\ node[p] = "online" /\ task[p] = Select /\ invite[p] = Closed
       /\ outq[p] = <<>> /\ inq[p] = <<>> /\ uiq[p] = <<>>
       /\ \A q \in Peers : net[p][q] = <<>>

\* The design's send flow ends in "Ack -> Storage (status=delivered)".
AckMarksDelivered ==
    Quiet => \A p, q \in Peers : \A m \in ToSet(dbMsgs[p][q]) :
                m.mine /\ Stored(q, p, m.text) => m.status = "delivered"

\* The design resends what an offline peer missed: once all peers stay online, every
\* message in its author's history reaches the peer's.
MissedIsResent ==
    <>[](\A p \in Peers : node[p] = "online") =>
       \A p, q \in Peers : \A n \in 1..MaxSends :
          (\E m \in ToSet(dbMsgs[p][q]) : m.mine /\ m.text = n) ~> Stored(q, p, n)

\* The design gives every peer one chat ("peer_key BLOB NOT NULL UNIQUE").
OneChatPerPeer ==
    \A p \in Peers : \A i, j \in DOMAIN chats[p] :
       chats[p][i].peer = chats[p][j].peer => i = j

\* The design's receive flow saves a message before it is acknowledged.
AckMeansSaved ==
    \A p, q \in Peers : \A m \in ToSet(net[q][p]) : m.kind = "ack" => Stored(q, p, m.n)

\* The design asks for a Nack when a message cannot be decrypted, not an Ack.
AckMeansReadable ==
    \A q \in Peers : task[q].pc = "deliver" => task[q].text # Unreadable

\* What is persisted "for reconnect after restart" is the peer's key, once known.
KnownKeyIsPersisted ==
    Quiet => \A p, q \in Peers :
                peerKeys[p][q] = q /\ dbChats[p][q] # NoChat => dbChats[p][q].key = q

\* The cached symmetric key of a chat belongs to the peer key known for it.
CachedKeyIsCurrent ==
    \A p, q \in Peers : symKeys[p][q] # NoKey => symKeys[p][q] = peerKeys[p][q]

\* A name is only ever replaced by a better one.
NameOnlyImproves ==
    [][\A p \in Peers : \A i \in DOMAIN chats[p] \cap DOMAIN chats'[p] :
          chats[p][i].name = "Peer" => chats'[p][i].name # "Unknown"]_chats
=============================================================================
