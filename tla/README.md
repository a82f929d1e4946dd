# A verification development for imax

imax is a peer-to-peer messenger: a Dioxus desktop application (`src/`) over a core library
(`crates/imax-core`) that keeps its state in SQLite and talks to other peers over iroh (QUIC).
This directory holds TLA+ models of it, TLC configurations that check them on small instances,
and proofs for TLAPS. Paths below are relative to the root of the repository.

## 1. The system

### Components

| Component | Source | State it keeps | Operations |
|---|---|---|---|
| Storage | `crates/imax-core/src/storage/{db,models}.rs` | tables `profiles`, `chats`, `messages`, the AUTOINCREMENT counter | create, activate and delete a profile, upsert a chat, insert a message, update a status, read back |
| Shared state | `src/state.rs` | `CHATS`, `ALL_MESSAGES`, `PEER_IDS`, `PEER_PUBKEYS`, `SYM_KEYS`, `OUTGOING_TX`, `IROH_NODE`, `NODE_CANCEL`, the channel of `UiUpdate`s | add a message, update a status, register a peer, derive a key, start, stop and switch, load and restore |
| UI coroutine | `src/app.rs` | none of its own | applies one `UiUpdate` at a time to memory and SQLite |
| Message loop | `src/components/test_p2p.rs` | the arm of `select!` it is in | handles Hello, ChatMessage, Ack and messages queued by the UI |
| Invite modal, message input | `src/components/{invite_modal,message_input}.rs` | the progress of an invite | send a Hello to the address of an invite code, list the chat; save and queue a typed message |
| Network node | `crates/imax-core/src/network/node.rs` | cached connections, the set `listening`, the registration channel | send to a peer, accept loop, stream listeners |
| Crypto, identity | `crates/imax-core/src/{crypto,identity}` | none | key derivation, sealing |
| Profiles' life cycle | `src/views/onboarding.rs`, `src/components/settings_modal.rs`, `src/state.rs` | the active profile | create, restore, add, switch |
| Wire protocol, invite codes | `crates/imax-core/src/network/{protocol,discovery}.rs` | none | encode, decode |
| Chat manager | `crates/imax-core/src/chat/manager.rs` | an event broadcast | store and send messages, update a status, subscribe; offered by the library, not used by the application |
| Debug binary | `src/bin/p2p_debug.rs` | two nodes, counts of passed and failed checks | ten checks in a row |
| Views | `src/components` | the open chat (`ACTIVE_CHAT_ID`, `MESSAGES`) | open a chat, the button Test P2P; else rendering |

### How they interact

    message input ──add_message──► SQLite + ALL_MESSAGES
         └──OUTGOING_TX──► message loop ──send_to_peer──► iroh node ──QUIC──► peer
    invite modal ──send_to_addr(Hello)──────────────────► iroh node
    iroh node: accept loop, one stream listener per peer ──incoming_rx──► message loop
    message loop ──UI_UPDATE_TX──► UI coroutine ──► CHATS, ALL_MESSAGES, SQLite

UI code runs on one thread, the message loop and the node's tasks on a tokio runtime. They share
the peer maps and the key cache behind mutexes, the database behind another, and everything else
goes through unbounded channels. Every send awaits the network, so the loop, the invite task and
the UI interleave at each `await`.

### What is hard

- *Interleavings*: the invite task against the message loop (both list the chat and register
  the peer); two tasks and the accept loop that all insert into the connection cache.
- *Ordering*: chat before message, Hello before sealed message, message before Ack.
- *Crashes*: between autocommitted statements, and between saving, queueing, sending,
  acknowledging and showing a message.
- *Unreliable delivery*: sends fail silently, connections end with messages in them, and two peers
  that connect to each other at once may write where nobody reads.
- *Partial failure*: a key that cannot be derived or an encryption that fails is answered by
  sending in the clear; a start of the node is dropped with the screen that asked for it.
- *Stale state*: cached keys, cached connections, placeholder keys that were saved, the view's copy
  of the open chat, the tasks of a profile that was left.
- *Partial input*: streams that break off, stall or are too long, in front of other messages.

`PROJECT.json` lists each hazard at its line under `hazards`, with the properties that watch it.

### What makes each component correct

- Storage: one active profile; no row without its profile; chats numbered 1..n; profiles do not
  touch each other; a message never moves or is overwritten.
- Network node: messages of a peer arrive in order and at most once; the connection a node writes
  on is one its peer reads.
- Streams: every message that was written whole is forwarded, in order, whatever happens to others.
- Messenger: what is shown is what is saved; of a peer a user is shown a part of what that peer
  typed, in order and once (`Conversation`); greetings end; until something fails, invites connect
  both sides and queued messages arrive sealed and readable; an Ack means what it says.
- Chat manager: its events tell a subscriber what the store holds; what it reported as sent is not
  pending; what an Ack settled is not taken back.
- Life cycle: one node and one loop for the active profile, and nothing of a profile that was left.

## 2. Modules

| Module | Models | Checked by |
|---|---|---|
| `ChatLog` | the promise of the message store: logs that grow at the end | abstract |
| `Storage` | `storage/models.rs` over the schema of `storage/db.rs`, statement by statement | `MCStorage` |
| `Transport` | the promise of the network layer: in order, at most once, possibly lost | abstract |
| `IrohNode` | `network/node.rs`: cache, connects, accept loop, listeners, ends of connections | `MCIrohNode` |
| `Streams` | `network/protocol.rs` and the bytes of one connection: senders, streams that arrive in pieces or break off, the stream listener of `node.rs` | `MCStreams` |
| `Conversation` | the promise of the messenger to two people | abstract |
| `Messenger` | invite modal, message input, message loop, UI coroutine, memory and database of every peer | `MCMessenger` |
| `Lifecycle` | one process and its profiles: onboarding, adding, switching, the auto-start effect, `start_node`, `shutdown_node`, the Test P2P button and the tasks that outlive them | `MCLifecycle` |
| `ChatManager` | `chat/manager.rs` and a client of it | `MCChatManager` |
| `P2pDebug` | `bin/p2p_debug.rs` over a network that loses and delays | `MCP2pDebug` |
| `StorageProofs`, `IrohNodeProofs`, `StreamsProofs`, `LifecycleProofs`, `ChatManagerProofs`, `P2pDebugProofs` | theorems about the module each is named for | tlapm |
| `MessengerProofs` | theorems about `Messenger`: types, memory against database, the order of messages, the refinement of `Conversation` | tlapm |
| `EncryptionProofs` | theorems about `Messenger`: who knows whose key when; on top of `MessengerProofs` | tlapm |

`Storage`, `IrohNode` with `Streams`, and `Messenger` are layers; `Lifecycle` looks at one process
across the life of several profiles, where the others have one profile each; `ChatManager` and
`P2pDebug` are clients of the library beside the application. `Storage` shows that the tables behave as append-only logs
(`ImplementsChatLog`); `Messenger` uses the database as those logs (`dbMsgs`) and as a table of
chats (`dbChats`). `IrohNode` shows that the network keeps the promise of `Transport`
(`ImplementsTransport`); `Messenger` uses it as a queue per direction (`net`) that may lose
messages. `Streams` opens what `AcceptStream` and `Forward` of `IrohNode` take for single steps: a
message there is a stream whose frame arrived whole. `Messenger` itself implements `Conversation`, with
what a user typed and was shown read off the two databases (`ImplementsConversation`), so the
chain goes from rows and connections to what two people are promised.

### Storage

`profiles`, `active`, `chats`, `messages` are the tables, `lastRowId` is the row of
`sqlite_sequence`, and `op` is the operation whose next statement is due. The callers hold the
mutex of `state.rs` for a whole operation, which is why a new operation starts only when `op` is
`Idle`; but each statement commits by itself, so `Abort` (a crash, or `?` on an error) may end an
operation after any of them. The columns that no statement compares (names, previews, seed
phrases, peer keys) are left out, so `update_chat_preview` and the reading functions have no
action of their own; `History` is what `get_messages_for_chat` returns. Foreign keys are
enforced: the bundled SQLite of rusqlite is built so.

The profile id of a chat or of a message is any id up to the bound, 0 included: that is the value
of `ACTIVE_PROFILE_ID` before onboarding, and it may also be the id of a profile that is gone.

### Messenger

`node[p]` is the process of peer p: off, its endpoint being created (the database is open and the
UI works, but no loop is running), or online. `task[p]` is where the message loop awaits: at
`select!`, in the send of a Hello or a chat message, in the send of an Ack, or after it. The
steps of one arm up to the next `await` are one action. `invite[p]` is the task of the modal; its
last lines are two actions (`InviteList`, `InviteRegisterKey`) because the loop, on another
thread, can read the peer maps between `register_peer` and `register_peer_pubkey`; no other UI
code runs between them (`UiFree`). A Hello carries the public key, a chat message the key it was
sealed with or `Plain`; `SharedKey` says which pair of keys a symmetric key comes from. A typed
message is known by its number; it is saved under an id from the clock (`LocalId`) and travels
under a fresh UUID (`WireId`), as in the code.

`view[p]` is the open chat and the copy of its messages that is on the screen; a user opens a chat
(`OpenChat`) and types into it, and each change of `ALL_MESSAGES` renews the copy, or not, as the
code does (`RefreshView`, `UpdateMessageStatus`).

Things fail also while no process dies, up to `MaxFaults` times (`Fault`): a send is lost without
its sender knowing, because the result of `stopped()` is dropped or because the peer does not read
the connection it was written on (`IrohNode` shows when); the invite task gets an error from
`connect`, `open_bi` or a write; an encryption fails. No key can be derived from the public key of
a peer in `Malformed`, which is how a key in a Hello or an invite can look that is no point of
the curve (`KeySource`). `HandleOutgoing` has all three ways in which the code then sends in the
clear: no public key, no symmetric key, no encryption. `NoFaults` says that no process has died
and nothing has failed yet; it is the condition of the properties that are true only so far, and
no action reads it.

Assumed: chat ids (four bytes of the endpoint id) of different peers differ; UUIDs are fresh; one
process owns the database; the task of the invite modal runs to its end while the process
lives; invite codes decode. A `Send` is the whole of `send_to_peer`/`send_to_addr` and the return
to the caller. Left out: previews, times and avatars.

### IrohNode

`conns[c].open` are the ends that have not closed connection c. A send is a task that checks the
cache, connects, inserts, registers and writes in separate steps, because there is an `await` or
an unlock between them; `send_to_addr` repeats the steps of `get_or_connect` and
`send_to_peer`, so both senders of a node (the message loop and the invite modal) use the same
actions. `Accept` and `TakeRegistered` are the two arms of the accept loop. The stream listener is
cut at its awaits: `AcceptStream` takes the next stream in hand, `Forward` passes its message on
once `read_to_end` has returned, `ReadFails` drops it, and `ListenerEnds` leaves the loop. The
code looks at neither the token nor the connection after an await, so a listener with a stream
in hand may forward its message after the connection, or the whole endpoint, was closed. The library is modelled by what the code relies on: a
connection ends when an end drops its last clone (`Held`, `DropConn`), when the other end has
closed it (`NoticeClosed`), or when the process dies (`Restart`); what was written and not read by
then may be lost. An outgoing connect may complete before or after the other side accepts.

A shutdown is several steps, since the senders, the accept loop and the listeners are tasks of
their own: `Shutdown` is `NODE_CANCEL.cancel()` and the synchronous part of `shutdown` (channel and
cache), `CloseEndpoint` the end of its `await`, and `LoopEnds` and `ListenerEnds` the tasks that
see the cancelled token, each whenever it is next polled. `ended[p]` is how far that got. A node
that was shut down is not used again, though its listeners may still have a message in hand; `Restart` gives the peer a new one. `accept_one`, which only
tests call, and a second accept loop on one node (section Lifecycle) are not modelled.

### Streams

`streams[i]` is the i-th stream opened on a connection: its message, how many bytes of the frame
have arrived, and whether it is finished. `BigEndian`, `Encode`, `Decode` and `DecodeFrame` are the
functions of `protocol.rs` over sequences of bytes; a slice past the end of the buffer is a
`Panic`, which would end the listener. Of postcard only one thing is used, that no payload is the
beginning of another (`PayloadAssumption`); trailing bytes are ignored as `from_bytes` does. quinn
gives streams to `accept_bi` in the order of opening as soon as one of them, or a later one, has
carried something; a stream that its sender drops is finished with what was written. The
listener reads one stream to its end before it accepts the next.

### Lifecycle

`app` is everything in memory that the life cycle touches, as one record, because the handlers
compose functions that update it (`Onboard` is `ShutdownNode`, then `StartNode`): `ShutdownNode`,
`StartNode` and `LoadProfile` map memory to memory as the functions of `state.rs` do. A call of
`start_node` puts its task into `app.tasks`: "starting" until its endpoint is there, then the message
loop, at `select!` or awaiting an Ack. It holds the profile and the cancel token it captured.
`effect` says that a signal the auto-start effect has read was written since; the effect runs
some time later (`RunEffect`), as Dioxus queues it, so that a task may go on in between. A switch
is one step, as no handler of the UI thread awaits. The two UPDATEs of `set_active_profile` are
one step here; `Storage` takes them apart.

All profiles talk to the same peer, the case in which they share a chat id; `listed`, `known` and
`key` are what `CHATS`, the peer maps and `SYM_KEYS` hold for it. What a received message is
reduced to is whose it is and under whom it is saved. `late` remembers that a task of
`start_node`, or of an invite, went on after its profile was left; the code has no such variable
and no action reads it. It divides the properties into those that hold in any case, those that hold as long as
no such task got through, and the ones that then fail.

The button Test P2P (`TestP2p`, `TestNodeReady`, `TestFails`, `TestLoop`) reads the signing key,
takes the node that is there or awaits one of its own, and starts a loop with the token of the moment,
whatever has happened meanwhile; `by` tells its loops from those of `start_node`, and `tested`, like
`late`, is read by properties only.

Dioxus drops the tasks of a component that is unmounted. `start_node` sets `IS_ONBOARDED`, so when
onboarding or restoring calls it, its own task belongs to a component that is gone at the next
render: the argument `spawned` of `StartNode` is what is left of the task, nothing for `Onboard`, the task for
`RunEffect`, which belongs to `App`. A first start therefore leaves the status at "connecting" with
nobody to change it (`Stalled`), and the effect skips the profile until a switch or a relaunch resets the
status. The invite task may be dropped with its modal, or not: `InviteFails` covers the former.

Not modelled: restoring the phrase of a profile that already exists, which gives two
profiles one identity, and what two accept loops on one node do to each other's connections.

### ChatManager

`rows` are the messages, `queue` the events a subscriber has still to receive, `copy` what it has
made of the others, `lagged` whether the bounded channel has dropped one. Each operation is one step, but
`send_message` is three: store and seal, the send that awaits the peer (`SendWritten` is the point
from which the peer may answer, up to five seconds before `send_to_peer` returns), and the
`update_status` after it. The application does not use `ChatManager`; the client is what its
interface and the design call for (store what arrives, `update_status` when an Ack comes, subscribe
to events), is marked external, and calls in any order. `update_status` looks at nothing, so
`AckArrives` may come for any id, known or not (`NoMessage`), before, during or after its send.
`get_chats` and `generate_invite` change nothing; an unchecked chat id is allowed, as in the code.

The design's send flow (line 322) stores a message as `sent`, sends it, and on its Ack marks it
`delivered`. The code stores it as `pending` and sets `sent` after the send; `ReportedIsSent` and
`OnlyReturnTakesBack` state what that order guarantees, and `MCChatManagerAck` what it does not.
The test `test_update_status` of `manager.rs` marks a message delivered that was never sent, which the model allows.

### P2pDebug

`Script` is `main`: ten checks, most of them a send and ten seconds for its arrival. A message may
be lost, or arrive at the receiver after its check gave up. `Accepts` is how much each check looks at: the
sender only, nothing at all (the check of connection reuse), or whether it decrypts. Node creation and
`online()` have no timeout, so the program may stay in `AwaitsRelay` for ever.

## 3. Runs

Every run finishes in about three minutes with two workers. Deadlock is checked in the runs of `Storage`
and of `Lifecycle` (something can always happen); the others set `CHECK_DEADLOCK FALSE` since users may
stop typing, the debug program ends, and the bounds on their actions run out.

| Run | Configuration | Bounds | Distinct states | Shows |
|---|---|---|---|---|
| `storage` | `MCStorage` | 2 chat ids, 2 message ids, 2 statuses, 2 profiles | 36,150 | the safety of the store and the refinement of `ChatLog` |
| `messenger` | `MCMessenger` | 2 peers, 2 typed messages, 1 invite, 2 crashes, 1 loss or failure | 894,522 | safety under crashes and failures, readability until the first, the refinement of `Conversation` |
| `messenger_clean` | `MCMessengerClean` | 2 peers, one with a malformed key, 1 typed message, 2 invites, 1 loss or failure, fair | 140,997 | encryption, delivery and invites until something fails, greetings in any case |
| `iroh_node` | `MCIrohNode` | 2 nodes that both initiate, 1 sender each, 2 messages, 2 connections, 1 restart or shutdown | 1,717,849 | one reader per peer, sole connections read at both ends, the refinement of `Transport`, an end after a shutdown |
| `iroh_answer` | `MCIrohNodeAnswer` | one initiator, 2 senders per node, 3 messages, 2 connections, no restart, fair | 208,740 | everything written is received, unless a second connection was opened |
| `streams` | `MCStreams` | 2 messages, one longer than the limit of 6 bytes allows, 3 streams, fair | 313,559 | whole messages are forwarded in order, nothing stops or blocks the listener |
| `lifecycle` | `MCLifecycle` | 2 profiles, 2 switches, 1 invite, 1 message, 1 of failed bind, relaunch and test button, fair | 215,314 | one node and one loop, of the active profile, unless onboarding lost its start |
| `chat_manager` | `MCChatManager` | 2 chats, 2 messages, a channel of 2 events, 2 database errors or ends of the process | 3,935,855 | events tell what the store holds, what is reported as sent is, an Ack stands until its send returns |
| `p2p_debug` | `MCP2pDebug` | ten checks, a pool of 3 messages, 2 losses | 669,265 | no success with a message missing |

Why these bounds are enough to meet the interesting cases: two profiles sharing a chat id need two
profiles and one chat id, and a clash of numbers two messages (for more of either, the theorems
of section 4 hold whatever the bounds are); crossing invites need two
invites, a message overtaken by its answer two messages; the loss of a key needs one crash; two
connections that race, or a reconnect after a restart, need two. A message sent in the clear
needs one peer whose key is malformed, and its counterpart one that has a good key; the run has one of each. A profile added and a
switch back leave two generations of tasks behind the current one, the older of the same profile. Two peers
suffice for every property of `Messenger`, since a chat involves only its two peers and a peer's
queues mix senders without looking at them; a third peer would only add interleavings of steps
that touch different entries of the maps. A stream that breaks off or is too long needs a whole one before and
one behind it. Two crashes let each peer, or one peer twice, lose its memory around one
conversation. An Ack that overtakes the end of its send needs one message, a lagging subscriber one event more
than the channel holds; capacity 2 stands for 256. Chats, message ids, peers and the senders of a node are interchangeable
and reduced by symmetry in the runs of safety properties.

Other configurations that pass, kept beside these but not in the list of runs: `MCIrohNodeTasks`
(the properties of `iroh_node` for two senders per node and one initiator: 3,903,784 states) and
`MCMessengerGreetings` (`HellosEnd` with two invites, two crashes and a loss, fair: 72,052 states).

### Disagreements with the code's own texts

Each of these runs ends in a counterexample; `findings` in `PROJECT.json` quotes the text it
contradicts.

| Run | What happens |
|---|---|
| `messenger_ack` | the status of an acknowledged message stays `sent`: it is saved under one id and sent under another |
| `iroh_reconnect` | after a restart of its peer a node never reads the new connection |
| `lifecycle_restart` | a `start_node` that ends after its profile was left sets `NODE_STARTED`, so the new profile is never started |

Further configurations, kept beside these but not in the list of runs, end in a
counterexample as well:

| Configuration | Property | What happens |
|---|---|---|
| `MCMessengerChats` | `OneChatPerPeer` | one peer is listed twice: the invite task pushes a chat without looking whether the peer's Hello has already listed it (design, line 164: one chat per peer) |
| `MCMessengerEarlyAck` | `AckMeansSaved` | the Ack leaves before the message is saved, where the design (line 328) saves first |
| `MCMessengerKey` | `KnownKeyIsPersisted` | a peer first heard of through a message is saved with a zero key for good, against `db.rs:150` |
| `MCMessengerNack` | `AckMeansReadable` | a message that cannot be decrypted is acknowledged and saved as a placeholder, where the design (line 492) asks for a Nack |
| `MCMessengerCache` | `CachedKeyIsCurrent` | a symmetric key derived from an earlier public key stays in use |
| `MCMessengerName` | `NameOnlyImproves` | "Unknown" replaces the name given by the invite, against the comment at `app.rs:32` |
| `MCMessengerResend` | `MissedIsResent` | what an absent peer missed is never sent again, where the design (line 334) has it resent |
| `MCMessengerClock` | `MemoryMatchesDb` | with two equal subsecond clock readings a message is shown and sent, but not saved, against `state.rs:470` |
| `MCIrohNodeCrossed` | `SettledLinksAreRead` | two nodes that connect at once may write where nobody reads, and lose messages though nothing has ended |
| `MCStorageCrash` | `ActivationLeavesActive` | a crash inside `set_active_profile` leaves no profile to restore, against `state.rs:303` |
| `MCLifecycleOnboard` | `ConnectingIsTrue` | the task of a first start is dropped with the onboarding screen: the status stays "connecting" and the effect skips the start, against `state.rs:388` |
| `MCChatManagerAck` | `AckSettlesStatus` | an Ack handled while `send_message` awaits the end of its stream is overwritten: `delivered` becomes `sent`, where the design (line 322) saves `sent` before it sends and ends in `delivered` |
| `MCLifecycleKey` | `CachedKeyIsOwn` | a loop that is being cancelled caches a key of the old profile, which the new one then uses |
| `MCLifecycleMessages` | `MessagesUnderOwner` | a message received by one profile is saved under another |
| `MCLifecycleChats` | `MessagesHaveChat` | after adding a profile, or around a switch, a message is saved under a profile without its chat, and is never loaded again |
| `MCLifecycleTest` | `NoLoopLeftBehind` | the Test P2P button, pressed before a switch, starts a loop of the left profile under the new one's token |

`NothingInTheClear`, `EveryMessageReadable`, `QueuedIsDelivered` and `InviteConnectsBoth` claim
something until the first crash, loss or failure only. After a restart a chat may be listed, and written to, while the invite task is
between registering the endpoint and the key. A Hello that is lost leaves its peer without a key.
And a loss needs no crash: `MCIrohNodeCrossed` shows one where both sides invite at once, which in `Messenger` is
a `Fault` like any other.

### Fairness

`messenger_clean`, `iroh_answer`, `streams`, `MCMessengerGreetings` and `MCMessengerResend` assume weak fairness of what the runtime
polls: the listener of each link, the message loop, its outgoing arm, the invite task, the UI
coroutine, `start_node`, each sending task, the two arms of the accept loop, each connection's
listener. In `streams` a task that sends goes on, or breaks off, at last (the flow control of QUIC can hold it
only while the connection lives, and a stalled peer ends the connection by the idle timeout). `HandleOutgoing` has its own condition because tokio's `select!` picks its ready branch
at random. `lifecycle` and `lifecycle_restart` assume it of the
auto-start effect and of the tasks of `start_node` that are not dropped, whose wait for a relay has a timeout. Nothing is assumed of users, crashes,
restarts, losses, failures or failing binds.

## 4. Proofs

TLC checks the instances of section 3; the theorems below hold for every value of the constants,
from the named assumptions of the modules: `ProfilesAssumption`, `BoundsAssumption` and the like
(bounds are natural numbers), `PayloadAssumption` (section Streams) and `KeysAssumption` of
`Messenger`: there are finitely many peers, and the values for "no key", "zero key", "not sealed" and "cannot be
decrypted" are none of the peers, pairs of peers or texts that they stand beside.

Each module follows one argument. `Inv` is an invariant that is inductive, a conjunction of named
parts; `Init => Inv` and `Inv /\ [Next]_vars => Inv'` are lemmas, the latter with one lemma per action;
the theorems are consequences. TLC agrees with the inductive invariants on the instances of section 3 or
smaller ones, except for that of
`ChatManagerProofs`, whose history of copies it cannot enumerate.

### StorageProofs

| Theorem | Says |
|---|---|
| `TypeCorrect` | `Spec => []TypeOK` |
| `ActiveProfileUnique` | `Spec => []OneActiveProfile` |
| `ForeignKeys` | `Spec => []NoOrphans` |
| `DeletionGoesThrough` | `Spec => []DeleteNeverRefused` |
| `NumberingDense` | `Spec => []DenseNumbering` |
| `MessagesStayPut` | `Spec => RowsKeepTheirPlace` |
| `DeletionIsolated` | `Spec => ProfilesIsolated` |
| `StoreIsChatLog` | `Spec => ImplementsChatLog` |

None of the invariants is inductive alone. The inductive one is the conjunction of all of them with what `op`
promises about the statements still to run: in "mark" nothing is active, in "insert" the number chosen is
still one above the last of its chat (no other operation ran since), in "deleteChats" no message and in
"deleteProfile" neither chat nor message refers to the profile, and no profile id exceeds
`lastRowId`. The refinement maps a row inserted to an append at the end of
its chat's log (the numbering is dense, so its number is the next position), the first statement of
a deletion to `Erase`, a status update to `SetStatus`, and everything else to a stutter.

### IrohNodeProofs

| Theorem | Says |
|---|---|
| `TypeCorrect` | `Spec => []TypeOK` |
| `NoTwoReaders` | `Spec => []OneReaderPerPeer` |
| `FinalAfterShutdown` | `Spec => ShutDownIsFinal` |
| `NodeIsTransport` | `Spec => ImplementsTransport` |
| `ReceivedOnceInOrder` | the numbers received from a peer rise: none comes twice, none late |
| `SoleLinksRead` | `Spec => []SoleLinksAreRead` |

That a node reads one connection per peer rests on `listening`: the peer of every running listener is in
the set, so `TakeRegistered` starts no second one (`ListenersKnown`). The order of messages needs
more, since a new connection is read as soon as the listener of the old one has ended:
what is in a connection that is read, or that may come to be read because no listener is running, is later than
everything received so far (`ReceivedInOrder`). Between two connections that race this holds
because one of them only is ever read; after a restart because the ends that died are not open.
`Transport` has no connections: a message forwarded maps to `Deliver`, a message written to `Send`, every
other step to a stutter. What a listener has in hand comes between what it has forwarded and what is still in
the connection (`HandsInOrder`). `ShutDownIsFinal` follows from `ClosedIsClosed`: once `endpoint.close()` has run no
connection of the node is open, so that nothing can be written to it or by it, and what may still be
forwarded was in a stream, or in hand, before.

`SoleLinksRead` is about the connection that is the only one its two ends have ever had. Two connections may
cross or follow a restart, and then the one in the cache may be the one nobody reads
(`MCIrohNodeCrossed`, `MCIrohNodeReconnect`); the theorem says that it takes a second connection for that. No
hypothesis is needed on who initiates, how many tasks send, or what ends elsewhere. As long as a peer has had no
connection it is not listed (`ListedHaveMet`); the end of the first one waits in `incoming`, in
`registered` or in the hand of the sender that will register it until it is read
(`SoleIsKept`), and as long as it is not read nobody else has made its peer listed (`SoleIsRead`), so
that `SpawnListener` does not skip it.

### StreamsProofs

| Theorem | Says |
|---|---|
| `NothingStopsTheListener` | `Spec => []ListenerSurvives` |
| `MessagesInOrder` | `PayloadsFit /\ Spec => []WholeInOrder` |

`DecodeFrame` slices the buffer only after it has compared the length, so that no prefix of a frame makes it
panic. The frame of a message decodes to that message because `BigEndian` and `FromBigEndian`
are inverse below 4 GiB (`LengthSurvives`). That is the hypothesis `PayloadsFit`: the code writes `len as
u32`, and a longer payload would be cut off silently. The reader's limit of 16 MiB is far below
that. The inductive invariant adds that the listener leaves a stream only when it has
finished or for its size. `WholeInOrder` says with an increasing map from what was forwarded to the
whole streams what a filter of a sequence would say; tlapm can instantiate the one and not the
other.

### LifecycleProofs

| Theorem | Says |
|---|---|
| `TypeCorrect` | `Spec => []TypeOK` |
| `OnlyActiveRuns` | `Spec => []LiveIsActive` |
| `OneIdentityAlways` | `Spec => []OneIdentity` |
| `OnlyOnboardingLocks` | `Spec => OnlyOnboardingStalls` |
| `OneLoopPerProfile` | `Spec => []StartedOnce` |
| `NodeOfActiveProfile` | `Spec => []OwnNodeUnlessLate` |
| `ForeignKeysAreLate` | `Spec => ForeignKeyIsLate` |

The handlers are compositions of functions on memory, so each function has a lemma first
(`IsShutDown`, ...) which says which fields it sets and keeps. The invariant ties tasks to tokens: every token that
`shutdown_node` replaced is cancelled (`ReplacedIsCancelled`), so a task that is not cancelled has the present
token; as long as no task went on after its profile was left, a running task of `start_node` means
`NODE_STARTED` or "connecting" (`StartedIsKnown`), the guard that keeps a second one from starting; and the node shown
has a task that is past its first `await` (`NodeHasLoop`). `OnlyOnboardingLocks` needs that "connecting" is left
whenever the task that would end it does: only a `start_node` whose task was dropped as it was spawned leaves
it standing.

### ChatManagerProofs

| Theorem | Says |
|---|---|
| `SubscriberKnowsAll` | `Spec => []EventsTellTheStore` |
| `ReportedMeansSent` | `Spec => []ReportedIsSent` |
| `SettledUntilReturn` | `Spec => OnlyReturnTakesBack` |

`EventsTellTheStore` speaks of a subscriber that has read everything. Inductive is what holds before that:
there is a history of copies that begins with the subscriber's, ends with the rows of the database,
and goes on by one event of the channel at a time (`QueueLeadsToStore`). An operation appends its event and one copy
to it, a read takes one off; a lagging channel ends the claim. The other two hold although Acks come for any
id at any time, since no call but the return of a send sets a status other than `delivered` or `read`.

### MessengerProofs

| Theorem | Says |
|---|---|
| `TypeCorrect` | `Spec => []TypeOK` |
| `ViewIsCurrent` | `Spec => []ViewShowsChat` |
| `MessagesFindTheirChat` | `Spec => []MessagesHaveChat` |
| `ListSurvivesRestart` | `Spec => []ListedIsSaved` |
| `MessagesInOrder` | what p has stored of q is by q, in the order q typed it, none twice |
| `MemoryIsTheDatabase` | `~ClockCollides /\ Spec => []MemoryMatchesDb` |
| `MessengerIsConversation` | `~ClockCollides /\ Spec => ImplementsConversation` |

`Inv` serves the first four. A message is stored only for a chat that has a row, because a "connected" update
is ahead of the message in the queue of the UI, or its row is there already (`Announced`), and because only a chat that is
saved can be open (`OpenIsSaved`).

`OrderInv` serves the other three. A message of q to p is at one of seven places: stored, in the queue of p's
UI, with p's loop, in `incoming_rx`, on the network, with q's loop, or queued by q (`At`). The
numbers in each place rise, and those of a place nearer to the end are below those of a place further
from it (`PlacesInOrder`). Every step drops messages, moves one from the end of a place to
the end of the next, or adds the highest number. A crash empties places, so that the gaps it
leaves keep the order. `MessagesInOrder` is what `Conversation` promises about safety, without the sequences
themselves.

`MessengerIsConversation` is the refinement itself. What a user typed and was shown are the rows of a table
by the one and by the other, in their order; `ImplementsConversation` takes the n-th of them by
the number of such rows up to a place (`Place`), and how these numbers change when a row is added
or a status is set is proved once (`AddedEntry`, `MarkedEntries`). `TalkInv` adds to `OrderInv`
that a peer's own rows are numbered as they were typed (`TypedInOrder`), and that a message on its
way, or stored by the other side, is in the history of the peer that typed it (`AllTyped`). A row
that is added is then a `Type`, or a `Show` of a message that was typed and is later than all that was
shown (`ShownIsNext`); every other step, a crash included, leaves both histories as they are.

`MemoryIsTheDatabase` has the hypothesis that the clock gives no two equal readings: ids of typed messages are
readings of it, and an INSERT with an id that is taken is refused while the message is in memory
already. `MCMessengerClock` shows this without the hypothesis.

### EncryptionProofs

| Theorem | Says |
|---|---|
| `EverythingIsReadable` | `Spec => []EveryMessageReadable` |
| `NothingIsSentInTheClear` | `Spec => []NothingInTheClear` |

Both properties claim something until the first crash, loss or failure (`NoFaults`), and not of a peer whose
key is no point of the curve (`Malformed`): from that one no key can be derived, and the code sends in the
clear and cannot read. The theorems hold with any number of faults allowed, any set of such peers and any
number of invites. The invariant `SecretInv` says that as long as p does not know the key of q, the first thing of q that p will
handle is a Hello: in `incoming_rx` and on the network every chat message of q is behind a Hello, and where
there is no Hello q has not sent p anything yet and will greet first (`Introduced`). This
holds because whoever lists a peer has sent it a Hello or is about to answer one. On the side of the
sender a chat is not open, and nothing is queued for it, before its key is there (`ChatsKnown`). The one
interval in which a chat is listed without a key is between the last two lines of the invite task, in which no
other UI code runs.

### P2pDebugProofs

| Theorem | Says |
|---|---|
| `SuccessMeansReceived` | `Spec => []PassMeansReceived` |

Most checks look at the sender of a message only, and the check of the pool at nothing, so that a late
message of one check could pass for that of the next. The invariant (`SoFar`) says why it cannot
without a failure: as long as no check has failed, at most one message is on its way or in a channel, and it is
the one the program waits for (`NothingElseOnTheWay`); what was taken is what was sent
before it, in order. A lost message leaves the program waiting for ten seconds with nothing on its way, and that ends
in a failure. The invariant claims nothing after the first failure.

### What stays with TLC

- Liveness (`QueuedIsDelivered`, `HellosEnd`, `InviteConnectsBoth`, `WrittenIsReceived`,
  `WholeIsForwarded`, `StartsEventually`): fairness and ENABLED are out of reach of tlapm's backends.
- What is false: `AckMarksDelivered`, `AutoRestarts` and `SettledLinksAreRead` have a
  counterexample, and so have the properties of the further configurations (section 3).

Every safety invariant, action property and refinement that a passing run checks is a theorem.

## 5. Not modelled, and the plan

Not modelled, because there is no behaviour to check: rendering, previews and times, key
derivation from mnemonics (`identity/`), the primitives under `crypto/` beyond which two keys a
symmetric key comes from, base58 and postcard encoding of invite codes. The expiry of an invite
(24 hours in the design, line 187) is written and read by nothing, so there is nothing to compare
it with. Not modelled, because it lies in a library: mutex poisoning after a panic, and the
cancelling of tasks by Dioxus beyond what `Lifecycle` says of it. A second accept loop on one node (Test P2P on a running node) would need
listeners per loop in `IrohNode`.

What is left, in the order planned:

1. Two accept loops on one node.
2. Safety parts of the liveness properties that bound what can still happen, such as how many
   greetings two peers may exchange (`HellosEnd`).
