---------------------------- MODULE ChatManager ----------------------------
(* The ChatManager of chat/manager.rs, which imax-core offers to a client, and a
   client that sends several messages at once, subscribes to the events, stores
   what it receives and calls update_status when an Ack arrives, whatever its id.
   A call runs to its end without interruption, but send_message awaits the network.

   An id is a fresh UUID: the number of the message, or NoMessage, an id that an
   Ack names and no row has.  The database is that of
   Storage, of which an insert or an update may fail. *)
EXTENDS Integers, SequencesExt

CONSTANTS
    Chats,         \* chat ids; nothing checks that a chat was added
    Capacity,      \* events that broadcast::channel keeps for a subscriber: 256
    MaxMessages,   \* bound: messages stored
    MaxFaults      \* bound: database errors and ends of the process

ASSUME BoundsAssumption == Capacity \in Nat \ {0} /\ MaxMessages \in Nat /\ MaxFaults \in Nat

VARIABLES
    chats,         \* the chats that were added
    rows,          \* the rows of table messages, in the order of seq
    sends,         \* sends[id]: where send_message is with that message, or how it ended
    acked,         \* the messages that had left the node when their Ack arrived
    queue,         \* the events that the subscriber has still to receive
    copy,          \* what it makes of those it has received
    lagged,        \* whether it has missed one, which its next recv reports
    faults         \* database errors and ends of the process so far

channel == <<queue, copy, lagged>>
vars == <<chats, rows, sends, acked, channel, faults>>

Ids == DOMAIN rows
NoMessage == 0
Row(c, mine, st) == [chat |-> c, mine |-> mine, status |-> st]

NewMessage(row) == [kind |-> "new", row |-> row]
StatusChanged(id, st) == [kind |-> "status", id |-> id, status |-> st]

\* The messages after UPDATE messages SET status = st WHERE id = id.
SetStatus(msgs, id, st) ==
    IF id \in DOMAIN msgs THEN [msgs EXCEPT ![id].status = st] ELSE msgs

\* What the subscriber does to its copy of the messages on an event.
Replay(msgs, e) ==
    IF e.kind = "new" THEN Append(msgs, e.row) ELSE SetStatus(msgs, e.id, e.status)

Init ==
    /\ chats = {}
    /\ rows = <<>>
    /\ sends = <<>>
    /\ acked = {}
    /\ queue = <<>>
    /\ copy = <<>>
    /\ lagged = FALSE
    /\ faults = 0

-----------------------------------------------------------------------------
\* event_tx.send: a full channel drops its oldest event.
Emit(e) ==
    /\ queue' = IF Len(queue) < Capacity THEN Append(queue, e) ELSE Append(Tail(queue), e)
    /\ lagged' = (lagged \/ Len(queue) = Capacity)
    /\ UNCHANGED copy

Fault == faults < MaxFaults /\ faults' = faults + 1

\* insert_message, then the event with the message as it was built.
Store(row) ==
    /\ Len(rows) < MaxMessages
    /\ rows' = Append(rows, row)
    /\ Emit(NewMessage(row))

\* As UpdateStatus, with the event sent before the update.
UpdateStatusLate(id, st) ==
    /\ Emit(StatusChanged(id, st))
    /\ \/ rows' = SetStatus(rows, id, st) /\ UNCHANGED faults
       \/ Fault /\ UNCHANGED rows

\* The row, if there is one, gets the status, whatever its status was, and the event
\* is sent in either case; or the database refuses, and the caller gets the error.
UpdateStatus(id, st) ==
    \/ /\ rows' = SetStatus(rows, id, st)
       /\ Emit(StatusChanged(id, st))
       /\ UNCHANGED faults
    \/ /\ Fault
       /\ UNCHANGED <<rows, channel>>

\* add_contact_and_chat: a new chat each time, and no event.
AddContact(c) ==
    /\ chats' = chats \cup {c}
    /\ UNCHANGED <<rows, sends, acked, channel, faults>>

\* store_outgoing_message, called by the client itself: nothing is ever sent.
StoreOutgoing(c) ==
    /\ Store(Row(c, TRUE, "pending"))
    /\ sends' = Append(sends, "none")
    /\ UNCHANGED <<chats, acked, faults>>

StoreIncoming(c) ==
    /\ Store(Row(c, FALSE, "delivered"))
    /\ sends' = Append(sends, "none")
    /\ UNCHANGED <<chats, acked, faults>>

\* send_message up to its await: stored as pending, and sealed, for which the
\* peer's key must be a point of the curve.
SendMessage(c) ==
    /\ Store(Row(c, TRUE, "pending"))
    /\ \E pc \in {"sending", "failed"} : sends' = Append(sends, pc)
    /\ UNCHANGED <<chats, acked, faults>>

\* In send_to_peer: the message is written, and the stream awaited for 5 seconds ...
SendWritten(id) ==
    /\ sends[id] = "sending"
    /\ sends' = [sends EXCEPT ![id] = "written"]
    /\ UNCHANGED <<chats, rows, acked, channel, faults>>

\* As SendFails, setting the row back to pending for a later attempt.
SendFailsResets(id) ==
    /\ sends[id] = "sending"
    /\ sends' = [sends EXCEPT ![id] = "failed"]
    /\ UpdateStatus(id, "pending")
    /\ UNCHANGED <<chats, acked>>

\* ... or the peer cannot be reached: the row stays as it is.
SendFails(id) ==
    /\ sends[id] = "sending"
    /\ sends' = [sends EXCEPT ![id] = "failed"]
    /\ UNCHANGED <<chats, rows, acked, channel, faults>>

\* As SendReturns, with an error of update_status ignored.
SendReturnsAnyhow(id) ==
    /\ sends[id] = "written"
    /\ UpdateStatus(id, "sent")
    /\ sends' = [sends EXCEPT ![id] = "ok"]
    /\ UNCHANGED <<chats, acked>>

\* send_to_peer returns Ok; the caller gets an error of update_status.
SendReturns(id) ==
    /\ sends[id] = "written"
    /\ UpdateStatus(id, "sent")
    /\ sends' = [sends EXCEPT ![id] = IF faults' = faults THEN "ok" ELSE "refused"]
    /\ UNCHANGED <<chats, acked>>

\* An Ack arrives, on a stream of its own: Delivered or Read, at any time and for any
\* id, which update_status does not compare with what was sent.
AckArrives(id, st) ==
    /\ acked' = IF id \in Ids /\ sends[id] \in {"written", "ok", "refused"}
                THEN acked \cup {id} ELSE acked
    /\ UpdateStatus(id, st)
    /\ UNCHANGED <<chats, sends>>

\* recv, after which a subscriber that lagged is on its own
ReadEvent ==
    /\ queue # <<>> /\ ~lagged
    /\ queue' = Tail(queue)
    /\ copy' = Replay(copy, Head(queue))
    /\ UNCHANGED <<chats, rows, sends, acked, lagged, faults>>

\* The process ends; the next one opens the database, reads it and subscribes.
Reopen ==
    /\ Fault
    /\ sends' = [id \in Ids |-> IF sends[id] = "none" THEN "none" ELSE "gone"]
    /\ queue' = <<>>
    /\ copy' = rows
    /\ lagged' = FALSE
    /\ UNCHANGED <<chats, rows, acked>>

Next ==
    \/ \E c \in Chats : AddContact(c) \/ StoreOutgoing(c) \/ StoreIncoming(c) \/ SendMessage(c)
    \/ \E id \in Ids : SendWritten(id) \/ SendFails(id) \/ SendReturns(id)
    \/ \E id \in Ids \cup {NoMessage}, st \in {"delivered", "read"} : AckArrives(id, st)
    \/ ReadEvent
    \/ Reopen

Spec == Init /\ [][Next]_vars

-----------------------------------------------------------------------------
(* Properties *)

\* A subscriber that has read every event and never lagged knows every message and
\* its status as the database has it, whatever failed in between.
EventsTellTheStore ==
    queue = <<>> /\ ~lagged => copy = rows

\* A message that send_message reported as sent is not pending in the database,
\* whatever the order in which sends end, Acks arrive and the database fails.
ReportedIsSent ==
    \A id \in Ids : sends[id] = "ok" => rows[id].status # "pending"

\* What an Ack has settled, one call alone takes back: the send of that same message,
\* which returns after its Ack and sets the row to sent (manager.rs:163).
OnlyReturnTakesBack ==
    [][\A id \in Ids :
          /\ rows[id].status \in {"delivered", "read"}
          /\ rows'[id].status \notin {"delivered", "read"}
          => sends[id] = "written" /\ sends'[id] = "ok" /\ rows'[id].status = "sent"]_vars

\* "Network (send) -> Ack -> Storage (status=delivered)" (design, line 322): once the
\* Ack was handled and the send is over, the message is delivered, unless the database
\* refused.
AckSettlesStatus ==
    \A id \in acked : faults = 0 /\ sends[id] = "ok" => rows[id].status \in {"delivered", "read"}
=============================================================================
