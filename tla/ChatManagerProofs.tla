------------------------- MODULE ChatManagerProofs -------------------------
(* What holds of the chat manager for every number of chats, messages and
   failures, and for every capacity of the event channel. *)
EXTENDS ChatManager, TLAPS

-----------------------------------------------------------------------------
(* The inductive invariant *)

RowTypes == [chat : Chats, mine : BOOLEAN, status : {"pending", "sent", "delivered", "read"}]
SendStates == {"none", "sending", "failed", "written", "ok", "refused", "gone"}
Events ==
    [kind : {"new"}, row : RowTypes] \cup
    [kind : {"status"}, id : Nat, status : {"sent", "delivered", "read"}]

RowsTyped ==
    /\ rows \in Seq(RowTypes)
    /\ sends \in Seq(SendStates) /\ Len(sends) = Len(rows)
    /\ faults \in Nat

ChannelTyped ==
    /\ queue \in Seq(Events) /\ Len(queue) <= Capacity
    /\ lagged \in BOOLEAN

\* What the subscriber has, then what it has after each event still to come, and at
\* last what the database has: the copies h on the way from the one to the other.
Leads(h, events, from, to) ==
    /\ h \in Seq(Seq(RowTypes)) /\ Len(h) = Len(events) + 1
    /\ h[1] = from /\ h[Len(events) + 1] = to
    /\ \A i \in DOMAIN events : h[i + 1] = Replay(h[i], events[i])

\* A subscriber that has not lagged gets from its copy to the rows of the database
\* by the events that are still in the channel.
QueueLeadsToStore == ~lagged => \E h : Leads(h, queue, copy, rows)

\* The inductive invariant: what the theorems state, and what their proofs need.
Inv ==
    /\ RowsTyped
    /\ ChannelTyped
    /\ ReportedIsSent
    /\ QueueLeadsToStore

-----------------------------------------------------------------------------
(* Sequences *)

\* What a sequence over a set holds.
LEMMA SeqElement ==
    ASSUME NEW S, NEW s \in Seq(S), NEW i \in DOMAIN s
    PROVE  s[i] \in S
  OBVIOUS

\* The empty sequence is one over any set.
LEMMA EmptyTyped ==
    ASSUME NEW S
    PROVE  <<>> \in Seq(S) /\ Len(<<>>) = 0 /\ DOMAIN <<>> = {}
  OBVIOUS

\* Head and tail of a sequence over a set.
LEMMA TailTyped ==
    ASSUME NEW S, NEW s \in Seq(S), s # <<>>
    PROVE  /\ Head(s) \in S /\ Tail(s) \in Seq(S)
           /\ Head(s) = s[1] /\ Len(Tail(s)) = Len(s) - 1
           /\ \A i \in DOMAIN Tail(s) : i + 1 \in DOMAIN s /\ Tail(s)[i] = s[i + 1]
  OBVIOUS

\* Appending to a sequence over a set.
LEMMA AppendTyped ==
    ASSUME NEW S, NEW s \in Seq(S), NEW e \in S
    PROVE  /\ Append(s, e) \in Seq(S) /\ Len(Append(s, e)) = Len(s) + 1
           /\ DOMAIN Append(s, e) = DOMAIN s \cup {Len(s) + 1}
           /\ Append(s, e)[Len(s) + 1] = e
           /\ \A i \in DOMAIN s : Append(s, e)[i] = s[i]
  OBVIOUS

-----------------------------------------------------------------------------
(* Events *)

\* Nothing to come: the copy is what the database has.
LEMMA LeadsAtOnce ==
    ASSUME NEW r \in Seq(RowTypes)
    PROVE  Leads(<<r>>, <<>>, r, r)
  BY DEF Leads

\* An event that tells what has just been done to the rows may come last.
LEMMA LeadsOn ==
    ASSUME NEW h, NEW events \in Seq(Events), NEW from, NEW to, Leads(h, events, from, to),
           NEW e \in Events, Replay(to, e) \in Seq(RowTypes)
    PROVE  Leads(Append(h, Replay(to, e)), Append(events, e), from, Replay(to, e))
  <1> DEFINE n == Len(events)
             v == Replay(to, e)
             g == Append(h, v)
             q == Append(events, e)
  <1>1. /\ h \in Seq(Seq(RowTypes)) /\ Len(h) = n + 1 /\ h[1] = from /\ h[n + 1] = to
        /\ \A i \in DOMAIN events : h[i + 1] = Replay(h[i], events[i])
    BY DEF Leads
  <1>2. n \in Nat /\ DOMAIN events = 1 .. n /\ DOMAIN h = 1 .. n + 1
    BY <1>1
  <1>3. /\ g \in Seq(Seq(RowTypes)) /\ Len(g) = n + 2 /\ g[n + 2] = v
        /\ \A i \in 1 .. n + 1 : g[i] = h[i]
    <2>1. v \in Seq(RowTypes)
      OBVIOUS
    <2> HIDE DEF v, n
    <2> QED
      BY <1>1, <1>2, <2>1, AppendTyped
  <1>4. /\ Len(q) = n + 1 /\ DOMAIN q = 1 .. n + 1 /\ q[n + 1] = e
        /\ \A i \in 1 .. n : q[i] = events[i]
    BY <1>2, AppendTyped
  <1>5. ASSUME NEW i \in DOMAIN q PROVE g[i + 1] = Replay(g[i], q[i])
    <2>1. CASE i = n + 1
      <3> HIDE DEF v, g, q, n
      <3>1. i + 1 = n + 2
        BY <1>2, <2>1
      <3>2. g[i + 1] = v /\ g[i] = to /\ q[i] = e
        BY <1>1, <1>2, <1>3, <1>4, <2>1, <3>1
      <3> QED
        BY <3>2 DEF v
    <2>2. CASE i \in 1 .. n
      <3> HIDE DEF v, g, q, n
      <3>1. i + 1 \in 1 .. n + 1 /\ i \in 1 .. n + 1
        BY <1>2, <2>2
      <3> QED
        BY <1>1, <1>2, <1>3, <1>4, <2>2, <3>1
    <2> QED
      BY <1>2, <1>4, <2>1, <2>2
  <1>6. g[1] = from /\ g[Len(q) + 1] = v /\ Len(g) = Len(q) + 1
    BY <1>1, <1>2, <1>3, <1>4
  <1> QED
    BY <1>3, <1>5, <1>6 DEF Leads

\* The first event is received.
LEMMA LeadsFromNext ==
    ASSUME NEW h, NEW events \in Seq(Events), events # <<>>, NEW from, NEW to,
           Leads(h, events, from, to)
    PROVE  Leads(Tail(h), Tail(events), Replay(from, Head(events)), to)
  <1> DEFINE n == Len(events)
             g == Tail(h)
             q == Tail(events)
  <1>1. /\ h \in Seq(Seq(RowTypes)) /\ Len(h) = n + 1 /\ h[1] = from /\ h[n + 1] = to
        /\ \A i \in DOMAIN events : h[i + 1] = Replay(h[i], events[i])
    BY DEF Leads
  <1>2. n \in Nat /\ n > 0 /\ DOMAIN events = 1 .. n /\ DOMAIN h = 1 .. n + 1 /\ h # <<>>
    BY <1>1
  <1>3. /\ g \in Seq(Seq(RowTypes)) /\ Len(g) = n
        /\ \A i \in 1 .. n : g[i] = h[i + 1]
    <2>1. Len(g) = n + 1 - 1 /\ DOMAIN g = 1 .. Len(g) /\ g \in Seq(Seq(RowTypes))
      BY <1>1, <1>2, TailTyped
    <2>2. \A i \in DOMAIN g : g[i] = h[i + 1]
      BY <1>1, <1>2, TailTyped
    <2> QED
      BY <1>2, <2>1, <2>2
  <1>4. /\ Len(q) = n - 1 /\ DOMAIN q = 1 .. n - 1 /\ Head(events) = events[1]
        /\ \A i \in 1 .. n - 1 : q[i] = events[i + 1]
    BY <1>2, TailTyped
  <1> HIDE DEF g, q, n
  <1>5. ASSUME NEW i \in DOMAIN q PROVE g[i + 1] = Replay(g[i], q[i])
    <2>1. i \in Nat /\ i \in 1 .. n - 1 /\ i \in 1 .. n /\ i + 1 \in 1 .. n
      BY <1>2, <1>4
    <2>2. h[i + 1 + 1] = Replay(h[i + 1], events[i + 1])
      BY <1>1, <1>2, <2>1
    <2> QED
      BY <1>3, <1>4, <2>1, <2>2
  <1>6. g[1] = Replay(from, Head(events))
    <2>1. 1 \in 1 .. n
      BY <1>2
    <2> QED
      BY <1>1, <1>2, <1>3, <1>4, <2>1
  <1>7. g[Len(q) + 1] = to /\ Len(g) = Len(q) + 1
    <2>1. Len(q) + 1 = n /\ n \in 1 .. n
      BY <1>2, <1>4
    <2> QED
      BY <1>1, <1>3, <2>1
  <1> QED
    BY <1>3, <1>5, <1>6, <1>7 DEF Leads, g, q

\* Sending an event that tells what is done to the rows keeps the channel in order,
\* whether or not it drops another event.
LEMMA EmitKeeps ==
    ASSUME RowsTyped, ChannelTyped, QueueLeadsToStore, NEW e \in Events, Emit(e),
           rows' = Replay(rows, e), rows' \in Seq(RowTypes)
    PROVE  ChannelTyped' /\ QueueLeadsToStore'
  <1>1. Capacity \in Nat \ {0}
    BY BoundsAssumption
  <1>2. CASE Len(queue) < Capacity
    <2>1. queue' = Append(queue, e) /\ lagged' = lagged /\ copy' = copy
      BY <1>1, <1>2 DEF Emit, ChannelTyped
    <2>2. ChannelTyped'
      BY <1>1, <1>2, <2>1, AppendTyped DEF ChannelTyped
    <2>3. ASSUME ~lagged' PROVE \E h : Leads(h, queue', copy', rows')
      <3>1. PICK h : Leads(h, queue, copy, rows)
        BY <2>1, <2>3 DEF QueueLeadsToStore
      <3>2. Leads(Append(h, Replay(rows, e)), Append(queue, e), copy, Replay(rows, e))
        BY <3>1, LeadsOn DEF ChannelTyped
      <3> QED
        BY <2>1, <3>2
    <2> QED
      BY <2>2, <2>3 DEF QueueLeadsToStore
  <1>3. CASE ~(Len(queue) < Capacity)
    <2>1. Len(queue) \in Nat /\ Len(queue) = Capacity /\ queue # <<>>
      BY <1>1, <1>3 DEF ChannelTyped
    <2>2. queue' = Append(Tail(queue), e) /\ lagged' = TRUE
      BY <1>3, <2>1 DEF Emit
    <2>3. Tail(queue) \in Seq(Events) /\ Len(Tail(queue)) = Len(queue) - 1
      BY <2>1, TailTyped DEF ChannelTyped
    <2>4. ChannelTyped'
      BY <1>1, <2>1, <2>2, <2>3, AppendTyped DEF ChannelTyped
    <2> QED
      BY <2>2, <2>4 DEF QueueLeadsToStore
  <1> QED
    BY <1>2, <1>3

-----------------------------------------------------------------------------
(* Steps *)

\* A message is stored, of which a send may follow.
LEMMA StoreStep ==
    ASSUME Inv, NEW row \in RowTypes, Store(row),
           NEW s \in {"none", "sending", "failed"}, sends' = Append(sends, s), UNCHANGED faults
    PROVE  Inv'
  <1>1. rows' = Append(rows, row) /\ Emit(NewMessage(row))
    BY DEF Store
  <1>2. NewMessage(row) \in Events /\ Replay(rows, NewMessage(row)) = Append(rows, row)
    BY DEF NewMessage, Events, Replay
  <1>3. rows' \in Seq(RowTypes) /\ Len(rows') = Len(rows) + 1
    BY <1>1, AppendTyped DEF Inv, RowsTyped
  <1>4. RowsTyped'
    BY <1>3, AppendTyped DEF Inv, RowsTyped, SendStates
  <1>5. ChannelTyped' /\ QueueLeadsToStore'
    BY <1>1, <1>2, <1>3, EmitKeeps DEF Inv
  <1>6. ReportedIsSent'
    <2> SUFFICES ASSUME NEW id \in DOMAIN rows', sends'[id] = "ok"
                 PROVE  rows'[id].status # "pending"
      BY DEF ReportedIsSent, Ids
    <2>1. CASE id \in DOMAIN rows
      <3>1. rows'[id] = rows[id] /\ sends'[id] = sends[id]
        BY <1>1, <2>1, AppendTyped DEF Inv, RowsTyped, SendStates
      <3> QED
        BY <2>1, <3>1 DEF Inv, ReportedIsSent, Ids
    <2>2. CASE id = Len(rows) + 1
      <3>1. rows'[id] = row /\ sends'[id] = s
        BY <1>1, <2>2, AppendTyped DEF Inv, RowsTyped, SendStates
      <3> QED
        BY <3>1
    <2> QED
      BY <1>1, <2>1, <2>2, AppendTyped DEF Inv, RowsTyped
  <1> QED
    BY <1>4, <1>5, <1>6 DEF Inv

\* What an update does to the rows, of which there may be none with that id.
LEMMA UpdateTyped ==
    ASSUME rows \in Seq(RowTypes), NEW id, NEW st \in {"sent", "delivered", "read"},
           rows' = SetStatus(rows, id, st)
    PROVE  /\ rows' \in Seq(RowTypes) /\ Len(rows') = Len(rows) /\ DOMAIN rows' = DOMAIN rows
           /\ \A i \in DOMAIN rows : i # id => rows'[i] = rows[i]
           /\ id \in DOMAIN rows => rows'[id].status = st
  <1>1. CASE id \in DOMAIN rows
    <2>1. rows[id] \in RowTypes
      BY <1>1, SeqElement
    <2>2. [rows[id] EXCEPT !.status = st] \in RowTypes /\ [rows[id] EXCEPT !.status = st].status = st
      BY <2>1 DEF RowTypes
    <2>3. PICK n \in RowTypes : n = [rows[id] EXCEPT !.status = st] /\ n.status = st
      BY <2>2, Zenon
    <2>4. rows' = [rows EXCEPT ![id] = n]
      BY <1>1, <2>3 DEF SetStatus
    <2>5. rows' \in Seq(RowTypes) /\ Len(rows') = Len(rows) /\ DOMAIN rows' = DOMAIN rows
      BY <1>1, <2>4
    <2>6. rows'[id] = n /\ \A i \in DOMAIN rows : i # id => rows'[i] = rows[i]
      BY <1>1, <2>4
    <2> QED
      BY <2>3, <2>5, <2>6
  <1>2. CASE id \notin DOMAIN rows
    BY <1>2 DEF SetStatus
  <1> QED
    BY <1>1, <1>2

\* A row gets a status other than pending, or none has that id, or the database
\* refuses, which a send does not report as success.
LEMMA StatusStep ==
    ASSUME Inv, NEW id \in Ids \cup {NoMessage}, NEW st \in {"sent", "delivered", "read"},
           UpdateStatus(id, st),
           \/ UNCHANGED sends
           \/ /\ id \in Ids
              /\ sends' = [sends EXCEPT ![id] = IF faults' = faults THEN "ok" ELSE "refused"]
    PROVE  Inv'
  <1>1. id \in Nat /\ rows \in Seq(RowTypes) /\ DOMAIN sends = DOMAIN rows
    BY DEF Inv, RowsTyped, Ids, NoMessage
  <1>2. sends' \in Seq(SendStates) /\ Len(sends') = Len(sends) /\ DOMAIN sends' = DOMAIN sends
    BY <1>1 DEF Inv, RowsTyped, SendStates
  <1>3. \A i \in DOMAIN rows : i # id => sends'[i] = sends[i]
    BY <1>1
  <1>4. id \in DOMAIN rows /\ sends'[id] = "ok" => sends[id] = "ok" \/ faults' = faults
    BY <1>1
  <1>5. CASE /\ rows' = SetStatus(rows, id, st)
             /\ Emit(StatusChanged(id, st)) /\ UNCHANGED faults
    <2>1. PICK e \in Events : /\ e = StatusChanged(id, st) /\ e.kind = "status"
                              /\ e.id = id /\ e.status = st
      <3>1. StatusChanged(id, st)
               \in [kind : {"status"}, id : Nat, status : {"sent", "delivered", "read"}]
        BY <1>1 DEF StatusChanged
      <3> QED
        BY <3>1 DEF StatusChanged, Events
    <2>2. Replay(rows, e) = SetStatus(rows, id, st)
      BY <2>1 DEF Replay
    <2>3. rows' \in Seq(RowTypes) /\ Len(rows') = Len(rows) /\ DOMAIN rows' = DOMAIN rows
      BY <1>1, <1>5, UpdateTyped
    <2>4. ChannelTyped' /\ QueueLeadsToStore'
      BY <1>5, <2>1, <2>2, <2>3, EmitKeeps DEF Inv
    <2>5. /\ id \in DOMAIN rows => rows'[id].status = st
          /\ \A i \in DOMAIN rows : i # id => rows'[i] = rows[i]
      BY <1>1, <1>5, UpdateTyped
    <2>6. ReportedIsSent'
      <3> SUFFICES ASSUME NEW i \in DOMAIN rows', sends'[i] = "ok"
                   PROVE  rows'[i].status # "pending"
        BY DEF ReportedIsSent, Ids
      <3>1. CASE i = id
        BY <2>3, <2>5, <3>1
      <3>2. CASE i # id
        BY <1>3, <2>3, <2>5, <3>2 DEF Inv, ReportedIsSent, Ids
      <3> QED
        BY <3>1, <3>2
    <2> QED
      BY <1>2, <1>5, <2>3, <2>4, <2>6 DEF Inv, RowsTyped
  <1>6. CASE Fault /\ UNCHANGED <<rows, channel>>
    <2>1. faults' = faults + 1 /\ faults \in Nat /\ faults' \in Nat
      BY <1>6 DEF Fault, Inv, RowsTyped
    <2>2. RowsTyped'
      BY <1>2, <1>6, <2>1 DEF Inv, RowsTyped
    <2>3. ChannelTyped' /\ QueueLeadsToStore'
      BY <1>6 DEF Inv, ChannelTyped, QueueLeadsToStore, channel
    <2>4. ReportedIsSent'
      BY <1>1, <1>3, <1>4, <1>6, <2>1 DEF Inv, ReportedIsSent, Ids
    <2> QED
      BY <2>2, <2>3, <2>4 DEF Inv
  <1> QED
    BY <1>5, <1>6 DEF UpdateStatus

\* The network part of send_message: only how far it is changes.
LEMMA SendStep ==
    ASSUME Inv, NEW id \in Ids, SendWritten(id) \/ SendFails(id)
    PROVE  Inv'
  <1>1. PICK s \in {"written", "failed"} : sends' = [sends EXCEPT ![id] = s]
    BY DEF SendWritten, SendFails
  <1>2. sends[id] = "sending" /\ UNCHANGED <<chats, rows, acked, channel, faults>>
    BY DEF SendWritten, SendFails
  <1>3. id \in DOMAIN sends /\ DOMAIN sends = DOMAIN rows /\ sends \in Seq(SendStates)
    BY DEF Inv, RowsTyped, Ids
  <1>4. RowsTyped'
    BY <1>1, <1>2, <1>3 DEF Inv, RowsTyped, SendStates
  <1>5. ChannelTyped' /\ QueueLeadsToStore'
    BY <1>2 DEF Inv, ChannelTyped, QueueLeadsToStore, channel
  <1>6. ReportedIsSent'
    <2> SUFFICES ASSUME NEW i \in DOMAIN rows, sends'[i] = "ok"
                 PROVE  rows[i].status # "pending"
      BY <1>2 DEF ReportedIsSent, Ids
    <2>1. CASE i = id
      BY <1>1, <1>2, <1>3, <2>1 DEF Inv, ReportedIsSent, Ids
    <2>2. CASE i # id
      BY <1>1, <1>3, <2>2 DEF Inv, ReportedIsSent, Ids
    <2> QED
      BY <2>1, <2>2
  <1> QED
    BY <1>4, <1>5, <1>6 DEF Inv

\* The subscriber receives the next event.
LEMMA ReadStep ==
    ASSUME Inv, ReadEvent
    PROVE  Inv'
  <1>1. /\ queue # <<>> /\ ~lagged /\ queue' = Tail(queue) /\ copy' = Replay(copy, Head(queue))
        /\ UNCHANGED <<rows, sends, lagged, faults>>
    BY DEF ReadEvent
  <1>2. queue \in Seq(Events) /\ Len(queue) <= Capacity /\ Capacity \in Nat
    BY BoundsAssumption DEF Inv, ChannelTyped
  <1>3. ChannelTyped'
    <2>1. Tail(queue) \in Seq(Events) /\ Len(Tail(queue)) = Len(queue) - 1
      BY <1>1, <1>2, TailTyped
    <2> QED
      BY <1>1, <1>2, <2>1 DEF Inv, ChannelTyped
  <1>4. PICK h : Leads(h, queue, copy, rows)
    BY <1>1 DEF Inv, QueueLeadsToStore
  <1>5. Leads(Tail(h), Tail(queue), Replay(copy, Head(queue)), rows)
    BY <1>1, <1>2, <1>4, LeadsFromNext
  <1>6. QueueLeadsToStore'
    BY <1>1, <1>5 DEF QueueLeadsToStore
  <1>7. RowsTyped' /\ ReportedIsSent'
    BY <1>1 DEF Inv, RowsTyped, ReportedIsSent, Ids
  <1> QED
    BY <1>3, <1>6, <1>7 DEF Inv

\* The process ends, and the next one subscribes.
LEMMA ReopenStep ==
    ASSUME Inv, Reopen
    PROVE  Inv'
  <1>1. /\ faults' = faults + 1 /\ queue' = <<>> /\ copy' = rows /\ lagged' = FALSE
        /\ rows' = rows
        /\ sends' = [id \in Ids |-> IF sends[id] = "none" THEN "none" ELSE "gone"]
    BY DEF Reopen, Fault
  <1>2. rows \in Seq(RowTypes) /\ Len(rows) \in Nat /\ DOMAIN rows = 1 .. Len(rows)
    BY DEF Inv, RowsTyped
  <1>3. sends' \in Seq(SendStates) /\ Len(sends') = Len(rows)
    <2>1. sends' = [id \in 1 .. Len(rows) |-> IF sends[id] = "none" THEN "none" ELSE "gone"]
      BY <1>1, <1>2 DEF Ids
    <2> QED
      BY <1>2, <2>1 DEF SendStates
  <1>4. RowsTyped'
    BY <1>1, <1>3 DEF Inv, RowsTyped
  <1>5. ChannelTyped'
    <2>1. queue' \in Seq(Events) /\ Len(queue') = 0 /\ lagged' \in BOOLEAN
      BY <1>1, EmptyTyped
    <2>2. Capacity \in Nat
      BY BoundsAssumption
    <2> QED
      BY <2>1, <2>2 DEF ChannelTyped
  <1>6. QueueLeadsToStore'
    BY <1>1, <1>2, LeadsAtOnce DEF QueueLeadsToStore
  <1>7. ReportedIsSent'
    BY <1>1 DEF Inv, ReportedIsSent, Ids
  <1> QED
    BY <1>4, <1>5, <1>6, <1>7 DEF Inv

-----------------------------------------------------------------------------
(* Theorems *)

\* Before anything is stored the invariant holds.
LEMMA InitInv == Init => Inv
  <1> SUFFICES ASSUME Init PROVE Inv
    OBVIOUS
  <1>1. rows = <<>> /\ sends = <<>> /\ queue = <<>> /\ copy = <<>> /\ lagged = FALSE /\ faults = 0
    BY DEF Init
  <1>2. RowsTyped
    BY <1>1, EmptyTyped DEF RowsTyped
  <1>3. ChannelTyped
    <2>1. queue \in Seq(Events) /\ Len(queue) = 0 /\ lagged \in BOOLEAN
      BY <1>1, EmptyTyped
    <2>2. Capacity \in Nat
      BY BoundsAssumption
    <2> QED
      BY <2>1, <2>2 DEF ChannelTyped
  <1>4. ReportedIsSent
    BY <1>1, EmptyTyped DEF ReportedIsSent, Ids
  <1>5. QueueLeadsToStore
    BY <1>1, LeadsAtOnce, EmptyTyped DEF QueueLeadsToStore
  <1> QED
    BY <1>2, <1>3, <1>4, <1>5 DEF Inv

\* Every step keeps it.
LEMMA NextInv == Inv /\ [Next]_vars => Inv'
  <1> SUFFICES ASSUME Inv, [Next]_vars PROVE Inv'
    OBVIOUS
  <1>1. ASSUME NEW c \in Chats, AddContact(c) PROVE Inv'
    <2>1. UNCHANGED <<rows, sends, queue, copy, lagged, faults>>
      BY <1>1 DEF AddContact, channel
    <2> QED
      BY <2>1 DEF Inv, RowsTyped, ChannelTyped, ReportedIsSent, QueueLeadsToStore, Ids
  <1>2. ASSUME NEW c \in Chats, StoreOutgoing(c) PROVE Inv'
    <2>1. Row(c, TRUE, "pending") \in RowTypes
      BY DEF Row, RowTypes
    <2>2. Store(Row(c, TRUE, "pending")) /\ sends' = Append(sends, "none") /\ UNCHANGED faults
      BY <1>2 DEF StoreOutgoing
    <2> QED
      BY <2>1, <2>2, StoreStep
  <1>3. ASSUME NEW c \in Chats, StoreIncoming(c) PROVE Inv'
    <2>1. Row(c, FALSE, "delivered") \in RowTypes
      BY DEF Row, RowTypes
    <2>2. Store(Row(c, FALSE, "delivered")) /\ sends' = Append(sends, "none") /\ UNCHANGED faults
      BY <1>3 DEF StoreIncoming
    <2> QED
      BY <2>1, <2>2, StoreStep
  <1>4. ASSUME NEW c \in Chats, SendMessage(c) PROVE Inv'
    <2>1. Row(c, TRUE, "pending") \in RowTypes
      BY DEF Row, RowTypes
    <2>2. PICK s \in {"sending", "failed"} :
             Store(Row(c, TRUE, "pending")) /\ sends' = Append(sends, s) /\ UNCHANGED faults
      BY <1>4 DEF SendMessage
    <2> QED
      BY <2>1, <2>2, StoreStep
  <1>5. ASSUME NEW id \in Ids, SendWritten(id) \/ SendFails(id) PROVE Inv'
    BY <1>5, SendStep
  <1>6. ASSUME NEW id \in Ids, SendReturns(id) PROVE Inv'
    BY <1>6, StatusStep DEF SendReturns
  <1>7. ASSUME NEW id \in Ids \cup {NoMessage}, NEW st \in {"delivered", "read"}, AckArrives(id, st)
        PROVE  Inv'
    <2>1. UpdateStatus(id, st) /\ UNCHANGED sends
      BY <1>7 DEF AckArrives
    <2> QED
      BY <2>1, StatusStep
  <1>8. CASE ReadEvent
    BY <1>8, ReadStep
  <1>9. CASE Reopen
    BY <1>9, ReopenStep
  <1>10. CASE UNCHANGED vars
    <2>1. UNCHANGED <<rows, sends, queue, copy, lagged, faults>>
      BY <1>10 DEF vars, channel
    <2> QED
      BY <2>1 DEF Inv, RowsTyped, ChannelTyped, ReportedIsSent, QueueLeadsToStore, Ids
  <1> QED
    BY <1>1, <1>2, <1>3, <1>4, <1>5, <1>6, <1>7, <1>8, <1>9, <1>10 DEF Next

\* The invariant holds throughout.
LEMMA Invariance == Spec => []Inv
  BY InitInv, NextInv, PTL DEF Spec

\* A subscriber that has read every event and never lagged has what the database has,
\* whatever the capacity of the channel and whatever failed in between.
THEOREM SubscriberKnowsAll == Spec => []EventsTellTheStore
  <1>1. Inv => EventsTellTheStore
    <2> SUFFICES ASSUME Inv, queue = <<>>, ~lagged PROVE copy = rows
      BY DEF EventsTellTheStore
    <2>1. PICK h : Leads(h, queue, copy, rows)
      BY DEF Inv, QueueLeadsToStore
    <2> QED
      BY <2>1 DEF Leads
  <1> QED
    BY <1>1, Invariance, PTL

\* No message that send_message reported as sent is pending in the database, in whatever
\* order sends end and Acks arrive and whichever updates the database refuses.
THEOREM ReportedMeansSent == Spec => []ReportedIsSent
  <1>1. Inv => ReportedIsSent
    BY DEF Inv
  <1> QED
    BY <1>1, Invariance, PTL

\* What an Ack has settled is taken back only by the return of the send of that very
\* message, never by another message's send, an event or an end of the process.
THEOREM SettledUntilReturn == Spec => OnlyReturnTakesBack
  <1> DEFINE Settled(r) == r.status \in {"delivered", "read"}
             Kept(id) == /\ Settled(rows[id]) /\ ~Settled(rows'[id])
                         => sends[id] = "written" /\ sends'[id] = "ok" /\ rows'[id].status = "sent"
  <1>1. ASSUME Inv, [Next]_vars PROVE \A id \in Ids : Kept(id)
    <2> SUFFICES ASSUME NEW id \in Ids PROVE Kept(id)
      OBVIOUS
    <2>1. rows \in Seq(RowTypes) /\ DOMAIN sends = DOMAIN rows /\ id \in DOMAIN rows
      BY <1>1 DEF Inv, RowsTyped, Ids
    <2>2. CASE rows' = rows
      BY <2>2
    <2>3. ASSUME NEW row \in RowTypes, Store(row) PROVE Kept(id)
      BY <2>1, <2>3, AppendTyped DEF Store
    <2>4. ASSUME NEW c \in Chats
          PROVE  Row(c, TRUE, "pending") \in RowTypes /\ Row(c, FALSE, "delivered") \in RowTypes
      BY DEF Row, RowTypes
    <2>5. ASSUME NEW i \in Ids, SendReturns(i) PROVE Kept(id)
      <3>1. CASE rows' = SetStatus(rows, i, "sent") /\ UNCHANGED faults
        <4>1. sends[i] = "written" /\ sends' = [sends EXCEPT ![i] = "ok"]
          BY <2>5, <3>1 DEF SendReturns
        <4>2. /\ i \in DOMAIN rows => rows'[i].status = "sent"
              /\ \A j \in DOMAIN rows : j # i => rows'[j] = rows[j]
          BY <2>1, <3>1, UpdateTyped
        <4> QED
          BY <2>1, <4>1, <4>2
      <3> QED
        BY <2>2, <2>5, <3>1 DEF SendReturns, UpdateStatus
    <2>6. ASSUME NEW i \in Ids \cup {NoMessage}, NEW st \in {"delivered", "read"}, AckArrives(i, st)
          PROVE  Kept(id)
      <3>1. CASE rows' = SetStatus(rows, i, st)
        <4>1. /\ i \in DOMAIN rows => rows'[i].status = st
              /\ \A j \in DOMAIN rows : j # i => rows'[j] = rows[j]
          BY <2>1, <3>1, UpdateTyped
        <4> QED
          BY <2>1, <4>1
      <3> QED
        BY <2>2, <2>6, <3>1 DEF AckArrives, UpdateStatus
    <2> QED
      BY <1>1, <2>2, <2>3, <2>4, <2>5, <2>6 DEF Next, vars, AddContact, StoreOutgoing, StoreIncoming,
         SendMessage, SendWritten, SendFails, ReadEvent, Reopen
  <1>2. (\A id \in Ids : Kept(id)) => [\A id \in Ids :
          /\ rows[id].status \in {"delivered", "read"}
          /\ rows'[id].status \notin {"delivered", "read"}
          => sends[id] = "written" /\ sends'[id] = "ok" /\ rows'[id].status = "sent"]_vars
    OBVIOUS
  <1> QED
    BY <1>1, <1>2, Invariance, PTL DEF Spec, OnlyReturnTakesBack
=============================================================================
