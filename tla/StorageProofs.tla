--------------------------- MODULE StorageProofs ---------------------------
(* What holds of the message store for every set of chats, message ids and
   statuses and every bound on the number of profiles. *)
EXTENDS Storage, Sequences, TLAPS

-----------------------------------------------------------------------------
(* The operators *)

\* COALESCE(MAX(seq), 0) of a chat numbered 1..n is n, also for the empty chat.
LEMMA MaxOfInterval ==
    ASSUME NEW n \in Nat
    PROVE  MaxOrZero(1..n) = n
  <1>1. n \in (1..n) \cup {0}
    OBVIOUS
  <1>2. \A m \in 1..n : m <= n
    OBVIOUS
  <1>3. \A x \in (1..n) \cup {0} : (\A m \in 1..n : m <= x) => x = n
    OBVIOUS
  <1> QED
    BY <1>1, <1>2, <1>3 DEF MaxOrZero

-----------------------------------------------------------------------------
(* The inductive invariant *)

\* What an operation in progress may rely on because no other one starts.
InProgress ==
    /\ op.stmt = "mark" => active = {}
    /\ op.stmt = "deleteChats" => \A i \in DOMAIN messages : messages[i].key[2] # op.profile
    /\ op.stmt = "insert" => op.row.seq = LastSeq(op.row.key) + 1

Inv ==
    /\ TypeOK
    /\ profiles \subseteq 1..lastRowId
    /\ OneActiveProfile
    /\ NoOrphans
    /\ \A k \in Keys : LastSeq(k) \in Nat
    /\ DenseNumbering
    /\ DeleteNeverRefused
    /\ InProgress

\* The empty database satisfies the invariant.
LEMMA InitInv == Init => Inv
  <1> SUFFICES ASSUME Init PROVE Inv
    OBVIOUS
  <1> USE ProfilesAssumption DEF Init, Idle
  <1>1. TypeOK /\ profiles \subseteq 1..lastRowId
    BY DEF TypeOK, ProfileIds, Ops
  <1>2. OneActiveProfile /\ NoOrphans /\ DeleteNeverRefused /\ InProgress
    BY DEF OneActiveProfile, NoOrphans, DeleteNeverRefused, InProgress
  <1>3. ASSUME NEW k \in Keys PROVE Seqs(k) = 1..0
    BY DEF Seqs
  <1>4. \A k \in Keys : LastSeq(k) = 0
    BY <1>3, MaxOfInterval DEF LastSeq
  <1>5. DenseNumbering
    BY <1>3, <1>4 DEF DenseNumbering
  <1> QED
    BY <1>1, <1>2, <1>4, <1>5 DEF Inv

\* Numbering reads nothing but the messages table.
LEMMA NumberingFrame ==
    ASSUME messages' = messages, NEW k \in Keys
    PROVE  Seqs(k)' = Seqs(k) /\ LastSeq(k)' = LastSeq(k)
  BY DEF Seqs, LastSeq

\* The statements on profiles and chats, which leave the messages alone.
LEMMA ProfileSteps ==
    ASSUME Inv,
           CreateProfile \/ (\E p \in profiles : SetActiveClear(p)) \/ SetActiveMark
              \/ DeleteChats \/ DeleteProfileRow \/ (\E k \in Keys : UpsertChat(k))
              \/ Abort \/ UNCHANGED vars
    PROVE  Inv'
  <1> USE ProfilesAssumption
  <1>1. messages' = messages
    BY DEF CreateProfile, SetActiveClear, SetActiveMark, DeleteChats, DeleteProfileRow,
           UpsertChat, Abort, vars
  <1>2. (\A k \in Keys : LastSeq(k) \in Nat)' /\ DenseNumbering'
    BY <1>1, NumberingFrame DEF Inv, DenseNumbering
  <1>3. CASE CreateProfile
    <2> USE <1>3 DEF CreateProfile, Inv
    <2>1. TypeOK' /\ (profiles \subseteq 1..lastRowId)'
      BY DEF TypeOK, ProfileIds
    <2>2. OneActiveProfile' /\ NoOrphans' /\ DeleteNeverRefused' /\ InProgress'
      BY DEF OneActiveProfile, NoOrphans, DeleteNeverRefused, InProgress, Idle
    <2> QED
      BY <1>2, <2>1, <2>2
  <1>4. CASE \E p \in profiles : SetActiveClear(p)
    <2> PICK p \in profiles : SetActiveClear(p)
      BY <1>4
    <2> USE DEF SetActiveClear, Inv
    <2>1. TypeOK' /\ (profiles \subseteq 1..lastRowId)'
      BY DEF TypeOK, Ops
    <2>2. OneActiveProfile' /\ NoOrphans' /\ DeleteNeverRefused' /\ InProgress'
      BY DEF OneActiveProfile, NoOrphans, DeleteNeverRefused, InProgress
    <2> QED
      BY <1>2, <2>1, <2>2
  <1>5. CASE SetActiveMark
    <2> USE <1>5 DEF SetActiveMark, Inv
    <2>1. TypeOK' /\ (profiles \subseteq 1..lastRowId)'
      BY DEF TypeOK, Ops
    <2>2. OneActiveProfile' /\ NoOrphans'
      BY DEF OneActiveProfile, NoOrphans, InProgress
    <2>3. DeleteNeverRefused' /\ InProgress'
      BY DEF DeleteNeverRefused, InProgress, Idle
    <2> QED
      BY <1>2, <2>1, <2>2, <2>3
  <1>6. CASE DeleteChats
    <2> USE <1>6 DEF DeleteChats, Inv
    <2>1. op \in [stmt : {"mark", "deleteChats", "deleteProfile"}, profile : ProfileIds]
      BY DEF TypeOK, Ops, Idle
    <2>2. TypeOK' /\ (profiles \subseteq 1..lastRowId)'
      BY <2>1 DEF TypeOK, Ops
    <2>3. OneActiveProfile' /\ NoOrphans'
      BY DEF OneActiveProfile, NoOrphans
    <2>4. DeleteNeverRefused' /\ InProgress'
      BY <2>1 DEF DeleteNeverRefused, InProgress, Referenced
    <2> QED
      BY <1>2, <2>2, <2>3, <2>4
  <1>7. CASE DeleteProfileRow
    <2> USE <1>7 DEF DeleteProfileRow, Inv
    <2>1. TypeOK' /\ (profiles \subseteq 1..lastRowId)'
      BY DEF TypeOK, Ops
    <2>2. OneActiveProfile' /\ NoOrphans'
      BY DEF OneActiveProfile, NoOrphans, Referenced
    <2>3. DeleteNeverRefused' /\ InProgress'
      BY DEF DeleteNeverRefused, InProgress, Idle
    <2> QED
      BY <1>2, <2>1, <2>2, <2>3
  <1>8. CASE \E k \in Keys : UpsertChat(k)
    <2> PICK k \in Keys : UpsertChat(k)
      BY <1>8
    <2> USE DEF UpsertChat, Inv
    <2>1. TypeOK' /\ (profiles \subseteq 1..lastRowId)'
      BY DEF TypeOK
    <2>2. OneActiveProfile' /\ NoOrphans' /\ DeleteNeverRefused' /\ InProgress'
      BY DEF OneActiveProfile, NoOrphans, DeleteNeverRefused, InProgress, Idle
    <2> QED
      BY <1>2, <2>1, <2>2
  <1>9. CASE Abort
    <2> USE <1>9 DEF Abort, Inv
    <2>1. TypeOK' /\ (profiles \subseteq 1..lastRowId)'
      BY DEF TypeOK, Ops
    <2>2. OneActiveProfile' /\ NoOrphans' /\ DeleteNeverRefused' /\ InProgress'
      BY DEF OneActiveProfile, NoOrphans, DeleteNeverRefused, InProgress, Idle
    <2> QED
      BY <1>2, <2>1, <2>2
  <1>10. CASE UNCHANGED vars
    <2> USE <1>10 DEF vars, Inv
    <2>1. TypeOK' /\ (profiles \subseteq 1..lastRowId)'
      BY DEF TypeOK
    <2>2. OneActiveProfile' /\ NoOrphans' /\ DeleteNeverRefused'
      BY DEF OneActiveProfile, NoOrphans, DeleteNeverRefused, Referenced
    <2>3. InProgress'
      BY DEF InProgress, LastSeq, Seqs
    <2> QED
      BY <1>2, <2>1, <2>2, <2>3
  <1> QED
    BY <1>3, <1>4, <1>5, <1>6, <1>7, <1>8, <1>9, <1>10

\* Reading the next number writes nothing; the number it leaves in op is still
\* the next one when the INSERT comes.
LEMMA InsertNumberStep ==
    ASSUME Inv, NEW id \in Ids, NEW k \in Keys, NEW st \in Statuses, InsertNumber(id, k, st)
    PROVE  Inv'
  <1> USE DEF InsertNumber, Inv
  <1>1. \A l \in Keys : Seqs(l)' = Seqs(l) /\ LastSeq(l)' = LastSeq(l)
    BY NumberingFrame
  <1>2. [key |-> k, seq |-> LastSeq(k) + 1, status |-> st] \in Rows
    BY DEF Rows
  <1>3. TypeOK' /\ (profiles \subseteq 1..lastRowId)'
    BY <1>2 DEF TypeOK, Ops
  <1>4. OneActiveProfile' /\ NoOrphans' /\ DeleteNeverRefused'
    BY DEF OneActiveProfile, NoOrphans, DeleteNeverRefused
  <1>5. (\A l \in Keys : LastSeq(l) \in Nat)' /\ DenseNumbering'
    BY <1>1 DEF DenseNumbering
  <1>6. InProgress'
    BY <1>1 DEF InProgress
  <1> QED
    BY <1>3, <1>4, <1>5, <1>6

\* What INSERT does to the numbers: the chat of the new row gains the next one,
\* every other chat keeps its own.
LEMMA InsertRowNumbers ==
    ASSUME Inv, NEW id \in Ids, NEW row \in Rows,
           op = [stmt |-> "insert", id |-> id, row |-> row],
           InsertRow, Insertable(id, row)
    PROVE  /\ row.key \in Keys
           /\ row.seq = LastSeq(row.key) + 1
           /\ id \notin DOMAIN messages
           /\ DOMAIN messages' = DOMAIN messages \cup {id}
           /\ messages' = [i \in DOMAIN messages \cup {id} |-> IF i = id THEN row ELSE messages[i]]
           /\ Seqs(row.key)' = 1..(LastSeq(row.key) + 1)
           /\ LastSeq(row.key)' = LastSeq(row.key) + 1
           /\ \A k \in Keys \ {row.key} : Seqs(k)' = Seqs(k) /\ LastSeq(k)' = LastSeq(k)
  <1>1. row.key \in Keys
    BY DEF Rows
  <1>2. row.seq = LastSeq(row.key) + 1
    BY DEF Inv, InProgress
  <1>3. messages' = [i \in DOMAIN messages \cup {id} |-> IF i = id THEN row ELSE messages[i]]
    BY DEF InsertRow
  <1>4. id \notin DOMAIN messages
    BY DEF Insertable
  <1>5. /\ DOMAIN messages' = DOMAIN messages \cup {id}
        /\ messages'[id] = row
        /\ \A i \in DOMAIN messages : messages'[i] = messages[i]
    BY <1>3, <1>4
  <1>6. Seqs(row.key)' = Seqs(row.key) \cup {row.seq}
    BY <1>4, <1>5 DEF Seqs
  <1>7. Seqs(row.key) = 1..LastSeq(row.key) /\ LastSeq(row.key) \in Nat
    BY <1>1 DEF Inv, DenseNumbering
  <1>8. Seqs(row.key)' = 1..(LastSeq(row.key) + 1)
    BY <1>2, <1>6, <1>7
  <1>9. LastSeq(row.key)' = LastSeq(row.key) + 1
    BY <1>7, <1>8, MaxOfInterval DEF LastSeq
  <1>10. ASSUME NEW k \in Keys \ {row.key}
         PROVE  Seqs(k)' = Seqs(k) /\ LastSeq(k)' = LastSeq(k)
    <2>1. Seqs(k)' = Seqs(k)
      BY <1>4, <1>5 DEF Seqs
    <2> QED
      BY <2>1 DEF LastSeq
  <1> QED
    BY <1>1, <1>2, <1>3, <1>4, <1>5, <1>8, <1>9, <1>10

\* INSERT keeps the invariant: refused, or under the next number of its chat.
LEMMA InsertRowStep ==
    ASSUME Inv, InsertRow
    PROVE  Inv'
  <1>1. PICK id \in Ids, row \in Rows : op = [stmt |-> "insert", id |-> id, row |-> row]
    BY DEF Inv, InsertRow, TypeOK, Ops, Idle
  <1>2. CASE ~Insertable(id, row)
    <2>1. UNCHANGED <<profiles, lastRowId, active, chats, messages>> /\ op' = Idle
      BY <1>1, <1>2 DEF InsertRow
    <2>2. \A l \in Keys : Seqs(l)' = Seqs(l) /\ LastSeq(l)' = LastSeq(l)
      BY <2>1, NumberingFrame
    <2>3. TypeOK' /\ (profiles \subseteq 1..lastRowId)'
      BY <2>1 DEF Inv, TypeOK, Ops
    <2>4. OneActiveProfile' /\ NoOrphans' /\ DeleteNeverRefused' /\ InProgress'
      BY <2>1 DEF Inv, OneActiveProfile, NoOrphans, DeleteNeverRefused, InProgress, Idle
    <2>5. (\A l \in Keys : LastSeq(l) \in Nat)' /\ DenseNumbering'
      BY <2>1, <2>2 DEF Inv, DenseNumbering
    <2> QED
      BY <2>3, <2>4, <2>5 DEF Inv
  <1>3. CASE Insertable(id, row)
    <2>1. /\ row.key \in Keys
          /\ row.seq = LastSeq(row.key) + 1
          /\ id \notin DOMAIN messages
          /\ DOMAIN messages' = DOMAIN messages \cup {id}
          /\ messages' = [i \in DOMAIN messages \cup {id} |-> IF i = id THEN row ELSE messages[i]]
          /\ Seqs(row.key)' = 1..(LastSeq(row.key) + 1)
          /\ LastSeq(row.key)' = LastSeq(row.key) + 1
          /\ \A k \in Keys \ {row.key} : Seqs(k)' = Seqs(k) /\ LastSeq(k)' = LastSeq(k)
      BY <1>1, <1>3, InsertRowNumbers
    <2>2. UNCHANGED <<profiles, lastRowId, active, chats>> /\ op' = Idle
      BY DEF InsertRow
    <2>3. TypeOK' /\ (profiles \subseteq 1..lastRowId)'
      BY <2>1, <2>2 DEF Inv, TypeOK, Ops
    <2>4. OneActiveProfile' /\ DeleteNeverRefused' /\ InProgress'
      BY <2>2 DEF Inv, OneActiveProfile, DeleteNeverRefused, InProgress, Idle
    <2>5. NoOrphans'
      BY <1>3, <2>1, <2>2 DEF Inv, NoOrphans, Insertable
    <2>6. \A k \in Keys : LastSeq(k)' \in Nat /\ Seqs(k)' = 1..LastSeq(k)'
      BY <2>1 DEF Inv, DenseNumbering
    <2>7. ASSUME NEW i \in DOMAIN messages, messages[i].key = row.key
          PROVE  messages[i].seq # row.seq
      <3>1. messages[i].seq \in Seqs(row.key)
        BY <2>7 DEF Seqs
      <3>2. Seqs(row.key) = 1..LastSeq(row.key) /\ LastSeq(row.key) \in Nat
        BY <2>1 DEF Inv, DenseNumbering
      <3> QED
        BY <2>1, <3>1, <3>2
    <2>8. DenseNumbering'
      <3>1. ASSUME NEW i \in DOMAIN messages', NEW j \in DOMAIN messages',
                   messages'[i].key = messages'[j].key, messages'[i].seq = messages'[j].seq
            PROVE  i = j
        <4>1. CASE i = id /\ j # id
          BY <2>1, <2>7, <3>1, <4>1
        <4>2. CASE i # id /\ j = id
          BY <2>1, <2>7, <3>1, <4>2
        <4>3. CASE i # id /\ j # id
          BY <2>1, <3>1, <4>3 DEF Inv, DenseNumbering
        <4> QED
          BY <4>1, <4>2, <4>3
      <3> QED
        BY <2>6, <3>1 DEF DenseNumbering
    <2> QED
      BY <2>3, <2>4, <2>5, <2>6, <2>8 DEF Inv
  <1> QED
    BY <1>2, <1>3

\* DELETE empties the chats of one profile and leaves those of the others.
LEMMA DeleteMessagesNumbers ==
    ASSUME Inv, NEW p \in profiles, DeleteMessages(p), NEW k \in Keys
    PROVE  /\ k[2] = p => Seqs(k)' = {} /\ LastSeq(k)' = 0
           /\ k[2] # p => Seqs(k)' = Seqs(k) /\ LastSeq(k)' = LastSeq(k)
  <1> USE DEF DeleteMessages, Restrict
  <1>1. CASE k[2] = p
    <2>1. Seqs(k)' = {}
      BY <1>1 DEF Seqs
    <2>2. Seqs(k)' = 1..0
      BY <2>1
    <2> QED
      BY <1>1, <2>1, <2>2, MaxOfInterval DEF LastSeq
  <1>2. CASE k[2] # p
    <2>1. Seqs(k)' = Seqs(k)
      BY <1>2 DEF Seqs
    <2> QED
      BY <1>2, <2>1 DEF LastSeq
  <1> QED
    BY <1>1, <1>2

\* The first statement of delete_profile removes the numbers of the whole profile, or none of a chat.
LEMMA DeleteMessagesStep ==
    ASSUME Inv, NEW p \in profiles, DeleteMessages(p)
    PROVE  Inv'
  <1> USE DEF DeleteMessages, Restrict, Inv
  <1>1. \A k \in Keys :
           /\ k[2] = p => Seqs(k)' = {} /\ LastSeq(k)' = 0
           /\ k[2] # p => Seqs(k)' = Seqs(k) /\ LastSeq(k)' = LastSeq(k)
    BY DeleteMessagesNumbers
  <1>2. TypeOK' /\ (profiles \subseteq 1..lastRowId)'
    BY DEF TypeOK, Ops
  <1>3. OneActiveProfile' /\ NoOrphans' /\ DeleteNeverRefused' /\ InProgress'
    BY DEF OneActiveProfile, NoOrphans, DeleteNeverRefused, InProgress
  <1>4. (\A k \in Keys : LastSeq(k) \in Nat)'
    BY <1>1
  <1>5. \A k \in Keys : Seqs(k)' = 1..LastSeq(k)'
    <2>1. 1..0 = {}
      OBVIOUS
    <2> QED
      BY <1>1, <2>1 DEF DenseNumbering
  <1>6. DenseNumbering'
    BY <1>5 DEF DenseNumbering
  <1> QED
    BY <1>2, <1>3, <1>4, <1>6

\* update_message_status changes neither the chat nor the number of a row.
LEMMA UpdateStatusStep ==
    ASSUME Inv, NEW id \in Ids, NEW st \in Statuses, UpdateStatus(id, st)
    PROVE  Inv'
  <1> USE DEF UpdateStatus, Inv
  <1>1. /\ DOMAIN messages' = DOMAIN messages
        /\ \A i \in DOMAIN messages :
              /\ messages'[i] \in Rows
              /\ messages'[i].key = messages[i].key
              /\ messages'[i].seq = messages[i].seq
    BY DEF TypeOK, Rows
  <1>2. TypeOK' /\ (profiles \subseteq 1..lastRowId)'
    BY <1>1 DEF TypeOK
  <1>3. OneActiveProfile' /\ NoOrphans' /\ DeleteNeverRefused'
    BY <1>1 DEF OneActiveProfile, NoOrphans, DeleteNeverRefused, Referenced, Idle
  <1>4. \A k \in Keys : Seqs(k)' = Seqs(k) /\ LastSeq(k)' = LastSeq(k)
    <2>1. \A k \in Keys : Seqs(k)' = Seqs(k)
      BY <1>1 DEF Seqs
    <2> QED
      BY <2>1 DEF LastSeq
  <1>5. (\A k \in Keys : LastSeq(k) \in Nat)' /\ DenseNumbering'
    BY <1>1, <1>4 DEF DenseNumbering
  <1>6. InProgress'
    BY DEF InProgress, Idle
  <1> QED
    BY <1>2, <1>3, <1>5, <1>6

\* Every step of the store keeps the invariant.
LEMMA StepInv == Inv /\ [Next]_vars => Inv'
  <1> SUFFICES ASSUME Inv, [Next]_vars PROVE Inv'
    OBVIOUS
  <1>1. CASE \E id \in Ids, k \in Keys, st \in Statuses : InsertNumber(id, k, st)
    BY <1>1, InsertNumberStep
  <1>2. CASE InsertRow
    BY <1>2, InsertRowStep
  <1>3. CASE \E p \in profiles : DeleteMessages(p)
    BY <1>3, DeleteMessagesStep
  <1>4. CASE \E id \in Ids, st \in Statuses : UpdateStatus(id, st)
    BY <1>4, UpdateStatusStep
  <1> QED
    BY <1>1, <1>2, <1>3, <1>4, ProfileSteps DEF Next

\* The invariant holds throughout: the lemma every theorem below starts from.
LEMMA Invariance == Spec => []Inv
  BY InitInv, StepInv, PTL DEF Spec

-----------------------------------------------------------------------------
(* Safety *)

\* Every table keeps rows of its type, whatever operations run and wherever they stop.
THEOREM TypeCorrect == Spec => []TypeOK
  <1>1. Inv => TypeOK
    BY DEF Inv
  <1> QED
    BY <1>1, Invariance, PTL

\* get_active_profile never has two rows to choose from, however many profiles
\* there are and wherever set_active_profile is cut off.
THEOREM ActiveProfileUnique == Spec => []OneActiveProfile
  <1>1. Inv => OneActiveProfile
    BY DEF Inv
  <1> QED
    BY <1>1, Invariance, PTL

\* No chat without its profile, no message without its chat, whatever is deleted and
\* wherever a deletion is cut off.
THEOREM ForeignKeys == Spec => []NoOrphans
  <1>1. Inv => NoOrphans
    BY DEF Inv
  <1> QED
    BY <1>1, Invariance, PTL

\* delete_profile never runs against a foreign key: the order of its statements is
\* the one that the schema asks for, from every state that calls can lead to.
THEOREM DeletionGoesThrough == Spec => []DeleteNeverRefused
  <1>1. Inv => DeleteNeverRefused
    BY DEF Inv
  <1> QED
    BY <1>1, Invariance, PTL

\* Every chat of every profile is numbered 1..n without gap or repetition.
THEOREM NumberingDense == Spec => []DenseNumbering
  <1>1. Inv => DenseNumbering
    BY DEF Inv
  <1> QED
    BY <1>1, Invariance, PTL

-----------------------------------------------------------------------------
(* What a step never does *)

\* The steps that touch the messages table, by what they do to its rows.
LEMMA MessagesStep ==
    ASSUME Inv, [Next]_vars
    PROVE  \/ messages' = messages
           \/ InsertRow /\ Insertable(op.id, op.row)
           \/ \E p \in profiles : DeleteMessages(p)
           \/ \E id \in DOMAIN messages, st \in Statuses :
                 messages' = [messages EXCEPT ![id].status = st]
  <1>1. CASE InsertRow
    BY <1>1 DEF InsertRow
  <1>2. CASE \E id \in Ids, st \in Statuses : UpdateStatus(id, st)
    BY <1>2 DEF UpdateStatus
  <1> QED
    BY <1>1, <1>2 DEF Next, vars, CreateProfile, SetActiveClear, SetActiveMark, DeleteChats,
       DeleteProfileRow, UpsertChat, InsertNumber, Abort

\* An insert under a taken id is refused, and no update moves a row: a message
\* stays in its chat, its profile and its place.
THEOREM MessagesStayPut == Spec => RowsKeepTheirPlace
  <1> DEFINE Kept == \A i \in DOMAIN messages \cap DOMAIN messages' :
                        /\ messages'[i].key = messages[i].key
                        /\ messages'[i].seq = messages[i].seq
  <1>1. ASSUME Inv, [Next]_vars PROVE Kept
    <2>1. CASE InsertRow /\ Insertable(op.id, op.row)
      BY <2>1 DEF InsertRow, Insertable
    <2>2. CASE \E p \in profiles : DeleteMessages(p)
      BY <2>2 DEF DeleteMessages, Restrict
    <2>3. CASE \E id \in DOMAIN messages, st \in Statuses :
                  messages' = [messages EXCEPT ![id].status = st]
      BY <1>1, <2>3 DEF Inv, TypeOK, Rows
    <2> QED
      BY <1>1, <2>1, <2>2, <2>3, MessagesStep
  <1> QED
    BY <1>1, Invariance, PTL DEF Spec, RowsKeepTheirPlace

\* Only the deletion of a profile removes chats or messages, and only that profile's.
THEOREM DeletionIsolated == Spec => ProfilesIsolated
  <1> DEFINE Isolated ==
        /\ \A k \in chats \ chats' : op.stmt = "deleteChats" /\ op.profile = k[2]
        /\ \A i \in DOMAIN messages \ DOMAIN messages' :
              op'.stmt = "deleteChats" /\ op'.profile = messages[i].key[2]
  <1>1. ASSUME Inv, [Next]_vars PROVE Isolated
    <2>1. \A k \in chats \ chats' : op.stmt = "deleteChats" /\ op.profile = k[2]
      BY <1>1 DEF Next, vars, CreateProfile, SetActiveClear, SetActiveMark, DeleteMessages,
         DeleteChats, DeleteProfileRow, UpsertChat, InsertNumber, InsertRow, UpdateStatus, Abort
    <2>2. \A i \in DOMAIN messages \ DOMAIN messages' :
             op'.stmt = "deleteChats" /\ op'.profile = messages[i].key[2]
      <3>1. CASE InsertRow /\ Insertable(op.id, op.row)
        BY <3>1 DEF InsertRow
      <3>2. CASE \E p \in profiles : DeleteMessages(p)
        BY <3>2 DEF DeleteMessages, Restrict
      <3>3. CASE \E id \in DOMAIN messages, st \in Statuses :
                    messages' = [messages EXCEPT ![id].status = st]
        BY <3>3
      <3> QED
        BY <1>1, <3>1, <3>2, <3>3, MessagesStep
    <2> QED
      BY <2>1, <2>2
  <1> QED
    BY <1>1, Invariance, PTL DEF Spec, ProfilesIsolated

-----------------------------------------------------------------------------
(* The store implements ChatLog *)

\* A place in the log holds exactly one message: the one with that number.
LEMMA IdAtUnique ==
    ASSUME Inv, NEW i \in DOMAIN messages, NEW k, NEW n,
           messages[i].key = k, messages[i].seq = n
    PROVE  IdAt(k, n) = i
  <1>1. \A j \in DOMAIN messages : messages[j].key = k /\ messages[j].seq = n => j = i
    BY DEF Inv, DenseNumbering
  <1> QED
    BY <1>1 DEF IdAt

\* Every place from 1 to the last holds a message of the chat.
LEMMA IdAtStored ==
    ASSUME Inv, NEW k \in Keys, NEW n \in 1..LastSeq(k)
    PROVE  /\ IdAt(k, n) \in DOMAIN messages
           /\ messages[IdAt(k, n)].key = k
           /\ messages[IdAt(k, n)].seq = n
  <1>1. n \in Seqs(k)
    BY DEF Inv, DenseNumbering
  <1>2. \E i \in DOMAIN messages : messages[i].key = k /\ messages[i].seq = n
    BY <1>1 DEF Seqs
  <1> QED
    BY <1>2 DEF IdAt

\* The log of a chat depends on the messages table only.
LEMMA HistoryFrame ==
    ASSUME messages' = messages, NEW k \in Keys
    PROVE  History(k)' = History(k)
  BY DEF History, LastSeq, Seqs, IdAt

\* The log of a chat is a sequence as long as its last number.
LEMMA HistoryShape ==
    ASSUME Inv, NEW k \in Keys
    PROVE  History(k) \in Seq(Log!Entries) /\ Len(History(k)) = LastSeq(k)
  <1>1. LastSeq(k) \in Nat
    BY DEF Inv
  <1>2. \A n \in 1..LastSeq(k) :
           [id |-> IdAt(k, n), status |-> messages[IdAt(k, n)].status] \in Log!Entries
    BY IdAtStored DEF Inv, TypeOK, Rows, Log!Entries
  <1> QED
    BY <1>1, <1>2 DEF History

\* A step that keeps the rows of a chat, and adds none to it, keeps its log.
LEMMA LogKept ==
    ASSUME Inv, Inv', NEW k \in Keys, LastSeq(k)' = LastSeq(k),
           \A i \in DOMAIN messages :
              messages[i].key = k => i \in DOMAIN messages' /\ messages'[i] = messages[i]
    PROVE  History(k)' = History(k)
  <1>1. ASSUME NEW n \in 1..LastSeq(k)
        PROVE  /\ IdAt(k, n)' = IdAt(k, n)
               /\ messages'[IdAt(k, n)] = messages[IdAt(k, n)]
    <2>1. PICK i : i = IdAt(k, n)
      OBVIOUS
    <2>2. /\ i \in DOMAIN messages /\ messages[i].key = k /\ messages[i].seq = n
          /\ i \in DOMAIN messages' /\ messages'[i] = messages[i]
      BY <2>1, IdAtStored
    <2>3. \A j \in DOMAIN messages' : messages'[j].key = k /\ messages'[j].seq = n => j = i
      BY <2>2 DEF Inv, DenseNumbering
    <2>4. IdAt(k, n)' = i
      BY <2>2, <2>3 DEF IdAt
    <2> QED
      BY <2>1, <2>2, <2>4
  <1>2. \A n \in 1..LastSeq(k) :
           [id |-> IdAt(k, n)', status |-> messages'[IdAt(k, n)'].status]
              = [id |-> IdAt(k, n), status |-> messages[IdAt(k, n)].status]
    BY <1>1
  <1> QED
    BY <1>2 DEF History

\* INSERT appends to the log of one chat.
LEMMA InsertRowAppends ==
    ASSUME Inv, Inv', InsertRow, Insertable(op.id, op.row)
    PROVE  \E k \in Keys, e \in Log!Entries : Log!Append1(k, e)
  <1>1. PICK id \in Ids, row \in Rows : op = [stmt |-> "insert", id |-> id, row |-> row]
    BY DEF Inv, InsertRow, TypeOK, Ops, Idle
  <1> PICK k : k = row.key
    OBVIOUS
  <1> DEFINE e == [id |-> id, status |-> row.status]
  <1>2. /\ k \in Keys
        /\ row.seq = LastSeq(k) + 1
        /\ id \notin DOMAIN messages
        /\ DOMAIN messages' = DOMAIN messages \cup {id}
        /\ messages' = [i \in DOMAIN messages \cup {id} |-> IF i = id THEN row ELSE messages[i]]
        /\ Seqs(k)' = 1..(LastSeq(k) + 1)
        /\ LastSeq(k)' = LastSeq(k) + 1
        /\ \A l \in Keys \ {k} : Seqs(l)' = Seqs(l) /\ LastSeq(l)' = LastSeq(l)
    BY <1>1, InsertRowNumbers
  <1>3. e \in Log!Entries
    BY DEF e, Rows, Log!Entries
  <1>4. ASSUME NEW l \in Keys \ {k} PROVE History(l)' = History(l)
    BY <1>2, LogKept
  <1> HIDE DEF e
  <1>5. History(k)' = Append(History(k), e)
    <2>1. LastSeq(k) \in Nat
      BY <1>2 DEF Inv
    <2>2. ASSUME NEW n \in 1..(LastSeq(k) + 1)
          PROVE  [id |-> IdAt(k, n)', status |-> messages'[IdAt(k, n)'].status]
                    = IF n = LastSeq(k) + 1 THEN e ELSE History(k)[n]
      <3>1. CASE n = LastSeq(k) + 1
        <4>1. messages'[id].key = k /\ messages'[id].seq = n /\ id \in DOMAIN messages'
          BY <1>2, <3>1
        <4>2. \A j \in DOMAIN messages' : messages'[j].key = k /\ messages'[j].seq = n => j = id
          BY <4>1 DEF Inv, DenseNumbering
        <4>3. IdAt(k, n)' = id
          BY <4>1, <4>2 DEF IdAt
        <4> QED
          BY <1>2, <3>1, <4>3 DEF e
      <3>2. CASE n # LastSeq(k) + 1
        <4>1. n \in 1..LastSeq(k)
          BY <2>1, <3>2
        <4>2. PICK i : i = IdAt(k, n)
          OBVIOUS
        <4>3. i \in DOMAIN messages /\ messages[i].key = k /\ messages[i].seq = n
          BY <1>2, <4>1, <4>2, IdAtStored
        <4>4. i \in DOMAIN messages' /\ messages'[i] = messages[i]
          BY <1>2, <4>3
        <4>5. \A j \in DOMAIN messages' : messages'[j].key = k /\ messages'[j].seq = n => j = i
          BY <4>3, <4>4 DEF Inv, DenseNumbering
        <4>6. IdAt(k, n)' = i
          BY <4>3, <4>4, <4>5 DEF IdAt
        <4> QED
          BY <3>2, <4>1, <4>2, <4>4, <4>6 DEF History
      <3> QED
        BY <3>1, <3>2
    <2>3. History(k)' = [n \in 1..(LastSeq(k) + 1) |->
                           IF n = LastSeq(k) + 1 THEN e ELSE History(k)[n]]
      <3>1. History(k)' = [n \in 1..(LastSeq(k) + 1) |->
                             [id |-> IdAt(k, n)', status |-> messages'[IdAt(k, n)'].status]]
        BY <1>2 DEF History
      <3> QED
        BY <2>2, <3>1
    <2>4. History(k) \in Seq(Log!Entries) /\ Len(History(k)) = LastSeq(k)
      BY <1>2, HistoryShape
    <2>5. Append(History(k), e) = [n \in 1..(LastSeq(k) + 1) |->
                                     IF n = LastSeq(k) + 1 THEN e ELSE History(k)[n]]
      BY <1>3, <2>1, <2>4
    <2> QED
      BY <2>3, <2>5
  <1>6. [l \in Keys |-> History(l)]'
           = [[l \in Keys |-> History(l)] EXCEPT ![k] = Append(@, e)]
    BY <1>2, <1>4, <1>5
  <1>7. Log!Append1(k, e)
    BY <1>6 DEF Log!Append1, Log!Keys, Keys
  <1> QED
    BY <1>2, <1>3, <1>7

\* UPDATE changes one entry of one log, in its status.
LEMMA UpdateSetsStatus ==
    ASSUME Inv, Inv', NEW id \in DOMAIN messages, NEW st \in Statuses,
           messages' = [messages EXCEPT ![id].status = st]
    PROVE  \E k \in Keys : \E n \in DOMAIN [l \in Keys |-> History(l)][k] : Log!SetStatus(k, n, st)
  <1>1. /\ DOMAIN messages' = DOMAIN messages
        /\ \A i \in DOMAIN messages : /\ messages'[i].key = messages[i].key
                                      /\ messages'[i].seq = messages[i].seq
        /\ \A i \in DOMAIN messages \ {id} : messages'[i] = messages[i]
        /\ messages'[id].status = st
    BY DEF Inv, TypeOK, Rows
  <1>2. \A k \in Keys : LastSeq(k)' = LastSeq(k)
    <2>1. \A k \in Keys : Seqs(k)' = Seqs(k)
      BY <1>1 DEF Seqs
    <2> QED
      BY <2>1 DEF LastSeq
  <1>3. PICK k, n : k = messages[id].key /\ n = messages[id].seq
    OBVIOUS
  <1>4. k \in Keys
    BY <1>3 DEF Inv, TypeOK, Rows
  <1>5. n \in 1..LastSeq(k)
    BY <1>3, <1>4 DEF Inv, DenseNumbering, Seqs
  <1>6. ASSUME NEW l \in Keys, NEW m \in 1..LastSeq(l)
        PROVE  IdAt(l, m)' = IdAt(l, m)
    <2>1. \A i \in DOMAIN messages : /\ messages'[i].key = l <=> messages[i].key = l
                                     /\ messages'[i].seq = m <=> messages[i].seq = m
      BY <1>1
    <2> QED
      BY <1>1, <2>1 DEF IdAt
  <1>7. IdAt(k, n) = id
    BY <1>3, IdAtUnique
  <1>8. \A l \in Keys : \A m \in 1..LastSeq(l) : IdAt(l, m) = id <=> (l = k /\ m = n)
    BY <1>3, <1>7, IdAtStored
  <1>9. ASSUME NEW l \in Keys \ {k} PROVE History(l)' = History(l)
    <2>1. \A m \in 1..LastSeq(l) :
             messages'[IdAt(l, m)'] = messages[IdAt(l, m)]
      BY <1>1, <1>6, <1>8, IdAtStored
    <2> QED
      BY <1>2, <1>6, <2>1 DEF History
  <1>10. History(k)' = [History(k) EXCEPT ![n].status = st]
    <2>1. \A m \in 1..LastSeq(k) :
             messages'[IdAt(k, m)'].status = IF m = n THEN st ELSE messages[IdAt(k, m)].status
      BY <1>1, <1>4, <1>6, <1>8, IdAtStored
    <2>2. History(k)' = [m \in 1..LastSeq(k) |->
                           [id |-> IdAt(k, m),
                            status |-> IF m = n THEN st ELSE messages[IdAt(k, m)].status]]
      BY <1>2, <1>4, <1>6, <2>1 DEF History
    <2> QED
      BY <1>5, <2>2 DEF History
  <1>11. [l \in Keys |-> History(l)]'
            = [[l \in Keys |-> History(l)] EXCEPT ![k][n].status = st]
    BY <1>4, <1>9, <1>10
  <1>12. n \in DOMAIN [l \in Keys |-> History(l)][k]
    BY <1>4, <1>5 DEF History
  <1>13. Log!SetStatus(k, n, st)
    BY <1>11, <1>12 DEF Log!SetStatus
  <1> QED
    BY <1>4, <1>12, <1>13

\* DELETE empties the logs of one profile.
LEMMA DeleteErases ==
    ASSUME Inv, Inv', NEW p \in profiles, DeleteMessages(p)
    PROVE  \E q \in ProfileIds : Log!Erase(q)
  <1>1. ASSUME NEW k \in Keys
        PROVE  History(k)' = IF k[2] = p THEN <<>> ELSE History(k)
    <2>1. /\ k[2] = p => LastSeq(k)' = 0
          /\ k[2] # p => LastSeq(k)' = LastSeq(k)
      BY DeleteMessagesNumbers
    <2>2. CASE k[2] = p
      <3>1. 1..0 = {}
        OBVIOUS
      <3>2. DOMAIN History(k)' = {} /\ History(k)' = [n \in 1..0 |-> History(k)'[n]]
        BY <2>1, <2>2, <3>1 DEF History
      <3> QED
        BY <2>2, <3>1, <3>2
    <2>3. CASE k[2] # p
      <3>1. \A i \in DOMAIN messages :
               messages[i].key = k => i \in DOMAIN messages' /\ messages'[i] = messages[i]
        BY <2>3 DEF DeleteMessages, Restrict
      <3> QED
        BY <2>1, <2>3, <3>1, LogKept
    <2> QED
      BY <2>2, <2>3
  <1>2. [k \in Keys |-> History(k)]'
           = [k \in Keys |-> IF k[2] = p THEN <<>> ELSE [l \in Keys |-> History(l)][k]]
    BY <1>1
  <1>3. Log!Erase(p)
    BY <1>2 DEF Log!Erase, Log!Keys, Keys
  <1>4. p \in ProfileIds
    BY DEF Inv, TypeOK
  <1> QED
    BY <1>3, <1>4

\* The SQLite store behaves as append-only logs, one per chat and profile: every
\* statement appends one message, changes one status, empties one profile, or is
\* invisible.
THEOREM StoreIsChatLog == Spec => ImplementsChatLog
  <1> DEFINE logs == [k \in Keys |-> History(k)]
  <1>1. Init => Log!Init
    <2> SUFFICES ASSUME Init PROVE Log!Init
      OBVIOUS
    <2>1. ASSUME NEW k \in Keys PROVE History(k) = <<>>
      <3>1. 1..0 = {} /\ Seqs(k) = {}
        BY DEF Init, Seqs
      <3>2. LastSeq(k) = 0
        BY <3>1, MaxOfInterval DEF LastSeq
      <3> QED
        BY <3>1, <3>2 DEF History
    <2> QED
      BY <2>1 DEF Log!Init, Log!Keys, Keys
  <1>2. Inv /\ Inv' /\ [Next]_vars => [Log!Next]_logs
    <2> SUFFICES ASSUME Inv, Inv', [Next]_vars PROVE [Log!Next]_logs
      OBVIOUS
    <2>1. CASE messages' = messages
      BY <2>1, HistoryFrame
    <2>2. CASE InsertRow /\ Insertable(op.id, op.row)
      <3>1. \E k \in Keys, e \in Log!Entries : Log!Append1(k, e)
        BY <2>2, InsertRowAppends
      <3> QED
        BY <3>1 DEF Log!Next, Log!Keys, Keys
    <2>3. CASE \E p \in profiles : DeleteMessages(p)
      <3>1. \E q \in ProfileIds : Log!Erase(q)
        BY <2>3, DeleteErases
      <3> QED
        BY <3>1 DEF Log!Next
    <2>4. CASE \E id \in DOMAIN messages, st \in Statuses :
                  messages' = [messages EXCEPT ![id].status = st]
      <3>1. PICK id \in DOMAIN messages, st \in Statuses :
               messages' = [messages EXCEPT ![id].status = st]
        BY <2>4
      <3>2. \E k \in Keys : \E n \in DOMAIN logs[k] : Log!SetStatus(k, n, st)
        BY <3>1, UpdateSetsStatus
      <3> QED
        BY <3>2 DEF Log!Next, Log!Keys, Keys
    <2> QED
      BY <2>1, <2>2, <2>3, <2>4, MessagesStep
  <1> QED
    BY <1>1, <1>2, Invariance, PTL DEF Spec, ImplementsChatLog, Log!Spec
=============================================================================
