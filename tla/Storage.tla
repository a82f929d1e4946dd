------------------------------ MODULE Storage ------------------------------
(* The SQLite store of imax: the tables of storage/db.rs and the operations of
   storage/models.rs, one action per autocommitted statement.

   An operation of several statements (set_active_profile, delete_profile,
   insert_message) stays in the variable op between its statements.  The
   callers hold the mutex of state.rs for the whole operation, so no other
   operation starts while op is not Idle; but the process may die, or the next
   statement may return an error, with the earlier statements committed. *)
EXTENDS Integers, FiniteSets, Functions

CONSTANTS
    Chats,         \* chat identifiers ("chat-" and four bytes of the peer's endpoint id)
    Ids,           \* message identifiers, the primary key of messages
    Statuses,      \* delivery statuses
    MaxProfiles    \* bound: how many profiles are ever created

ASSUME ProfilesAssumption == MaxProfiles \in Nat

VARIABLES
    profiles,      \* ids of the rows of profiles
    lastRowId,     \* sqlite_sequence: the largest id AUTOINCREMENT has issued
    active,        \* ids of the rows with is_active = 1
    chats,         \* primary keys <<id, profile_id>> of the rows of chats
    messages,      \* the rows of messages: a function from message ids
    op             \* the operation whose later statements are still to run

vars == <<profiles, lastRowId, active, chats, messages, op>>

\* ACTIVE_PROFILE_ID is 0 until a profile is loaded: operations do get that id.
ProfileIds == 0..MaxProfiles

Keys == Chats \X ProfileIds

Rows == [key : Keys, seq : Nat, status : Statuses]

Idle == [stmt |-> "idle"]

\* Operations in progress, named by the statement that runs next.
Ops ==
    {Idle}
    \cup [stmt : {"mark", "deleteChats", "deleteProfile"}, profile : ProfileIds]
    \cup [stmt : {"insert"}, id : Ids, row : Rows]

Init ==
    /\ profiles = {}
    /\ lastRowId = 0
    /\ active = {}
    /\ chats = {}
    /\ messages = [i \in {} |-> 0]
    /\ op = Idle

-----------------------------------------------------------------------------
(* Profiles *)

CreateProfile ==
    /\ op = Idle
    /\ lastRowId < MaxProfiles
    /\ lastRowId' = lastRowId + 1
    /\ profiles' = profiles \cup {lastRowId'}
    /\ UNCHANGED <<active, chats, messages, op>>

\* As SetActiveClear, without its UPDATE.
SetActiveKeep(p) ==
    /\ op = Idle
    /\ op' = [stmt |-> "mark", profile |-> p]
    /\ UNCHANGED <<profiles, lastRowId, active, chats, messages>>

\* UPDATE profiles SET is_active = 0
SetActiveClear(p) ==
    /\ op = Idle
    /\ active' = {}
    /\ op' = [stmt |-> "mark", profile |-> p]
    /\ UNCHANGED <<profiles, lastRowId, chats, messages>>

\* UPDATE profiles SET is_active = 1 WHERE id = p
SetActiveMark ==
    /\ op.stmt = "mark"
    /\ active' = active \cup ({op.profile} \cap profiles)
    /\ op' = Idle
    /\ UNCHANGED <<profiles, lastRowId, chats, messages>>

\* As DeleteMessages, by the profile's chat ids.
DeleteMessagesOfChats(p) ==
    /\ op = Idle
    /\ messages' = Restrict(messages, {i \in DOMAIN messages : <<messages[i].key[1], p>> \notin chats})
    /\ op' = [stmt |-> "deleteChats", profile |-> p]
    /\ UNCHANGED <<profiles, lastRowId, active, chats>>

\* DELETE FROM messages WHERE profile_id = p
DeleteMessages(p) ==
    /\ op = Idle
    /\ messages' = Restrict(messages, {i \in DOMAIN messages : messages[i].key[2] # p})
    /\ op' = [stmt |-> "deleteChats", profile |-> p]
    /\ UNCHANGED <<profiles, lastRowId, active, chats>>

\* DELETE FROM chats WHERE profile_id = p
DeleteChats ==
    /\ op.stmt = "deleteChats"
    /\ chats' = {k \in chats : k[2] # op.profile}
    /\ op' = [stmt |-> "deleteProfile", profile |-> op.profile]
    /\ UNCHANGED <<profiles, lastRowId, active, messages>>

Referenced(p) ==
    \/ \E k \in chats : k[2] = p
    \/ \E i \in DOMAIN messages : messages[i].key[2] = p

\* DELETE FROM profiles WHERE id = p: refused while a row refers to p
DeleteProfileRow ==
    /\ op.stmt = "deleteProfile"
    /\ LET gone == IF Referenced(op.profile) THEN {} ELSE {op.profile}
       IN  /\ profiles' = profiles \ gone
           /\ active' = active \ gone
    /\ op' = Idle
    /\ UNCHANGED <<lastRowId, chats, messages>>

-----------------------------------------------------------------------------
(* Chats and messages *)

\* As UpsertChat, without the mutex.
UpsertChatAnytime(k) ==
    /\ k[2] \in profiles
    /\ chats' = chats \cup {k}
    /\ UNCHANGED <<profiles, lastRowId, active, messages, op>>

\* INSERT OR REPLACE INTO chats: an error when the profile does not exist
UpsertChat(k) ==
    /\ op = Idle
    /\ k[2] \in profiles
    /\ chats' = chats \cup {k}
    /\ UNCHANGED <<profiles, lastRowId, active, messages, op>>

Seqs(k) == {messages[i].seq : i \in {j \in DOMAIN messages : messages[j].key = k}}

\* COALESCE(MAX(n), 0)
MaxOrZero(S) == CHOOSE n \in S \cup {0} : \A m \in S : m <= n

\* As LastSeq, over the chat ids of all profiles.
LastSeqOfChat(k) == MaxOrZero(UNION {Seqs(l) : l \in {<<k[1], p>> : p \in ProfileIds}})

LastSeq(k) == MaxOrZero(Seqs(k))

\* SELECT COALESCE(MAX(seq), 0) + 1
InsertNumber(id, k, st) ==
    /\ op = Idle
    /\ op' = [stmt |-> "insert", id |-> id,
              row |-> [key |-> k, seq |-> LastSeq(k) + 1, status |-> st]]
    /\ UNCHANGED <<profiles, lastRowId, active, chats, messages>>

\* As Insertable, with INSERT OR REPLACE.
InsertableOrReplaced(id, row) == row.key[2] \in profiles

\* As Insertable, with foreign keys off.
InsertableAnywhere(id, row) == id \notin DOMAIN messages

\* Both constraints of the messages table: the primary key and the profile's foreign key.
Insertable(id, row) == id \notin DOMAIN messages /\ row.key[2] \in profiles

\* INSERT INTO messages
InsertRow ==
    /\ op.stmt = "insert"
    /\ messages' = IF Insertable(op.id, op.row)
                   THEN [i \in DOMAIN messages \cup {op.id} |->
                            IF i = op.id THEN op.row ELSE messages[i]]
                   ELSE messages
    /\ op' = Idle
    /\ UNCHANGED <<profiles, lastRowId, active, chats>>

\* As UpdateStatus, without the WHERE.
UpdateAllStatus(id, st) ==
    /\ op = Idle
    /\ messages' = [i \in DOMAIN messages |-> [messages[i] EXCEPT !.status = st]]
    /\ UNCHANGED <<profiles, lastRowId, active, chats, op>>

\* As UpdateStatus, with a status the UI does not know.
UpdateUnknownStatus(id, st) ==
    /\ op = Idle
    /\ id \in DOMAIN messages
    /\ messages' = [messages EXCEPT ![id].status = "unknown"]
    /\ UNCHANGED <<profiles, lastRowId, active, chats, op>>

\* UPDATE messages SET status = st WHERE id = id: in whatever profile the row is
UpdateStatus(id, st) ==
    /\ op = Idle
    /\ id \in DOMAIN messages
    /\ messages' = [messages EXCEPT ![id].status = st]
    /\ UNCHANGED <<profiles, lastRowId, active, chats, op>>

\* The process dies, or the next statement returns an error and ? leaves the operation.
Abort ==
    /\ op # Idle
    /\ op' = Idle
    /\ UNCHANGED <<profiles, lastRowId, active, chats, messages>>

Next ==
    \/ CreateProfile
    \/ \E p \in profiles : SetActiveClear(p) \/ DeleteMessages(p)
    \/ SetActiveMark
    \/ DeleteChats
    \/ DeleteProfileRow
    \/ \E k \in Keys : UpsertChat(k)
    \/ \E id \in Ids, k \in Keys, st \in Statuses : InsertNumber(id, k, st)
    \/ InsertRow
    \/ \E id \in Ids, st \in Statuses : UpdateStatus(id, st)
    \/ Abort

Spec == Init /\ [][Next]_vars

-----------------------------------------------------------------------------
(* Properties *)

\* Every table holds rows of its type, and op is one of the operations above.
TypeOK ==
    /\ profiles \subseteq ProfileIds
    /\ lastRowId \in ProfileIds
    /\ active \subseteq ProfileIds
    /\ chats \subseteq Keys
    /\ DOMAIN messages \subseteq Ids
    /\ messages \in [DOMAIN messages -> Rows]
    /\ op \in Ops

\* get_active_profile reads "the" row with is_active = 1: at no point, not even
\* between the statements of set_active_profile or after a crash there, do two
\* profiles carry the mark, and the marked one exists.
OneActiveProfile ==
    /\ active \subseteq profiles
    /\ \A p, q \in active : p = q

\* No chat and no message outlives its profile: delete_profile removes in an
\* order the foreign keys accept, and an insert for a profile that is gone
\* (or for id 0, before onboarding) leaves no row.
NoOrphans ==
    /\ \A k \in chats : k[2] \in profiles
    /\ \A i \in DOMAIN messages : messages[i].key[2] \in profiles

\* ORDER BY seq gives each chat one order without gaps: the messages of a chat
\* of a profile are numbered 1..n, no two alike, although the number is read in
\* one statement and used in the next, and whatever was deleted or failed between.
DenseNumbering ==
    /\ \A k \in Keys : Seqs(k) = 1..LastSeq(k)
    /\ \A i, j \in DOMAIN messages :
          messages[i].key = messages[j].key /\ messages[i].seq = messages[j].seq => i = j

\* delete_profile never fails halfway: when it comes to delete the row of the profile
\* no chat and no message refers to it any more, so the foreign keys let it go.
DeleteNeverRefused == op.stmt = "deleteProfile" => ~Referenced(op.profile)

\* A stored message keeps its chat, its profile and its place: a second message
\* under an id that is taken is refused and never replaces the first.
RowsKeepTheirPlace ==
    [][\A i \in DOMAIN messages \cap DOMAIN messages' :
          /\ messages'[i].key = messages[i].key
          /\ messages'[i].seq = messages[i].seq]_vars

\* A profile's rows disappear only while that profile is being deleted: no
\* operation on one profile loses the chats or messages of another, also where
\* both talk to the same peer and so use the same chat id.
ProfilesIsolated ==
    [][/\ \A k \in chats \ chats' : op.stmt = "deleteChats" /\ op.profile = k[2]
       /\ \A i \in DOMAIN messages \ DOMAIN messages' :
             op'.stmt = "deleteChats" /\ op'.profile = messages[i].key[2]]_vars

\* What a restart reads: after a call of set_active_profile, however it ended, some
\* profile is active, so that load_and_restore has one to restore.
ActivationLeavesActive ==
    [][op.stmt = "mark" /\ op' = Idle => active' # {}]_vars

-----------------------------------------------------------------------------
(* The promise of ChatLog: the log of a chat is its rows in the order of seq. *)

IdAt(k, n) == CHOOSE i \in DOMAIN messages : messages[i].key = k /\ messages[i].seq = n

History(k) ==
    [n \in 1..LastSeq(k) |-> [id |-> IdAt(k, n), status |-> messages[IdAt(k, n)].status]]

Log == INSTANCE ChatLog WITH Owners <- ProfileIds, logs <- [k \in Keys |-> History(k)]

\* The message store implements append-only logs: a log grows only at its end, a
\* stored message changes only in its status, and a log is emptied only together
\* with the other logs of its profile.
ImplementsChatLog == Log!Spec
=============================================================================
