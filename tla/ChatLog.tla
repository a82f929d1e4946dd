------------------------------ MODULE ChatLog ------------------------------
(* What the message store promises its callers: every chat of every profile
   has a log of messages that only grows at its end, a stored message changes
   in nothing but its delivery status, and a log disappears only as a whole,
   with all the other logs of its profile. *)
EXTENDS Naturals, Sequences

CONSTANTS
    Chats,         \* chat identifiers
    Owners,        \* profile identifiers
    Ids,           \* message identifiers
    Statuses       \* delivery statuses

VARIABLE
    logs           \* logs[c, p]: the messages of chat c of profile p, oldest first

Keys == Chats \X Owners

Entries == [id : Ids, status : Statuses]

Init == logs = [k \in Keys |-> <<>>]

Append1(k, e) == logs' = [logs EXCEPT ![k] = Append(@, e)]

\* The status of one message changes; ids are unique across all logs.
SetStatus(k, i, st) ==
    /\ i \in DOMAIN logs[k]
    /\ logs' = [logs EXCEPT ![k][i].status = st]

\* All logs of one profile are emptied together.
Erase(p) == logs' = [k \in Keys |-> IF k[2] = p THEN <<>> ELSE logs[k]]

Next ==
    \/ \E k \in Keys, e \in Entries : Append1(k, e)
    \/ \E k \in Keys, st \in Statuses : \E i \in DOMAIN logs[k] : SetStatus(k, i, st)
    \/ \E p \in Owners : Erase(p)

Spec == Init /\ [][Next]_logs
=============================================================================
