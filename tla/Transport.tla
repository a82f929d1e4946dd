----------------------------- MODULE Transport -----------------------------
(* What the network layer promises the message loop: messages from one node to
   another arrive at most once and in the order they were written, but any of
   them may be lost, and nobody is told. *)
EXTENDS Naturals, Sequences

CONSTANT Nodes

VARIABLES
    written,       \* written[p][q]: how many messages p has written to q
    rx             \* rx[p][q]: the numbers of the messages p has got from q

Newest(s) == IF s = <<>> THEN 0 ELSE s[Len(s)]

Init ==
    /\ written = [p \in Nodes |-> [q \in Nodes |-> 0]]
    /\ rx = [p \in Nodes |-> [q \in Nodes |-> <<>>]]

Write(p, q) ==
    /\ written' = [written EXCEPT ![p][q] = @ + 1]
    /\ UNCHANGED rx

\* The messages between the newest and this one are lost.
Receive(p, q) ==
    /\ \E n \in (Newest(rx[p][q]) + 1)..written[q][p] :
          rx' = [rx EXCEPT ![p][q] = Append(@, n)]
    /\ UNCHANGED written

Next == \E p, q \in Nodes : Write(p, q) \/ Receive(p, q)

Spec == Init /\ [][Next]_<<written, rx>>
=============================================================================
