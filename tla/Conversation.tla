---------------------------- MODULE Conversation ----------------------------
(* What the messenger promises two people: of what the one types, the other is
   shown a part, in the order of typing and nothing twice, each message as it was
   typed or marked as unreadable; and neither loses what the own history holds. *)
EXTENDS Naturals, Sequences

CONSTANTS Peers, Texts, Unreadable

VARIABLES
    typed,         \* typed[p][q]: what p has typed to q
    shown          \* shown[p][q]: the messages of q that p was shown, with the text shown

Init ==
    /\ typed = [p \in Peers |-> [q \in Peers |-> <<>>]]
    /\ shown = [p \in Peers |-> [q \in Peers |-> <<>>]]

Type(p, q) ==
    /\ \E t \in Texts : typed' = [typed EXCEPT ![p][q] = Append(@, t)]
    /\ UNCHANGED shown

\* The i-th message of q is typed after every message of q that p was shown.
IsNext(p, q, i) ==
    \A m \in 1..Len(shown[p][q]) :
       \E j \in 1..(i - 1) : typed[q][p][j] = shown[p][q][m].of

Show(p, q) ==
    /\ \E i \in DOMAIN typed[q][p] : \E text \in {typed[q][p][i], Unreadable} :
          /\ IsNext(p, q, i)
          /\ shown' = [shown EXCEPT ![p][q] = Append(@, [of |-> typed[q][p][i], text |-> text])]
    /\ UNCHANGED typed

Next == \E p, q \in Peers : Type(p, q) \/ Show(p, q)

Spec == Init /\ [][Next]_<<typed, shown>>
=============================================================================
