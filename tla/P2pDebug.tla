------------------------------ MODULE P2pDebug ------------------------------
(* The program src/bin/p2p_debug.rs: ten checks in a row, most of them a message
   from one node to another and the wait for it, and the verdict over all of them.
   Its nodes are those of IrohNode: messages between two nodes stay in order, but
   one may be lost, or arrive after its check has given up. *)
EXTENDS Integers, SequencesExt

CONSTANTS
    PoolSize,      \* messages of the check of connection reuse: 5
    MaxLosses      \* bound: messages lost

ASSUME BoundsAssumption == PoolSize \in Nat \ {0} /\ MaxLosses \in Nat

VARIABLES
    check,         \* the check that runs, from 1 on
    part,          \* the messages its loop has sent: more than one for the pool only
    waiting,       \* whether it waits for a message
    online,        \* the nodes that were created and have reached their relay
    passed, failed,
    net,           \* net[f][t]: messages written by f that the listener of t has not read
    rx,            \* rx[t]: the channel from the listeners of t
    taken,         \* the messages taken from rx (only properties read it)
    losses         \* messages lost so far

vars == <<check, part, waiting, online, passed, failed, net, rx, taken, losses>>

Local(name) == [name |-> name, from |-> "-", to |-> "-"]
Sends(name, f, t) == [name |-> name, from |-> f, to |-> t]

\* The checks in the order of main; the node of the last one is new.
Script ==
    <<Local("identity"), Sends("hello", "alice", "bob"), Sends("hello", "bob", "alice"),
      Sends("chat", "alice", "bob"), Sends("chat", "bob", "alice"),
      Local("nickname"), Local("profiles"),
      Sends("pool", "alice", "bob"), Sends("e2e", "alice", "bob"), Sends("restart", "new", "bob")>>

Senders == {"alice", "bob", "new"}
Receivers == {"alice", "bob"}

Done == check > Len(Script)
Now == Script[check]

\* Node creation and online() have no timeout: without a network the program stays here.
AwaitsRelay == ~Done /\ Now.from \notin online \cup {"-"}
Sending == ~Done /\ Now.from \in online

Init ==
    /\ check = 1 /\ part = 0 /\ waiting = FALSE
    /\ online = {}
    /\ passed = 0 /\ failed = 0
    /\ net = [f \in Senders |-> [t \in Receivers |-> <<>>]]
    /\ rx = [t \in Receivers |-> <<>>]
    /\ taken = <<>>
    /\ losses = 0

-----------------------------------------------------------------------------
\* The verdict of this check, and on to the next one.
Verdict(ok) ==
    /\ passed' = IF ok THEN passed + 1 ELSE passed
    /\ failed' = IF ok THEN failed ELSE failed + 1
    /\ check' = check + 1
    /\ part' = 0
    /\ waiting' = FALSE

\* A check of seed phrases, of a struct, of a database in memory.
LocalCheck ==
    /\ ~Done /\ Now.from = "-"
    /\ \E ok \in BOOLEAN : Verdict(ok)
    /\ UNCHANGED <<online, net, rx, taken, losses>>

\* Alice and Bob come up together, the node of the last check by itself.
ComeOnline ==
    /\ AwaitsRelay
    /\ online' = online \cup (IF Now.from = "new" THEN {"new"} ELSE {"alice", "bob"})
    /\ UNCHANGED <<check, part, waiting, passed, failed, net, rx, taken, losses>>

\* send_to_addr or send_to_peer returns Ok: the message is on its way, or lost.
SendOk ==
    /\ Sending /\ ~waiting
    /\ waiting' = TRUE
    /\ part' = part + 1
    /\ \/ /\ net' = [net EXCEPT ![Now.from][Now.to] = Append(@, [check |-> check, part |-> part + 1])]
          /\ UNCHANGED losses
       \/ /\ losses < MaxLosses
          /\ losses' = losses + 1
          /\ UNCHANGED net
    /\ UNCHANGED <<check, online, passed, failed, rx, taken>>

SendErr ==
    /\ Sending /\ ~waiting
    /\ Verdict(FALSE)
    /\ UNCHANGED <<online, net, rx, taken, losses>>

\* The listener of t for f forwards the next message of f.
Listen(f, t) ==
    /\ net[f][t] # <<>>
    /\ net' = [net EXCEPT ![f][t] = Tail(@)]
    /\ rx' = [rx EXCEPT ![t] = Append(@, [from |-> f, msg |-> Head(net[f][t])])]
    /\ UNCHANGED <<check, part, waiting, online, passed, failed, taken, losses>>

\* The hello, chat and restart checks look at the sender alone.
FromExpected(m) == m.from = Now.from

\* The pool check takes any message.
AnyMessage(m) == TRUE

\* The e2e check takes what decrypts under the id the message came with: of all
\* messages only the one it has sent is sealed.
Decrypts(m) == m.from = Now.from /\ Script[m.msg.check].name = "e2e"

Accepts(m) ==
    CASE Now.name = "pool" -> AnyMessage(m)
      [] Now.name = "e2e"  -> Decrypts(m)
      [] OTHER             -> FromExpected(m)

\* A message is there: the pool goes on to its next one, any other check is over.
\* The connection count of the pool check is never 0 after a send that returned Ok.
Receive ==
    /\ Sending /\ waiting /\ rx[Now.to] # <<>>
    /\ LET m == Head(rx[Now.to]) IN
          /\ taken' = Append(taken, m.msg)
          /\ IF Now.name = "pool" /\ part < PoolSize
             THEN waiting' = FALSE /\ UNCHANGED <<check, part, passed, failed>>
             ELSE Verdict(Accepts(m))
    /\ rx' = [rx EXCEPT ![Now.to] = Tail(@)]
    /\ UNCHANGED <<online, net, losses>>

\* As Timeout, without leaving the loop of the pool check.
TimeoutOfPoolGoesOn ==
    /\ Sending /\ waiting /\ rx[Now.to] = <<>>
    /\ IF Now.name = "pool" /\ part < PoolSize
       THEN waiting' = FALSE /\ UNCHANGED <<check, part, passed, failed>>
       ELSE Verdict(FALSE)
    /\ UNCHANGED <<online, net, rx, taken, losses>>

\* Ten seconds without a message; that of this check may still come.
Timeout ==
    /\ Sending /\ waiting /\ rx[Now.to] = <<>>
    /\ Verdict(FALSE)
    /\ UNCHANGED <<online, net, rx, taken, losses>>

Next ==
    \/ LocalCheck \/ ComeOnline \/ SendOk \/ SendErr \/ Receive \/ Timeout
    \/ \E f \in Senders, t \in Receivers : Listen(f, t)

Spec == Init /\ [][Next]_vars

-----------------------------------------------------------------------------
(* Properties *)

\* The messages a run without losses sends, and their order.
Quota(k) == IF Script[k].from = "-" THEN 0 ELSE IF Script[k].name = "pool" THEN PoolSize ELSE 1
AllSent == {m \in [check : DOMAIN Script, part : 1..PoolSize] : m.part <= Quota(m.check)}
Before(m, n) == m.check < n.check \/ (m.check = n.check /\ m.part < n.part)

\* "[PASS] All 10 tests succeeded" is printed only when every message of every check
\* was received, once and by the check that sent it, although the checks do not look:
\* no late or lost message is hidden by another that a check takes in its place.
PassMeansReceived ==
    Done /\ failed = 0 =>
        /\ passed = Len(Script)
        /\ ToSet(taken) = AllSent
        /\ \A i, j \in DOMAIN taken : i < j => Before(taken[i], taken[j])
=============================================================================
