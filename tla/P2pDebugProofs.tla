--------------------------- MODULE P2pDebugProofs ---------------------------
(* The verdict of the debug program is right for every size of the pool and every
   number of losses. *)
EXTENDS P2pDebug, TLAPS

-----------------------------------------------------------------------------
(* The inductive invariant *)

Messages == [check : Nat, part : Nat]
Arrivals == [from : Senders, msg : Messages]

\* The types of the variables.
Typed ==
    /\ check \in 1 .. Len(Script) + 1 /\ part \in Nat /\ waiting \in BOOLEAN
    /\ passed \in Nat /\ failed \in Nat /\ online \subseteq Senders
    /\ net \in [Senders -> [Receivers -> Seq(Messages)]]
    /\ rx \in [Receivers -> Seq(Arrivals)]
    /\ taken \in Seq(Messages)

\* The message the program waits for, and those it has waited for.
Current == [check |-> check, part |-> part]
Received(m) ==
    /\ m \in AllSent
    /\ m.check < check \/ (m.check = check /\ IF waiting THEN m.part < part ELSE m.part <= part)

\* A check that sends messages has not sent all, or waits for the last one.
PartInRange ==
    /\ waiting => ~Done /\ part \in 1 .. Quota(check)
    /\ ~waiting => part = 0 \/ (~Done /\ part < Quota(check))

\* So far nothing went wrong: what was taken is what was sent, ...
TakenInOrder ==
    /\ \A m : (\E i \in DOMAIN taken : taken[i] = m) <=> Received(m)
    /\ \A i, j \in DOMAIN taken : i < j => Before(taken[i], taken[j])

\* ... and on its way is at most the message the program waits for.
NothingElseOnTheWay ==
    /\ \A f \in Senders, t \in Receivers : net[f][t] # <<>> =>
          /\ waiting /\ f = Now.from /\ t = Now.to
          /\ net[f][t] = <<Current>> /\ rx[t] = <<>>
    /\ \A t \in Receivers : rx[t] # <<>> =>
          waiting /\ t = Now.to /\ rx[t] = <<[from |-> Now.from, msg |-> Current]>>

SoFar == passed = check - 1 /\ PartInRange /\ TakenInOrder /\ NothingElseOnTheWay

Inv == Typed /\ (failed = 0 => SoFar)

-----------------------------------------------------------------------------
(* The script *)

\* Its checks are local, or send from a node to another one's channel.
LEMMA ScriptFacts ==
    /\ Len(Script) = 10 /\ DOMAIN Script = 1 .. 10
    /\ \A k \in 1 .. 10 : /\ Script[k].from \in Senders \cup {"-"}
                          /\ Script[k].from # "-" => Script[k].to \in Receivers
  <1>1. Len(Script) = 10 /\ DOMAIN Script = 1 .. 10
    BY DEF Script
  <1>2. \A k \in 1 .. 10 : /\ Script[k].from \in Senders \cup {"-"}
                           /\ Script[k].from # "-" => Script[k].to \in Receivers
    BY DEF Script, Local, Sends, Senders, Receivers
  <1> QED
    BY <1>1, <1>2

\* The messages of the check that runs.
LEMMA NowFacts ==
    ASSUME Typed, ~Done
    PROVE  /\ check \in 1 .. 10 /\ check \in DOMAIN Script /\ check + 1 \in 1 .. Len(Script) + 1
           /\ Now.from \in Senders \cup {"-"}
           /\ Sending => Now.from \in Senders /\ Now.from # "-" /\ Now.to \in Receivers
           /\ Quota(check) \in 0 .. PoolSize
           /\ Now.from = "-" => Quota(check) = 0
           /\ Now.from # "-" => Quota(check) = IF Now.name = "pool" THEN PoolSize ELSE 1
  <1>1. check \in 1 .. 10
    BY ScriptFacts DEF Typed, Done
  <1>2. "-" \notin Senders
    BY DEF Senders
  <1> QED
    BY <1>1, <1>2, ScriptFacts, BoundsAssumption DEF Typed, Sending, Now, Quota

\* The messages are numbered by check and part.
LEMMA AllSentFacts ==
    \A m : m \in AllSent <=> /\ m = [check |-> m.check, part |-> m.part]
                             /\ m.check \in 1 .. 10 /\ m.part \in 1 .. PoolSize /\ m.part <= Quota(m.check)
  BY ScriptFacts DEF AllSent

\* Received messages by their numbers.
LEMMA ReceivedFacts ==
    ASSUME Typed, NEW m, Received(m)
    PROVE  m.check \in Nat /\ m.part \in Nat /\ m.part # 0 /\ m.check <= check
  <1>1. m \in AllSent /\ m.check <= check
    <2>1. m \in AllSent /\ (m.check < check \/ m.check = check)
      BY DEF Received
    <2>2. m.check \in 1 .. 10 /\ check \in Nat
      BY <2>1, AllSentFacts, ScriptFacts DEF Typed
    <2> QED
      BY <2>1, <2>2
  <1>2. m.check \in 1 .. 10 /\ m.part \in 1 .. PoolSize
    BY <1>1, AllSentFacts
  <1> QED
    BY <1>1, <1>2, BoundsAssumption

-----------------------------------------------------------------------------
(* Sequences *)

\* What a sequence over a set holds.
LEMMA SeqElement ==
    ASSUME NEW S, NEW s \in Seq(S), NEW i \in DOMAIN s
    PROVE  s[i] \in S
  OBVIOUS

\* A sequence and one more element.
LEMMA AppendTyped ==
    ASSUME NEW S, NEW s \in Seq(S), NEW e \in S
    PROVE  /\ Append(s, e) \in Seq(S) /\ Append(s, e) # <<>> /\ Len(s) \in Nat
           /\ DOMAIN Append(s, e) = DOMAIN s \cup {Len(s) + 1}
           /\ Append(s, e)[Len(s) + 1] = e
           /\ \A i \in DOMAIN s : i \in Nat /\ i < Len(s) + 1 /\ Append(s, e)[i] = s[i]
  OBVIOUS

\* A sequence without its first element.
LEMMA TailTyped ==
    ASSUME NEW S, NEW s \in Seq(S), s # <<>>
    PROVE  Head(s) \in S /\ Tail(s) \in Seq(S)
  OBVIOUS

\* A sequence of one element.
LEMMA OneTyped ==
    ASSUME NEW S, NEW e \in S
    PROVE  /\ <<e>> \in Seq(S) /\ <<e>> # <<>> /\ Append(<<>>, e) = <<e>>
           /\ Head(<<e>>) = e /\ Tail(<<e>>) = <<>>
  OBVIOUS

-----------------------------------------------------------------------------
(* Steps *)

\* The end of a check.
LEMMA VerdictTyped ==
    ASSUME Typed, ~Done, NEW ok \in BOOLEAN, Verdict(ok)
    PROVE  /\ check' \in 1 .. Len(Script) + 1 /\ part' \in Nat /\ waiting' \in BOOLEAN
           /\ passed' \in Nat /\ failed' \in Nat
           /\ failed' = 0 => ok /\ failed = 0
           /\ check' = check + 1 /\ part' = 0 /\ waiting' = FALSE
           /\ ok => passed' = passed + 1
  <1>1. /\ check' = check + 1 /\ part' = 0 /\ waiting' = FALSE
        /\ IF ok THEN passed' = passed + 1 /\ failed' = failed ELSE passed' = passed /\ failed' = failed + 1
        /\ passed \in Nat /\ failed \in Nat
    BY DEF Typed, Verdict
  <1>2. check + 1 \in 1 .. Len(Script) + 1
    BY NowFacts
  <1>3. /\ passed' \in Nat /\ failed' \in Nat
        /\ failed' = 0 => ok /\ failed = 0
        /\ ok => passed' = passed + 1
    <2>1. CASE ok
      BY <1>1, <2>1
    <2>2. CASE ~ok
      BY <1>1, <2>2
    <2> QED
      BY <2>1, <2>2
  <1>4. waiting' \in BOOLEAN /\ part' \in Nat
    BY <1>1, Zenon
  <1>5. check' \in 1 .. Len(Script) + 1
    BY <1>1, <1>2
  <1> QED
    BY <1>1, <1>3, <1>4, <1>5

\* A check is passed when all its messages were taken.
LEMMA CheckPassed ==
    ASSUME Typed, ~Done, NEW ok \in BOOLEAN, Verdict(ok), failed' = 0, SoFar,
           UNCHANGED <<net, rx>>, ~waiting, Quota(check) = part, UNCHANGED taken
    PROVE  SoFar'
  <1>1. /\ failed = 0 /\ check' = check + 1 /\ part' = 0 /\ waiting' = FALSE /\ passed' = passed + 1
        /\ passed \in Nat /\ check \in Nat
    <2>1. check \in 1 .. 10
      BY NowFacts
    <2>2. /\ failed' = 0 => ok /\ failed = 0
          /\ check' = check + 1 /\ part' = 0 /\ waiting' = FALSE
          /\ ok => passed' = passed + 1
      BY VerdictTyped
    <2>3. passed \in Nat
      BY DEF Typed
    <2> QED
      BY <2>1, <2>2, <2>3
  <1>2. passed' = check' - 1 /\ PartInRange'
    BY <1>1 DEF SoFar, PartInRange
  <1>3. NothingElseOnTheWay'
    BY <1>1 DEF SoFar, NothingElseOnTheWay
  <1>4. ASSUME NEW m PROVE Received(m)' <=> Received(m)
    <2>1. m \in AllSent => m.check \in Nat /\ m.part \in Nat /\ m.part # 0 /\ m.part <= Quota(m.check)
      BY AllSentFacts, BoundsAssumption
    <2> QED
      BY <1>1, <2>1 DEF Received, Typed
  <1>5. TakenInOrder'
    BY <1>4 DEF SoFar, TakenInOrder
  <1> QED
    BY <1>2, <1>3, <1>5 DEF SoFar

\* One entry of a table changes.
LEMMA EntryTyped ==
    ASSUME NEW A, NEW B, NEW T, NEW g \in [A -> [B -> T]], NEW a \in A, NEW b \in B, NEW v \in T
    PROVE  [g EXCEPT ![a][b] = v] \in [A -> [B -> T]]
  OBVIOUS

\* A check without messages.
LEMMA LocalStep == Inv /\ LocalCheck => Inv'
  <1> SUFFICES ASSUME Inv, LocalCheck PROVE Inv'
    OBVIOUS
  <1>1. PICK ok \in BOOLEAN : Verdict(ok)
    BY DEF LocalCheck
  <1>2. Typed /\ ~Done /\ Now.from = "-" /\ UNCHANGED <<online, net, rx, taken>>
    BY DEF Inv, LocalCheck
  <1>3. Typed'
    BY <1>1, <1>2, VerdictTyped DEF Typed
  <1>4. ASSUME failed' = 0 PROVE SoFar'
    <2>1. SoFar
      BY <1>1, <1>2, <1>4, VerdictTyped DEF Inv
    <2>2. Quota(check) = 0 /\ part \in Nat
      BY <1>2, NowFacts DEF Typed
    <2>3. ~waiting /\ Quota(check) = part
      BY <2>1, <2>2 DEF SoFar, PartInRange
    <2> QED
      BY <1>1, <1>2, <1>4, <2>1, <2>3, CheckPassed
  <1> QED
    BY <1>3, <1>4 DEF Inv

\* A check that has failed.
LEMMA FailedStep ==
    ASSUME Inv, ~Done, Verdict(FALSE), UNCHANGED <<online, net, rx, taken>>
    PROVE  Inv'
  <1>1. Typed /\ Typed'
    BY VerdictTyped DEF Inv, Typed
  <1>2. failed' # 0
    BY <1>1, VerdictTyped DEF Inv
  <1> QED
    BY <1>1, <1>2 DEF Inv

\* A message is sent.
LEMMA SendStep == Inv /\ SendOk => Inv'
  <1> SUFFICES ASSUME Inv, SendOk PROVE Inv'
    OBVIOUS
  <1>1. /\ Typed /\ Sending /\ ~Done /\ ~waiting /\ waiting' = TRUE /\ part' = part + 1 /\ part \in Nat
        /\ UNCHANGED <<check, online, passed, failed, rx, taken>>
        /\ Now.from \in Senders /\ Now.to \in Receivers /\ check \in 1 .. 10
    BY NowFacts DEF Inv, SendOk, Sending, Typed
  <1>2. PICK c : c = [check |-> check, part |-> part + 1]
    OBVIOUS
  <1>3. c \in Messages /\ c = Current'
    BY <1>1, <1>2 DEF Messages, Current
  <1>4. \/ net' = [net EXCEPT ![Now.from][Now.to] = Append(net[Now.from][Now.to], c)]
        \/ net' = net
    BY <1>2 DEF SendOk
  <1>5. PICK f, t : f = Now.from /\ t = Now.to /\ f \in Senders /\ t \in Receivers
    BY <1>1
  <1>6. net \in [Senders -> [Receivers -> Seq(Messages)]] /\ net[f][t] \in Seq(Messages)
    BY <1>1, <1>5 DEF Typed
  <1>7. PICK s : s = Append(net[f][t], c) /\ s \in Seq(Messages)
    BY <1>3, <1>6, AppendTyped
  <1>8. \/ net' = [net EXCEPT ![f][t] = s]
        \/ net' = net
    BY <1>4, <1>5, <1>7
  <1>9. Typed'
    <2>1. net' \in [Senders -> [Receivers -> Seq(Messages)]]
      <3>1. CASE net' = net
        BY <1>6, <3>1
      <3>2. CASE net' = [net EXCEPT ![f][t] = s]
        BY <1>5, <1>6, <1>7, <3>2, EntryTyped
      <3> QED
        BY <1>8, <3>1, <3>2
    <2>2. waiting' \in BOOLEAN
      BY <1>1, Zenon
    <2>3. part' \in Nat
      BY <1>1
    <2> QED
      BY <1>1, <2>1, <2>2, <2>3 DEF Typed
  <1>10. ASSUME failed' = 0 PROVE SoFar'
    <2>1. SoFar
      BY <1>1, <1>10 DEF Inv
    <2>2. \A g \in Senders, u \in Receivers : net[g][u] = <<>> /\ rx[u] = <<>>
      BY <1>1, <2>1 DEF SoFar, NothingElseOnTheWay
    <2>3. \A g \in Senders, u \in Receivers :
             net'[g][u] # <<>> => g = f /\ u = t /\ net'[g][u] = <<c>>
      <3>1. s = <<c>>
        BY <1>3, <1>5, <1>7, <2>2, OneTyped
      <3>2. ASSUME NEW g \in Senders, NEW u \in Receivers, net' = [net EXCEPT ![f][t] = s]
            PROVE  net'[g][u] = IF g = f /\ u = t THEN s ELSE <<>>
        BY <1>5, <1>6, <2>2, <3>2
      <3> QED
        BY <1>8, <2>2, <3>1, <3>2
    <2>4. NothingElseOnTheWay'
      BY <1>1, <1>3, <1>5, <2>2, <2>3 DEF NothingElseOnTheWay, Now
    <2>5. PartInRange'
      <3>1. Quota(check) \in Nat /\ Quota(check) >= 1
        <4>1. Now.from # "-"
          BY <1>1, NowFacts
        <4> QED
          BY <1>1, <4>1, NowFacts, BoundsAssumption
      <3>2. part + 1 \in 1 .. Quota(check)
        BY <1>1, <2>1, <3>1 DEF SoFar, PartInRange
      <3>3. Quota(check)' = Quota(check) /\ Done' = Done
        BY <1>1 DEF Quota, Done
      <3> QED
        BY <1>1, <3>2, <3>3 DEF PartInRange
    <2>6. ASSUME NEW m PROVE Received(m)' <=> Received(m)
      <3>1. m \in AllSent => m.part \in Nat
        BY AllSentFacts, BoundsAssumption
      <3> QED
        BY <1>1, <3>1 DEF Received
    <2>7. TakenInOrder'
      BY <1>1, <2>1, <2>6 DEF SoFar, TakenInOrder
    <2> QED
      BY <1>1, <2>1, <2>4, <2>5, <2>7 DEF SoFar
  <1> QED
    BY <1>9, <1>10 DEF Inv

\* A message comes to the channel.
LEMMA ListenStep == ASSUME NEW f \in Senders, NEW t \in Receivers, Inv, Listen(f, t) PROVE Inv'
  <1>1. /\ Typed /\ UNCHANGED <<check, part, waiting, online, passed, failed, taken>>
        /\ net \in [Senders -> [Receivers -> Seq(Messages)]] /\ net[f][t] \in Seq(Messages) /\ net[f][t] # <<>>
        /\ rx \in [Receivers -> Seq(Arrivals)] /\ rx[t] \in Seq(Arrivals)
    BY DEF Inv, Typed, Listen
  <1>2. PICK h, s : h = Head(net[f][t]) /\ h \in Messages /\ s = Tail(net[f][t]) /\ s \in Seq(Messages)
    BY <1>1, TailTyped
  <1>3. PICK e, r : e = [from |-> f, msg |-> h] /\ e \in Arrivals /\ r = Append(rx[t], e) /\ r \in Seq(Arrivals)
    <2>1. [from |-> f, msg |-> h] \in Arrivals
      BY <1>2 DEF Arrivals
    <2> QED
      BY <1>1, <2>1, AppendTyped
  <1>4. net' = [net EXCEPT ![f][t] = s] /\ rx' = [rx EXCEPT ![t] = r]
    BY <1>2, <1>3 DEF Listen
  <1>5. Typed'
    <2>1. net' \in [Senders -> [Receivers -> Seq(Messages)]]
      BY <1>1, <1>2, <1>4
    <2>2. rx' \in [Receivers -> Seq(Arrivals)]
      BY <1>1, <1>3, <1>4
    <2> QED
      BY <1>1, <2>1, <2>2 DEF Typed
  <1>6. ASSUME failed' = 0 PROVE SoFar'
    <2>1. SoFar
      BY <1>1, <1>6 DEF Inv
    <2>2. waiting /\ f = Now.from /\ t = Now.to /\ net[f][t] = <<Current>> /\ rx[t] = <<>>
      BY <1>1, <2>1 DEF SoFar, NothingElseOnTheWay
    <2>3. h = Current /\ s = <<>> /\ r = <<e>>
      <3>1. Current \in Messages
        BY <1>1, ScriptFacts DEF Current, Messages, Typed
      <3> QED
        BY <1>2, <1>3, <2>2, <3>1, OneTyped
    <2>4. /\ \A g \in Senders, u \in Receivers : net'[g][u] = <<>>
          /\ \A u \in Receivers : rx'[u] = IF u = t THEN <<e>> ELSE <<>>
      <3>1. ASSUME NEW g \in Senders, NEW u \in Receivers PROVE net'[g][u] = <<>>
        <4>1. (g = f /\ u = t) \/ net[g][u] = <<>>
          BY <2>1, <2>2 DEF SoFar, NothingElseOnTheWay
        <4> QED
          BY <1>1, <1>4, <2>3, <4>1
      <3>2. ASSUME NEW u \in Receivers PROVE rx'[u] = IF u = t THEN <<e>> ELSE <<>>
        <4>1. u = t \/ rx[u] = <<>>
          BY <2>1, <2>2 DEF SoFar, NothingElseOnTheWay
        <4> QED
          BY <1>1, <1>4, <2>3, <4>1
      <3> QED
        BY <3>1, <3>2
    <2>5. NothingElseOnTheWay'
      BY <1>1, <1>3, <2>2, <2>3, <2>4 DEF NothingElseOnTheWay, Now, Current
    <2>6. PartInRange' /\ TakenInOrder'
      BY <1>1, <2>1 DEF SoFar, PartInRange, TakenInOrder, Received, Done, Quota
    <2> QED
      BY <1>1, <2>1, <2>5, <2>6 DEF SoFar
  <1> QED
    BY <1>5, <1>6 DEF Inv

\* One more message is taken, the one the program waits for.
LEMMA CurrentTaken ==
    ASSUME Typed, SoFar, failed = 0, Sending, waiting, taken' = Append(taken, Current),
           part \in 1 .. Quota(check), Current \in AllSent,
           \A m : Received(m)' <=> Received(m) \/ m = Current
    PROVE  TakenInOrder'
  <1>1. PICK e, n : e = Current /\ n = Len(taken) + 1
    OBVIOUS
  <1>2. e \in Messages /\ taken \in Seq(Messages) /\ e.check = check /\ e.part = part /\ part \in Nat /\ check \in Nat
    <2>1. taken \in Seq(Messages) /\ part \in Nat /\ check \in Nat
      BY ScriptFacts DEF Typed
    <2>2. e = [check |-> check, part |-> part]
      BY <1>1 DEF Current
    <2> QED
      BY <2>1, <2>2 DEF Messages
  <1>3. PICK s : s = Append(taken, e)
    OBVIOUS
  <1>4. /\ DOMAIN s = DOMAIN taken \cup {n} /\ s[n] = e /\ n \in Nat
        /\ \A i \in DOMAIN taken : i \in Nat /\ i < n /\ s[i] = taken[i]
    BY <1>1, <1>2, <1>3, AppendTyped
  <1>5. taken' = s
    BY <1>1, <1>3
  <1>6. \A m : (\E i \in DOMAIN s : s[i] = m) <=> Received(m) \/ m = e
    BY <1>4 DEF SoFar, TakenInOrder
  <1>7. ASSUME NEW i \in DOMAIN s, NEW j \in DOMAIN s, i < j PROVE Before(s[i], s[j])
    <2>1. CASE i \in DOMAIN taken /\ j \in DOMAIN taken
      BY <1>4, <1>7, <2>1 DEF SoFar, TakenInOrder
    <2>2. CASE i \in DOMAIN taken /\ j = n
      <3>1. Received(s[i])
        BY <1>4, <2>2 DEF SoFar, TakenInOrder
      <3>2. PICK m : m = s[i]
        OBVIOUS
      <3>3. m.check \in Nat /\ m.part \in Nat /\ (m.check < check \/ (m.check = check /\ m.part < part))
        <4>1. m.check \in Nat /\ m.part \in Nat
          BY <3>1, <3>2, ReceivedFacts
        <4>2. m.check < check \/ (m.check = check /\ m.part < part)
          BY <3>1, <3>2 DEF Received
        <4> QED
          BY <4>1, <4>2
      <3> QED
        BY <1>2, <1>4, <2>2, <3>2, <3>3 DEF Before
    <2>3. i \in DOMAIN taken \/ i = n
      BY <1>4
    <2>4. j \in DOMAIN taken \/ j = n
      BY <1>4
    <2>5. i # n
      <3>1. i = n => ~(i < j)
        BY <1>4, <2>4
      <3> QED
        BY <1>7, <3>1
    <2> QED
      BY <2>1, <2>2, <2>3, <2>4, <2>5
  <1> QED
    BY <1>1, <1>5, <1>6, <1>7 DEF TakenInOrder

\* A message is taken.
LEMMA ReceiveStep == Inv /\ Receive => Inv'
  <1> SUFFICES ASSUME Inv, Receive PROVE Inv'
    OBVIOUS
  <1>1. /\ Typed /\ Sending /\ ~Done /\ waiting /\ UNCHANGED <<online, net, losses>>
        /\ Now.from \in Senders /\ Now.from # "-" /\ Now.to \in Receivers /\ check \in 1 .. 10
        /\ rx \in [Receivers -> Seq(Arrivals)] /\ rx[Now.to] \in Seq(Arrivals) /\ rx[Now.to] # <<>>
    BY NowFacts DEF Inv, Receive, Sending, Typed
  <1>2. PICK t, m, s : /\ t = Now.to /\ t \in Receivers /\ m = Head(rx[t]) /\ m \in Arrivals
                       /\ s = Tail(rx[t]) /\ s \in Seq(Arrivals)
    BY <1>1, TailTyped
  <1>3. m.msg \in Messages
    BY <1>2 DEF Arrivals
  <1>4. PICK ok \in BOOLEAN :
           /\ taken' = Append(taken, m.msg)
           /\ rx' = [rx EXCEPT ![t] = s]
           /\ IF Now.name = "pool" /\ part < PoolSize
              THEN waiting' = FALSE /\ UNCHANGED <<check, part, passed, failed>>
              ELSE Verdict(ok)
    <2>1. Accepts(m) \in BOOLEAN
      BY Zenon DEF Accepts, AnyMessage, Decrypts, FromExpected
    <2>2. PICK ok : ok = Accepts(m)
      OBVIOUS
    <2>3. /\ taken' = Append(taken, m.msg)
          /\ rx' = [rx EXCEPT ![t] = s]
          /\ IF Now.name = "pool" /\ part < PoolSize
             THEN waiting' = FALSE /\ UNCHANGED <<check, part, passed, failed>>
             ELSE Verdict(Accepts(m))
      BY <1>2 DEF Receive
    <2> QED
      BY <2>1, <2>2, <2>3
  <1>5. Typed'
    <2>1. taken' \in Seq(Messages)
      BY <1>1, <1>3, <1>4, AppendTyped DEF Typed
    <2>2. rx' \in [Receivers -> Seq(Arrivals)]
      BY <1>1, <1>2, <1>4
    <2>3. CASE Now.name = "pool" /\ part < PoolSize
      <3>1. waiting' \in BOOLEAN /\ UNCHANGED <<check, part, passed, failed>>
        BY <1>4, <2>3, Zenon
      <3> QED
        BY <1>1, <2>1, <2>2, <3>1 DEF Typed
    <2>4. CASE ~(Now.name = "pool" /\ part < PoolSize)
      <3>1. Verdict(ok)
        BY <1>4, <2>4
      <3>2. check' \in 1 .. Len(Script) + 1 /\ part' \in Nat /\ waiting' \in BOOLEAN /\ passed' \in Nat /\ failed' \in Nat
        BY <1>1, <3>1, VerdictTyped
      <3> QED
        BY <1>1, <2>1, <2>2, <3>2 DEF Typed
    <2> QED
      BY <2>3, <2>4
  <1>6. ASSUME failed' = 0 PROVE SoFar'
    <2>1. failed = 0 /\ waiting' = FALSE
      <3>1. Verdict(ok) => failed = 0 /\ waiting' = FALSE
        BY <1>1, <1>6, VerdictTyped
      <3> QED
        BY <1>4, <1>6, <3>1
    <2>2. SoFar
      BY <2>1 DEF Inv
    <2>3. rx[t] = <<[from |-> Now.from, msg |-> Current]>>
      BY <1>1, <1>2, <2>2 DEF SoFar, NothingElseOnTheWay
    <2>4. m.msg = Current /\ s = <<>>
      <3>1. PICK e : e = [from |-> Now.from, msg |-> Current]
        OBVIOUS
      <3>2. Head(<<e>>) = e /\ Tail(<<e>>) = <<>>
        BY OneTyped
      <3> QED
        BY <1>2, <2>3, <3>1, <3>2
    <2>5. /\ part \in 1 .. Quota(check) /\ part \in Nat /\ Quota(check) \in 0 .. PoolSize /\ PoolSize \in Nat
          /\ Quota(check) = IF Now.name = "pool" THEN PoolSize ELSE 1
      BY <1>1, <2>2, NowFacts, BoundsAssumption DEF SoFar, PartInRange, Typed
    <2>6. Current \in AllSent
      <3>1. PICK c : c = [check |-> check, part |-> part]
        OBVIOUS
      <3>2. c.check = check /\ c.part = part /\ part \in 1 .. PoolSize /\ part <= Quota(check)
        BY <2>5, <3>1
      <3>3. c \in AllSent
        BY <1>1, <3>1, <3>2, AllSentFacts
      <3> QED
        BY <3>1, <3>3 DEF Current
    <2>7. NothingElseOnTheWay'
      <3>1. \A f \in Senders, u \in Receivers : net'[f][u] = <<>>
        <4>1. \A f \in Senders, u \in Receivers : net[f][u] = <<>>
          BY <1>1, <1>2, <2>2 DEF SoFar, NothingElseOnTheWay
        <4> QED
          BY <1>1, <4>1
      <3>2. \A u \in Receivers : rx'[u] = <<>>
        <4>1. \A u \in Receivers : u = t \/ rx[u] = <<>>
          BY <1>2, <2>2 DEF SoFar, NothingElseOnTheWay
        <4> QED
          BY <1>1, <1>4, <2>4, <4>1
      <3> QED
        BY <3>1, <3>2 DEF NothingElseOnTheWay
    <2>8. CASE Now.name = "pool" /\ part < PoolSize
      <3>1. UNCHANGED <<check, part, passed, failed>>
        BY <1>4, <2>8
      <3>2. PartInRange'
        <4>1. part < Quota(check)
          BY <2>5, <2>8
        <4>2. Quota(check)' = Quota(check) /\ Done' = Done
          BY <3>1 DEF Quota, Done
        <4> QED
          BY <1>1, <2>1, <3>1, <4>1, <4>2 DEF PartInRange
      <3>3. ASSUME NEW x PROVE Received(x)' <=> Received(x) \/ x = Current
        <4>1. x \in AllSent => x = [check |-> x.check, part |-> x.part] /\ x.part \in Nat /\ x.check \in Nat
          BY AllSentFacts, BoundsAssumption
        <4>2. Received(x)' <=> x \in AllSent /\ (x.check < check \/ (x.check = check /\ x.part <= part))
          BY <2>1, <3>1 DEF Received
        <4>3. Received(x) <=> x \in AllSent /\ (x.check < check \/ (x.check = check /\ x.part < part))
          BY <1>1 DEF Received
        <4>4. x \in AllSent => (x = Current <=> x.check = check /\ x.part = part)
          BY <4>1 DEF Current
        <4>5. x \in AllSent => (x.part <= part <=> x.part < part \/ x.part = part)
          BY <2>5, <4>1
        <4> QED
          BY <2>6, <4>2, <4>3, <4>4, <4>5
      <3>4. TakenInOrder'
        BY <1>1, <1>4, <2>1, <2>2, <2>4, <2>5, <2>6, <3>3, CurrentTaken
      <3> QED
        BY <2>2, <2>7, <3>1, <3>2, <3>4 DEF SoFar
    <2>9. CASE ~(Now.name = "pool" /\ part < PoolSize)
      <3>1. Verdict(ok)
        BY <1>4, <2>9
      <3>2. /\ failed' = 0 => ok /\ failed = 0
            /\ check' = check + 1 /\ part' = 0 /\ waiting' = FALSE
            /\ ok => passed' = passed + 1
        BY <1>1, <3>1, VerdictTyped
      <3>3. passed' = check' - 1 /\ PartInRange'
        <4>1. passed = check - 1 /\ passed \in Nat /\ check \in Nat
          BY <1>1, <2>2 DEF SoFar, Typed
        <4> QED
          BY <1>6, <3>2, <4>1 DEF PartInRange
      <3>4. part = Quota(check)
        BY <2>5, <2>9
      <3>5. ASSUME NEW x PROVE Received(x)' <=> Received(x) \/ x = Current
        <4>1. x \in AllSent => /\ x = [check |-> x.check, part |-> x.part]
                               /\ x.part \in Nat /\ x.part # 0 /\ x.check \in Nat /\ x.part <= Quota(x.check)
          BY AllSentFacts, BoundsAssumption
        <4>2. Received(x)' <=> x \in AllSent /\ (x.check < check + 1 \/ (x.check = check + 1 /\ x.part <= 0))
          BY <3>2 DEF Received
        <4>3. Received(x) <=> x \in AllSent /\ (x.check < check \/ (x.check = check /\ x.part < part))
          BY <1>1 DEF Received
        <4>4. x \in AllSent => (x = Current <=> x.check = check /\ x.part = part)
          BY <4>1 DEF Current
        <4>5. x \in AllSent /\ x.check = check => (x.part < part \/ x.part = part)
          <5>1. x \in AllSent /\ x.check = check => x.part <= part
            BY <3>4, <4>1
          <5> QED
            BY <2>5, <4>1, <5>1
        <4>6. x \in AllSent => (x.check < check + 1 <=> x.check < check \/ x.check = check) /\ ~(x.part <= 0)
          BY <1>1, <4>1
        <4> QED
          BY <2>6, <4>2, <4>3, <4>4, <4>5, <4>6
      <3>6. TakenInOrder'
        BY <1>1, <1>4, <2>1, <2>2, <2>4, <2>5, <2>6, <3>5, CurrentTaken
      <3> QED
        BY <2>7, <3>3, <3>6 DEF SoFar
    <2> QED
      BY <2>8, <2>9
  <1> QED
    BY <1>5, <1>6 DEF Inv

-----------------------------------------------------------------------------
(* The verdict *)

\* At first nothing is sent.
LEMMA InitInv == Init => Inv
  <1> SUFFICES ASSUME Init PROVE Inv
    OBVIOUS
  <1>1. /\ check = 1 /\ part = 0 /\ waiting = FALSE /\ online = {} /\ passed = 0 /\ failed = 0
        /\ \A f \in Senders, t \in Receivers : net[f][t] = <<>>
        /\ \A t \in Receivers : rx[t] = <<>>
        /\ taken = <<>>
    BY DEF Init
  <1>2. Typed
    <2>1. net \in [Senders -> [Receivers -> Seq(Messages)]] /\ rx \in [Receivers -> Seq(Arrivals)]
          /\ taken \in Seq(Messages)
      BY DEF Init
    <2>2. waiting \in BOOLEAN
      BY <1>1, Zenon
    <2>3. check \in 1 .. Len(Script) + 1 /\ part \in Nat /\ passed \in Nat /\ failed \in Nat /\ online \subseteq Senders
      BY <1>1, ScriptFacts
    <2> QED
      BY <2>1, <2>2, <2>3 DEF Typed
  <1>3. \A m : ~Received(m)
    <2> SUFFICES ASSUME NEW m, Received(m) PROVE FALSE
      OBVIOUS
    <2>1. m.check \in 1 .. 10 /\ m.part \in Nat /\ m.part # 0 /\ (m.check < 1 \/ m.part <= 0)
      BY <1>1, AllSentFacts, BoundsAssumption DEF Received
    <2> QED
      BY <2>1
  <1>4. SoFar
    BY <1>1, <1>3 DEF SoFar, PartInRange, TakenInOrder, NothingElseOnTheWay
  <1> QED
    BY <1>2, <1>4 DEF Inv

\* No step disturbs the invariant.
LEMMA NextInv == Inv /\ [Next]_vars => Inv'
  <1> SUFFICES ASSUME Inv, [Next]_vars PROVE Inv'
    OBVIOUS
  <1>1. CASE UNCHANGED vars
    BY <1>1 DEF vars, Inv, Typed, SoFar, PartInRange, TakenInOrder, NothingElseOnTheWay, Received, Current,
                Now, Done, Quota
  <1>2. CASE LocalCheck \/ SendOk \/ Receive
    BY <1>2, LocalStep, SendStep, ReceiveStep
  <1>3. CASE SendErr \/ Timeout
    <2>1. ~Done /\ Verdict(FALSE) /\ UNCHANGED <<online, net, rx, taken>>
      BY <1>3 DEF SendErr, Timeout, Sending
    <2> QED
      BY <2>1, FailedStep
  <1>4. CASE \E f \in Senders, t \in Receivers : Listen(f, t)
    BY <1>4, ListenStep
  <1>5. CASE ComeOnline
    <2>1. /\ UNCHANGED <<check, part, waiting, passed, failed, net, rx, taken>>
          /\ online' \subseteq online \cup Senders
      BY <1>5 DEF ComeOnline, Senders
    <2>2. Typed'
      BY <2>1 DEF Inv, Typed
    <2>3. SoFar => SoFar'
      BY <2>1 DEF SoFar, PartInRange, TakenInOrder, NothingElseOnTheWay, Received, Current, Now, Done, Quota
    <2> QED
      BY <2>1, <2>2, <2>3 DEF Inv
  <1> QED
    BY <1>1, <1>2, <1>3, <1>4, <1>5 DEF Next

\* The invariant holds in every state.
THEOREM Invariance == Spec => []Inv
  BY InitInv, NextInv, PTL DEF Spec

\* The debug program reports success only when it got every message of every check,
\* once and in the check that sent it, for a pool of any size and any losses.
THEOREM SuccessMeansReceived == Spec => []PassMeansReceived
  <1>1. Inv => PassMeansReceived
    <2> SUFFICES ASSUME Inv, Done, failed = 0
                 PROVE  /\ passed = Len(Script)
                        /\ ToSet(taken) = AllSent
                        /\ \A i, j \in DOMAIN taken : i < j => Before(taken[i], taken[j])
      BY DEF PassMeansReceived
    <2>1. Typed /\ SoFar
      BY DEF Inv
    <2>2. check = 11 /\ Len(Script) = 10
      BY <2>1, ScriptFacts DEF Typed, Done
    <2>3. passed = Len(Script)
      BY <2>1, <2>2 DEF SoFar
    <2>4. ASSUME NEW m PROVE Received(m) <=> m \in AllSent
      <3>1. m \in AllSent => m.check < 11
        BY AllSentFacts
      <3> QED
        BY <2>2, <3>1 DEF Received
    <2>5. ToSet(taken) = AllSent
      <3>1. \A m : m \in ToSet(taken) <=> \E i \in DOMAIN taken : taken[i] = m
        BY DEF ToSet
      <3> QED
        BY <2>1, <2>4, <3>1 DEF SoFar, TakenInOrder
    <2> QED
      BY <2>1, <2>3, <2>5 DEF SoFar, TakenInOrder
  <1> QED
    BY <1>1, Invariance, PTL
=============================================================================
