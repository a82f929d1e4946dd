-------------------------- MODULE LifecycleProofs --------------------------
(* What holds of the life cycle of profiles for every number of profiles,
   switches, messages, invites and failures. *)
EXTENDS Lifecycle, TLAPS

Fields ==
    {"activeProfileId", "seed", "onboarded", "adding", "nodeStarted", "status", "inviteCode",
     "signing", "test", "irohNode", "outgoingTx", "invite", "token", "cancelled", "calls",
     "tasks", "effect", "listed", "known", "key", "late", "tested"}

-----------------------------------------------------------------------------
(* The inductive invariant *)

\* The types, field by field; together they say what TypeOK says.
ProfilesTyped ==
    /\ app.activeProfileId \in 0 .. db.created /\ app.seed \in 0 .. db.created
    /\ app.signing \in 0 .. db.created /\ app.inviteCode \in 0 .. db.created
    /\ app.irohNode \in 0 .. db.created /\ app.key \in 0 .. db.created
    /\ app.test \subseteq 1 .. db.created

TasksTyped ==
    /\ app.token \in Nat /\ app.calls \in Nat
    /\ app.outgoingTx \in [profile : 0 .. db.created, token : 0 .. app.token]
    /\ app.invite \in [profile : 0 .. db.created, token : 0 .. app.token]
    /\ \A t \in app.tasks : t \in TaskType
    /\ \A n \in app.cancelled : n \in Nat /\ n < app.token

SignalsTyped ==
    /\ app.status \in {"offline", "connecting", "online", "error", "connected"}
    /\ app.onboarded \in BOOLEAN /\ app.adding \in BOOLEAN /\ app.nodeStarted \in BOOLEAN
    /\ app.effect \in BOOLEAN /\ app.listed \in BOOLEAN /\ app.known \in BOOLEAN
    /\ app.late \in BOOLEAN /\ app.tested \in BOOLEAN

Updates == [kind : {"connected", "message"}, owner : 1 .. db.created]

StoreTyped ==
    /\ uiq \in Seq(Updates)
    /\ db.created \in 0 .. MaxProfiles /\ db.active \in 0 .. db.created
    /\ db.chats \subseteq 1 .. db.created
    /\ db.messages \subseteq [owner : 1 .. db.created, savedUnder : 1 .. db.created]

\* Before the first profile is created there is nothing in memory or in the queue,
\* and only then is the onboarding view shown without a profile to go back to.
NothingBeforeOnboarding ==
    /\ ~app.onboarded /\ ~app.adding => app.activeProfileId = NoProfile
    /\ app.activeProfileId = NoProfile =>
          /\ ~app.onboarded /\ ~app.adding /\ ~app.nodeStarted /\ app.status = "offline"
          /\ app.tasks = {} /\ app.test = {} /\ app.invite = NoTask /\ uiq = <<>>
          /\ {app.irohNode, app.inviteCode, app.key} = {NoProfile}

\* Every token that shutdown_node has replaced is cancelled.
ReplacedIsCancelled == \A n \in 0 .. app.token : n # app.token => n \in app.cancelled

\* start_node reads one set of keys, and only its tasks have an endpoint to wait for.
TasksAreConsistent ==
    \A t \in app.tasks :
       /\ t.by = "start" => t.sk = t.profile
       /\ t.pc = "starting" => t.by = "start"

\* The guard of start_node holds as long as one of its tasks is running, and an
\* invite that is not left over from an earlier node was submitted on a started one.
StartedIsKnown ==
    /\ ~app.late => \A t \in Started : app.nodeStarted \/ app.status = "connecting"
    /\ app.invite # NoTask /\ app.invite.token = app.token => app.nodeStarted

\* The task behind the node that is shown has left its first await.
NodeHasLoop ==
    ~app.late /\ ~app.tested /\ app.nodeStarted =>
       \E t \in Live : /\ t.pc # "starting"
                       /\ t.profile = app.irohNode /\ t.token = app.outgoingTx.token

\* The invite code and the node are those of the profile that is shown.
NodeIsOwn ==
    ~app.late /\ ~app.tested => {app.inviteCode, app.irohNode} \subseteq {NoProfile, app.activeProfileId}

\* The inductive invariant: what the theorems state, and what their proofs need.
Inv ==
    /\ DOMAIN app = Fields
    /\ DOMAIN db = {"created", "active", "chats", "messages"}
    /\ ProfilesTyped /\ TasksTyped /\ SignalsTyped /\ StoreTyped
    /\ NothingBeforeOnboarding
    /\ ReplacedIsCancelled
    /\ TasksAreConsistent
    /\ LiveIsActive
    /\ OneIdentity
    /\ StartedIsKnown
    /\ StartedOnce
    /\ NodeHasLoop
    /\ NodeIsOwn

-----------------------------------------------------------------------------
(* What the functions of state.rs do to memory *)

\* b has the fields of a, and those named are unchanged.
Kept(a, b, fields) == DOMAIN b = DOMAIN a /\ \A f \in fields : b[f] = a[f]

\* b is what shutdown_node makes of a: it replaces its token, cancels the old one and
\* empties the maps of the node.
IsShutDown(a, b) ==
    /\ Kept(a, b, {"activeProfileId", "seed", "onboarded", "adding", "signing", "test", "invite",
                   "calls", "tasks", "listed", "late", "tested"})
    /\ b.cancelled = a.cancelled \cup {a.token} /\ b.token = a.token + 1
    /\ b.nodeStarted = FALSE /\ b.status = "offline"
    /\ b.inviteCode = NoProfile /\ b.irohNode = NoProfile /\ b.key = NoProfile
    /\ b.outgoingTx = NoTask /\ b.known = FALSE /\ b.effect = TRUE

\* What shutdown_node does to any memory.
LEMMA ShutdownEffect ==
    ASSUME NEW a, DOMAIN a = Fields
    PROVE  IsShutDown(a, ShutdownNode(a))
  BY DEF IsShutDown, ShutdownNode, Emptied, Fields, Kept

\* b is what start_node makes of a, when it does not return early and leaves the tasks s.
IsStarted(a, p, s, b) ==
    /\ Kept(a, b, {"activeProfileId", "adding", "nodeStarted", "inviteCode", "test", "irohNode",
                   "outgoingTx", "invite", "token", "cancelled", "listed", "known", "key",
                   "late", "tested"})
    /\ b.seed = p /\ b.signing = p /\ b.status = "connecting" /\ b.onboarded = TRUE
    /\ b.effect = TRUE /\ b.calls = a.calls + 1
    /\ b.tasks = a.tasks \cup s

\* What start_node does to any memory in which its guard lets it go on.
LEMMA StartEffect ==
    ASSUME NEW a, DOMAIN a = Fields, NEW p, NEW s, ~StartIsSkipped(a)
    PROVE  IsStarted(a, p, s, StartNode(a, p, s))
  BY DEF IsStarted, StartNode, Fields, Kept

\* b is what load_profile makes of a: the profile is shown, and its peer as far as it
\* has a chat with it.
IsLoaded(a, p, b) ==
    /\ Kept(a, b, Fields \ {"seed", "activeProfileId", "onboarded", "effect", "listed", "known"})
    /\ b.seed = p /\ b.activeProfileId = p /\ b.onboarded = TRUE /\ b.effect = TRUE
    /\ b.listed = (p \in db.chats) /\ b.known = (a.known \/ p \in db.chats)

\* What load_profile does to any memory.
LEMMA LoadEffect ==
    ASSUME NEW a, DOMAIN a = Fields, NEW p
    PROVE  IsLoaded(a, p, LoadProfile(a, p))
  BY DEF IsLoaded, LoadProfile, Fields, Kept

-----------------------------------------------------------------------------
(* Steps that leave the tasks alone *)

\* The first launch, before anybody is onboarded, satisfies the invariant.
LEMMA InitInv == Init => Inv
  <1> SUFFICES ASSUME Init PROVE Inv
    OBVIOUS
  <1> USE BoundsAssumption DEF Init, Fresh, NoTask, NoProfile
  <1>1. DOMAIN app = Fields /\ DOMAIN db = {"created", "active", "chats", "messages"}
    BY DEF Fields
  <1>2. ProfilesTyped /\ TasksTyped /\ SignalsTyped /\ StoreTyped
    BY DEF ProfilesTyped, TasksTyped, SignalsTyped, StoreTyped
  <1>3. Inv
    BY <1>1, <1>2 DEF Inv, NothingBeforeOnboarding, ReplacedIsCancelled, TasksAreConsistent,
       LiveIsActive, OneIdentity, StartedIsKnown, StartedOnce, NodeHasLoop, NodeIsOwn, Live, Started, Cancelled
  <1> QED
    BY <1>3

\* Tail stays within the type.
LEMMA TailTyped ==
    ASSUME NEW S, NEW s \in Seq(S), s # <<>>
    PROVE  Tail(s) \in Seq(S)
  OBVIOUS

\* What a step keeps that leaves the tasks, their tokens and the node alone: all of
\* the invariant but for the types, the queue and the guard of start_node.
LEMMA QuietStep ==
    ASSUME Inv,
           Kept(app, app', {"tasks", "cancelled", "token", "activeProfileId", "seed", "nodeStarted",
                            "irohNode", "outgoingTx", "inviteCode", "tested"}),
           app'.status = "connecting" => app.status = "connecting",
           app.late => app'.late,
           db'.active = db.active
    PROVE  /\ DOMAIN app' = Fields
           /\ Live' = Live /\ Started' = Started
           /\ ReplacedIsCancelled' /\ TasksAreConsistent' /\ LiveIsActive' /\ OneIdentity'
           /\ StartedOnce' /\ NodeHasLoop' /\ NodeIsOwn'
  <1> USE DEF Inv, Kept
  <1>1. Live' = Live /\ Started' = Started
    BY DEF Live, Started, Cancelled
  <1>2. DOMAIN app' = Fields /\ ReplacedIsCancelled' /\ TasksAreConsistent' /\ OneIdentity'
    BY DEF ReplacedIsCancelled, TasksAreConsistent, OneIdentity
  <1>3. LiveIsActive' /\ StartedOnce'
    BY <1>1 DEF LiveIsActive, StartedOnce
  <1>4. NodeHasLoop' /\ NodeIsOwn'
    BY <1>1 DEF NodeHasLoop, NodeIsOwn
  <1> QED
    BY <1>1, <1>2, <1>3, <1>4

\* The buttons that leave the main view for a new profile, and come back to it.
LEMMA ViewSteps ==
    ASSUME Inv, AddProfile \/ CancelAdd
    PROVE  Inv'
  <1> USE DEF Inv, Kept, Fields
  <1>1. /\ Kept(app, app', Fields \ {"onboarded", "adding", "effect", "invite", "test"})
        /\ app'.invite \in {app.invite, NoTask} /\ app'.test \in {app.test, {}}
        /\ app'.onboarded \in BOOLEAN /\ app'.adding \in BOOLEAN /\ app'.effect \in BOOLEAN
        /\ app'.onboarded \/ app'.adding
        /\ app.onboarded \/ app.adding
        /\ UNCHANGED <<uiq, db, used>>
    BY DEF AddProfile, CancelAdd
  <1>2. TasksTyped'
    <2>1. NoTask \in [profile : 0 .. db.created, token : 0 .. app.token]
      BY DEF NoTask, NoProfile, TasksTyped, StoreTyped
    <2> QED
      BY <1>1, <2>1, ZenonT(60) DEF TasksTyped, TaskType
  <1>3. ProfilesTyped' /\ SignalsTyped' /\ StoreTyped'
    BY <1>1 DEF ProfilesTyped, SignalsTyped, StoreTyped, Updates
  <1>4. NothingBeforeOnboarding'
    BY <1>1 DEF NothingBeforeOnboarding
  <1>5. StartedIsKnown'
    BY <1>1, QuietStep DEF StartedIsKnown
  <1> QED
    BY <1>1, <1>2, <1>3, <1>4, <1>5, QuietStep

\* The task of the invite modal.
LEMMA InviteSteps ==
    ASSUME Inv, InviteSubmit \/ InviteConnects \/ InviteFails
    PROVE  Inv'
  <1> USE DEF Inv, Kept, Fields
  <1>1. CASE InviteSubmit
    <2>1. /\ Kept(app, app', Fields \ {"invite"}) /\ UNCHANGED <<uiq, db>>
          /\ app'.invite = [profile |-> app.irohNode, token |-> app.token]
          /\ app.nodeStarted /\ app.irohNode # NoProfile /\ app.onboarded
      BY <1>1 DEF InviteSubmit
    <2>2. ProfilesTyped' /\ SignalsTyped' /\ StoreTyped'
      BY <2>1 DEF ProfilesTyped, SignalsTyped, StoreTyped, Updates
    <2>3. TasksTyped'
      BY <2>1 DEF TasksTyped, TaskType, ProfilesTyped
    <2>4. NothingBeforeOnboarding' /\ StartedIsKnown'
      BY <2>1, QuietStep DEF NothingBeforeOnboarding, StartedIsKnown
    <2> QED
      BY <2>1, <2>2, <2>3, <2>4, QuietStep
  <1>2. CASE InviteConnects
    <2>1. /\ Kept(app, app', Fields \ {"invite", "listed", "known", "status", "effect", "late"})
          /\ app.invite # NoTask /\ app'.invite = NoTask /\ app'.listed = TRUE /\ app'.known = TRUE
          /\ app'.effect = TRUE /\ app'.status = "connected"
          /\ app'.late = (app.late \/ app.invite.token \in app.cancelled)
          /\ UNCHANGED uiq
          /\ db' = [db EXCEPT !.chats = @ \cup {app.activeProfileId}]
      BY <1>2 DEF InviteConnects, Cancelled
    <2>2. app.activeProfileId \in 1 .. db.created
      BY <2>1 DEF NothingBeforeOnboarding, ProfilesTyped, NoProfile
    <2>3. ProfilesTyped' /\ SignalsTyped' /\ StoreTyped'
      BY <2>1, <2>2 DEF ProfilesTyped, SignalsTyped, StoreTyped, Updates
    <2>4. TasksTyped'
      BY <2>1, <2>2, SMTT(60) DEF TasksTyped, TaskType, StoreTyped, NoTask, NoProfile
    <2>5. ~app'.late => app.nodeStarted
      BY <2>1 DEF StartedIsKnown, ReplacedIsCancelled, TasksTyped
    <2>6. NothingBeforeOnboarding' /\ StartedIsKnown'
      BY <2>1, <2>2, <2>5, QuietStep DEF NothingBeforeOnboarding, StartedIsKnown, NoProfile
    <2> QED
      BY <2>1, <2>3, <2>4, <2>6, QuietStep
  <1>3. CASE InviteFails
    <2>1. /\ Kept(app, app', Fields \ {"invite"}) /\ UNCHANGED <<uiq, db>>
          /\ app'.invite = NoTask
      BY <1>3 DEF InviteFails
    <2>2. ProfilesTyped' /\ SignalsTyped' /\ StoreTyped'
      BY <2>1 DEF ProfilesTyped, SignalsTyped, StoreTyped, Updates
    <2>3. TasksTyped'
      BY <2>1 DEF TasksTyped, TaskType, StoreTyped, NoTask, NoProfile
    <2>4. NothingBeforeOnboarding' /\ StartedIsKnown'
      BY <2>1, QuietStep DEF NothingBeforeOnboarding, StartedIsKnown
    <2> QED
      BY <2>1, <2>2, <2>3, <2>4, QuietStep
  <1> QED
    BY <1>1, <1>2, <1>3

\* The input of the main view and the UI coroutine, which write the store.
LEMMA StoreSteps ==
    ASSUME Inv, UserSend \/ UiApply
    PROVE  Inv'
  <1> USE DEF Inv, Kept, Fields
  <1>1. /\ Kept(app, app', Fields \ {"listed"}) /\ app'.listed \in BOOLEAN
        /\ app.onboarded \/ uiq # <<>>
        /\ uiq' = uiq \/ (uiq # <<>> /\ uiq' = Tail(uiq))
    BY DEF UserSend, UiApply, SignalsTyped
  <1>2. app.activeProfileId \in 1 .. db.created
    BY <1>1 DEF NothingBeforeOnboarding, ProfilesTyped, NoProfile
  <1>3. uiq # <<>> => Head(uiq) \in Updates
    BY DEF StoreTyped
  <1>4. /\ DOMAIN db' = DOMAIN db /\ db'.created = db.created /\ db'.active = db.active
        /\ db'.chats \in {db.chats, db.chats \cup {app.activeProfileId}}
        /\ \/ db'.messages = db.messages
           \/ \E p \in 1 .. db.created :
                 db'.messages = db.messages \cup {[owner |-> p, savedUnder |-> app.activeProfileId]}
    BY <1>2, <1>3 DEF UserSend, UiApply, Updates
  <1>5. ProfilesTyped' /\ SignalsTyped' /\ TasksTyped'
    BY <1>1, <1>4 DEF ProfilesTyped, SignalsTyped, TasksTyped, TaskType
  <1>6. StoreTyped'
    <2>1. uiq' \in Seq(Updates)
      <3>1. uiq \in Seq(Updates)
        BY DEF StoreTyped
      <3>2. uiq # <<>> => Tail(uiq) \in Seq(Updates)
        BY <3>1, TailTyped
      <3> QED
        BY <1>1, <3>1, <3>2
    <2>2. /\ db'.created \in 0 .. MaxProfiles /\ db'.active \in 0 .. db.created
          /\ db'.chats \subseteq 1 .. db.created
      BY <1>2, <1>4 DEF StoreTyped
    <2>3. db'.messages \subseteq [owner : 1 .. db.created, savedUnder : 1 .. db.created]
      BY <1>2, <1>4 DEF StoreTyped
    <2> QED
      BY <1>4, <2>1, <2>2, <2>3 DEF StoreTyped, Updates
  <1>7. NothingBeforeOnboarding' /\ StartedIsKnown'
    BY <1>1, <1>2, <1>4, QuietStep DEF NothingBeforeOnboarding, StartedIsKnown, NoProfile
  <1> QED
    BY <1>1, <1>4, <1>5, <1>6, <1>7, QuietStep

\* A Hello in a message loop: no task moves.
LEMMA HelloStep ==
    ASSUME Inv, NEW t \in app.tasks, HandleHello(t)
    PROVE  Inv'
  <1> USE DEF Inv, Kept, Fields
  <1>1. /\ Kept(app, app', Fields \ {"known"}) /\ app'.known = TRUE /\ UNCHANGED db
        /\ uiq' = Append(uiq, [kind |-> "connected", owner |-> t.profile])
    BY DEF HandleHello
  <1>2. t.profile \in 1 .. db.created
    BY DEF TasksTyped, TaskType
  <1>3. ProfilesTyped' /\ SignalsTyped' /\ TasksTyped'
    BY <1>1 DEF ProfilesTyped, SignalsTyped, TasksTyped, TaskType
  <1>4. [kind |-> "connected", owner |-> t.profile] \in Updates
    BY <1>2 DEF Updates
  <1>5. StoreTyped'
    BY <1>1, <1>4 DEF StoreTyped, Updates
  <1>6. NothingBeforeOnboarding' /\ StartedIsKnown'
    BY <1>1, QuietStep DEF NothingBeforeOnboarding, StartedIsKnown
  <1> QED
    BY <1>1, <1>3, <1>5, <1>6, QuietStep

\* The steps of the test button that start no loop, and the steps that do nothing.
LEMMA OtherQuietSteps ==
    ASSUME Inv,
           \/ TestP2p /\ app.irohNode = NoProfile
           \/ TestFails
           \/ RunEffect /\ ~AutoStarts(app)
           \/ UNCHANGED vars
    PROVE  Inv'
  <1> USE DEF Inv, Kept, Fields
  <1>1. /\ Kept(app, app', Fields \ {"test", "effect"}) /\ UNCHANGED <<db, uiq>>
        /\ app'.effect \in BOOLEAN
        /\ app'.test = app.test \/ app'.test = {} \/ (app.onboarded /\ app'.test = {app.signing})
        /\ app.signing = NoProfile => app'.test = app.test \/ app'.test = {}
    BY DEF TestP2p, TestFails, RunEffect, vars, SignalsTyped
  <1>2. SignalsTyped' /\ TasksTyped' /\ StoreTyped'
    BY <1>1 DEF SignalsTyped, TasksTyped, TaskType, StoreTyped, Updates
  <1>3. app.signing # NoProfile => app.signing \in 1 .. db.created
    BY DEF ProfilesTyped, NoProfile
  <1>4. ProfilesTyped'
    BY <1>1, <1>3 DEF ProfilesTyped
  <1>5. NothingBeforeOnboarding' /\ StartedIsKnown'
    BY <1>1, QuietStep DEF NothingBeforeOnboarding, StartedIsKnown
  <1> QED
    BY <1>1, <1>2, <1>4, <1>5, QuietStep

-----------------------------------------------------------------------------
(* Tasks go on, end and are added *)

\* A task that goes on changes nothing but its pc.
LEMMA MovedTask ==
    ASSUME Inv, NEW t \in app.tasks, NEW pc \in {"starting", "select", "deliver"}, NEW u,
           u = [t EXCEPT !.pc = pc]
    PROVE  /\ u \in TaskType /\ u.pc = pc
           /\ u.by = t.by /\ u.profile = t.profile /\ u.sk = t.sk /\ u.token = t.token
           /\ Moved(t, pc) = (app.tasks \ {t}) \cup {u}
  BY DEF Inv, TasksTyped, TaskType, Moved

\* A message loop goes on: the tasks keep their profiles, keys and tokens.
LEMMA LoopGoesOn ==
    ASSUME Inv, NEW t \in app.tasks, t.pc # "starting", NEW pc \in {"select", "deliver"},
           Kept(app, app', Fields \ {"tasks", "key"}),
           app'.tasks = Moved(t, pc),
           app'.key = app.key \/ app'.key = t.sk,
           UNCHANGED db,
           uiq' \in Seq(Updates)
    PROVE  Inv'
  <1> DEFINE u == [t EXCEPT !.pc = pc]
  <1>1. /\ u \in TaskType /\ u.pc = pc
        /\ u.by = t.by /\ u.profile = t.profile /\ u.sk = t.sk /\ u.token = t.token
        /\ app'.tasks = (app.tasks \ {t}) \cup {u}
    BY MovedTask
  <1> HIDE DEF u
  <1> USE DEF Inv, Kept, Fields
  <1>2. SignalsTyped' /\ StoreTyped'
    BY DEF SignalsTyped, StoreTyped, Updates
  <1>3. t.sk \in 0 .. db.created
    BY DEF TasksTyped, TaskType
  <1>4. ProfilesTyped'
    BY <1>3 DEF ProfilesTyped
  <1>5. TasksTyped'
    BY <1>1 DEF TasksTyped, TaskType
  <1>6. NothingBeforeOnboarding' /\ ReplacedIsCancelled' /\ OneIdentity' /\ NodeIsOwn'
    BY DEF NothingBeforeOnboarding, ReplacedIsCancelled, OneIdentity, NodeIsOwn
  <1>7. TasksAreConsistent'
    BY <1>1 DEF TasksAreConsistent
  <1>8. /\ Live' = IF t \in Live THEN (Live \ {t}) \cup {u} ELSE Live
        /\ Started' = IF t \in Started THEN (Started \ {t}) \cup {u} ELSE Started
    BY <1>1 DEF Live, Started, Cancelled
  <1>9. LiveIsActive' /\ StartedIsKnown' /\ StartedOnce'
    BY <1>1, <1>8 DEF LiveIsActive, StartedIsKnown, StartedOnce
  <1>10. NodeHasLoop'
    BY <1>1, <1>8 DEF NodeHasLoop
  <1> QED
    BY <1>2, <1>4, <1>5, <1>6, <1>7, <1>9, <1>10

\* A chat message is opened, and shown when its Ack is on its way.
LEMMA ChatSteps ==
    ASSUME Inv, NEW t \in app.tasks, HandleChat(t) \/ DeliverToUi(t)
    PROVE  Inv'
  <1>1. CASE HandleChat(t)
    <2>1. /\ Kept(app, app', Fields \ {"tasks", "key"}) /\ app'.tasks = Moved(t, "deliver")
          /\ app'.key = app.key \/ app'.key = t.sk
          /\ t.pc # "starting" /\ UNCHANGED <<db, uiq>>
      BY <1>1 DEF HandleChat, Receives, Inv, Kept, Fields
    <2>2. uiq' \in Seq(Updates)
      BY <2>1 DEF Inv, StoreTyped
    <2> QED
      BY <2>1, <2>2, LoopGoesOn
  <1>2. CASE DeliverToUi(t)
    <2>1. /\ Kept(app, app', Fields \ {"tasks", "key"}) /\ app'.tasks = Moved(t, "select")
          /\ app'.key = app.key /\ t.pc # "starting" /\ UNCHANGED db
      BY <1>2 DEF DeliverToUi, Inv, Kept, Fields
    <2>2. t.profile \in 1 .. db.created
      BY DEF Inv, TasksTyped, TaskType
    <2>3. uiq' \in Seq(Updates)
      BY <1>2, <2>2 DEF DeliverToUi, Inv, StoreTyped, Updates
    <2> QED
      BY <2>1, <2>3, LoopGoesOn
  <1> QED
    BY <1>1, <1>2

\* A cancelled loop ends.
LEMMA LoopEndsStep ==
    ASSUME Inv, NEW t \in app.tasks, LoopEnds(t)
    PROVE  Inv'
  <1> USE DEF Inv, Kept, Fields
  <1>1. /\ Kept(app, app', Fields \ {"tasks"}) /\ app'.tasks = app.tasks \ {t}
        /\ UNCHANGED <<db, uiq>> /\ t.token \in app.cancelled
    BY DEF LoopEnds, Ended, Cancelled
  <1>2. ProfilesTyped' /\ SignalsTyped' /\ StoreTyped' /\ TasksTyped'
    BY <1>1 DEF ProfilesTyped, SignalsTyped, StoreTyped, Updates, TasksTyped, TaskType
  <1>3. Live' = Live /\ Started' = Started
    BY <1>1 DEF Live, Started, Cancelled
  <1>4. /\ NothingBeforeOnboarding' /\ ReplacedIsCancelled' /\ OneIdentity' /\ NodeIsOwn'
        /\ TasksAreConsistent'
    BY <1>1 DEF NothingBeforeOnboarding, ReplacedIsCancelled, OneIdentity, NodeIsOwn, TasksAreConsistent
  <1>5. LiveIsActive' /\ StartedIsKnown' /\ StartedOnce' /\ NodeHasLoop'
    BY <1>1, <1>3 DEF LiveIsActive, StartedIsKnown, StartedOnce, NodeHasLoop
  <1> QED
    BY <1>1, <1>2, <1>4, <1>5

\* The endpoint is there: the task becomes the loop of the node that is shown.
LEMMA FinishStartStep ==
    ASSUME Inv, NEW t \in app.tasks, FinishStart(t)
    PROVE  Inv'
  <1> DEFINE u == [t EXCEPT !.pc = "select"]
  <1>1. /\ u \in TaskType /\ u.pc = "select"
        /\ u.by = t.by /\ u.profile = t.profile /\ u.sk = t.sk /\ u.token = t.token
        /\ Moved(t, "select") = (app.tasks \ {t}) \cup {u}
    BY MovedTask
  <1> HIDE DEF u
  <1> USE DEF Inv, Kept, Fields
  <1>2. /\ Kept(app, app', {"activeProfileId", "seed", "onboarded", "adding", "signing", "test",
                            "invite", "token", "cancelled", "calls", "listed", "known", "key",
                            "tested"})
        /\ app'.inviteCode = t.profile /\ app'.irohNode = t.profile
        /\ app'.status = "online" /\ app'.nodeStarted = TRUE /\ app'.effect = TRUE
        /\ app'.outgoingTx = [profile |-> t.profile, token |-> t.token]
        /\ app'.tasks = (app.tasks \ {t}) \cup {u}
        /\ app'.late = (app.late \/ t.token \in app.cancelled)
        /\ UNCHANGED <<db, uiq>>
    BY <1>1 DEF FinishStart, Cancelled
  <1>3. /\ t.profile \in 1 .. db.created /\ t.token \in 0 .. app.token
        /\ t.pc = "starting" /\ t.by = "start"
    BY DEF TasksTyped, TaskType, FinishStart, TasksAreConsistent
  <1>4. SignalsTyped' /\ StoreTyped'
    BY <1>2 DEF SignalsTyped, StoreTyped, Updates
  <1>5. ProfilesTyped'
    BY <1>2, <1>3 DEF ProfilesTyped
  <1>6. TasksTyped'
    BY <1>1, <1>2, <1>3 DEF TasksTyped, TaskType
  <1>7. NothingBeforeOnboarding' /\ ReplacedIsCancelled' /\ OneIdentity'
    BY <1>2 DEF NothingBeforeOnboarding, ReplacedIsCancelled, OneIdentity
  <1>8. TasksAreConsistent'
    BY <1>1, <1>2 DEF TasksAreConsistent
  <1>9. /\ Live' = IF t \in Live THEN (Live \ {t}) \cup {u} ELSE Live
        /\ Started' = IF t \in Started THEN (Started \ {t}) \cup {u} ELSE Started
        /\ t \in Live <=> t.token \notin app.cancelled
    BY <1>1, <1>2 DEF Live, Started, Cancelled
  <1>10. LiveIsActive'
    BY <1>1, <1>2, <1>9 DEF LiveIsActive
  <1>11. StartedIsKnown'
    BY <1>2 DEF StartedIsKnown
  <1>12. ~app'.late => u \in Live' /\ t \in Started
    BY <1>2, <1>3, <1>9 DEF Started
  <1>13. StartedOnce'
    BY <1>2, <1>9, <1>12, ZenonT(60) DEF StartedOnce
  <1>14. NodeHasLoop'
    BY <1>1, <1>2, <1>12 DEF NodeHasLoop
  <1>15. NodeIsOwn'
    BY <1>2, <1>12 DEF NodeIsOwn, LiveIsActive
  <1> QED
    BY <1>2, <1>4, <1>5, <1>6, <1>7, <1>8, <1>10, <1>11, <1>13, <1>14, <1>15

\* The endpoint cannot be bound, and the task ends.
LEMMA BindFailsStep ==
    ASSUME Inv, NEW t \in app.tasks, BindFails(t)
    PROVE  Inv'
  <1> USE DEF Inv, Kept, Fields
  <1>1. /\ Kept(app, app', Fields \ {"status", "tasks", "effect", "late"})
        /\ app'.status = "error" /\ app'.effect = TRUE /\ app'.tasks = app.tasks \ {t}
        /\ app'.late = (app.late \/ t.token \in app.cancelled)
        /\ UNCHANGED <<db, uiq>> /\ t.pc = "starting" /\ t.by = "start"
    BY DEF BindFails, Ended, Cancelled, TasksAreConsistent
  <1>2. ProfilesTyped' /\ SignalsTyped' /\ StoreTyped' /\ TasksTyped'
    BY <1>1, ZenonT(60) DEF ProfilesTyped, SignalsTyped, StoreTyped, Updates, TasksTyped, TaskType
  <1>3. /\ Live' = Live \ {t} /\ Started' = Started \ {t}
        /\ t \in Started <=> t.token \notin app.cancelled
    BY <1>1 DEF Live, Started, Cancelled
  <1>4. NothingBeforeOnboarding' /\ ReplacedIsCancelled' /\ OneIdentity'
    BY <1>1 DEF NothingBeforeOnboarding, ReplacedIsCancelled, OneIdentity
  <1>5. NodeIsOwn'
    BY <1>1 DEF NodeIsOwn, SignalsTyped
  <1>6. TasksAreConsistent'
    BY <1>1 DEF TasksAreConsistent
  <1>7. LiveIsActive' /\ StartedOnce'
    BY <1>1, <1>3 DEF LiveIsActive, StartedOnce
  <1>8. StartedIsKnown'
    <2>1. ~app'.late => Started' = {}
      <3>1. ~app'.late => ~app.late /\ t \in Started
        BY <1>1, <1>3 DEF SignalsTyped
      <3>2. ~app.late => \A u, v \in Started : u = v
        BY DEF StartedOnce
      <3>3. ~app'.late => \A u \in Started : u = t
        BY <3>1, <3>2
      <3> QED
        BY <1>3, <3>3
    <2> QED
      BY <1>1, <2>1 DEF StartedIsKnown
  <1>9. NodeHasLoop'
    BY <1>1, <1>3, ZenonT(60) DEF NodeHasLoop
  <1> QED
    BY <1>1, <1>2, <1>4, <1>5, <1>6, <1>7, <1>8, <1>9

\* The test button starts a loop, which counts as none of start_node's.
LEMMA TestLoopSteps ==
    ASSUME Inv,
           \/ TestP2p /\ app.irohNode # NoProfile
           \/ TestNodeReady
    PROVE  Inv'
  <1> USE DEF Inv, Kept, Fields
  <1>1. PICK p \in 1 .. db.created, sk \in 1 .. db.created :
           /\ Kept(app, app', {"activeProfileId", "seed", "onboarded", "adding", "signing", "invite",
                               "token", "cancelled", "listed", "known", "key", "late"})
           /\ app'.irohNode = p /\ app'.inviteCode = p /\ app'.status = "online"
           /\ app'.nodeStarted = TRUE /\ app'.effect = TRUE /\ app'.tested = TRUE
           /\ app'.outgoingTx = [profile |-> p, token |-> app.token]
           /\ app'.calls = app.calls + 1
           /\ app'.tasks = app.tasks \cup {Task(app, p, sk, "test", "select")}
           /\ app'.test \in {app.test, {}}
           /\ app.activeProfileId # NoProfile
           /\ UNCHANGED <<db, uiq>>
    <2>1. CASE TestP2p /\ app.irohNode # NoProfile
      <3>1. app.irohNode \in 1 .. db.created /\ app.signing \in 1 .. db.created
        BY <2>1 DEF TestP2p, ProfilesTyped, NoProfile
      <3>2. app.activeProfileId # NoProfile
        BY <2>1 DEF NothingBeforeOnboarding
      <3> QED
        BY <2>1, <3>1, <3>2 DEF TestP2p, TestLoop
    <2>2. CASE TestNodeReady
      <3>1. PICK p \in app.test : app' = TestLoop([app EXCEPT !.test = {}], p, p)
        BY <2>2 DEF TestNodeReady
      <3>2. p \in 1 .. db.created
        BY DEF ProfilesTyped
      <3>3. app.activeProfileId # NoProfile
        BY DEF NothingBeforeOnboarding
      <3>4. UNCHANGED <<db, uiq>>
        BY <2>2 DEF TestNodeReady
      <3> QED
        BY <3>1, <3>2, <3>3, <3>4 DEF TestLoop, Task
    <2> QED
      BY <2>1, <2>2
  <1> DEFINE u == Task(app, p, sk, "test", "select")
  <1>2. /\ u \in TaskType /\ u.by = "test" /\ u.pc = "select"
        /\ app'.tasks = app.tasks \cup {u}
    BY <1>1 DEF Task, TaskType, TasksTyped
  <1> HIDE DEF u
  <1>3. SignalsTyped'
    BY <1>1 DEF SignalsTyped
  <1>4. StoreTyped'
    BY <1>1 DEF StoreTyped, Updates
  <1>5. ProfilesTyped'
    BY <1>1 DEF ProfilesTyped
  <1>6. TasksTyped'
    BY <1>1, <1>2 DEF TasksTyped, TaskType
  <1>7. /\ NothingBeforeOnboarding' /\ ReplacedIsCancelled' /\ OneIdentity'
        /\ TasksAreConsistent' /\ NodeIsOwn' /\ NodeHasLoop'
    BY <1>1, <1>2 DEF NothingBeforeOnboarding, ReplacedIsCancelled, OneIdentity, TasksAreConsistent,
                      NodeIsOwn, NodeHasLoop
  <1>8. Started' = Started
    BY <1>1, <1>2 DEF Live, Started, Cancelled
  <1>9. LiveIsActive' /\ StartedIsKnown' /\ StartedOnce'
    BY <1>1, <1>8 DEF LiveIsActive, StartedIsKnown, StartedOnce
  <1> QED
    BY <1>1, <1>3, <1>5, <1>4, <1>6, <1>7, <1>9

-----------------------------------------------------------------------------
(* start_node and shutdown_node on the UI thread *)

\* The effect starts the node of the seed that is shown.
LEMMA EffectStartsStep ==
    ASSUME Inv, RunEffect, AutoStarts(app)
    PROVE  Inv'
  <1> USE DEF Inv, Kept, Fields
  <1>1. app.onboarded /\ ~app.nodeStarted /\ app.seed \in 1 .. db.created
    BY DEF AutoStarts, ProfilesTyped, NoProfile
  <1>2. CASE StartIsSkipped([app EXCEPT !.signing = app.seed])
    <2>1. /\ Kept(app, app', Fields \ {"signing", "effect"}) /\ UNCHANGED <<db, uiq>>
          /\ app'.signing = app.seed /\ app'.effect = FALSE
      BY <1>2 DEF RunEffect, StartNode
    <2>2. ProfilesTyped' /\ SignalsTyped'
      BY <2>1 DEF ProfilesTyped, SignalsTyped
    <2>3. TasksTyped' /\ StoreTyped'
      BY <2>1 DEF TasksTyped, TaskType, StoreTyped, Updates
    <2>4. NothingBeforeOnboarding' /\ StartedIsKnown'
      BY <2>1, QuietStep DEF NothingBeforeOnboarding, StartedIsKnown
    <2> QED
      BY <2>1, <2>2, <2>3, <2>4, QuietStep
  <1>3. CASE ~StartIsSkipped([app EXCEPT !.signing = app.seed])
    <2> DEFINE u == Task(app, app.seed, app.seed, "start", "starting")
    <2>1. UNCHANGED <<db, uiq>> /\ app.status # "connecting"
      BY <1>3 DEF RunEffect, StartIsSkipped
    <2>2. /\ u \in TaskType /\ u.by = "start" /\ u.pc = "starting" /\ u.token = app.token
          /\ u.profile = app.seed /\ u.sk = app.seed
      BY <1>1 DEF Task, TaskType, TasksTyped
    <2>3. /\ Kept(app, app', {"activeProfileId", "adding", "nodeStarted", "inviteCode", "test",
                              "irohNode", "outgoingTx", "invite", "token", "cancelled", "listed",
                              "known", "key", "late", "tested", "seed"})
          /\ app'.signing = app.seed /\ app'.status = "connecting" /\ app'.onboarded = TRUE
          /\ app'.effect = FALSE /\ app'.calls = app.calls + 1
          /\ app'.tasks = app.tasks \cup {u}
      <3> HIDE DEF Kept, Fields, Inv, u
      <3> DEFINE a == [app EXCEPT !.signing = app.seed]
      <3>1. /\ DOMAIN a = Fields /\ Kept(app, a, Fields \ {"signing"})
            /\ ~StartIsSkipped(a)
        BY <1>3 DEF Inv, Kept, Fields
      <3> HIDE DEF a
      <3>2. PICK b : b = StartNode(a, app.seed, {u})
        OBVIOUS
      <3>3. app' = [b EXCEPT !.effect = FALSE]
        BY <3>2 DEF RunEffect, a, u
      <3>4. IsStarted(a, app.seed, {u}, b)
        BY <3>1, <3>2, StartEffect
      <3> QED
        BY <3>1, <3>3, <3>4 DEF IsStarted, Kept, Fields
    <2> HIDE DEF u
    <2>4. ProfilesTyped' /\ SignalsTyped'
      BY <2>1, <2>3 DEF ProfilesTyped, SignalsTyped
    <2>5. TasksTyped'
      BY <2>1, <2>2, <2>3 DEF TasksTyped, TaskType
    <2>6. StoreTyped'
      BY <2>1 DEF StoreTyped, Updates
    <2>7. /\ NothingBeforeOnboarding' /\ ReplacedIsCancelled' /\ OneIdentity' /\ NodeIsOwn'
      BY <1>1, <2>1, <2>3 DEF NothingBeforeOnboarding, ReplacedIsCancelled, OneIdentity, NodeIsOwn
    <2>8. TasksAreConsistent'
      BY <2>2, <2>3 DEF TasksAreConsistent
    <2>9. Live' = Live \cup {u} /\ Started' = Started \cup {u}
      BY <2>2, <2>3 DEF Live, Started, Cancelled, TasksTyped
    <2>10. LiveIsActive'
      BY <2>2, <2>3, <2>9 DEF LiveIsActive, OneIdentity
    <2>11. ~app.late => Started = {}
      BY <1>1, <2>1 DEF StartedIsKnown
    <2>12. StartedIsKnown' /\ StartedOnce'
      BY <2>3, <2>9, <2>11 DEF StartedIsKnown, StartedOnce
    <2>13. NodeHasLoop'
      BY <1>1, <2>3 DEF NodeHasLoop
    <2> QED
      BY <2>1, <2>3, <2>4, <2>5, <2>6, <2>7, <2>8, <2>10, <2>12, <2>13
  <1> QED
    BY <1>2, <1>3

\* What holds when every earlier task is cancelled and none is starting anew.
LEMMA NoneLive ==
    ASSUME Inv,
           DOMAIN app' = Fields, DOMAIN db' = DOMAIN db,
           \A t \in app'.tasks : t \in app.tasks /\ t.token \in app'.cancelled,
           app'.nodeStarted = FALSE, app'.status = "offline",
           app'.inviteCode = NoProfile, app'.irohNode = NoProfile,
           app'.invite = NoTask \/ app'.invite.token # app'.token
    PROVE  /\ TasksAreConsistent' /\ LiveIsActive' /\ StartedIsKnown'
           /\ StartedOnce' /\ NodeHasLoop' /\ NodeIsOwn'
  <1>1. Live' = {} /\ Started' = {}
    BY DEF Live, Started, Cancelled
  <1>2. TasksAreConsistent' /\ LiveIsActive' /\ NodeHasLoop' /\ NodeIsOwn'
    BY <1>1 DEF Inv, TasksAreConsistent, LiveIsActive, NodeHasLoop, NodeIsOwn
  <1>3. StartedIsKnown' /\ StartedOnce'
    BY <1>1 DEF StartedIsKnown, StartedOnce
  <1> QED
    BY <1>2, <1>3

\* switch_profile leaves no live task behind and shows the other profile.
LEMMA SwitchStep ==
    ASSUME Inv, NEW p \in 1 .. db.created, Switch(p)
    PROVE  Inv'
  <1>1. PICK b : b = ShutdownNode(app)
    OBVIOUS
  <1>2. /\ app' = LoadProfile(b, p) /\ db' = [db EXCEPT !.active = p] /\ UNCHANGED uiq
        /\ app.onboarded
    BY <1>1 DEF Switch
  <1>3. IsShutDown(app, b)
    BY <1>1, ShutdownEffect DEF Inv
  <1>4. DOMAIN b = Fields
    BY <1>3 DEF Inv, IsShutDown, Kept
  <1>5. IsLoaded(b, p, app')
    BY <1>2, <1>4, LoadEffect
  <1> USE DEF Inv, Kept, Fields
  <1>6. /\ Kept(app, app', {"adding", "signing", "test", "invite", "calls", "tasks", "late", "tested"})
        /\ app'.seed = p /\ app'.activeProfileId = p /\ app'.onboarded = TRUE /\ app'.effect = TRUE
        /\ app'.cancelled = app.cancelled \cup {app.token} /\ app'.token = app.token + 1
        /\ app'.nodeStarted = FALSE /\ app'.status = "offline"
        /\ app'.inviteCode = NoProfile /\ app'.irohNode = NoProfile /\ app'.key = NoProfile
        /\ app'.outgoingTx = NoTask
    BY <1>3, <1>5 DEF IsShutDown, IsLoaded
  <1>7. app'.listed \in BOOLEAN /\ app'.known \in BOOLEAN
    BY <1>5 DEF IsLoaded
  <1>8. SignalsTyped'
    BY <1>6, <1>7 DEF SignalsTyped
  <1>9. ProfilesTyped'
    <2>1. db'.created = db.created /\ 0 \in 0 .. db.created /\ p \in 0 .. db.created
      BY <1>2 DEF StoreTyped
    <2>2. app'.signing \in 0 .. db.created /\ app'.test \subseteq 1 .. db.created
      BY <1>6 DEF ProfilesTyped
    <2> QED
      BY <1>6, <2>1, <2>2 DEF ProfilesTyped, NoProfile
  <1>10. StoreTyped'
    BY <1>2 DEF StoreTyped, Updates
  <1>11. TasksTyped'
    BY <1>2, <1>6 DEF TasksTyped, TaskType, StoreTyped, NoTask, NoProfile
  <1>12. ReplacedIsCancelled' /\ OneIdentity' /\ NothingBeforeOnboarding'
    BY <1>2, <1>6 DEF ReplacedIsCancelled, OneIdentity, NothingBeforeOnboarding, NoProfile, TasksTyped
  <1>13. \A t \in app'.tasks : t \in app.tasks /\ t.token \in app'.cancelled
    BY <1>6 DEF TasksTyped, TaskType, ReplacedIsCancelled
  <1>14. app'.invite.token # app'.token
    BY <1>6 DEF TasksTyped
  <1> QED
    BY <1>2, <1>6, <1>8, <1>9, <1>10, <1>11, <1>12, <1>13, <1>14, NoneLive

\* The process ends: the next one has no tasks, and the profile that was active.
LEMMA RelaunchStep ==
    ASSUME Inv, Relaunch
    PROVE  Inv'
  <1>1. /\ DOMAIN app' = Fields /\ UNCHANGED db /\ uiq' = <<>>
        /\ app'.tasks = {} /\ app'.cancelled = {} /\ app'.token = 0 /\ app'.calls = 0
        /\ app'.test = {} /\ app'.invite = NoTask /\ app'.outgoingTx = NoTask
        /\ app'.nodeStarted = FALSE /\ app'.status = "offline" /\ app'.adding = FALSE
        /\ app'.late = FALSE /\ app'.tested = FALSE /\ app'.effect = TRUE
        /\ app'.signing = NoProfile /\ app'.inviteCode = NoProfile
        /\ app'.irohNode = NoProfile /\ app'.key = NoProfile
        /\ app'.seed = db.active /\ app'.activeProfileId = db.active
        /\ app'.onboarded = (db.active # NoProfile)
        /\ app'.listed \in BOOLEAN /\ app'.known \in BOOLEAN
    <2>1. DOMAIN Fresh = Fields
      BY DEF Fresh, Fields
    <2>2. CASE db.active = NoProfile
      BY <2>1, <2>2 DEF Relaunch, Fresh
    <2>3. CASE db.active # NoProfile
      <3>1. app' = LoadProfile(Fresh, db.active) /\ UNCHANGED db /\ uiq' = <<>>
        BY <2>3 DEF Relaunch
      <3> QED
        <4>1. IsLoaded(Fresh, db.active, app')
          BY <2>1, <3>1, LoadEffect
        <4>2. Kept(Fresh, app', Fields \ {"seed", "activeProfileId", "onboarded", "effect", "listed", "known"})
          BY <4>1 DEF IsLoaded
        <4>3. /\ DOMAIN app' = Fields
              /\ app'.tasks = {} /\ app'.cancelled = {} /\ app'.token = 0 /\ app'.calls = 0
              /\ app'.test = {} /\ app'.invite = NoTask /\ app'.outgoingTx = NoTask
              /\ app'.nodeStarted = FALSE /\ app'.status = "offline" /\ app'.adding = FALSE
              /\ app'.late = FALSE /\ app'.tested = FALSE
              /\ app'.signing = NoProfile /\ app'.inviteCode = NoProfile
              /\ app'.irohNode = NoProfile /\ app'.key = NoProfile
          BY <2>1, <4>2 DEF Fresh, Kept, Fields
        <4>4. /\ app'.seed = db.active /\ app'.activeProfileId = db.active /\ app'.onboarded = TRUE
              /\ app'.effect = TRUE /\ app'.listed \in BOOLEAN /\ app'.known \in BOOLEAN
          BY <4>1 DEF IsLoaded
        <4> QED
          BY <2>3, <3>1, <4>3, <4>4
    <2> QED
      BY <2>2, <2>3
  <1> USE DEF Inv, Kept, Fields
  <1>2. SignalsTyped'
    BY <1>1 DEF SignalsTyped
  <1>3. ProfilesTyped'
    BY <1>1 DEF ProfilesTyped, NoProfile, StoreTyped
  <1>4. TasksTyped' /\ StoreTyped'
    BY <1>1 DEF TasksTyped, TaskType, StoreTyped, Updates, NoTask, NoProfile
  <1>5. ReplacedIsCancelled' /\ OneIdentity'
    BY <1>1 DEF ReplacedIsCancelled, OneIdentity
  <1>6. NothingBeforeOnboarding'
    BY <1>1, ZenonT(60) DEF NothingBeforeOnboarding
  <1> QED
    BY <1>1, <1>2, <1>3, <1>6, <1>4, <1>5, NoneLive

\* A profile is created: nothing is left of another one, and its node is started.
LEMMA OnboardStep ==
    ASSUME Inv, Onboard
    PROVE  Inv'
  <1> DEFINE p == db.created + 1
  <1>1. /\ ~app.onboarded /\ db.created < MaxProfiles /\ UNCHANGED uiq
        /\ db' = [db EXCEPT !.created = p, !.active = p]
    BY DEF Onboard
  <1>2. p \in 1 .. MaxProfiles /\ db.created \in Nat /\ MaxProfiles \in Nat
    BY <1>1, BoundsAssumption DEF Inv, StoreTyped
  <1>3. PICK c : /\ Kept(app, c, {"seed", "onboarded", "signing", "test", "invite", "calls", "tasks", "late", "tested"})
                 /\ c.activeProfileId = p /\ c.adding = FALSE
                 /\ c.nodeStarted = FALSE /\ c.status = "offline"
                 /\ c.inviteCode = NoProfile /\ c.irohNode = NoProfile /\ c.key = NoProfile
                 /\ \/ /\ c.cancelled = app.cancelled \cup {app.token} /\ c.token = app.token + 1
                       /\ c.outgoingTx = NoTask
                    \/ /\ c.cancelled = app.cancelled /\ c.token = app.token
                       /\ c.outgoingTx = app.outgoingTx
                       /\ app.tasks = {} /\ app.invite = NoTask
                 /\ c.listed \in BOOLEAN /\ c.known \in BOOLEAN
                 /\ app' = StartNode(c, p, {})
    <2>1. PICK a : a = [app EXCEPT !.activeProfileId = p]
      OBVIOUS
    <2>2. DOMAIN a = Fields /\ Kept(app, a, Fields \ {"activeProfileId"}) /\ a.activeProfileId = p
      BY <2>1 DEF Inv, Kept, Fields
    <2>3. CASE app.adding
      <3>1. PICK b : b = ShutdownNode(a)
        OBVIOUS
      <3>2. IsShutDown(a, b)
        BY <2>2, <3>1, ShutdownEffect
      <3>3. app' = StartNode([b EXCEPT !.adding = FALSE], p, {})
        BY <2>1, <2>3, <3>1 DEF Onboard
      <3>4. app.listed \in BOOLEAN
        BY DEF Inv, SignalsTyped
      <3>5. PICK c : c = [b EXCEPT !.adding = FALSE]
        OBVIOUS
      <3>6. DOMAIN b = Fields /\ Kept(b, c, Fields \ {"adding"}) /\ c.adding = FALSE
        BY <2>2, <3>2, <3>5 DEF IsShutDown, Kept, Fields
      <3>7. /\ Kept(app, c, {"seed", "onboarded", "signing", "test", "invite", "calls", "tasks", "late", "tested"})
            /\ c.activeProfileId = p
            /\ c.nodeStarted = FALSE /\ c.status = "offline"
            /\ c.inviteCode = NoProfile /\ c.irohNode = NoProfile /\ c.key = NoProfile
            /\ c.cancelled = app.cancelled \cup {app.token} /\ c.token = app.token + 1
            /\ c.outgoingTx = NoTask /\ c.listed = app.listed /\ c.known = FALSE
        BY <2>2, <3>2, <3>6 DEF IsShutDown, Kept, Fields
      <3> QED
        BY <3>3, <3>4, <3>5, <3>6, <3>7
    <2>4. CASE ~app.adding
      <3>1. /\ ~app.nodeStarted /\ app.status = "offline" /\ app.tasks = {} /\ app.invite = NoTask
            /\ app.inviteCode = NoProfile /\ app.irohNode = NoProfile /\ app.key = NoProfile
        BY <1>1, <2>4 DEF Inv, NothingBeforeOnboarding
      <3>2. app' = StartNode([a EXCEPT !.adding = FALSE], p, {})
        BY <2>1, <2>4 DEF Onboard
      <3>3. app.listed \in BOOLEAN /\ app.known \in BOOLEAN /\ app.nodeStarted \in BOOLEAN
        BY DEF Inv, SignalsTyped
      <3>4. PICK c : c = [a EXCEPT !.adding = FALSE]
        OBVIOUS
      <3>5. Kept(a, c, Fields \ {"adding"}) /\ c.adding = FALSE
        BY <2>2, <3>4 DEF Kept, Fields
      <3> QED
        BY <2>2, <3>1, <3>2, <3>3, <3>4, <3>5 DEF Kept, Fields
    <2> QED
      BY <2>3, <2>4
  <1>4. DOMAIN c = Fields /\ ~StartIsSkipped(c)
    BY <1>3 DEF Inv, Kept, StartIsSkipped
  <1>5. IsStarted(c, p, {}, app')
    BY <1>3, <1>4, StartEffect
  <1> USE DEF Inv, Kept, Fields
  <1>7. /\ Kept(app, app', {"test", "invite", "late", "tested"})
        /\ app'.activeProfileId = p /\ app'.seed = p /\ app'.signing = p
        /\ app'.status = "connecting" /\ app'.onboarded = TRUE /\ app'.effect = TRUE
        /\ app'.adding = FALSE /\ app'.nodeStarted = FALSE
        /\ app'.calls = app.calls + 1 /\ app'.tasks = app.tasks
        /\ app'.inviteCode = NoProfile /\ app'.irohNode = NoProfile /\ app'.key = NoProfile
        /\ app'.outgoingTx = c.outgoingTx /\ app'.token = c.token /\ app'.cancelled = c.cancelled
        /\ app'.listed = c.listed /\ app'.known = c.known
    BY <1>3, <1>5 DEF IsStarted
  <1> HIDE DEF p
  <1>8. /\ db'.created = p /\ db'.active = p /\ p = db.created + 1 /\ DOMAIN db' = DOMAIN db
        /\ db'.chats = db.chats /\ db'.messages = db.messages
    BY <1>1 DEF p
  <1>9. SignalsTyped'
    BY <1>3, <1>7 DEF SignalsTyped
  <1>10. ProfilesTyped'
    BY <1>2, <1>7, <1>8 DEF ProfilesTyped, NoProfile
  <1>11. StoreTyped'
    <2>1. Updates \subseteq Updates'
      BY <1>2, <1>8 DEF Updates
    <2>2. uiq' \in Seq(Updates')
      BY <1>1, <2>1 DEF StoreTyped
    <2>3. db'.messages \subseteq [owner : 1 .. p, savedUnder : 1 .. p]
      BY <1>2, <1>8 DEF StoreTyped
    <2>4. db'.chats \subseteq 1 .. p
      BY <1>2, <1>8 DEF StoreTyped
    <2> QED
      BY <1>2, <1>8, <2>2, <2>3, <2>4 DEF StoreTyped, Updates
  <1>12. app.token \in Nat /\ c.token \in Nat /\ app.token <= c.token /\ app.calls \in Nat
    BY <1>3 DEF TasksTyped
  <1>13. \A t \in app.tasks : t \in TaskType' /\ t.token \in c.cancelled
    BY <1>2, <1>3, <1>7, <1>8, <1>12 DEF TasksTyped, TaskType, ReplacedIsCancelled
  <1>15. TasksTyped'
    <2>1. app'.outgoingTx \in [profile : 0 .. p, token : 0 .. c.token]
      BY <1>2, <1>3, <1>7, <1>8, <1>12 DEF TasksTyped, NoTask, NoProfile
    <2>2. app'.invite \in [profile : 0 .. p, token : 0 .. c.token]
      BY <1>2, <1>3, <1>7, <1>8, <1>12 DEF TasksTyped
    <2>3. \A n \in app'.cancelled : n \in Nat /\ n < c.token
      BY <1>3, <1>7, <1>12 DEF TasksTyped
    <2> QED
      BY <1>7, <1>8, <1>12, <1>13, <2>1, <2>2, <2>3 DEF TasksTyped
  <1>16. ReplacedIsCancelled'
    BY <1>3, <1>7, <1>12 DEF ReplacedIsCancelled
  <1>17. OneIdentity' /\ NothingBeforeOnboarding' /\ NodeHasLoop' /\ NodeIsOwn'
    BY <1>2, <1>7, <1>8 DEF OneIdentity, NothingBeforeOnboarding, NodeHasLoop, NodeIsOwn, NoProfile
  <1>18. TasksAreConsistent'
    BY <1>7 DEF TasksAreConsistent
  <1>19. Live' = {} /\ Started' = {}
    BY <1>7, <1>13 DEF Live, Started, Cancelled
  <1>20. LiveIsActive' /\ StartedOnce'
    BY <1>19 DEF LiveIsActive, StartedOnce
  <1>21. StartedIsKnown'
    <2>1. app.invite # NoTask => app.invite.token # c.token
      BY <1>3, <1>12 DEF TasksTyped
    <2> QED
      BY <1>7, <1>19, <2>1 DEF StartedIsKnown
  <1> QED
    BY <1>7, <1>8, <1>9, <1>10, <1>11, <1>15, <1>16, <1>17, <1>18, <1>20, <1>21

-----------------------------------------------------------------------------
(* Every behaviour *)

\* Every action keeps the invariant.
LEMMA StepInv == Inv /\ [Next]_vars => Inv'
  <1> SUFFICES ASSUME Inv, [Next]_vars PROVE Inv'
    OBVIOUS
  <1>1. CASE Onboard
    BY <1>1, OnboardStep
  <1>2. CASE AddProfile \/ CancelAdd
    BY <1>2, ViewSteps
  <1>3. CASE \E p \in 1 .. db.created : Switch(p)
    BY <1>3, SwitchStep
  <1>4. CASE RunEffect
    BY <1>4, EffectStartsStep, OtherQuietSteps
  <1>5. CASE InviteSubmit \/ InviteConnects \/ InviteFails
    BY <1>5, InviteSteps
  <1>6. CASE TestP2p \/ TestNodeReady \/ TestFails
    BY <1>6, TestLoopSteps, OtherQuietSteps
  <1>7. CASE UserSend \/ UiApply
    BY <1>7, StoreSteps
  <1>8. CASE Relaunch
    BY <1>8, RelaunchStep
  <1>9. ASSUME NEW t \in app.tasks,
               \/ FinishStart(t) \/ BindFails(t)
               \/ HandleHello(t) \/ HandleChat(t) \/ DeliverToUi(t) \/ LoopEnds(t)
        PROVE  Inv'
    BY <1>9, FinishStartStep, BindFailsStep, HelloStep, ChatSteps, LoopEndsStep
  <1>10. CASE UNCHANGED vars
    BY <1>10, OtherQuietSteps
  <1> QED
    BY <1>1, <1>2, <1>3, <1>4, <1>5, <1>6, <1>7, <1>8, <1>9, <1>10 DEF Next

\* The invariant holds in every state of every behaviour.
LEMMA Invariance == Spec => []Inv
  BY InitInv, StepInv, PTL DEF Spec

\* The fields of memory, the queue and the tables keep their types.
THEOREM TypeCorrect == Spec => []TypeOK
  <1>1. Inv => TypeOK
    <2> SUFFICES ASSUME Inv PROVE TypeOK
      OBVIOUS
    <2> USE DEF Inv, ProfilesTyped, TasksTyped, SignalsTyped, StoreTyped, Updates
    <2>1. /\ {app.activeProfileId, app.seed, app.signing, app.inviteCode, app.irohNode, app.key}
               \subseteq 0 .. db.created
          /\ {app.outgoingTx, app.invite} \subseteq [profile : 0 .. db.created, token : 0 .. app.token]
      OBVIOUS
    <2>2. /\ app.tasks \subseteq TaskType /\ app.test \subseteq 1 .. db.created
          /\ app.cancelled \subseteq {n \in Nat : n < app.token}
      OBVIOUS
    <2>3. {app.onboarded, app.adding, app.nodeStarted, app.effect, app.listed, app.known, app.late,
           app.tested} \subseteq BOOLEAN
      OBVIOUS
    <2> QED
      BY <2>1, <2>2, <2>3 DEF TypeOK
  <1> QED
    BY <1>1, Invariance, PTL

\* Whatever start_node was doing when the user switched or added a profile, its token
\* is cancelled: only tasks of the active profile are left running.
THEOREM OnlyActiveRuns == Spec => []LiveIsActive
  <1>1. Inv => LiveIsActive
    BY DEF Inv
  <1> QED
    BY <1>1, Invariance, PTL

\* The profile shown, the seed a node would be started with and the profile that a
\* restart brings back are one.
THEOREM OneIdentityAlways == Spec => []OneIdentity
  <1>1. Inv => OneIdentity
    BY DEF Inv
  <1> QED
    BY <1>1, Invariance, PTL

\* What a step does to a status that was "connecting" or becomes it: only onboarding
\* leaves no task behind it.
LEMMA ConnectingStep ==
    ASSUME Inv, [Next]_vars, ~Stalled, Stalled'
    PROVE  Onboard
  <1> USE DEF Inv, Kept, Fields
  <1>0. app'.status = "connecting" /\ \A t \in Live' : t.pc # "starting"
    BY DEF Stalled
  <1>1. app.status # "connecting" \/ \E t \in Live : t.pc = "starting"
    BY DEF Stalled
  <1>2. ASSUME app'.status = app.status, app'.cancelled = app.cancelled,
               \A t \in app.tasks : t.pc = "starting" => t \in app'.tasks
        PROVE  FALSE
    <2>1. PICK t \in Live : t.pc = "starting"
      BY <1>0, <1>1, <1>2
    <2>2. t \in Live'
      BY <1>2, <2>1 DEF Live, Cancelled
    <2> QED
      BY <1>0, <2>1, <2>2
  <1>3. CASE AddProfile \/ CancelAdd \/ InviteSubmit \/ InviteFails \/ UserSend \/ UiApply \/ TestFails
             \/ UNCHANGED vars
    <2>1. app'.status = app.status /\ app'.cancelled = app.cancelled /\ app'.tasks = app.tasks
      BY <1>3 DEF AddProfile, CancelAdd, InviteSubmit, InviteFails, UserSend, UiApply, TestFails, vars
    <2> QED
      BY <1>2, <2>1
  <1>4. CASE InviteConnects
    BY <1>0, <1>4 DEF InviteConnects
  <1>5. CASE TestP2p \/ TestNodeReady
    <2>1. CASE TestP2p /\ app.irohNode = NoProfile
      <3>1. app'.status = app.status /\ app'.cancelled = app.cancelled /\ app'.tasks = app.tasks
        BY <2>1 DEF TestP2p
      <3> QED
        BY <1>2, <3>1
    <2>2. CASE TestP2p /\ app.irohNode # NoProfile
      BY <1>0, <2>2 DEF TestP2p, TestLoop
    <2>3. CASE TestNodeReady
      BY <1>0, <2>3 DEF TestNodeReady, TestLoop
    <2> QED
      BY <1>5, <2>1, <2>2, <2>3
  <1>6. ASSUME NEW p \in 1 .. db.created, Switch(p) PROVE FALSE
    <2>1. app'.status = "offline"
      BY <1>6 DEF Switch, LoadProfile, ShutdownNode, Emptied
    <2> QED
      BY <1>0, <2>1
  <1>7. CASE Relaunch
    <2>1. app'.status = "offline"
      BY <1>7 DEF Relaunch, LoadProfile, Fresh
    <2> QED
      BY <1>0, <2>1
  <1>8. CASE RunEffect
    <2> DEFINE a == [app EXCEPT !.signing = app.seed]
               u == Task(app, app.seed, app.seed, "start", "starting")
    <2>1. CASE AutoStarts(app) /\ ~StartIsSkipped(a)
      <3>1. /\ app'.tasks = app.tasks \cup {u} /\ app'.cancelled = app.cancelled
            /\ u.pc = "starting" /\ u.token = app.token
        BY <1>8, <2>1 DEF RunEffect, StartNode, Task
      <3>2. u \in Live'
        BY <3>1 DEF Live, Cancelled, TasksTyped
      <3> QED
        BY <1>0, <3>1, <3>2
    <2>2. CASE ~(AutoStarts(app) /\ ~StartIsSkipped(a))
      <3>1. app'.status = app.status /\ app'.cancelled = app.cancelled /\ app'.tasks = app.tasks
        BY <1>8, <2>2 DEF RunEffect, StartNode
      <3> QED
        BY <1>2, <3>1
    <2> QED
      BY <2>1, <2>2
  <1>9. ASSUME NEW t \in app.tasks, FinishStart(t) \/ BindFails(t) PROVE FALSE
    BY <1>0, <1>9 DEF FinishStart, BindFails
  <1>10. ASSUME NEW t \in app.tasks,
                HandleHello(t) \/ HandleChat(t) \/ DeliverToUi(t) \/ LoopEnds(t)
         PROVE  FALSE
    <2>1. /\ app'.status = app.status /\ app'.cancelled = app.cancelled
          /\ t.pc # "starting" \/ app'.tasks = app.tasks
          /\ \A u \in app.tasks : u # t => u \in app'.tasks
      <3>1. CASE HandleHello(t)
        BY <3>1 DEF HandleHello
      <3>2. CASE HandleChat(t) \/ DeliverToUi(t)
        <4>1. PICK pc \in {"select", "deliver"} : app'.tasks = Moved(t, pc)
          BY <3>2 DEF HandleChat, DeliverToUi
        <4>2. \A u \in app.tasks : u # t => u \in app'.tasks
          BY <4>1 DEF Moved
        <4>3. app'.status = app.status /\ app'.cancelled = app.cancelled /\ t.pc # "starting"
          BY <3>2 DEF HandleChat, DeliverToUi, Receives
        <4> QED
          BY <4>2, <4>3
      <3>3. CASE LoopEnds(t)
        BY <3>3 DEF LoopEnds, Ended
      <3> QED
        BY <1>10, <3>1, <3>2, <3>3
    <2> QED
      BY <1>2, <2>1
  <1> QED
    BY <1>3, <1>4, <1>5, <1>6, <1>7, <1>8, <1>9, <1>10 DEF Next

\* A status that is left at "connecting" with no task comes from onboarding alone: no
\* failed start, switch, restart or order of them locks a profile out of its node.
THEOREM OnlyOnboardingLocks == Spec => OnlyOnboardingStalls
  <1>1. Inv /\ [Next]_vars => (~Stalled /\ Stalled' => db'.created = db.created + 1)
    <2> SUFFICES ASSUME Inv, [Next]_vars, ~Stalled, Stalled' PROVE db'.created = db.created + 1
      OBVIOUS
    <2>1. Onboard
      BY ConnectingStep
    <2> QED
      BY <2>1 DEF Onboard, Inv
  <1> QED
    BY <1>1, Invariance, PTL DEF Spec, OnlyOnboardingStalls

\* The guard of start_node keeps a profile at one endpoint and one loop, as long as no
\* task went on after its profile was left.
THEOREM OneLoopPerProfile == Spec => []StartedOnce
  <1>1. Inv => StartedOnce
    BY DEF Inv
  <1> QED
    BY <1>1, Invariance, PTL

\* The invite code, the node and the queue of typed messages belong to the active
\* profile, as long as no task went on after its profile was left and nobody pressed
\* the test button.
THEOREM NodeOfActiveProfile == Spec => []OwnNodeUnlessLate
  <1>1. Inv => OwnNodeUnlessLate
    <2> SUFFICES ASSUME Inv PROVE OwnNodeUnlessLate
      OBVIOUS
    <2>1. NodeIsOwn /\ NodeHasLoop
      BY DEF Inv
    <2> QED
      BY <2>1 DEF OwnNodeUnlessLate, NodeIsOwn, NodeHasLoop
  <1> QED
    BY <1>1, Invariance, PTL

\* Only a chat message changes the cached key to anything but nothing, and the active
\* profile never changes under a key.
LEMMA KeyStep ==
    ASSUME Inv, [Next]_vars, \A t \in app.tasks : ~HandleChat(t)
    PROVE  \/ app'.key = app.key /\ app'.activeProfileId = app.activeProfileId
           \/ app'.key = NoProfile
  <1> USE DEF Inv, Fields
  <1>1. CASE Onboard
    <2>1. CASE app.adding
      BY <1>1, <2>1 DEF Onboard, StartNode, ShutdownNode, Emptied
    <2>2. CASE ~app.adding
      <3>1. app.key = NoProfile
        BY <1>1, <2>2 DEF Onboard, NothingBeforeOnboarding
      <3> QED
        BY <1>1, <2>2, <3>1 DEF Onboard, StartNode
    <2> QED
      BY <2>1, <2>2
  <1>2. ASSUME NEW p \in 1 .. db.created, Switch(p) PROVE app'.key = NoProfile
    BY <1>2 DEF Switch, LoadProfile, ShutdownNode, Emptied
  <1>3. CASE Relaunch
    BY <1>3 DEF Relaunch, LoadProfile, Fresh
  <1>4. CASE RunEffect
    BY <1>4 DEF RunEffect, StartNode
  <1>5. CASE TestP2p \/ TestNodeReady \/ TestFails
    BY <1>5, ZenonT(60) DEF TestP2p, TestNodeReady, TestFails, TestLoop
  <1>6. CASE AddProfile \/ CancelAdd \/ InviteSubmit \/ InviteConnects \/ InviteFails
    BY <1>6 DEF AddProfile, CancelAdd, InviteSubmit, InviteConnects, InviteFails
  <1>7. CASE UserSend \/ UiApply \/ UNCHANGED vars
    BY <1>7 DEF UserSend, UiApply, vars
  <1>8. ASSUME NEW t \in app.tasks,
               FinishStart(t) \/ BindFails(t) \/ HandleHello(t) \/ DeliverToUi(t) \/ LoopEnds(t)
        PROVE  app'.key = app.key /\ app'.activeProfileId = app.activeProfileId
    BY <1>8 DEF FinishStart, BindFails, HandleHello, DeliverToUi, LoopEnds
  <1> QED
    BY <1>1, <1>2, <1>3, <1>4, <1>5, <1>6, <1>7, <1>8 DEF Next

\* A cached key of another profile comes from a loop that is cancelled, or from one of
\* the test button, with a message in hand: no other step brings one.
THEOREM ForeignKeysAreLate == Spec => ForeignKeyIsLate
  <1> DEFINE Late == \E t \in app.tasks : t.sk = app'.key /\ (Cancelled(t) \/ t.by = "test")
  <1>1. Inv /\ Inv' /\ [Next]_vars => (~Foreign(app) /\ Foreign(app') => Late)
    <2> SUFFICES ASSUME Inv, [Next]_vars, ~Foreign(app), Foreign(app') PROVE Late
      OBVIOUS
    <2>1. ASSUME NEW t \in app.tasks, HandleChat(t) PROVE Late
      <3>1. app'.key \in {app.key, t.sk} /\ app'.activeProfileId = app.activeProfileId
        BY <2>1 DEF HandleChat, Inv, Fields
      <3>2. app'.key = t.sk /\ t.sk # app.activeProfileId
        BY <3>1 DEF Foreign
      <3>3. Cancelled(t) \/ t.by = "test"
        BY <3>2 DEF Inv, LiveIsActive, Started, Live, TasksAreConsistent, TasksTyped, TaskType
      <3> QED
        BY <3>2, <3>3
    <2>2. \E t \in app.tasks : HandleChat(t)
      BY KeyStep DEF Foreign
    <2> QED
      BY <2>1, <2>2
  <1> QED
    BY <1>1, Invariance, StepInv, PTL DEF Spec, ForeignKeyIsLate
=============================================================================
