----------------------------- MODULE Lifecycle -----------------------------
(* One running application and its profiles: onboarding, adding and switching
   profiles, the effect that starts the node, start_node and shutdown_node, and
   the tasks of start_node, which outlive a switch: each first awaits its
   endpoint and then becomes a message loop.  The button Test P2P starts another
   loop, on the node that is there or on one of its own.

   A task spawned in a component is dropped when that component is unmounted, which
   happens before the task is polled again.  So the task that start_node spawns from
   Onboarding is lost: start_node itself sets IS_ONBOARDED, and App then shows the
   main view.  Tasks spawned by the effect belong to App and go on.

   The profiles know one and the same peer, so that they share a chat id; what
   a chat holds and how messages travel is the subject of Messenger.  A profile
   is known by its id, and its seed phrase, keys, endpoint and invite code by
   the profile.  A handler of the UI thread is one step. *)
EXTENDS Naturals, Sequences

CONSTANTS
    MaxProfiles,   \* bound: profiles created
    MaxSwitches,   \* bound: switches of profile
    MaxMessages,   \* bound: messages and Hellos handled, messages typed
    MaxInvites,    \* bound: invite codes submitted
    MaxEvents      \* bound: endpoints that cannot be bound, restarts of the process and
                   \* uses of the button Test P2P, together

ASSUME BoundsAssumption ==
    /\ MaxProfiles \in Nat /\ MaxSwitches \in Nat
    /\ MaxMessages \in Nat /\ MaxInvites \in Nat /\ MaxEvents \in Nat

VARIABLES
    app,  \* the signals and statics of state.rs, and the tasks of start_node
    uiq,  \* the channel of UI_UPDATE_TX
    db,   \* the database
    used  \* how much of each bound is used up

vars == <<app, uiq, db, used>>

NoProfile == 0
NoTask == [profile |-> NoProfile, token |-> 0]

\* Memory after start.  The fields not named as in the code:
\*   listed: the peer is in CHATS          known: it is in PEER_IDS and PEER_PUBKEYS
\*   key: whose key SYM_KEYS holds for it  token: the CancellationToken in NODE_CANCEL
\*   cancelled: tokens that are cancelled  calls: calls of start_node that were not skipped
\*   effect: a signal was written that the auto-start effect is subscribed to
\*   signing: the profile of SIGNING_KEY_BYTES
\*   invite: the task of the invite modal, awaiting its Hello
\*   test: the task of the button Test P2P, awaiting a node for the key it has read
\*   late: a task went on after its profile was left (only properties read it)
\*   tested: the test button has started a loop (only properties read it)
Fresh ==
    [activeProfileId |-> NoProfile, seed |-> NoProfile, onboarded |-> FALSE, adding |-> FALSE,
     nodeStarted |-> FALSE, status |-> "offline", inviteCode |-> NoProfile,
     signing |-> NoProfile, test |-> {}, irohNode |-> NoProfile, outgoingTx |-> NoTask, invite |-> NoTask, token |-> 0, cancelled |-> {},
     calls |-> 0, tasks |-> {}, effect |-> TRUE, listed |-> FALSE, known |-> FALSE, key |-> NoProfile,
     late |-> FALSE, tested |-> FALSE]

Init ==
    /\ app = Fresh
    /\ uiq = <<>>
    /\ db = [created |-> 0, active |-> NoProfile, chats |-> {}, messages |-> {}]
    /\ used = [switches |-> 0, messages |-> 0, invites |-> 0, events |-> 0]

-----------------------------------------------------------------------------
(* The functions of state.rs, from memory to memory *)

Cancelled(t) == t.token \in app.cancelled

\* As StartIsSkipped, without regard to a node that is being created.
StartIsSkippedWhenStarted(a) == a.nodeStarted

\* The early return of start_node.
StartIsSkipped(a) == a.status = "connecting" \/ a.nodeStarted

\* A message loop of the node of profile p, with the keys of profile sk.
Task(a, p, sk, by, pc) ==
    [call |-> a.calls, by |-> by, profile |-> p, sk |-> sk, token |-> a.token, pc |-> pc]

\* start_node, of whose task `spawned` is left: nothing when it is called in Onboarding.
StartNode(a, p, spawned) ==
    IF StartIsSkipped(a)
    THEN a
    ELSE [a EXCEPT !.seed = p, !.signing = p, !.status = "connecting", !.onboarded = TRUE, !.effect = TRUE,
                   !.calls = @ + 1, !.tasks = @ \cup spawned]

\* As Emptied, without clearing SYM_KEYS.
EmptiedButKeys(a) ==
    [a EXCEPT !.outgoingTx = NoTask, !.irohNode = NoProfile, !.known = FALSE]

\* Steps 2 to 4 of shutdown_node.
Emptied(a) ==
    [a EXCEPT !.outgoingTx = NoTask, !.irohNode = NoProfile, !.known = FALSE, !.key = NoProfile]

\* As ShutdownNode, without NODE_CANCEL.cancel().
ShutdownUncancelled(a) ==
    [Emptied(a) EXCEPT !.nodeStarted = FALSE, !.status = "offline", !.inviteCode = NoProfile,
                       !.token = @ + 1, !.effect = TRUE]

\* As ShutdownNode, keeping the cancelled token.
ShutdownSameToken(a) ==
    [Emptied(a) EXCEPT !.cancelled = @ \cup {a.token}, !.nodeStarted = FALSE,
                       !.status = "offline", !.inviteCode = NoProfile, !.effect = TRUE]

\* As ShutdownNode, without resetting CONNECTION_STATUS.
ShutdownSameStatus(a) ==
    [Emptied(a) EXCEPT !.cancelled = @ \cup {a.token}, !.nodeStarted = FALSE,
                       !.inviteCode = NoProfile, !.token = @ + 1, !.effect = TRUE]

\* As ShutdownNode, without resetting INVITE_CODE.
ShutdownSameInvite(a) ==
    [Emptied(a) EXCEPT !.cancelled = @ \cup {a.token}, !.nodeStarted = FALSE,
                       !.status = "offline", !.token = @ + 1, !.effect = TRUE]

ShutdownNode(a) ==
    [Emptied(a) EXCEPT !.cancelled = @ \cup {a.token}, !.nodeStarted = FALSE,
                       !.status = "offline", !.inviteCode = NoProfile, !.token = @ + 1,
                       !.effect = TRUE]

\* load_profile and load_and_restore; the peer maps only ever gain entries here.
LoadProfile(a, p) ==
    [a EXCEPT !.seed = p, !.activeProfileId = p, !.onboarded = TRUE, !.effect = TRUE,
              !.listed = p \in db.chats, !.known = @ \/ p \in db.chats]

-----------------------------------------------------------------------------
(* The UI thread *)

Event == used.events < MaxEvents /\ used' = [used EXCEPT !.events = @ + 1]

\* on_start and on_restore: a profile is created and start_node called, whose task is
\* dropped with Onboarding.
Onboard ==
    /\ ~app.onboarded
    /\ db.created < MaxProfiles
    /\ LET p == db.created + 1
           a == [app EXCEPT !.activeProfileId = p]
           b == IF app.adding THEN ShutdownNode(a) ELSE a
       IN /\ db' = [db EXCEPT !.created = p, !.active = p]
          /\ app' = StartNode([b EXCEPT !.adding = FALSE], p, {})
    /\ UNCHANGED <<uiq, used>>

\* The button for a new profile leaves the main view, and with it the tasks of its
\* components; the node keeps running.
AddProfile ==
    /\ app.onboarded
    /\ app' = [app EXCEPT !.onboarded = FALSE, !.adding = TRUE, !.effect = TRUE,
                          !.invite = NoTask, !.test = {}]
    /\ UNCHANGED <<uiq, db, used>>

CancelAdd ==
    /\ app.adding
    /\ app' = [app EXCEPT !.onboarded = TRUE, !.adding = FALSE, !.effect = TRUE]
    /\ UNCHANGED <<uiq, db, used>>

\* switch_profile
Switch(p) ==
    /\ app.onboarded
    /\ p # app.activeProfileId
    /\ used.switches < MaxSwitches
    /\ used' = [used EXCEPT !.switches = @ + 1]
    /\ db' = [db EXCEPT !.active = p]
    /\ app' = LoadProfile(ShutdownNode(app), p)
    /\ UNCHANGED uiq

\* As AutoStarts, only for a node that was shut down.
AutoStartsWhenOffline(a) ==
    a.onboarded /\ ~a.nodeStarted /\ a.seed # NoProfile /\ a.status = "offline"

AutoStarts(a) == a.onboarded /\ ~a.nodeStarted /\ a.seed # NoProfile

\* The effect runs some time after a write to a signal it has read.
RunEffect ==
    /\ app.effect
    /\ app' = [(IF AutoStarts(app)
                THEN StartNode([app EXCEPT !.signing = app.seed], app.seed,
                               {Task(app, app.seed, app.seed, "start", "starting")})
                ELSE app) EXCEPT !.effect = FALSE]
    /\ UNCHANGED <<uiq, db, used>>

\* An invite code is submitted.
InviteSubmit ==
    /\ app.onboarded /\ app.nodeStarted
    /\ app.irohNode # NoProfile /\ app.invite = NoTask
    /\ used.invites < MaxInvites
    /\ used' = [used EXCEPT !.invites = @ + 1]
    /\ app' = [app EXCEPT !.invite = [profile |-> app.irohNode, token |-> app.token]]
    /\ UNCHANGED <<uiq, db>>

\* The Hello is sent: the peer is listed, saved and registered for whoever is active now.
InviteConnects ==
    /\ app.invite # NoTask
    /\ app' = [app EXCEPT !.invite = NoTask, !.listed = TRUE, !.known = TRUE,
                          !.status = "connected", !.effect = TRUE,
                          !.late = @ \/ Cancelled(app.invite)]
    /\ db' = [db EXCEPT !.chats = @ \cup {app.activeProfileId}]
    /\ UNCHANGED <<uiq, used>>

InviteFails ==
    /\ app.invite # NoTask
    /\ app' = [app EXCEPT !.invite = NoTask]
    /\ UNCHANGED <<uiq, db, used>>

\* run_test_p2p from its last await on: code, status and a loop with the token of now.
TestLoop(a, p, sk) ==
    [a EXCEPT !.irohNode = p, !.inviteCode = p, !.status = "online", !.nodeStarted = TRUE,
              !.effect = TRUE, !.outgoingTx = [profile |-> p, token |-> a.token],
              !.tested = TRUE, !.calls = @ + 1, !.tasks = @ \cup {Task(a, p, sk, "test", "select")}]

\* The button, which cannot be pressed before the effect has first run: the node that
\* is there is taken at once, else one is awaited.
TestP2p ==
    /\ app.onboarded /\ app.signing # NoProfile /\ app.test = {}
    /\ Event
    /\ app' = IF app.irohNode # NoProfile
              THEN TestLoop(app, app.irohNode, app.signing)
              ELSE [app EXCEPT !.test = {app.signing}]
    /\ UNCHANGED <<uiq, db>>

TestNodeReady ==
    /\ \E p \in app.test : app' = TestLoop([app EXCEPT !.test = {}], p, p)
    /\ UNCHANGED <<uiq, db, used>>

\* The endpoint cannot be bound.
TestFails ==
    /\ app.test # {}
    /\ app' = [app EXCEPT !.test = {}]
    /\ UNCHANGED <<uiq, db, used>>

\* A typed message is saved under the profile that is active.
UserSend ==
    /\ app.onboarded /\ app.listed
    /\ used.messages < MaxMessages
    /\ used' = [used EXCEPT !.messages = @ + 1]
    /\ db' = [db EXCEPT !.messages =
                @ \cup {[owner |-> app.activeProfileId, savedUnder |-> app.activeProfileId]}]
    /\ UNCHANGED <<app, uiq>>

\* The UI coroutine saves what any loop sent under the profile that is active now.
UiApply ==
    /\ uiq # <<>>
    /\ uiq' = Tail(uiq)
    /\ \/ /\ Head(uiq).kind = "connected"
          /\ app' = [app EXCEPT !.listed = TRUE]
          /\ db' = [db EXCEPT !.chats = @ \cup {app.activeProfileId}]
       \/ /\ Head(uiq).kind = "message"
          /\ db' = [db EXCEPT !.messages =
                      @ \cup {[owner |-> Head(uiq).owner, savedUnder |-> app.activeProfileId]}]
          /\ UNCHANGED app
    /\ UNCHANGED used

\* The process ends and is started again: load_and_restore.
Relaunch ==
    /\ Event
    /\ app' = IF db.active = NoProfile THEN Fresh ELSE LoadProfile(Fresh, db.active)
    /\ uiq' = <<>>
    /\ UNCHANGED db

-----------------------------------------------------------------------------
(* The tasks of start_node *)

\* The task t goes on at pc, or ends.
Moved(t, pc) == (app.tasks \ {t}) \cup {[t EXCEPT !.pc = pc]}
Ended(t) == app.tasks \ {t}

\* The endpoint is there, the relay answered or 15 seconds have passed; the rest
\* of the task, up to and including start_message_loop, has no await.
FinishStart(t) ==
    /\ t.pc = "starting"
    /\ app' = [app EXCEPT !.inviteCode = t.profile, !.status = "online", !.nodeStarted = TRUE,
                          !.irohNode = t.profile,
                          !.outgoingTx = [profile |-> t.profile, token |-> t.token],
                          !.tasks = Moved(t, "select"), !.effect = TRUE,
                          !.late = @ \/ Cancelled(t)]
    /\ UNCHANGED <<uiq, db, used>>

\* As BindFails, leaving the status as it is.
BindFailsSilently(t) ==
    /\ t.pc = "starting"
    /\ Event
    /\ app' = [app EXCEPT !.tasks = Ended(t), !.effect = TRUE, !.late = @ \/ Cancelled(t)]
    /\ UNCHANGED <<uiq, db>>

BindFails(t) ==
    /\ t.pc = "starting"
    /\ Event
    /\ app' = [app EXCEPT !.status = "error", !.tasks = Ended(t), !.effect = TRUE,
                          !.late = @ \/ Cancelled(t)]
    /\ UNCHANGED <<uiq, db>>

\* select! takes a message that has arrived, even when the token is cancelled too.
Receives(t) ==
    /\ t.pc = "select"
    /\ used.messages < MaxMessages
    /\ used' = [used EXCEPT !.messages = @ + 1]

HandleHello(t) ==
    /\ Receives(t)
    /\ app' = [app EXCEPT !.known = TRUE]
    /\ uiq' = Append(uiq, [kind |-> "connected", owner |-> t.profile])
    /\ UNCHANGED db

\* The message is opened, if the peer is known with the cached key or one derived
\* from the keys of the task; then the Ack is awaited.
HandleChat(t) ==
    /\ Receives(t)
    /\ app' = [app EXCEPT !.tasks = Moved(t, "deliver"),
                          !.key = IF app.known /\ @ = NoProfile THEN t.sk ELSE @]
    /\ UNCHANGED <<uiq, db>>

DeliverToUi(t) ==
    /\ t.pc = "deliver"
    /\ app' = [app EXCEPT !.tasks = Moved(t, "select")]
    /\ uiq' = uiq \o <<[kind |-> "connected", owner |-> t.profile],
                       [kind |-> "message", owner |-> t.profile]>>
    /\ UNCHANGED <<db, used>>

LoopEnds(t) ==
    /\ t.pc = "select"
    /\ Cancelled(t)
    /\ app' = [app EXCEPT !.tasks = Ended(t)]
    /\ UNCHANGED <<uiq, db, used>>

Next ==
    \/ Onboard \/ AddProfile \/ CancelAdd
    \/ \E p \in 1 .. db.created : Switch(p)
    \/ RunEffect \/ InviteSubmit \/ InviteConnects \/ InviteFails
    \/ TestP2p \/ TestNodeReady \/ TestFails
    \/ UserSend \/ UiApply \/ Relaunch
    \/ \E t \in app.tasks :
          \/ FinishStart(t) \/ BindFails(t)
          \/ HandleHello(t) \/ HandleChat(t) \/ DeliverToUi(t) \/ LoopEnds(t)

Spec == Init /\ [][Next]_vars

\* The runtime polls the effect, and a task of start_node that is not dropped ends: it
\* belongs to App, awaiting the relay has a timeout, and binding succeeds or fails.
Fairness ==
    /\ WF_vars(RunEffect)
    /\ WF_vars(\E t \in app.tasks : FinishStart(t))

FairSpec == Spec /\ Fairness

-----------------------------------------------------------------------------
(* Properties *)

TaskType ==
    [call : Nat, by : {"start", "test"}, profile : 1 .. db.created, sk : 1 .. db.created,
     token : 0 .. app.token, pc : {"starting", "select", "deliver"}]

\* Types of the variables; a token is cancelled only once it is replaced in NODE_CANCEL.
TypeOK ==
    /\ app.status \in {"offline", "connecting", "online", "error", "connected"}
    /\ {app.activeProfileId, app.seed, app.signing, app.inviteCode, app.irohNode, app.key} \subseteq 0 .. db.created
    /\ app.token \in Nat /\ app.calls \in Nat
    /\ {app.outgoingTx, app.invite} \subseteq [profile : 0 .. db.created, token : 0 .. app.token]
    /\ app.tasks \subseteq TaskType /\ app.test \subseteq 1 .. db.created
    /\ app.cancelled \subseteq {n \in Nat : n < app.token}
    /\ {app.onboarded, app.adding, app.nodeStarted, app.effect, app.listed, app.known, app.late, app.tested}
         \subseteq BOOLEAN
    /\ uiq \in Seq([kind : {"connected", "message"}, owner : 1 .. db.created])
    /\ db.created \in 0 .. MaxProfiles /\ db.active \in 0 .. db.created
    /\ db.chats \subseteq 1 .. db.created
    /\ db.messages \subseteq [owner : 1 .. db.created, savedUnder : 1 .. db.created]

Live == {t \in app.tasks : ~Cancelled(t)}
Started == {t \in Live : t.by = "start"}

\* Only tasks of the active profile are left running: whatever start_node was doing
\* when the user switched or added a profile, its token is cancelled.
LiveIsActive == \A t \in Started : t.profile = app.activeProfileId

\* The profile shown, the identity a node would be started with and the profile that
\* a restart brings back are one: no path into start_node leaves the old seed behind.
OneIdentity == app.activeProfileId = app.seed /\ app.seed = db.active

\* "connecting" keeps start_node from running: without a task that would end it the
\* profile gets no node.
Stalled == app.status = "connecting" /\ \A t \in Live : t.pc # "starting"

\* The status is left at "connecting" by onboarding alone, whose task is dropped: no
\* failed start, switch or restart and no order of them locks a profile out of its node.
OnlyOnboardingStalls ==
    [][~Stalled /\ Stalled' => db'.created = db.created + 1]_vars

\* "then spawns the iroh node and message loop" (state.rs:388): whenever the status is
\* "connecting", some task is about to end it.
ConnectingIsTrue == ~Stalled

\* A profile has one endpoint and one loop: neither the effect, which runs again when a
\* start fails or the view changes, nor a user on the move starts a second, as long as
\* no task went on after its profile was left.
StartedOnce == ~app.late => \A t, u \in Started : t = u

\* The invite code shown, the node invites are sent from and the queue of typed messages
\* belong to the active profile, as long as no task went on after its profile was left
\* and nobody pressed the test button.
OwnNodeUnlessLate ==
    ~app.late /\ ~app.tested =>
        /\ {app.inviteCode, app.irohNode} \subseteq {NoProfile, app.activeProfileId}
        /\ app.nodeStarted => \E t \in Live : t.profile = app.irohNode /\ t.token = app.outgoingTx.token

\* Every profile that is shown gets a loop, also when binding the endpoint fails on the way,
\* unless the user leaves it, its start was lost with Onboarding or a task went on after
\* its profile was left.
StartsEventually ==
    app.onboarded ~> (\E t \in Live : t.pc # "starting") \/ app.late \/ ~app.onboarded \/ Stalled

\* "Switch to a different profile: shut down node, load profile data, auto-restart."
\* (state.rs:213): while a profile is shown and its start was not lost with Onboarding,
\* a loop of its own comes up.
AutoRestarts == app.onboarded ~> (\E t \in Live : t.pc # "starting") \/ ~app.onboarded \/ Stalled

\* "Clear peers and crypto state" (state.rs:200): a cached key is one of the active profile.
CachedKeyIsOwn == app.key \in {NoProfile, app.activeProfileId}

Foreign(a) == a.key \notin {NoProfile, a.activeProfileId}

\* SYM_KEYS gets a key of another profile only from a loop that is cancelled and still
\* has a message in hand, or from one of the test button; never from a switch, and
\* never from a loop that start_node leaves running.
ForeignKeyIsLate ==
    [][~Foreign(app) /\ Foreign(app') =>
          \E t \in app.tasks : t.sk = app'.key /\ (Cancelled(t) \/ t.by = "test")]_vars

\* "1. Cancel message loop" (state.rs:188): of a profile that is left no loop stays.
NoLoopLeftBehind == \A t \in Live : t.profile = app.activeProfileId

\* A message is saved under the profile whose node received it.
MessagesUnderOwner == \A m \in db.messages : m.savedUnder = m.owner

\* A message is saved under a profile whose sidebar has its chat: only such messages are
\* loaded again (get_all_chats, then get_messages_for_chat).
MessagesHaveChat == \A m \in db.messages : m.savedUnder \in db.chats

=============================================================================
