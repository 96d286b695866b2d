------------------------------ MODULE Runtime ------------------------------
(***************************************************************************)
(* The authority life cycle of the process: app.Runtime serialises Login,  *)
(* Refresh, Logout, Heartbeat, AccessSetup and the two ends of Probe with  *)
(* one mutex; kuaifan.Refresher runs a login or a refresh inside it;       *)
(* CommitControlSnapshotLocked moves the manager's subscription, the SOCKS *)
(* selector registry, the SQLite aggregate and the published snapshot one  *)
(* after the other, with rollbacks.                                        *)
(*                                                                         *)
(* What is visible between two steps to a goroutine that does not take the *)
(* mutex (a SOCKS flow), and what a crash leaves behind, is what the steps *)
(* separate.  Provider calls are external: they return a session for the   *)
(* account and a catalogue, or fail.  The SQLite transaction is one step   *)
(* that applies or fails.                                                  *)
(***************************************************************************)
EXTENDS Naturals, FiniteSets

CONSTANTS
    Users, Tokens, Keys, Nodes,
    NoUser, NoSessions, NoSnapshot,
    Lifetime, MaxTime, MaxGeneration, MaxLease,
    MaxInstalls,    \* registries one process may install (bound)
    ProbeSlots      \* cap(r.probeSlots)

VARIABLES
    state, active, lease, subscription, keyConfigured, snapshot, handles,
    rollbacks, now, \* the manager and the clock, see Manager
    alive,          \* r.alive
    mutation,       \* the operation inside r.mutations, or Idle
    registry,       \* the registry pointer of the coordinator and of SOCKS
    installs,       \* registries created so far: pointer identities
    disk,           \* the SQLite aggregate
    lastToken,      \* the newest session the provider handed out
    probes,         \* probes between their two critical sections
    loggedOut       \* history: the last Login/Logout to return was a Logout

\* A snapshot's selectors all carry one credential generation; nodes are the
\* tunnel-eligible nodes they resolve to.
Routes == [generation : 1 .. MaxGeneration, nodes : SUBSET Nodes]
EligibleRoutes == {r \in Routes : r.nodes # {}}

M == INSTANCE Manager WITH MaxRollbacks <- 1

\* Sessions and keys are numbered in the order they are handed out; what is
\* absent differs from what is there.
ASSUME RuntimeConstants ==
    /\ NoUser \notin Users
    /\ Tokens \subseteq Nat \ {0} /\ Keys \subseteq Nat
    /\ Lifetime \in Nat \ {0} /\ MaxGeneration \in Nat \ {0}
    /\ MaxTime \in Nat /\ MaxLease \in Nat /\ MaxInstalls \in Nat
    /\ NoSessions \notin M!Sessions
    /\ NoSnapshot \notin M!Snapshots

managerVars == <<state, active, lease, subscription, keyConfigured, snapshot,
                 handles, rollbacks>>
vars == <<managerVars, now, alive, mutation, registry, installs, disk, lastToken,
          probes, loggedOut>>

Registries == [generation : 1 .. MaxGeneration, key : Keys, id : 0 .. MaxInstalls]

\* The steps of an operation that holds the mutex.
Steps == {"authenticate", "fetch", "prepare", "install", "selectors", "persist",
          "publish", "return", "done", "undo_selectors", "undo_manager", "fail",
          "clear", "signout", "configure"}

Idle == [op |-> "idle"]
At(step) == mutation # Idle /\ mutation.step = step
Goto(step) == mutation' = [mutation EXCEPT !.step = step]
Free == mutation = Idle
Leave == mutation' = Idle

\* Entering r.mutations: r.alive is checked again once it is held.
Enter == Free /\ alive

\* The finish function and rollback the operation in the section holds.
Handle == CHOOSE h \in handles : M!OwnsLease(h)
Rollback == CHOOSE r \in rollbacks : TRUE

RegistryOf(sub, id) == [generation |-> sub.generation, key |-> sub.key, id |-> id]

TypeOK ==
    /\ M!TypeOK
    /\ alive \in BOOLEAN
    /\ mutation = Idle \/ mutation.step \in Steps
    /\ registry \in Registries
    /\ installs \in 0 .. MaxInstalls
    /\ disk \in [subscription : M!Subscriptions, verifier : BOOLEAN,
                 session : M!Snapshots \cup {NoSnapshot}]
    /\ probes \subseteq [generation : 1 .. MaxGeneration, started : 0 .. MaxTime]
    /\ loggedOut \in BOOLEAN
    /\ lastToken \in Tokens \cup {0}

----------------------------------------------------------------------------
(* Startup: newAdapterAtStateDirectory.                                     *)

\* A persisted session that can no longer be used is cleared before the
\* manager sees it.
StartupSession(d) == IF M!SessionUsable(d.session, now) THEN d.session ELSE NoSnapshot

\* NewManagerWithSubscription, NewRegistry and NewRuntime over the aggregate d.
Started(d) ==
    /\ snapshot' = StartupSession(d)
    /\ state' = M!RestoredState(StartupSession(d), now)
    /\ subscription' = d.subscription
    /\ keyConfigured' = d.verifier
    /\ active' = "none" /\ lease' = 0 /\ handles' = {} /\ rollbacks' = {}
    /\ registry' = RegistryOf(d.subscription, 0) /\ installs' = 0
    /\ disk' = [d EXCEPT !.session = StartupSession(d)]
    /\ alive' = TRUE
    /\ mutation' = Idle
    /\ probes' = {}

\* A fresh installation: NewPersistentState, no verifier and no account.
FreshSubscription(k) == [generation |-> 1, account |-> NoUser, key |-> k]

Init ==
    \E k \in {k \in Keys : \A j \in Keys : k <= j} :
        /\ disk = [subscription |-> FreshSubscription(k), verifier |-> FALSE,
                   session |-> NoSnapshot]
        /\ subscription = FreshSubscription(k)
        /\ registry = RegistryOf(FreshSubscription(k), 0)
        /\ installs = 0
        /\ snapshot = NoSnapshot
        /\ state = "signed_out" /\ active = "none" /\ lease = 0
        /\ keyConfigured = FALSE
        /\ handles = {} /\ rollbacks = {}
        /\ now = 0
        /\ alive = TRUE
        /\ mutation = Idle
        /\ probes = {}
        /\ loggedOut = FALSE
        /\ lastToken = 0

\* The process is killed at any point and started again.
CrashRestart ==
    /\ M!RestorableBy(disk.session, disk.subscription, now)
    /\ Started(disk)
    /\ UNCHANGED <<now, loggedOut, lastToken>>

----------------------------------------------------------------------------
(* AccessSetup: the verifier becomes durable, then the manager gets its key. *)

AccessSetup ==
    /\ Enter
    /\ ~disk.verifier
    /\ disk' = [disk EXCEPT !.verifier = TRUE]
    /\ mutation' = [op |-> "setup", step |-> "configure"]
    /\ UNCHANGED <<managerVars, now, alive, registry, installs, probes, loggedOut, lastToken>>

AccessConfigure ==
    /\ At("configure")
    /\ M!ConfigureBindingKey
    /\ Leave
    /\ UNCHANGED <<alive, registry, installs, disk, probes, loggedOut, lastToken>>

----------------------------------------------------------------------------
(* Login and Refresh up to the candidate snapshot.                          *)

Operating(op, step, user) == [op |-> op, step |-> step, user |-> user]

\* Runtime.Login enters and Refresher.Login takes the lease.
LoginBegin(user) ==
    /\ Enter
    /\ M!Begin("login")
    /\ mutation' = Operating("login", "authenticate", user)
    /\ loggedOut' = FALSE
    /\ UNCHANGED <<alive, registry, installs, disk, probes, lastToken>>

\* Both profiles logged in.
LoginAuthenticated ==
    /\ At("authenticate")
    /\ M!TransitionToSyncing
    /\ Goto("fetch")
    /\ UNCHANGED <<alive, registry, installs, disk, probes, loggedOut, lastToken>>

\* Runtime.Refresh enters, the authority is not due to expire, and
\* Refresher.Refresh takes the lease for the account of the current sessions.
AuthorityExpired == snapshot # NoSnapshot /\ snapshot.expiresAt <= now

RefreshBegin ==
    /\ Enter
    /\ ~AuthorityExpired
    /\ M!Begin("refresh")
    /\ mutation' = Operating("refresh", "fetch", snapshot.sessions.user)
    /\ UNCHANGED <<alive, registry, installs, disk, probes, loggedOut, lastToken>>

\* A provider call failed or was cancelled.
ProviderFails ==
    /\ At("authenticate") \/ At("fetch")
    /\ Goto("fail")
    /\ UNCHANGED <<managerVars, now, alive, registry, installs, disk, probes, loggedOut, lastToken>>

NextGeneration == IF snapshot = NoSnapshot THEN 1 ELSE snapshot.generation + 1

\* Refresher.commit: new sessions for the account (the provider never repeats
\* one, so they are numbered), a catalogue whose selectors are built in the
\* registry's generation, and a full lifetime from now.
BuildCandidate(token, nodes) ==
    [generation |-> NextGeneration, createdAt |-> now, expiresAt |-> now + Lifetime,
     sessions |-> [user |-> mutation.user, token |-> token],
     account |-> mutation.user,
     routes |-> [generation |-> registry.generation, nodes |-> nodes]]

FetchCatalogue(token, nodes) ==
    /\ At("fetch")
    /\ NextGeneration <= MaxGeneration /\ installs < MaxInstalls
    /\ token = lastToken + 1
    /\ lastToken' = token
    /\ mutation' = [op |-> mutation.op, step |-> "prepare", user |-> mutation.user,
                    candidate |-> BuildCandidate(token, nodes)]
    /\ UNCHANGED <<managerVars, now, alive, registry, installs, disk, probes, loggedOut>>

----------------------------------------------------------------------------
(* CommitControlSnapshotLocked.                                             *)

\* EnsureSubscriptionAccountBinding: a first account binds the generation, the
\* same account keeps it, another one gets the next generation and new keys.
\* Random keys never repeat, which drawing them in increasing order stands for.
EnsureBinding(sub, user, k) ==
    IF sub.account \in {NoUser, user} THEN [sub EXCEPT !.account = user]
    ELSE [generation |-> sub.generation + 1, account |-> user, key |-> k]

\* PrepareRuntimeCommit reads the aggregate and plans the generation.
Prepare(k) ==
    /\ At("prepare")
    /\ alive
    /\ disk.verifier
    /\ k > disk.subscription.key
    /\ EnsureBinding(disk.subscription, mutation.user, k) \in M!Subscriptions
    /\ mutation' = [op |-> mutation.op, step |-> "install", user |-> mutation.user,
                    candidate |-> mutation.candidate,
                    plan |-> EnsureBinding(disk.subscription, mutation.user, k),
                    previous |-> disk.subscription,
                    registry |-> registry]
    /\ UNCHANGED <<managerVars, now, alive, registry, installs, disk, probes, loggedOut, lastToken>>

\* The facade was stopped, the store could not be read, or setup is missing.
PrepareFails ==
    /\ At("prepare")
    /\ Goto("fail")
    /\ UNCHANGED <<managerVars, now, alive, registry, installs, disk, probes, loggedOut, lastToken>>

Install ==
    /\ At("install")
    /\ M!InstallSubscriptionGeneration(mutation.plan, mutation.user)
    /\ Goto("selectors")
    /\ UNCHANGED <<alive, registry, installs, disk, probes, loggedOut, lastToken>>

\* SelectorCoordinator.InstallGeneration rebuilds the candidate's selectors in
\* the planned generation and swaps the registry of SOCKS and its own.
InstallSelectors ==
    /\ At("selectors")
    /\ installs' = installs + 1
    /\ registry' = RegistryOf(mutation.plan, installs')
    /\ mutation' = [mutation EXCEPT
                      !.step = "persist",
                      !.candidate.routes.generation = mutation.plan.generation]
    /\ UNCHANGED <<managerVars, now, alive, disk, probes, loggedOut, lastToken>>

\* The registry or the selectors cannot be built, or SOCKS refuses them: nothing was
\* swapped, only the manager is rolled back.
InstallSelectorsFails ==
    /\ At("selectors")
    /\ Goto("undo_manager")
    /\ UNCHANGED <<managerVars, now, alive, registry, installs, disk, probes, loggedOut, lastToken>>

\* CommitRuntimeSnapshot: one transaction for binding, catalogue and session.
CanPersist ==
    /\ disk.subscription = mutation.previous
    /\ mutation.candidate.routes \in EligibleRoutes

\* Fault: the transaction stores the binding without the session.
PersistBindingOnly ==
    /\ At("persist")
    /\ CanPersist
    /\ disk' = [disk EXCEPT !.subscription = mutation.plan]
    /\ Goto("publish")
    /\ UNCHANGED <<managerVars, now, alive, registry, installs, probes, loggedOut, lastToken>>

Persist ==
    /\ At("persist")
    /\ CanPersist
    /\ disk' = [disk EXCEPT !.subscription = mutation.plan,
                            !.session = mutation.candidate]
    /\ Goto("publish")
    /\ UNCHANGED <<managerVars, now, alive, registry, installs, probes, loggedOut, lastToken>>

\* Refused (no eligible link) or failed: the rollbacks run in reverse order.
PersistFails ==
    /\ At("persist")
    /\ Goto("undo_selectors")
    /\ UNCHANGED <<managerVars, now, alive, registry, installs, disk, probes, loggedOut, lastToken>>

\* Fault: the registry of the failed candidate stays installed.
UndoNothing ==
    /\ At("undo_selectors")
    /\ Goto("undo_manager")
    /\ UNCHANGED <<managerVars, now, alive, registry, installs, disk, probes, loggedOut, lastToken>>

UndoSelectors ==
    /\ At("undo_selectors")
    /\ registry' = mutation.registry
    /\ Goto("undo_manager")
    /\ UNCHANGED <<managerVars, now, alive, installs, disk, probes, loggedOut, lastToken>>

UndoManager ==
    /\ At("undo_manager")
    /\ M!RollbackInstall(Rollback)
    /\ Goto("fail")
    /\ UNCHANGED <<alive, registry, installs, disk, probes, loggedOut, lastToken>>

Publish ==
    /\ At("publish")
    /\ M!Commit(mutation.candidate)
    /\ Goto("return")
    /\ UNCHANGED <<alive, registry, installs, disk, probes, loggedOut, lastToken>>

\* CommitControlSnapshotLocked returns and its rollback closures are dropped.
Return ==
    /\ At("return")
    /\ M!DropRollback(Rollback)
    /\ Goto("done")
    /\ UNCHANGED <<alive, registry, installs, disk, probes, loggedOut, lastToken>>

\* The deferred finish of the Refresher, then the mutex is released.
Succeed ==
    /\ At("done")
    /\ M!Finish(Handle, "succeeded")
    /\ Leave
    /\ UNCHANGED <<alive, registry, installs, disk, probes, loggedOut, lastToken>>

\* A failed refresh that found its authority expired clears it durably.
Fail ==
    /\ At("fail")
    /\ M!Finish(Handle, "failed")
    /\ IF mutation.op = "refresh" /\ state' = "expired"
       THEN mutation' = [op |-> "refresh", step |-> "clear"]
       ELSE Leave
    /\ UNCHANGED <<alive, registry, installs, disk, probes, loggedOut, lastToken>>

----------------------------------------------------------------------------
(* Expiry, logout, probes and shutdown.                                     *)

\* Heartbeat, and Refresh of an expired authority: ExpireIfNeeded marks a
\* serving state expired; in every case the durable session is cleared next.
ExpireAuthority ==
    /\ Enter
    /\ AuthorityExpired
    /\ \/ state \in {"ready", "degraded"} /\ M!MarkExpired
       \/ state \notin {"ready", "degraded"} /\ UNCHANGED <<managerVars, now>>
    /\ mutation' = [op |-> "heartbeat", step |-> "clear"]
    /\ UNCHANGED <<alive, registry, installs, disk, probes, loggedOut, lastToken>>

ClearActiveSession ==
    /\ At("clear")
    /\ disk' = [disk EXCEPT !.session = NoSnapshot]
    /\ Leave
    /\ UNCHANGED <<managerVars, now, alive, registry, installs, probes, loggedOut, lastToken>>

\* The store failed: the next heartbeat finds the authority expired again.
ClearFails ==
    /\ At("clear")
    /\ Leave
    /\ UNCHANGED <<managerVars, now, alive, registry, installs, disk, probes, loggedOut, lastToken>>

\* Fault: logout only forgets the session in memory.
LogoutInMemory ==
    /\ Enter
    /\ lease < MaxLease
    /\ mutation' = [op |-> "logout", step |-> "signout"]
    /\ UNCHANGED <<managerVars, now, alive, registry, installs, disk, probes, loggedOut, lastToken>>

\* Logout clears the durable session first; a store error ends it there.
LogoutBegin ==
    /\ Enter
    /\ lease < MaxLease
    /\ disk' = [disk EXCEPT !.session = NoSnapshot]
    /\ mutation' = [op |-> "logout", step |-> "signout"]
    /\ UNCHANGED <<managerVars, now, alive, registry, installs, probes, loggedOut, lastToken>>

LogoutSignOut ==
    /\ At("signout")
    /\ M!SignOut
    /\ Leave
    /\ loggedOut' = TRUE
    /\ UNCHANGED <<alive, registry, installs, disk, probes, lastToken>>

\* Probe: a target is taken under the mutex, dialled without it ...
ProbeBegin ==
    /\ Enter
    /\ Cardinality(probes) < ProbeSlots
    /\ M!SessionUsable(snapshot, now)
    /\ probes' = probes \cup {[generation |-> snapshot.generation, started |-> now]}
    /\ UNCHANGED <<managerVars, now, alive, mutation, registry, installs, disk, loggedOut, lastToken>>

\* ... and its result published as the next generation, unless the snapshot
\* moved on or can no longer be used.
ProbeMatches(p) == snapshot # NoSnapshot /\ snapshot.generation = p.generation

ProbePublish(p, observed) ==
    /\ Enter
    /\ p \in probes
    /\ ProbeMatches(p)
    /\ M!SessionUsable(snapshot, now)
    /\ snapshot.generation < MaxGeneration
    /\ observed \in p.started .. now
    /\ M!Commit([snapshot EXCEPT !.generation = @ + 1, !.createdAt = observed])
    /\ probes' = probes \ {p}
    /\ UNCHANGED <<alive, mutation, registry, installs, disk, loggedOut, lastToken>>

ProbeStale(p) ==
    /\ Free
    /\ p \in probes
    /\ ~alive \/ ~ProbeMatches(p) \/ ~M!SessionUsable(snapshot, now)
    /\ probes' = probes \ {p}
    /\ UNCHANGED <<managerVars, now, alive, mutation, registry, installs, disk, loggedOut, lastToken>>

\* Stop: requests are refused from now on, an operation in the section ends,
\* then the in-memory sessions are wiped.  The durable session stays.
StopBegin ==
    /\ alive
    /\ alive' = FALSE
    /\ UNCHANGED <<managerVars, now, mutation, registry, installs, disk, probes, loggedOut, lastToken>>

StopSignOut ==
    /\ Free
    /\ ~alive
    /\ M!SignOut
    /\ UNCHANGED <<alive, mutation, registry, installs, disk, probes, loggedOut, lastToken>>

Tick ==
    /\ M!Tick
    /\ UNCHANGED <<alive, mutation, registry, installs, disk, probes, loggedOut, lastToken>>

----------------------------------------------------------------------------
Control ==
    \/ LoginAuthenticated \/ ProviderFails
    \/ \E t \in Tokens, n \in SUBSET Nodes : FetchCatalogue(t, n)
    \/ \E k \in Keys : Prepare(k)
    \/ PrepareFails \/ Install \/ InstallSelectors \/ InstallSelectorsFails
    \/ Persist \/ PersistFails
    \/ UndoSelectors \/ UndoManager \/ Publish \/ Return \/ Succeed \/ Fail

\* Everything that happens while the process runs.
Running ==
    \/ AccessSetup \/ AccessConfigure
    \/ \E u \in Users : LoginBegin(u)
    \/ RefreshBegin
    \/ Control
    \/ ExpireAuthority \/ ClearActiveSession \/ ClearFails
    \/ LogoutBegin \/ LogoutSignOut
    \/ ProbeBegin
    \/ \E p \in probes : ProbeStale(p) \/ \E o \in 0 .. MaxTime : ProbePublish(p, o)
    \/ StopBegin \/ StopSignOut
    \/ Tick

Next == Running \/ CrashRestart

Spec == Init /\ [][Next]_vars

----------------------------------------------------------------------------
(* Properties.                                                              *)

\* The credential generation SOCKS authenticates, the one the manager admits
\* and the durable one are the same whenever no operation is in the section:
\* every failure path of CommitControlSnapshotLocked rolled all of them back.
GenerationsCoherent ==
    Free => /\ subscription = disk.subscription
            /\ registry.generation = subscription.generation
            /\ registry.key = subscription.key

\* Sessions are only ever held for the account the installed generation is
\* bound to, also in the middle of an account change.
SessionsBelongToBinding ==
    M!HasSessions(snapshot) => snapshot.sessions.user = subscription.account

\* Memory and disk hold the same authority between operations: a restart
\* neither loses a session that was served nor resumes an older one.
DurableMatchesMemory ==
    Free /\ M!HasSessions(snapshot) =>
        /\ disk.session # NoSnapshot
        /\ disk.session.sessions = snapshot.sessions
        /\ disk.session.expiresAt = snapshot.expiresAt

\* After a logout returned, no copy of the session is left in memory or on disk,
\* whatever refresh, probe, heartbeat or crash ran around it.
LogoutIsDurable ==
    loggedOut => disk.session = NoSnapshot /\ ~M!HasSessions(snapshot)

\* The manager never refuses what the durable commit already stored, and
\* never refuses the planned generation: the compensating rollback of a
\* persisted aggregate is never needed.
CommitNeverRefused ==
    /\ At("install") => M!CanInstall(mutation.plan, mutation.user)
    /\ At("persist") => disk.subscription = mutation.previous
    /\ At("publish") => M!CanCommit(mutation.candidate)

\* A crash at any point leaves an aggregate the next process can start from.
StartupPossible == M!RestorableBy(disk.session, disk.subscription, now)

\* What a crash at any point of any operation leaves on disk: an aggregate the
\* next process can start from, with the authority that was served and without
\* one that was logged out.
DurableInv == DurableMatchesMemory /\ LogoutIsDurable /\ StartupPossible

\* No operation is left half done: between operations the manager is in a
\* resting state that accepts a login or a refresh again.
NoOrphanOperation ==
    Free => /\ active = "none"
            /\ handles = {} /\ rollbacks = {}
            /\ state \in {"signed_out", "ready", "degraded", "expired"}

\* The sessions of the operation in the section, until they are stored or given
\* up.
Offered ==
    IF mutation # Idle /\ mutation.step \in {"prepare", "install", "selectors", "persist"}
    THEN mutation.candidate.sessions ELSE NoSessions

SessionsOf(s) == IF s = NoSnapshot THEN NoSessions ELSE s.sessions

Authority == INSTANCE AuthorityContract WITH
    newest <- lastToken, offered <- Offered, stored <- SessionsOf(disk.session),
    bound <- disk.subscription.account, served <- SessionsOf(snapshot)

\* Login, refresh, logout, expiry, probes, Stop and crashes, with every failure
\* and rollback between their steps, add up to the abstract contract: sessions
\* are stored with their account before they are served, and none that was
\* logged out, expired or replaced comes back.
ImplementsAuthority == Authority!Spec

\* What holds of the mutex and the authority it guards, in every state.
RuntimeInv ==
    /\ TypeOK /\ GenerationsCoherent /\ CommitNeverRefused /\ NoOrphanOperation
    /\ SessionsBelongToBinding
============================================================================
