------------------------------ MODULE Manager ------------------------------
(***************************************************************************)
(* The service-state manager of internal/state/manager.go: the lifecycle   *)
(* state, the exclusive operation lease, the subscription generation the   *)
(* account is bound to, and the published runtime snapshot.                *)
(*                                                                         *)
(* Every exported method takes the manager's mutex for its whole body, so  *)
(* each is one action.  The callers are left open: any method may be       *)
(* called at any moment, by goroutines that still hold a finish function   *)
(* of Begin or a rollback function of InstallSubscriptionGeneration.  A    *)
(* call that returns an error changes nothing and has no action.           *)
(***************************************************************************)
EXTENDS Naturals, FiniteSets

CONSTANTS
    Users,          \* provider accounts; the account binding of a user is
                    \* a keyed digest of it and is represented by the user
    Tokens,         \* distinguishes two session bundles of one account
    Keys,           \* selector/proxy-auth key pairs of a generation
    Routes,         \* nodes and selectors of a snapshot, opaque here
    EligibleRoutes, \* those with at least one tunnel-eligible node
    NoUser,         \* the empty account binding / redacted account
    NoSessions,     \* wiped client sessions
    NoSnapshot,     \* nothing published yet
    Lifetime,       \* maxSessionLifetime
    MaxTime, MaxGeneration, MaxLease,
    MaxRollbacks    \* bounds of the model, the last on callers mid-install

ASSUME ManagerConstants ==
    /\ NoUser \notin Users
    /\ EligibleRoutes \subseteq Routes
    /\ Lifetime \in Nat \ {0}
    /\ MaxTime \in Nat /\ MaxGeneration \in Nat
    /\ MaxLease \in Nat /\ MaxRollbacks \in Nat
    /\ NoSessions \notin [user : Users, token : Tokens]

VARIABLES
    state,          \* m.state
    active,         \* m.active: the operation that owns the lease, or "none"
    lease,          \* m.lease
    subscription,   \* m.subscription
    keyConfigured,  \* m.bindingKeyConfigured
    snapshot,       \* m.runtime: the published snapshot
    handles,        \* finish functions handed out by Begin, not yet called
    rollbacks,      \* rollback functions handed out, not yet called
    now             \* the clock

managerVars == <<state, active, lease, subscription, keyConfigured, snapshot,
                 handles, rollbacks>>
vars == <<managerVars, now>>

ServiceState == {"signed_out", "authenticating", "syncing", "ready",
                 "degraded", "expired", "error"}
Operation == {"login", "refresh"}
Outcome == {"succeeded", "failed"}

Sessions == [user : Users, token : Tokens]
Time == 0 .. MaxTime + Lifetime

\* RuntimeSnapshot: the fields the lifecycle reads; nodes and selectors are
\* one opaque value.
Snapshots ==
    [generation : 1 .. MaxGeneration, createdAt : Time, expiresAt : Time,
     sessions : Sessions \cup {NoSessions}, account : Users \cup {NoUser},
     routes : Routes]

ASSUME NoSnapshotIsDistinct == NoSnapshot \notin Snapshots

Subscriptions ==
    [generation : 0 .. MaxGeneration, account : Users \cup {NoUser}, key : Keys]

\* The one type invariant of this module.
TypeOK ==
    /\ state \in ServiceState
    /\ active \in Operation \cup {"none"}
    /\ lease \in 0 .. MaxLease
    /\ subscription \in Subscriptions
    /\ keyConfigured \in BOOLEAN
    /\ snapshot = NoSnapshot \/ snapshot \in Snapshots
    /\ handles \subseteq [lease : 1 .. MaxLease, op : Operation]
    /\ rollbacks \subseteq [candidate : Subscriptions, previous : Subscriptions]
    /\ now \in 0 .. MaxTime

----------------------------------------------------------------------------
(* Reading the snapshot.                                                    *)

Published == snapshot # NoSnapshot

\* ClientSessions.Valid of the current snapshot.
HasSessions(s) == s # NoSnapshot /\ s.sessions # NoSessions

\* SessionUsable: complete sessions inside their lifetime.
SessionUsable(s, t) ==
    /\ HasSessions(s)
    /\ s.createdAt <= t
    /\ t < s.expiresAt

\* Wipe of the sessions of a snapshot.
Wiped(s) == [s EXCEPT !.sessions = NoSessions]

----------------------------------------------------------------------------
(* The initial manager: NewManagerWithSubscription.                         *)

\* What a restored snapshot becomes: dropped when it was created in the
\* future, stripped of its sessions when they can no longer be used.
Prepare(s, t) ==
    IF s = NoSnapshot \/ t < s.createdAt THEN NoSnapshot
    ELSE IF SessionUsable(s, t) THEN s
    ELSE [Wiped(s) EXCEPT !.expiresAt = IF t < s.expiresAt THEN t ELSE s.expiresAt]

\* Usable sessions of an account the durable generation is not bound to are
\* refused, and the process does not start.
RestorableBy(s, sub, t) ==
    SessionUsable(s, t) =>
        sub.generation # 0 /\ sub.account = s.sessions.user

RestoredState(s, t) ==
    IF SessionUsable(s, t) THEN "ready"
    ELSE IF Prepare(s, t) # NoSnapshot THEN "expired"
    ELSE "signed_out"

\* ValidateRuntimeSnapshot: a positive lifetime of at most maxSessionLifetime.
ValidLifetime(s) ==
    /\ s.createdAt < s.expiresAt
    /\ s.expiresAt <= s.createdAt + Lifetime

\* What a previous process can have left: the aggregate its last Commit
\* published, or nothing.
Persisted == {s \in Snapshots : /\ ValidLifetime(s)
                                /\ s.sessions # NoSessions
                                /\ s.account = s.sessions.user
                                /\ s.routes \in EligibleRoutes}

InitWith(initial) ==
    /\ now \in 0 .. MaxTime
    /\ subscription \in Subscriptions
    /\ keyConfigured \in BOOLEAN
    /\ subscription.account # NoUser => keyConfigured /\ subscription.generation # 0
    /\ RestorableBy(initial, subscription, now)
    /\ snapshot = Prepare(initial, now)
    /\ state = RestoredState(initial, now)
    /\ active = "none"
    /\ lease = 0
    /\ handles = {}
    /\ rollbacks = {}

Init == \E initial \in Persisted \cup {NoSnapshot} : InitWith(initial)

----------------------------------------------------------------------------
(* Operations.                                                              *)

\* ConfigureBindingKey: accepted once.
ConfigureBindingKey ==
    /\ ~keyConfigured
    /\ keyConfigured' = TRUE
    /\ UNCHANGED <<state, active, lease, subscription, snapshot, handles,
                   rollbacks, now>>

\* The candidate must be reachable from the installed generation: adopted by
\* a manager without one, the same credentials for a first binding and for
\* the same account, the next generation with rotated keys for another one.
SuccessorGeneration(current, candidate) ==
    \/ current.generation = 0
    \/ /\ current.generation # 0
       /\ current.account \in {NoUser, candidate.account}
       /\ candidate.generation = current.generation
       /\ candidate.key = current.key
    \/ /\ current.generation # 0
       /\ current.account \notin {NoUser, candidate.account}
       /\ candidate.generation = current.generation + 1
       /\ candidate.key # current.key

CanInstall(candidate, user) ==
    /\ candidate.generation # 0
    /\ state \in {"authenticating", "syncing"}
    /\ keyConfigured
    /\ candidate.account = user
    /\ SuccessorGeneration(subscription, candidate)

InstallSubscriptionGeneration(candidate, user) ==
    /\ Cardinality(rollbacks) < MaxRollbacks
    /\ CanInstall(candidate, user)
    /\ subscription' = candidate
    /\ rollbacks' = rollbacks \cup {[candidate |-> candidate,
                                     previous |-> subscription]}
    /\ UNCHANGED <<state, active, lease, keyConfigured, snapshot, handles, now>>

\* The returned rollback: a no-op once another candidate was installed.
RollbackInstall(r) ==
    /\ r \in rollbacks
    /\ rollbacks' = rollbacks \ {r}
    /\ subscription' = IF subscription = r.candidate THEN r.previous
                       ELSE subscription
    /\ UNCHANGED <<state, active, lease, keyConfigured, snapshot, handles, now>>

\* A caller that published drops its rollback without calling it.
DropRollback(r) ==
    /\ r \in rollbacks
    /\ rollbacks' = rollbacks \ {r}
    /\ UNCHANGED <<state, active, lease, subscription, keyConfigured, snapshot,
                   handles, now>>

\* Where Begin takes the state, per operation.
BeginTarget(op) ==
    CASE op = "login" /\ state \in {"signed_out", "expired", "error"} -> "authenticating"
      [] op = "refresh" /\ state \in {"ready", "degraded"} -> "syncing"
      [] OTHER -> "refused"

Begin(op) ==
    /\ lease < MaxLease
    /\ active = "none"
    /\ BeginTarget(op) # "refused"
    /\ state' = BeginTarget(op)
    /\ active' = op
    /\ lease' = lease + 1
    /\ handles' = handles \cup {[lease |-> lease', op |-> op]}
    /\ UNCHANGED <<subscription, keyConfigured, snapshot, rollbacks, now>>

\* Fault: the operation's name alone decides who owns the lease.
OwnsOperation(h) == active = h.op

\* Only the operation that still owns the lease may finish it.
OwnsLease(h) == lease = h.lease /\ active = h.op

\* Fault: signing out redacts the account and forgets the secrets.
RedactedView(s) == IF s = NoSnapshot THEN s ELSE [s EXCEPT !.account = NoUser]

\* signOutLocked and expireLocked, as values of the published snapshot.
SignedOutView(s) ==
    IF s = NoSnapshot THEN s ELSE [Wiped(s) EXCEPT !.account = NoUser]

ExpiredView(s, t) ==
    IF s = NoSnapshot THEN s ELSE [Wiped(s) EXCEPT !.expiresAt = t]

FinishSucceeded(h) ==
    /\ state' = IF h.op = "login" /\ state = "authenticating" THEN "syncing" ELSE state
    /\ UNCHANGED snapshot

FinishFailedLogin ==
    /\ state' = "signed_out"
    /\ snapshot' = SignedOutView(snapshot)

\* Fault: a failed refresh always leaves the service degraded.
FinishAlwaysDegraded ==
    /\ state' = "degraded"
    /\ UNCHANGED snapshot

\* A failed refresh keeps valid sessions (degraded) unless they expired.
FinishFailedRefresh ==
    \/ /\ HasSessions(snapshot) /\ now < snapshot.expiresAt
       /\ state' = "degraded"
       /\ UNCHANGED snapshot
    \/ /\ HasSessions(snapshot) /\ now >= snapshot.expiresAt
       /\ state' = "expired"
       /\ snapshot' = ExpiredView(snapshot, now)
    \/ /\ ~HasSessions(snapshot)
       /\ state' = "error"
       /\ UNCHANGED snapshot

\* The finish function of Begin, called once: ignored when superseded.
Finish(h, outcome) ==
    /\ h \in handles
    /\ handles' = handles \ {h}
    /\ \/ /\ ~OwnsLease(h)
          /\ UNCHANGED <<state, active, snapshot>>
       \/ /\ OwnsLease(h)
          /\ active' = "none"
          /\ CASE outcome = "succeeded" -> FinishSucceeded(h)
               [] outcome = "failed" /\ h.op = "login" -> FinishFailedLogin
               [] outcome = "failed" /\ h.op = "refresh" -> FinishFailedRefresh
    /\ UNCHANGED <<lease, subscription, keyConfigured, rollbacks, now>>

\* Transition: the program calls it only to enter syncing.
TransitionToSyncing ==
    /\ state \in {"authenticating", "ready", "degraded"}
    /\ state' = "syncing"
    /\ UNCHANGED <<active, lease, subscription, keyConfigured, snapshot, handles,
                   rollbacks, now>>

\* Faults: Commit accepts the current generation again, or any account.
RepeatsGeneration(s) == Published => s.generation >= snapshot.generation
AnyAccount(s) == keyConfigured /\ subscription.generation # 0

\* Commit refuses a snapshot that does not advance the generation ...
AdvancesGeneration(s) == Published => s.generation > snapshot.generation

\* ... or whose account the installed generation is not bound to.
BoundAccount(s) ==
    /\ keyConfigured
    /\ subscription.generation # 0
    /\ subscription.account = s.sessions.user

CanCommit(s) ==
    /\ ValidLifetime(s)
    /\ s.sessions # NoSessions
    /\ s.routes \in EligibleRoutes
    /\ state \in {"authenticating", "syncing", "ready", "degraded"}
    /\ AdvancesGeneration(s)
    /\ BoundAccount(s)

Commit(s) ==
    /\ CanCommit(s)
    /\ snapshot' = s
    /\ state' = IF state \in {"authenticating", "syncing"} THEN "ready" ELSE state
    /\ UNCHANGED <<active, lease, subscription, keyConfigured, handles, rollbacks, now>>

SignOut ==
    /\ lease < MaxLease
    /\ active' = "none"
    /\ lease' = lease + 1
    /\ state' = "signed_out"
    /\ snapshot' = SignedOutView(snapshot)
    /\ UNCHANGED <<subscription, keyConfigured, handles, rollbacks, now>>

MarkExpired ==
    /\ state \in {"expired", "ready", "degraded", "syncing", "error"}
    /\ state' = "expired"
    /\ snapshot' = ExpiredView(snapshot, now)
    /\ UNCHANGED <<active, lease, subscription, keyConfigured, handles, rollbacks, now>>

Tick ==
    /\ now < MaxTime
    /\ now' = now + 1
    /\ UNCHANGED managerVars

\* A snapshot some caller may pass to Commit: built at or before now.
Candidates == {s \in Snapshots : /\ s.createdAt <= now
                                 /\ s.sessions # NoSessions
                                 /\ s.account = s.sessions.user}

Next ==
    \/ ConfigureBindingKey
    \/ \E c \in Subscriptions, u \in Users : InstallSubscriptionGeneration(c, u)
    \/ \E r \in rollbacks : RollbackInstall(r) \/ DropRollback(r)
    \/ \E op \in Operation : Begin(op)
    \/ \E h \in handles, o \in Outcome : Finish(h, o)
    \/ TransitionToSyncing
    \/ \E s \in Candidates : Commit(s)
    \/ SignOut
    \/ MarkExpired
    \/ Tick

Spec == Init /\ [][Next]_vars

----------------------------------------------------------------------------
(* Properties.                                                              *)

\* Session secrets are in memory only while the service may serve them: after
\* logout, after expiry, after a failed login and during a login none is left,
\* whatever calls were in flight (signOutLocked, expireLocked, finish).
SecretsOnlyWhenLive ==
    HasSessions(snapshot) => state \in {"syncing", "ready", "degraded"}

\* A service that reports ready or degraded has a published authority to
\* serve tunnels with (Commit, finish and the restore path agree).
ServingHasAuthority ==
    state \in {"ready", "degraded"} => HasSessions(snapshot)

\* The operation that blocks every other one can always be finished: exactly
\* one outstanding finish function still owns the lease, so Begin never
\* refuses forever because of a finish that was superseded or lost.
ActiveOperationHasOwner ==
    /\ active # "none" => \E h \in handles : OwnsLease(h)
    /\ \A h \in handles : OwnsLease(h) => \A g \in handles : OwnsLease(g) => g = h

\* The step relations of the two action properties below.
GenerationAdvances ==
    Published =>
        /\ snapshot' # NoSnapshot
        /\ snapshot'.generation >= snapshot.generation
        /\ snapshot'.generation = snapshot.generation =>
              /\ snapshot'.routes = snapshot.routes
              /\ snapshot'.createdAt = snapshot.createdAt
              /\ snapshot'.sessions \in {snapshot.sessions, NoSessions}
              /\ snapshot'.account \in {snapshot.account, NoUser}

SecretsEntered ==
    HasSessions(snapshot') /\ snapshot' # snapshot =>
        /\ state \in {"authenticating", "syncing", "ready", "degraded"}
        /\ state' \in {"ready", "degraded"}
        /\ snapshot'.sessions.user = subscription.account

\* A generation, once published, is never replaced by an older one, and the
\* same generation is never rewritten except to lose its secrets and account
\* (readers pin generations and compare them).
GenerationsOnlyAdvance == [][GenerationAdvances]_vars

\* Sessions that were wiped come back only through a Commit made while a
\* login or refresh phase is open, never through a late finish, rollback or
\* expiry, and only for the account the subscription is bound to.
SecretsEnterByCommit == [][SecretsEntered]_vars
============================================================================
