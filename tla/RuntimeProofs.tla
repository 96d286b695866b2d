--------------------------- MODULE RuntimeProofs ---------------------------
(***************************************************************************)
(* Proofs about the authority life cycle and the SOCKS flows that read it  *)
(* without its mutex, for every set of accounts, sessions, keys, nodes and *)
(* flows: generations agree between operations, a crash never loses or     *)
(* revives an authority, an admitted flow was admitted after the last      *)
(* invalidation, and all operations add up to AuthorityContract.           *)
(***************************************************************************)
EXTENDS SocksFlow, TLAPS

----------------------------------------------------------------------------
(* The inductive invariant of Runtime.                                      *)

\* What an operation holds, by how far it has come.
Operations == {"login", "refresh"}
Brief == [op : {"setup", "refresh", "heartbeat", "logout"},
          step : {"configure", "clear", "signout"}]
Entered == [op : Operations, step : {"authenticate", "fetch", "fail"}, user : Users]
Built == [op : Operations, step : {"prepare", "fail"}, user : Users,
          candidate : M!Snapshots]
PlannedSteps == {"install", "selectors", "persist", "publish", "return", "done",
                 "undo_selectors", "undo_manager", "fail"}
Planned == [op : Operations, step : PlannedSteps, user : Users,
            candidate : M!Snapshots, plan : M!Subscriptions,
            previous : M!Subscriptions, registry : Registries]

Resting == mutation \in {Idle} \cup Brief
Busy == mutation \in Entered \cup Built \cup Planned
MutationTyped == Resting \/ Busy

\* The operation is at one of the steps.
AtSome(steps) == mutation # Idle /\ mutation.step \in steps

\* Its candidate may still be published.
Pending == AtSome({"prepare", "install", "selectors", "persist", "publish"})

\* The manager has the planned generation, the aggregate not yet or no more.
Swapped == AtSome({"selectors", "persist", "undo_selectors", "undo_manager"})

\* Between operations the manager rests; inside one it is where the operation
\* took it, with one finish function and at most one rollback.
ManagerFollows ==
    /\ Resting => /\ active = "none" /\ handles = {} /\ rollbacks = {}
                  /\ state \in {"signed_out", "ready", "degraded", "expired"}
    /\ Busy => /\ active = mutation.op
               /\ handles = {[lease |-> lease, op |-> mutation.op]}
               /\ AtSome({"authenticate"}) => state = "authenticating" /\ mutation.op = "login"
               /\ AtSome({"return", "done"}) => state = "ready"
               /\ ~AtSome({"authenticate", "return", "done"}) =>
                      \/ state = "syncing"
                      \/ state = "authenticating" /\ At("fail") /\ mutation.op = "login"
               /\ IF Swapped \/ AtSome({"publish", "return"})
                  THEN rollbacks = {[candidate |-> mutation.plan, previous |-> mutation.previous]}
                  ELSE rollbacks = {}

\* Secrets are held in serving states and in no other; a login works without,
\* a refresh with the ones of its account.
SecretsFollow ==
    /\ M!HasSessions(snapshot) => state \in {"syncing", "ready", "degraded"}
    /\ state \in {"ready", "degraded"} => M!HasSessions(snapshot)
    /\ Busy /\ ~AtSome({"return", "done"}) =>
           /\ mutation.op = "login" => ~M!HasSessions(snapshot)
           /\ mutation.op = "refresh" => /\ M!HasSessions(snapshot)
                                         /\ snapshot.sessions.user = mutation.user
    /\ At("clear") => ~M!HasSessions(snapshot)

\* The verifier is durable before the manager has its key.
KeyFollowsVerifier ==
    /\ disk.verifier <=> keyConfigured \/ At("configure")
    /\ At("configure") => ~keyConfigured
    /\ AtSome({"install", "selectors", "persist", "publish"}) => keyConfigured

Matches(reg, sub) == reg.generation = sub.generation /\ reg.key = sub.key

\* Where the three copies of the generation are, step by step.
BindingsFollow ==
    /\ subscription.generation # 0 /\ disk.subscription.generation # 0
    /\ IF Swapped THEN subscription = mutation.plan /\ disk.subscription = mutation.previous
       ELSE subscription = disk.subscription
    /\ IF AtSome({"persist", "undo_selectors"}) THEN Matches(registry, mutation.plan)
       ELSE Matches(registry, disk.subscription)
    /\ AtSome({"install"}) => disk.subscription = mutation.previous
    /\ AtSome({"publish", "return", "done"}) => disk.subscription = mutation.plan
    /\ AtSome({"install", "selectors", "persist", "undo_selectors"}) =>
           Matches(mutation.registry, mutation.previous)
    /\ mutation \in Planned =>
           /\ mutation.plan.generation # 0
           /\ mutation.plan.account = mutation.user
           /\ M!SuccessorGeneration(mutation.previous, mutation.plan)

\* Sessions, in memory and on disk, belong to the bound account and come with
\* routes of its generation.
SessionsBound ==
    /\ M!HasSessions(snapshot) =>
           /\ snapshot.sessions.user = subscription.account
           /\ snapshot.sessions.user = disk.subscription.account
           /\ snapshot.routes.generation = disk.subscription.generation
    /\ disk.session # NoSnapshot =>
           /\ disk.session.sessions # NoSessions
           /\ disk.session.sessions.user = disk.subscription.account
           /\ disk.session.routes.generation = disk.subscription.generation

\* The aggregate is ahead of memory only between its transaction and Commit, and
\* behind it only while a logout signs the manager out.
DiskFollows ==
    /\ M!HasSessions(snapshot) /\ ~AtSome({"publish", "signout"}) =>
           /\ disk.session # NoSnapshot
           /\ disk.session.sessions = snapshot.sessions
           /\ disk.session.expiresAt = snapshot.expiresAt
    /\ At("publish") => disk.session = mutation.candidate
    /\ At("signout") => disk.session = NoSnapshot

\* A candidate fits what it will replace, and no session is newer than it.
CandidateFits ==
    /\ lastToken \in Nat
    /\ M!HasSessions(snapshot) => snapshot.sessions.token <= lastToken
    /\ disk.session # NoSnapshot => disk.session.sessions.token <= lastToken
    /\ AtSome({"prepare", "install", "selectors"}) => installs < MaxInstalls
    /\ Pending =>
           /\ lastToken \in Tokens
           /\ mutation.candidate.sessions = [user |-> mutation.user, token |-> lastToken]
           /\ mutation.candidate.generation = NextGeneration
           /\ mutation.candidate.expiresAt = mutation.candidate.createdAt + Lifetime
           /\ M!HasSessions(snapshot) => snapshot.sessions.token < lastToken
    /\ AtSome({"persist", "publish"}) =>
           mutation.candidate.routes.generation = mutation.plan.generation
    /\ At("publish") => mutation.candidate.routes.nodes # {}

\* After a logout nothing is left, and a login ends that.
LogoutHolds ==
    /\ LogoutIsDurable
    /\ Busy /\ mutation.op = "login" => ~loggedOut

\* A probe's target was published when it was taken, and was not created later.
ProbesFollow ==
    \A p \in probes :
        /\ snapshot # NoSnapshot
        /\ p.generation <= snapshot.generation
        /\ p.generation = snapshot.generation => snapshot.createdAt <= p.started

\* How manager, registry, aggregate, candidate and probes follow the operation.
Follows ==
    /\ ManagerFollows /\ SecretsFollow /\ KeyFollowsVerifier /\ BindingsFollow
    /\ SessionsBound /\ DiskFollows /\ CandidateFits /\ LogoutHolds /\ ProbesFollow

RInv == TypeOK /\ MutationTyped /\ Follows

----------------------------------------------------------------------------
(* The inductive invariant of the flows.                                    *)

Credentials == [generation : 0 .. MaxGeneration, key : Keys, owner : Users \cup {NoUser},
                node : Nodes]
Pins == [sessions : M!Sessions, expiresAt : M!Time, node : Nodes]

Greeted == [phase : {"hello"}, cred : Credentials]
Loading == [phase : {"loaded"}, cred : Credentials, registry : Registries,
            clock : 0 .. MaxTime, pin : {NoSessions}]
Pinned == [phase : {"authenticated", "reloaded", "repinned", "dialing", "acked", "current"},
           cred : Credentials, registry : Registries, clock : 0 .. MaxTime, pin : Pins]
Final == [phase : {"finalloaded", "finalpinned", "admitted"},
          cred : Credentials, registry : Registries, clock : 0 .. MaxTime, pin : Pins,
          served : BOOLEAN]

FlowsTyped == flows \in [Flows -> {Closed} \cup Greeted \cup Loading \cup Pinned \cup Final]

\* A generation was only ever durable with one account, the newest one is on disk.
IssuedOnce ==
    \A s \in issued : /\ s \in M!Subscriptions /\ s.account # NoUser
                      /\ s.generation <= disk.subscription.generation
                      /\ s.generation = disk.subscription.generation => s = disk.subscription

\* Clients present what they were issued.
WasIssued(cred) ==
    \E s \in issued : cred.generation = s.generation /\ cred.owner = s.account

CredentialsIssued == \A f \in Flows : flows[f] # Closed => WasIssued(flows[f].cred)

\* A pinned session was served, to the owner of the credential, so that it is older
\* than a candidate.
IsOld(pin, cred) ==
    /\ pin.sessions.user = cred.owner
    /\ pin.sessions.token <= lastToken
    /\ Pending => pin.sessions.token < lastToken

PinsAreOld ==
    \A f \in Flows : flows[f] \in Pinned \cup Final => IsOld(flows[f].pin, flows[f].cred)

\* A pin that was no longer current at the final load never becomes current again.
RefusedStaysRefused ==
    \A f \in Flows : flows[f] \in Final /\ ~flows[f].served =>
        /\ flows[f].phase = "finalloaded"
        /\ ~SessionCurrentPin(flows[f].pin, flows[f].clock)

FInv ==
    /\ RInv
    /\ FlowsTyped /\ IssuedOnce /\ CredentialsIssued /\ PinsAreOld /\ RefusedStaysRefused

----------------------------------------------------------------------------
(* Lemmas on the operation that holds the mutex.                            *)

\* The step of an operation tells what it holds.
LEMMA StepShapes ==
    ASSUME MutationTyped
    PROVE  /\ AtSome({"authenticate", "fetch"}) => mutation \in Entered
           /\ AtSome({"prepare"}) => mutation \in Built
           /\ AtSome({"install", "selectors", "persist", "publish", "return", "done",
                      "undo_selectors", "undo_manager"}) => mutation \in Planned
           /\ AtSome({"configure", "clear", "signout"}) => mutation \in Brief
           /\ AtSome({"fail"}) => Busy
           /\ Resting <=> ~Busy
           /\ Busy => mutation # Idle /\ mutation.op \in Operations /\ mutation.user \in Users
           /\ mutation \in Brief =>
                  /\ Resting /\ mutation # Idle
                  /\ mutation.step \in {"configure", "clear", "signout"}
           /\ mutation \in Planned =>
                  mutation # Idle /\ mutation \notin Entered /\ mutation \notin Built
           /\ mutation \in Built => mutation \notin Entered
BY DEF MutationTyped, Resting, Busy, AtSome, Idle, Brief, Entered, Built, Planned,
       PlannedSteps, Operations

\* A planned operation goes on: it keeps everything but its step.
LEMMA PlannedGoes ==
    ASSUME mutation \in Planned, NEW s \in PlannedSteps, Goto(s)
    PROVE  /\ mutation' \in Planned /\ mutation' # Idle
           /\ mutation'.step = s /\ mutation'.op = mutation.op
           /\ mutation'.user = mutation.user /\ mutation'.candidate = mutation.candidate
           /\ mutation'.plan = mutation.plan /\ mutation'.previous = mutation.previous
           /\ mutation'.registry = mutation.registry
           /\ MutationTyped' /\ Busy'
BY DEF Goto, Planned, Operations, Idle, MutationTyped, Busy

\* So does one before its plan.
LEMMA EnteredGoes ==
    ASSUME mutation \in Entered, NEW s \in {"fetch", "fail"}, Goto(s)
    PROVE  /\ mutation' \in Entered /\ mutation' # Idle
           /\ mutation'.step = s /\ mutation'.op = mutation.op
           /\ mutation'.user = mutation.user /\ mutation' \notin Planned
           /\ MutationTyped' /\ Busy'
BY DEF Goto, Entered, Planned, Operations, Idle, MutationTyped, Busy

\* And one that fails with a candidate.
LEMMA BuiltFails ==
    ASSUME mutation \in Built, Goto("fail")
    PROVE  /\ mutation' \in Built /\ mutation' # Idle
           /\ mutation'.step = "fail" /\ mutation'.op = mutation.op
           /\ mutation'.user = mutation.user /\ mutation' \notin Planned
           /\ MutationTyped' /\ Busy'
BY DEF Goto, Built, Planned, Operations, Idle, MutationTyped, Busy


\* An operation that gives up before its plan was installed, or after everything
\* was rolled back, leaves all but its step alone.
LEMMA GivesUp ==
    ASSUME RInv, ProviderFails \/ PrepareFails \/ PersistFails
    PROVE  RInv'
<1>1. UNCHANGED <<managerVars, now, alive, registry, installs, disk, probes, loggedOut, lastToken>>
  BY DEF ProviderFails, PrepareFails, PersistFails
<1>2. /\ MutationTyped' /\ Busy' /\ Busy /\ mutation'.op = mutation.op
      /\ mutation'.user = mutation.user /\ mutation' # Idle /\ mutation # Idle
      /\ mutation'.step \in {"fail", "undo_selectors"}
      /\ AtSome({"authenticate", "fetch", "prepare", "persist"})
      /\ mutation'.step = "undo_selectors" <=> mutation.step = "persist"
      /\ mutation.step = "persist" =>
             /\ mutation \in Planned /\ mutation' \in Planned
             /\ mutation'.plan = mutation.plan /\ mutation'.previous = mutation.previous
             /\ mutation'.registry = mutation.registry
      /\ mutation.step # "persist" => mutation' \notin Planned
      /\ mutation.step = "authenticate" => mutation.op = "login"
  <2>1. CASE ProviderFails
    BY <2>1, StepShapes, EnteredGoes
       DEF RInv, Follows, ManagerFollows, ProviderFails, At, AtSome, Busy
  <2>2. CASE PrepareFails
    BY <2>2, StepShapes, BuiltFails DEF RInv, PrepareFails, At, AtSome, Busy
  <2>3. CASE PersistFails
    BY <2>3, StepShapes, PlannedGoes DEF RInv, PersistFails, At, AtSome, Busy, PlannedSteps
  <2> QED
    BY <2>1, <2>2, <2>3
<1>3. ~Resting' /\ ~Resting
  BY <1>2, StepShapes
     DEF RInv, Resting, Busy, Idle, Brief, Entered, Built, Planned, PlannedSteps, Operations
<1>4. TypeOK'
  BY <1>1, <1>2 DEF RInv, TypeOK, managerVars, M!TypeOK, Steps
<1>5. Follows'
  BY <1>1, <1>2, <1>3 DEF RInv, Follows, ManagerFollows, AtSome, At, managerVars, Swapped,
       SecretsFollow, KeyFollowsVerifier, BindingsFollow, SessionsBound, DiskFollows,
       CandidateFits, LogoutHolds, ProbesFollow, Pending, NextGeneration, LogoutIsDurable,
       Matches, M!HasSessions
<1> QED
  BY <1>2, <1>4, <1>5 DEF RInv

\* An operation enters with a short record.
LEMMA BriefEntered ==
    ASSUME mutation' \in Brief
    PROVE  /\ MutationTyped' /\ Resting' /\ ~Busy' /\ mutation' # Idle
           /\ mutation' \notin Planned /\ mutation'.step \in {"configure", "clear", "signout"}
BY DEF MutationTyped, Resting, Busy, Idle, Brief, Entered, Built, Planned, PlannedSteps

\* An operation leaves the mutex.
LEMMA Left ==
    ASSUME mutation' = Idle
    PROVE  MutationTyped' /\ Resting' /\ ~Busy' /\ mutation' \notin Planned
BY DEF MutationTyped, Resting, Busy, Idle, Brief, Entered, Built, Planned, Operations

\* Whoever enters found the mutex free.
LEMMA FreeRests == ASSUME MutationTyped, Free PROVE Resting /\ ~Busy /\ mutation \notin Planned
BY DEF MutationTyped, Free, Resting, Busy, Idle, Brief, Entered, Built, Planned, Operations

\* AccessSetup and the manager's key: the verifier is durable first.
LEMMA SetupSteps == ASSUME RInv, AccessSetup \/ AccessConfigure PROVE RInv'
<1> USE DEF RInv, Follows, ManagerFollows, AtSome, At, managerVars, Swapped,
       SecretsFollow, KeyFollowsVerifier, BindingsFollow, SessionsBound, DiskFollows,
       CandidateFits, LogoutHolds, ProbesFollow, Pending, NextGeneration, LogoutIsDurable,
       Matches, M!HasSessions
<1>1. CASE AccessSetup
  <2>1. mutation' \in Brief /\ mutation'.step = "configure" /\ Free
    BY <1>1 DEF AccessSetup, Brief, Enter
  <2>2. /\ disk'.subscription = disk.subscription /\ disk'.session = disk.session
        /\ disk'.verifier /\ ~disk.verifier
        /\ disk' \in [subscription : M!Subscriptions, verifier : BOOLEAN,
                      session : M!Snapshots \cup {NoSnapshot}]
    BY <1>1 DEF AccessSetup, TypeOK
  <2>3. UNCHANGED <<managerVars, now, alive, registry, installs, probes, loggedOut, lastToken>>
    BY <1>1 DEF AccessSetup
  <2>4. TypeOK'
    BY <2>1, <2>2, <2>3 DEF TypeOK, M!TypeOK, Steps
  <2>5. Follows'
    BY <2>1, <2>2, <2>3, BriefEntered, FreeRests DEF Free
  <2> QED
    BY <2>1, <2>4, <2>5, BriefEntered
<1>2. CASE AccessConfigure
  <2>1. mutation' = Idle /\ AtSome({"configure"}) /\ mutation \in Brief
    BY <1>2, StepShapes DEF AccessConfigure, Leave
  <2>2. /\ UNCHANGED <<alive, registry, installs, disk, probes, loggedOut, lastToken>>
        /\ keyConfigured' = TRUE
        /\ UNCHANGED <<state, active, lease, subscription, snapshot, handles, rollbacks, now>>
    BY <1>2 DEF AccessConfigure, M!ConfigureBindingKey
  <2>3. TypeOK'
    BY <2>1, <2>2 DEF TypeOK, M!TypeOK, Steps
  <2>4. Follows'
    BY <2>1, <2>2, Left, StepShapes
  <2> QED
    BY <2>1, <2>3, <2>4, Left
<1> QED
  BY <1>1, <1>2

\* What Wipe, signOutLocked and expireLocked leave of the snapshot.
LEMMA WipedViews ==
    ASSUME TypeOK, NEW t \in 0 .. MaxTime, NEW s,
           s = M!SignedOutView(snapshot) \/ s = M!ExpiredView(snapshot, t)
    PROVE  /\ s = NoSnapshot \/ s \in M!Snapshots
           /\ ~M!HasSessions(s) /\ SessionsOf(s) = NoSessions
           /\ s = NoSnapshot <=> snapshot = NoSnapshot
           /\ s # NoSnapshot => /\ s.generation = snapshot.generation
                                /\ s.createdAt = snapshot.createdAt
<1>1. CASE snapshot = NoSnapshot
  BY <1>1 DEF M!SignedOutView, M!ExpiredView, M!HasSessions, SessionsOf
<1>2. CASE snapshot # NoSnapshot
  <2>1. snapshot \in M!Snapshots
    BY <1>2 DEF TypeOK, M!TypeOK
  <2>2. t \in M!Time
    BY RuntimeConstants DEF M!Time
  <2>3. /\ s \in M!Snapshots /\ s.sessions = NoSessions
        /\ s.generation = snapshot.generation /\ s.createdAt = snapshot.createdAt
    BY <1>2, <2>1, <2>2 DEF M!SignedOutView, M!ExpiredView, M!Snapshots, M!Wiped
  <2> QED
    BY <1>2, <2>3, RuntimeConstants DEF M!HasSessions, SessionsOf
<1> QED
  BY <1>1, <1>2

\* Begin of a login or a refresh: the first needs a state without secrets, the
\* second one with them.
LEMMA BeginPreserves ==
    ASSUME RInv, NEW op \in Operations, NEW step \in {"authenticate", "fetch"}, NEW u \in Users,
           Free, M!Begin(op), mutation' = Operating(op, step, u),
           op = "login" => step = "authenticate" /\ loggedOut' = FALSE,
           op = "refresh" => step = "fetch" /\ u = snapshot.sessions.user /\ loggedOut' = loggedOut,
           UNCHANGED <<alive, registry, installs, disk, probes, lastToken>>
    PROVE  RInv'
<1> USE DEF RInv, Follows, ManagerFollows, AtSome, At, managerVars, Swapped,
       SecretsFollow, KeyFollowsVerifier, BindingsFollow, SessionsBound, DiskFollows,
       CandidateFits, LogoutHolds, ProbesFollow, Pending, NextGeneration, LogoutIsDurable,
       Matches, M!HasSessions
<1>2. /\ active' = op /\ lease' = lease + 1 /\ lease < MaxLease
      /\ UNCHANGED <<subscription, keyConfigured, snapshot, rollbacks, now>>
      /\ op = "login" => state' = "authenticating" /\ ~M!HasSessions(snapshot)
      /\ op = "refresh" => state' = "syncing" /\ M!HasSessions(snapshot)
  BY DEF M!Begin, M!BeginTarget, Operations
<1>3. handles' = {[lease |-> lease', op |-> op]} /\ rollbacks = {}
  BY FreeRests DEF M!Begin
<1>4. /\ mutation' \in Entered /\ mutation' # Idle /\ mutation'.step = step
      /\ mutation'.op = op /\ mutation'.user = u
      /\ Busy' /\ ~Resting' /\ MutationTyped' /\ mutation' \notin Planned
  BY DEF Operating, Entered, Idle, Busy, Resting, Brief, MutationTyped, Planned, PlannedSteps,
     Operations
<1>5. lease' \in 1 .. MaxLease /\ lease' \in 0 .. MaxLease
  <2>1. lease \in 0 .. MaxLease /\ MaxLease \in Nat
    BY RuntimeConstants DEF TypeOK, M!TypeOK
  <2> QED
    BY <1>2, <2>1
<1>6. TypeOK'
  <2>1. handles' \subseteq [lease : 1 .. MaxLease, op : M!Operation]
    BY <1>3, <1>5 DEF M!Operation, Operations
  <2>2. state' \in M!ServiceState /\ active' \in M!Operation
    BY <1>2 DEF M!ServiceState, M!Operation, Operations
  <2> QED
    BY <1>2, <1>4, <1>5, <2>1, <2>2 DEF TypeOK, M!TypeOK, Steps, Operations
<1>7. Follows'
  BY <1>2, <1>3, <1>4, FreeRests DEF Free, Operations
<1> QED
  BY <1>4, <1>6, <1>7

\* Beginning a login or a refresh, which takes the manager's lease, keeps RInv.
LEMMA BeginSteps ==
    ASSUME RInv, (\E u \in Users : LoginBegin(u)) \/ RefreshBegin
    PROVE  RInv'
<1>1. ASSUME NEW u \in Users, LoginBegin(u) PROVE RInv'
  BY <1>1, BeginPreserves DEF LoginBegin, Enter, Operations
<1>2. CASE RefreshBegin
  <2>1. state \in {"ready", "degraded"}
    BY <1>2 DEF RefreshBegin, M!Begin, M!BeginTarget
  <2>2. M!HasSessions(snapshot)
    BY <2>1 DEF RInv, Follows, SecretsFollow
  <2>3. snapshot.sessions.user \in Users
    BY <2>2 DEF RInv, TypeOK, M!TypeOK, M!HasSessions, M!Snapshots, M!Sessions
  <2>4. /\ Free /\ M!Begin("refresh") /\ loggedOut' = loggedOut
        /\ mutation' = Operating("refresh", "fetch", snapshot.sessions.user)
        /\ UNCHANGED <<alive, registry, installs, disk, probes, lastToken>>
    BY <1>2 DEF RefreshBegin, Enter
  <2> QED
    BY <2>3, <2>4, BeginPreserves DEF Operations
<1> QED
  BY <1>1, <1>2

\* Both profiles are logged in: the manager enters syncing.
LEMMA AuthenticatedStep == ASSUME RInv, LoginAuthenticated PROVE RInv'
<1> USE DEF RInv, Follows, ManagerFollows, AtSome, At, managerVars, Swapped,
       SecretsFollow, KeyFollowsVerifier, BindingsFollow, SessionsBound, DiskFollows,
       CandidateFits, LogoutHolds, ProbesFollow, Pending, NextGeneration, LogoutIsDurable,
       Matches, M!HasSessions
<1>1. AtSome({"authenticate"}) /\ mutation \in Entered /\ Busy /\ ~Resting /\ Goto("fetch")
  BY StepShapes DEF LoginAuthenticated, Busy
<1>2. /\ mutation' \in Entered /\ mutation' # Idle /\ mutation'.step = "fetch"
      /\ mutation'.op = mutation.op /\ mutation'.user = mutation.user
      /\ mutation' \notin Planned /\ MutationTyped' /\ Busy' /\ ~Resting'
  BY <1>1, EnteredGoes DEF Resting, Idle, Brief, Entered, Operations
<1>3. /\ state' = "syncing"
      /\ UNCHANGED <<active, lease, subscription, keyConfigured, snapshot, handles, rollbacks,
                     now, alive, registry, installs, disk, probes, loggedOut, lastToken>>
  BY DEF LoginAuthenticated, M!TransitionToSyncing
<1>4. TypeOK'
  BY <1>2, <1>3 DEF TypeOK, M!TypeOK, M!ServiceState, Steps
<1>5. Follows'
  BY <1>1, <1>2, <1>3
<1> QED
  BY <1>2, <1>4, <1>5

\* Refresher.commit builds a candidate that fits the snapshot and is newer than every
\* session.
LEMMA FetchStep ==
    ASSUME RInv, NEW t \in Tokens, NEW n \in SUBSET Nodes, FetchCatalogue(t, n)
    PROVE  RInv'
<1> USE DEF RInv, Follows, ManagerFollows, AtSome, At, managerVars, Swapped,
       SecretsFollow, KeyFollowsVerifier, BindingsFollow, SessionsBound, DiskFollows,
       CandidateFits, LogoutHolds, ProbesFollow, Pending, NextGeneration, LogoutIsDurable,
       Matches, M!HasSessions
<1> DEFINE c == BuildCandidate(t, n)
<1>1. AtSome({"fetch"}) /\ mutation \in Entered /\ Busy /\ ~Resting
  BY StepShapes DEF FetchCatalogue, Busy
<1>2. /\ mutation.user \in Users /\ mutation.op \in Operations
      /\ now \in Nat /\ now <= MaxTime /\ Lifetime \in Nat /\ Lifetime # 0
      /\ registry.generation \in 1 .. MaxGeneration
      /\ lastToken' = t /\ t = lastToken + 1 /\ t \in Nat /\ lastToken \in Nat
      /\ installs < MaxInstalls
      /\ UNCHANGED <<managerVars, now, alive, registry, installs, disk, probes, loggedOut>>
  BY <1>1, RuntimeConstants DEF FetchCatalogue, Entered, TypeOK, M!TypeOK, Registries
<1>3. NextGeneration \in 1 .. MaxGeneration
  <2>1. CASE snapshot = NoSnapshot
    BY <2>1, RuntimeConstants DEF FetchCatalogue
  <2>2. CASE snapshot \in M!Snapshots
    <3>1. snapshot.generation \in 1 .. MaxGeneration
      BY <2>2 DEF M!Snapshots
    <3> QED
      BY <2>2, <3>1, RuntimeConstants DEF FetchCatalogue
  <2> QED
    BY <2>1, <2>2 DEF TypeOK, M!TypeOK
<1>4. /\ c \in M!Snapshots
      /\ c.sessions = [user |-> mutation.user, token |-> t]
      /\ c.generation = NextGeneration /\ c.expiresAt = c.createdAt + Lifetime
  <2>1. now \in M!Time /\ now + Lifetime \in M!Time
    BY <1>2, RuntimeConstants DEF M!Time
  <2>2. [generation |-> registry.generation, nodes |-> n] \in Routes
    BY <1>2 DEF Routes
  <2>3. [user |-> mutation.user, token |-> t] \in M!Sessions
    BY <1>2 DEF M!Sessions
  <2> HIDE DEF NextGeneration
  <2> QED
    BY <1>2, <1>3, <2>1, <2>2, <2>3 DEF BuildCandidate, M!Snapshots
<1>5. mutation' = [op |-> mutation.op, step |-> "prepare", user |-> mutation.user, candidate |-> c]
  BY DEF FetchCatalogue
<1> HIDE DEF c
<1>6. /\ mutation' \in Built /\ mutation' # Idle /\ mutation'.step = "prepare"
      /\ mutation'.op = mutation.op /\ mutation'.user = mutation.user
      /\ mutation'.candidate = c
      /\ mutation' \notin Planned /\ MutationTyped' /\ Busy' /\ ~Resting'
  BY <1>2, <1>4, <1>5
     DEF Built, Idle, Planned, MutationTyped, Busy, Resting, Brief, Operations, PlannedSteps
<1>7. TypeOK'
  BY <1>2, <1>6 DEF TypeOK, M!TypeOK, Steps
<1>8. ManagerFollows' /\ SecretsFollow' /\ KeyFollowsVerifier' /\ BindingsFollow'
  BY <1>1, <1>2, <1>6
<1>9. SessionsBound' /\ DiskFollows' /\ LogoutHolds' /\ ProbesFollow'
  BY <1>1, <1>2, <1>6
<1>10. CandidateFits'
  <2>1. M!HasSessions(snapshot) => snapshot.sessions.token \in Nat
    BY RuntimeConstants DEF TypeOK, M!TypeOK, M!Snapshots, M!Sessions
  <2>2. disk.session # NoSnapshot => disk.session.sessions.token \in Nat
    BY RuntimeConstants DEF TypeOK, M!Snapshots, M!Sessions
  <2> QED
    BY <1>1, <1>2, <1>4, <1>6, <2>1, <2>2
<1> QED
  BY <1>6, <1>7, <1>8, <1>9, <1>10

\* PrepareRuntimeCommit plans a generation the manager will accept.
LEMMA PrepareStep == ASSUME RInv, NEW k \in Keys, Prepare(k) PROVE RInv'
<1> USE DEF RInv, Follows, ManagerFollows, AtSome, At, managerVars, Swapped,
       SecretsFollow, KeyFollowsVerifier, BindingsFollow, SessionsBound, DiskFollows,
       CandidateFits, LogoutHolds, ProbesFollow, Pending, NextGeneration, LogoutIsDurable,
       Matches, M!HasSessions
<1> DEFINE plan == EnsureBinding(disk.subscription, mutation.user, k)
<1>1. AtSome({"prepare"}) /\ mutation \in Built /\ Busy /\ ~Resting
  BY StepShapes DEF Prepare, Busy
<1>2. /\ mutation.user \in Users /\ mutation.op \in Operations
      /\ mutation.candidate \in M!Snapshots
      /\ disk.subscription \in M!Subscriptions /\ registry \in Registries
  BY <1>1 DEF Built, TypeOK
<1>3. /\ plan \in M!Subscriptions /\ plan.generation # 0 /\ plan.account = mutation.user
      /\ M!SuccessorGeneration(disk.subscription, plan)
  <2>1. /\ plan \in M!Subscriptions /\ k > disk.subscription.key
        /\ disk.subscription.key \in Nat /\ k \in Nat
        /\ disk.subscription.generation \in Nat /\ disk.subscription.generation # 0
        /\ mutation.user # NoUser
    BY <1>2, RuntimeConstants DEF Prepare, M!Subscriptions
  <2>2. CASE disk.subscription.account \in {NoUser, mutation.user}
    <3>1. plan.account = mutation.user /\ plan.generation = disk.subscription.generation
          /\ plan.key = disk.subscription.key
      BY <1>2, <2>2 DEF EnsureBinding, M!Subscriptions
    <3> HIDE DEF plan
    <3> QED
      BY <2>1, <2>2, <3>1 DEF M!SuccessorGeneration
  <2>3. CASE disk.subscription.account \notin {NoUser, mutation.user}
    <3>1. plan = [generation |-> disk.subscription.generation + 1, account |-> mutation.user, key |-> k]
      BY <2>3 DEF EnsureBinding
    <3>2. plan.account = mutation.user /\ plan.generation = disk.subscription.generation + 1
          /\ plan.key = k
      BY <3>1
    <3> HIDE DEF plan
    <3> QED
      BY <2>1, <2>3, <3>2 DEF M!SuccessorGeneration
  <2> QED
    BY <2>2, <2>3
<1>4. /\ mutation' = [op |-> mutation.op, step |-> "install", user |-> mutation.user,
                      candidate |-> mutation.candidate, plan |-> plan,
                      previous |-> disk.subscription, registry |-> registry]
      /\ UNCHANGED <<managerVars, now, alive, registry, installs, disk, probes, loggedOut, lastToken>>
      /\ disk.verifier
  BY DEF Prepare
<1> HIDE DEF plan
<1>5. /\ mutation' \in Planned /\ mutation' # Idle /\ mutation'.step = "install"
      /\ mutation'.op = mutation.op /\ mutation'.user = mutation.user
      /\ mutation'.candidate = mutation.candidate /\ mutation'.plan = plan
      /\ mutation'.previous = disk.subscription /\ mutation'.registry = registry
      /\ MutationTyped' /\ Busy' /\ ~Resting'
  BY <1>2, <1>3, <1>4
     DEF Idle, Planned, MutationTyped, Busy, Resting, Brief, Operations, PlannedSteps
<1>6. TypeOK'
  BY <1>4, <1>5 DEF TypeOK, M!TypeOK, Steps
<1>7. Follows'
  BY <1>1, <1>3, <1>4, <1>5
<1> QED
  BY <1>5, <1>6, <1>7

\* The manager takes the planned generation; sessions it holds are of the account.
LEMMA InstallStep == ASSUME RInv, Install PROVE RInv'
<1> USE DEF RInv, Follows, ManagerFollows, AtSome, At, managerVars, Swapped,
       SecretsFollow, KeyFollowsVerifier, BindingsFollow, SessionsBound, DiskFollows,
       CandidateFits, LogoutHolds, ProbesFollow, Pending, NextGeneration, LogoutIsDurable,
       Matches, M!HasSessions
<1>1. AtSome({"install"}) /\ mutation \in Planned /\ Busy /\ ~Resting /\ Goto("selectors")
  BY StepShapes DEF Install, Busy
<1>2. /\ mutation' \in Planned /\ mutation' # Idle /\ mutation'.step = "selectors"
      /\ mutation'.op = mutation.op /\ mutation'.user = mutation.user
      /\ mutation'.candidate = mutation.candidate /\ mutation'.plan = mutation.plan
      /\ mutation'.previous = mutation.previous /\ mutation'.registry = mutation.registry
      /\ MutationTyped' /\ Busy' /\ ~Resting'
  BY <1>1, PlannedGoes DEF PlannedSteps, Resting, Idle, Brief, Planned, Operations
<1>3. /\ subscription' = mutation.plan
      /\ rollbacks' = {[candidate |-> mutation.plan, previous |-> mutation.previous]}
      /\ UNCHANGED <<state, active, lease, keyConfigured, snapshot, handles, now,
                     alive, registry, installs, disk, probes, loggedOut, lastToken>>
  BY <1>1 DEF Install, M!InstallSubscriptionGeneration
<1>4. mutation.plan \in M!Subscriptions /\ mutation.previous \in M!Subscriptions
      /\ mutation.op \in Operations
  BY <1>1 DEF Planned
<1>5. TypeOK'
  BY <1>2, <1>3, <1>4 DEF TypeOK, M!TypeOK, Steps
<1>6. Follows'
  BY <1>1, <1>2, <1>3, <1>4 DEF Operations
<1> QED
  BY <1>2, <1>5, <1>6

\* InstallGeneration swaps the registry and rebuilds the candidate's selectors.
LEMMA InstallSelectorsStep == ASSUME RInv, InstallSelectors PROVE RInv'
<1> USE DEF RInv, Follows, ManagerFollows, AtSome, At, managerVars, Swapped,
       SecretsFollow, KeyFollowsVerifier, BindingsFollow, SessionsBound, DiskFollows,
       CandidateFits, LogoutHolds, ProbesFollow, Pending, NextGeneration, LogoutIsDurable,
       Matches, M!HasSessions
<1>1. AtSome({"selectors"}) /\ mutation \in Planned /\ Busy /\ ~Resting
  BY StepShapes DEF InstallSelectors, Busy
<1>2. /\ mutation.plan \in M!Subscriptions /\ mutation.candidate \in M!Snapshots
      /\ mutation.plan.generation \in 1 .. MaxGeneration
      /\ installs \in Nat /\ installs < MaxInstalls
  BY <1>1, RuntimeConstants DEF Planned, M!Subscriptions, TypeOK
<1> DEFINE c == [mutation.candidate EXCEPT !.routes = [@ EXCEPT !.generation = mutation.plan.generation]]
<1>3. /\ c \in M!Snapshots /\ c.sessions = mutation.candidate.sessions
      /\ c.generation = mutation.candidate.generation
      /\ c.expiresAt = mutation.candidate.expiresAt /\ c.createdAt = mutation.candidate.createdAt
      /\ c.routes.generation = mutation.plan.generation
  BY <1>2 DEF M!Snapshots, Routes
<1>4. mutation' = [mutation EXCEPT !.step = "persist", !.candidate = c]
  BY <1>1 DEF InstallSelectors, Planned
<1> HIDE DEF c
<1>5. /\ mutation' \in Planned /\ mutation' # Idle /\ mutation'.step = "persist"
      /\ mutation'.op = mutation.op /\ mutation'.user = mutation.user
      /\ mutation'.candidate = c /\ mutation'.plan = mutation.plan
      /\ mutation'.previous = mutation.previous /\ mutation'.registry = mutation.registry
      /\ MutationTyped' /\ Busy' /\ ~Resting'
  BY <1>1, <1>3, <1>4
     DEF PlannedSteps, Resting, Idle, Brief, Planned, Operations, MutationTyped, Busy
<1>6. /\ installs' = installs + 1
      /\ registry' = RegistryOf(mutation.plan, installs')
      /\ UNCHANGED <<managerVars, now, alive, disk, probes, loggedOut, lastToken>>
  BY DEF InstallSelectors
<1>7. registry' \in Registries /\ installs' \in 0 .. MaxInstalls
  BY <1>2, <1>6, RuntimeConstants DEF RegistryOf, Registries, M!Subscriptions
<1>8. Matches(registry', mutation.plan)
  BY <1>6 DEF RegistryOf
<1>9. TypeOK'
  BY <1>5, <1>6, <1>7 DEF TypeOK, M!TypeOK, Steps
<1>10. Follows'
  BY <1>1, <1>3, <1>5, <1>6, <1>8
<1> QED
  BY <1>5, <1>9, <1>10

\* CommitRuntimeSnapshot: binding and session become durable together.
LEMMA PersistStep == ASSUME RInv, Persist PROVE RInv'
<1> USE DEF RInv, Follows, ManagerFollows, AtSome, At, managerVars, Swapped,
       SecretsFollow, KeyFollowsVerifier, BindingsFollow, SessionsBound, DiskFollows,
       CandidateFits, LogoutHolds, ProbesFollow, Pending, NextGeneration, LogoutIsDurable,
       Matches, M!HasSessions
<1>1. AtSome({"persist"}) /\ mutation \in Planned /\ Busy /\ ~Resting /\ Goto("publish")
  BY StepShapes DEF Persist, Busy
<1>2. /\ mutation' \in Planned /\ mutation' # Idle /\ mutation'.step = "publish"
      /\ mutation'.op = mutation.op /\ mutation'.user = mutation.user
      /\ mutation'.candidate = mutation.candidate /\ mutation'.plan = mutation.plan
      /\ mutation'.previous = mutation.previous /\ mutation'.registry = mutation.registry
      /\ MutationTyped' /\ Busy' /\ ~Resting'
  BY <1>1, PlannedGoes DEF PlannedSteps, Resting, Idle, Brief, Planned, Operations
<1>3. /\ mutation.candidate \in M!Snapshots /\ mutation.plan \in M!Subscriptions
      /\ mutation.user \in Users /\ mutation.op \in Operations
      /\ mutation.candidate.routes.nodes # {}
      /\ mutation.candidate # NoSnapshot
      /\ mutation.candidate.sessions # NoSessions
      /\ mutation.candidate.sessions.user = mutation.user
      /\ mutation.candidate.sessions.token = lastToken
  <2>1. mutation.candidate.sessions = [user |-> mutation.user, token |-> lastToken]
    BY <1>1
  <2>2. mutation.candidate \in M!Snapshots
    BY <1>1 DEF Planned
  <2>3. mutation.candidate.sessions # NoSessions
    <3>1. lastToken \in Tokens
      BY <1>1
    <3>2. mutation.candidate.sessions \in M!Sessions
      BY <1>1, <2>1, <3>1 DEF Planned, M!Sessions
    <3> QED
      BY <3>2, RuntimeConstants
  <2> QED
    BY <1>1, <2>1, <2>2, <2>3, RuntimeConstants DEF Persist, CanPersist, EligibleRoutes, Planned
<1>4. /\ disk'.subscription = mutation.plan /\ disk'.session = mutation.candidate
      /\ disk'.verifier = disk.verifier
      /\ disk' \in [subscription : M!Subscriptions, verifier : BOOLEAN,
                    session : M!Snapshots \cup {NoSnapshot}]
      /\ UNCHANGED <<managerVars, now, alive, registry, installs, probes, loggedOut, lastToken>>
  BY <1>3 DEF Persist, TypeOK
<1>5. TypeOK'
  BY <1>2, <1>4 DEF TypeOK, M!TypeOK, Steps
<1>6. ManagerFollows' /\ SecretsFollow' /\ KeyFollowsVerifier' /\ BindingsFollow'
  BY <1>1, <1>2, <1>4
<1>7. SessionsBound'
  <2>1. M!HasSessions(snapshot) => /\ mutation.previous.account = mutation.plan.account
                                   /\ mutation.previous.generation = mutation.plan.generation
    BY <1>1, <1>3 DEF M!SuccessorGeneration, Operations
  <2> QED
    BY <1>1, <1>3, <1>4, <2>1
<1>8. DiskFollows' /\ CandidateFits' /\ LogoutHolds' /\ ProbesFollow'
  BY <1>1, <1>2, <1>3, <1>4 DEF Operations
<1> QED
  BY <1>2, <1>5, <1>6, <1>7, <1>8

\* The finish function and the rollback the operation holds are the ones it was given.
LEMMA HeldFunctions ==
    ASSUME RInv, Busy
    PROVE  /\ Handle \in handles /\ Handle.op = mutation.op /\ handles \ {Handle} = {}
           /\ M!OwnsLease(Handle)
           /\ Swapped \/ AtSome({"publish", "return"}) =>
                  /\ Rollback \in rollbacks /\ rollbacks \ {Rollback} = {}
                  /\ Rollback.candidate = mutation.plan
                  /\ Rollback.previous = mutation.previous
<1>1. handles = {[lease |-> lease, op |-> mutation.op]} /\ active = mutation.op
  BY DEF RInv, Follows, ManagerFollows
<1>2. \E h \in handles : M!OwnsLease(h)
  BY <1>1 DEF M!OwnsLease
<1>3. Handle \in handles /\ M!OwnsLease(Handle)
  BY <1>2 DEF Handle
<1>4. ASSUME Swapped \/ AtSome({"publish", "return"})
      PROVE  rollbacks = {[candidate |-> mutation.plan, previous |-> mutation.previous]}
  BY <1>4 DEF RInv, Follows, ManagerFollows
<1>5. ASSUME Swapped \/ AtSome({"publish", "return"}) PROVE Rollback \in rollbacks
  BY <1>4, <1>5 DEF Rollback
<1> QED
  BY <1>1, <1>3, <1>4, <1>5

\* Selectors that could not be installed leave the old registry, and the rollback of
\* the manager is next.
LEMMA InstallSelectorsFailsStep == ASSUME RInv, InstallSelectorsFails PROVE RInv'
<1> USE DEF RInv, Follows, ManagerFollows, AtSome, At, managerVars, Swapped,
       SecretsFollow, KeyFollowsVerifier, BindingsFollow, SessionsBound, DiskFollows,
       CandidateFits, LogoutHolds, ProbesFollow, Pending, NextGeneration, LogoutIsDurable,
       Matches, M!HasSessions
<1>1. /\ AtSome({"selectors"}) /\ mutation \in Planned /\ Busy /\ ~Resting
      /\ Goto("undo_manager")
  BY StepShapes DEF InstallSelectorsFails, Busy
<1>2. /\ mutation' \in Planned /\ mutation' # Idle /\ mutation'.step = "undo_manager"
      /\ mutation'.op = mutation.op /\ mutation'.user = mutation.user
      /\ mutation'.candidate = mutation.candidate /\ mutation'.plan = mutation.plan
      /\ mutation'.previous = mutation.previous /\ mutation'.registry = mutation.registry
      /\ MutationTyped' /\ Busy' /\ ~Resting'
  BY <1>1, PlannedGoes DEF PlannedSteps, Resting, Idle, Brief, Planned, Operations
<1>3. UNCHANGED <<managerVars, now, alive, registry, installs, disk, probes, loggedOut, lastToken>>
  BY DEF InstallSelectorsFails
<1>4. TypeOK'
  BY <1>2, <1>3 DEF TypeOK, M!TypeOK, Steps
<1>5. Follows'
  BY <1>1, <1>2, <1>3
<1> QED
  BY <1>2, <1>4, <1>5

\* A failed commit gives the registry back, then the manager's generation.
LEMMA UndoSteps == ASSUME RInv, UndoSelectors \/ UndoManager PROVE RInv'
<1> USE DEF RInv, Follows, ManagerFollows, AtSome, At, managerVars, Swapped,
       SecretsFollow, KeyFollowsVerifier, BindingsFollow, SessionsBound, DiskFollows,
       CandidateFits, LogoutHolds, ProbesFollow, Pending, NextGeneration, LogoutIsDurable,
       Matches, M!HasSessions
<1>1. /\ AtSome({"undo_selectors", "undo_manager"})
      /\ mutation \in Planned /\ Busy /\ ~Resting
      /\ UndoSelectors => mutation.step = "undo_selectors" /\ Goto("undo_manager")
      /\ UndoManager => mutation.step = "undo_manager" /\ Goto("fail")
  BY StepShapes DEF UndoSelectors, UndoManager, Busy
<1>2. /\ mutation' \in Planned /\ mutation' # Idle
      /\ mutation'.op = mutation.op /\ mutation'.user = mutation.user
      /\ mutation'.candidate = mutation.candidate /\ mutation'.plan = mutation.plan
      /\ mutation'.previous = mutation.previous /\ mutation'.registry = mutation.registry
      /\ UndoSelectors => mutation'.step = "undo_manager"
      /\ UndoManager => mutation'.step = "fail"
      /\ MutationTyped' /\ Busy' /\ ~Resting'
  BY <1>1, PlannedGoes DEF PlannedSteps, Resting, Idle, Brief, Planned, Operations
<1>3. CASE UndoSelectors
  <2>1. /\ registry' = mutation.registry /\ registry' \in Registries
        /\ UNCHANGED <<managerVars, now, alive, installs, disk, probes, loggedOut, lastToken>>
    BY <1>1, <1>3 DEF UndoSelectors, Planned
  <2>2. TypeOK'
    BY <1>2, <1>3, <2>1 DEF TypeOK, M!TypeOK, Steps
  <2>3. Follows'
    BY <1>1, <1>2, <1>3, <2>1
  <2> QED
    BY <1>2, <2>2, <2>3
<1>4. CASE UndoManager
  <2>1. /\ subscription' = mutation.previous /\ rollbacks' = {}
        /\ UNCHANGED <<state, active, lease, keyConfigured, snapshot, handles, now,
                       alive, registry, installs, disk, probes, loggedOut, lastToken>>
    BY <1>1, <1>4, HeldFunctions DEF UndoManager, M!RollbackInstall
  <2>2. TypeOK'
    BY <1>1, <1>2, <1>4, <2>1 DEF TypeOK, M!TypeOK, Steps, Planned
  <2>3. Follows'
    BY <1>1, <1>2, <1>4, <2>1
  <2> QED
    BY <1>2, <2>2, <2>3
<1> QED
  BY <1>3, <1>4

\* Commit publishes what is durable, and the rollbacks are dropped.
LEMMA PublishSteps == ASSUME RInv, Publish \/ Return PROVE RInv'
<1> USE DEF RInv, Follows, ManagerFollows, AtSome, At, managerVars, Swapped,
       SecretsFollow, KeyFollowsVerifier, BindingsFollow, SessionsBound, DiskFollows,
       CandidateFits, LogoutHolds, ProbesFollow, Pending, NextGeneration, LogoutIsDurable,
       Matches, M!HasSessions
<1>1. /\ AtSome({"publish", "return"})
      /\ mutation \in Planned /\ Busy /\ ~Resting
      /\ Publish => mutation.step = "publish" /\ Goto("return")
      /\ Return => mutation.step = "return" /\ Goto("done")
  BY StepShapes DEF Publish, Return, Busy
<1>2. /\ mutation' \in Planned /\ mutation' # Idle
      /\ mutation'.op = mutation.op /\ mutation'.user = mutation.user
      /\ mutation'.candidate = mutation.candidate /\ mutation'.plan = mutation.plan
      /\ mutation'.previous = mutation.previous /\ mutation'.registry = mutation.registry
      /\ Publish => mutation'.step = "return"
      /\ Return => mutation'.step = "done"
      /\ MutationTyped' /\ Busy' /\ ~Resting'
  BY <1>1, PlannedGoes DEF PlannedSteps, Resting, Idle, Brief, Planned, Operations
<1>3. CASE Publish
  <2>1. /\ snapshot' = mutation.candidate /\ snapshot' \in M!Snapshots
        /\ snapshot' # NoSnapshot /\ snapshot'.sessions # NoSessions
        /\ state' = "ready"
        /\ UNCHANGED <<active, lease, subscription, keyConfigured, handles, rollbacks, now,
                       alive, registry, installs, disk, probes, loggedOut, lastToken>>
    BY <1>1, <1>3, RuntimeConstants DEF Publish, M!Commit, M!CanCommit, Planned
  <2>2. TypeOK'
    BY <1>2, <1>3, <2>1 DEF TypeOK, M!TypeOK, M!ServiceState, Steps
  <2>3. ManagerFollows' /\ SecretsFollow' /\ KeyFollowsVerifier' /\ BindingsFollow'
    BY <1>1, <1>2, <1>3, <2>1
  <2>4. SessionsBound' /\ DiskFollows'
    BY <1>1, <1>2, <1>3, <2>1
  <2>5. CandidateFits'
    BY <1>1, <1>2, <1>3, <2>1
  <2>6. LogoutHolds'
    BY <1>1, <1>2, <1>3, <2>1 DEF Operations, Planned
  <2>7. ProbesFollow'
    <3> SUFFICES ASSUME NEW p \in probes
                 PROVE  p.generation < mutation.candidate.generation
      BY <2>1 DEF TypeOK, M!Snapshots
    <3>1. /\ snapshot # NoSnapshot /\ p.generation <= snapshot.generation
          /\ mutation.candidate.generation = snapshot.generation + 1
      BY <1>1, <1>3
    <3>2. snapshot.generation \in Nat /\ p.generation \in Nat
      BY <3>1 DEF TypeOK, M!TypeOK, M!Snapshots
    <3> QED
      BY <3>1, <3>2
  <2> QED
    BY <1>2, <2>2, <2>3, <2>4, <2>5, <2>6, <2>7
<1>4. CASE Return
  <2>1. /\ rollbacks' = {}
        /\ UNCHANGED <<state, active, lease, subscription, keyConfigured, snapshot, handles, now,
                       alive, registry, installs, disk, probes, loggedOut, lastToken>>
    BY <1>1, <1>4, HeldFunctions DEF Return, M!DropRollback
  <2>2. TypeOK'
    BY <1>2, <1>4, <2>1 DEF TypeOK, M!TypeOK, Steps
  <2>3. Follows'
    BY <1>1, <1>2, <1>4, <2>1
  <2> QED
    BY <1>2, <2>2, <2>3
<1> QED
  BY <1>3, <1>4

\* The deferred finish of a successful operation leaves the mutex and the manager ready.
LEMMA SucceedStep == ASSUME RInv, Succeed PROVE RInv'
<1> USE DEF RInv, Follows, ManagerFollows, AtSome, At, managerVars, Swapped,
       SecretsFollow, KeyFollowsVerifier, BindingsFollow, SessionsBound, DiskFollows,
       CandidateFits, LogoutHolds, ProbesFollow, Pending, NextGeneration, LogoutIsDurable,
       Matches, M!HasSessions
<1>1. AtSome({"done"}) /\ mutation \in Planned /\ Busy /\ ~Resting /\ mutation' = Idle
  BY StepShapes DEF Succeed, Busy, Leave
<1>2. /\ active' = "none" /\ handles' = {} /\ state' = state /\ snapshot' = snapshot
      /\ UNCHANGED <<lease, subscription, keyConfigured, rollbacks, now,
                     alive, registry, installs, disk, probes, loggedOut, lastToken>>
  BY <1>1, HeldFunctions DEF Succeed, M!Finish, M!FinishSucceeded
<1>3. TypeOK'
  BY <1>1, <1>2 DEF TypeOK, M!TypeOK
<1>4. Follows'
  BY <1>1, <1>2, Left
<1> QED
  BY <1>1, <1>3, <1>4, Left

\* A failed login signs out; a failed refresh keeps its authority or, once that
\* expired, goes on to clear it.
LEMMA FailStep == ASSUME RInv, Fail PROVE RInv'
<1> USE DEF RInv, Follows, ManagerFollows, AtSome, At, managerVars, Swapped,
       SecretsFollow, KeyFollowsVerifier, BindingsFollow, SessionsBound, DiskFollows,
       CandidateFits, LogoutHolds, ProbesFollow, Pending, NextGeneration, LogoutIsDurable,
       Matches, M!HasSessions
<1>1. AtSome({"fail"}) /\ Busy /\ ~Resting /\ mutation.op \in Operations
  BY StepShapes DEF Fail
<1>2. /\ active' = "none" /\ handles' = {}
      /\ UNCHANGED <<lease, subscription, keyConfigured, rollbacks, now,
                     alive, registry, installs, disk, probes, loggedOut, lastToken>>
  BY <1>1, HeldFunctions DEF Fail, M!Finish
<1>3. \/ /\ mutation.op = "login" /\ state' = "signed_out"
         /\ snapshot' = M!SignedOutView(snapshot) /\ mutation' = Idle
      \/ /\ mutation.op = "refresh" /\ state' = "degraded" /\ snapshot' = snapshot
         /\ mutation' = Idle
      \/ /\ mutation.op = "refresh" /\ state' = "expired"
         /\ snapshot' = M!ExpiredView(snapshot, now)
         /\ mutation' = [op |-> "refresh", step |-> "clear"]
  <2>1. CASE mutation.op = "login"
    BY <1>1, <2>1, HeldFunctions DEF Fail, M!Finish, M!FinishFailedLogin, Leave
  <2>2. CASE mutation.op = "refresh"
    BY <1>1, <2>2, HeldFunctions DEF Fail, M!Finish, M!FinishFailedRefresh, Leave
  <2> QED
    BY <1>1, <2>1, <2>2 DEF Operations
<1>4. now \in 0 .. MaxTime /\ TypeOK
  BY DEF TypeOK, M!TypeOK
<1>5. CASE mutation.op = "refresh" /\ state' = "degraded" /\ snapshot' = snapshot
           /\ mutation' = Idle
  <2>1. TypeOK'
    BY <1>2, <1>5 DEF TypeOK, M!TypeOK, M!ServiceState
  <2>2. Follows'
    BY <1>1, <1>2, <1>5, Left
  <2> QED
    BY <1>5, <2>1, <2>2, Left
<1>6. CASE /\ \/ state' = "signed_out" /\ snapshot' = M!SignedOutView(snapshot)
              \/ state' = "expired" /\ snapshot' = M!ExpiredView(snapshot, now)
           /\ mutation' = Idle \/ mutation' = [op |-> "refresh", step |-> "clear"]
  <2>1. mutation' = Idle \/ (mutation' \in Brief /\ mutation'.step = "clear")
    BY <1>6 DEF Brief
  <2>2. MutationTyped' /\ Resting' /\ ~Busy' /\ mutation' \notin Planned
    BY <2>1, Left, BriefEntered
  <2>3. /\ snapshot' = NoSnapshot \/ snapshot' \in M!Snapshots
        /\ ~M!HasSessions(snapshot')
        /\ snapshot' = NoSnapshot <=> snapshot = NoSnapshot
        /\ snapshot' # NoSnapshot => /\ snapshot'.generation = snapshot.generation
                                     /\ snapshot'.createdAt = snapshot.createdAt
    BY <1>4, <1>6, WipedViews
  <2>4. TypeOK'
    BY <1>2, <1>6, <2>1, <2>3 DEF TypeOK, M!TypeOK, M!ServiceState, Steps
  <2>5. Follows'
    BY <1>1, <1>2, <1>6, <2>1, <2>2, <2>3
  <2> QED
    BY <2>2, <2>4, <2>5
<1> QED
  BY <1>3, <1>5, <1>6

\* The snapshot loses its secrets outside a login or refresh: logout, expiry, Stop.
LEMMA WipeSteps ==
    ASSUME RInv, LogoutSignOut \/ StopSignOut \/ ExpireAuthority
    PROVE  RInv'
<1> USE DEF RInv, Follows, ManagerFollows, AtSome, At, managerVars, Swapped,
       SecretsFollow, KeyFollowsVerifier, BindingsFollow, SessionsBound, DiskFollows,
       CandidateFits, LogoutHolds, ProbesFollow, Pending, NextGeneration, LogoutIsDurable,
       Matches, M!HasSessions
<1>1. now \in 0 .. MaxTime /\ TypeOK
  BY DEF TypeOK, M!TypeOK
<1>2. CASE LogoutSignOut \/ StopSignOut
  <2>1. /\ Resting /\ ~Busy /\ mutation' = Idle
        /\ LogoutSignOut => AtSome({"signout"})
        /\ StopSignOut => mutation = Idle
    BY <1>2, StepShapes, FreeRests DEF LogoutSignOut, StopSignOut, Leave, Free
  <2>2. /\ active' = "none" /\ lease' = lease + 1 /\ lease < MaxLease /\ state' = "signed_out"
        /\ snapshot' = M!SignedOutView(snapshot)
        /\ UNCHANGED <<subscription, keyConfigured, handles, rollbacks, now,
                       alive, registry, installs, disk, probes, lastToken>>
        /\ StopSignOut => loggedOut' = loggedOut
        /\ loggedOut' \in BOOLEAN
    BY <1>2 DEF LogoutSignOut, StopSignOut, M!SignOut, TypeOK
  <2>3. /\ snapshot' = NoSnapshot \/ snapshot' \in M!Snapshots
        /\ ~M!HasSessions(snapshot')
        /\ snapshot' = NoSnapshot <=> snapshot = NoSnapshot
        /\ snapshot' # NoSnapshot => /\ snapshot'.generation = snapshot.generation
                                     /\ snapshot'.createdAt = snapshot.createdAt
    BY <1>1, <2>2, WipedViews
  <2>4. TypeOK'
    <3>1. lease' \in 0 .. MaxLease
      BY <2>2, RuntimeConstants DEF TypeOK, M!TypeOK
    <3> QED
      BY <2>1, <2>2, <2>3, <3>1 DEF TypeOK, M!TypeOK, M!ServiceState
  <2>5. Follows'
    BY <1>2, <2>1, <2>2, <2>3, Left
  <2> QED
    BY <2>1, <2>4, <2>5, Left
<1>3. CASE ExpireAuthority
  <2>1. /\ Free /\ Resting /\ ~Busy /\ mutation' \in Brief /\ mutation'.step = "clear"
    BY <1>3, FreeRests DEF ExpireAuthority, Enter, Brief
  <2>2. UNCHANGED <<active, lease, subscription, keyConfigured, handles, rollbacks, now,
                    alive, registry, installs, disk, probes, loggedOut, lastToken>>
    BY <1>3 DEF ExpireAuthority, M!MarkExpired
  <2>3. /\ snapshot' = NoSnapshot \/ snapshot' \in M!Snapshots
        /\ ~M!HasSessions(snapshot')
        /\ snapshot' = NoSnapshot <=> snapshot = NoSnapshot
        /\ snapshot' # NoSnapshot => /\ snapshot'.generation = snapshot.generation
                                     /\ snapshot'.createdAt = snapshot.createdAt
        /\ state' \in {"signed_out", "expired"}
    <3>1. CASE state \in {"ready", "degraded"}
      <4>1. snapshot' = M!ExpiredView(snapshot, now) /\ state' = "expired"
        BY <1>3, <3>1 DEF ExpireAuthority, M!MarkExpired
      <4> QED
        BY <1>1, <4>1, WipedViews
    <3>2. CASE state \notin {"ready", "degraded"}
      BY <1>1, <1>3, <2>1, <3>2 DEF ExpireAuthority, TypeOK, M!TypeOK
    <3> QED
      BY <3>1, <3>2
  <2>4. TypeOK'
    BY <2>1, <2>2, <2>3 DEF TypeOK, M!TypeOK, M!ServiceState, Steps
  <2>5. Follows'
    BY <2>1, <2>2, <2>3, BriefEntered DEF Free
  <2> QED
    BY <2>1, <2>4, <2>5, BriefEntered
<1> QED
  BY <1>2, <1>3

\* The durable session is cleared, first by a logout, last by an expiry, or cannot be.
LEMMA ClearSteps ==
    ASSUME RInv, LogoutBegin \/ ClearActiveSession \/ ClearFails
    PROVE  RInv'
<1> USE DEF RInv, Follows, ManagerFollows, AtSome, At, managerVars, Swapped,
       SecretsFollow, KeyFollowsVerifier, BindingsFollow, SessionsBound, DiskFollows,
       CandidateFits, LogoutHolds, ProbesFollow, Pending, NextGeneration, LogoutIsDurable,
       Matches, M!HasSessions
<1>1. UNCHANGED <<managerVars, now, alive, registry, installs, probes, loggedOut, lastToken>>
  BY DEF LogoutBegin, ClearActiveSession, ClearFails
<1>2. /\ Resting /\ ~Busy
      /\ \/ mutation = Idle /\ LogoutBegin /\ mutation' \in Brief /\ mutation'.step = "signout"
         \/ ~LogoutBegin /\ AtSome({"clear"}) /\ mutation' = Idle
  BY StepShapes, FreeRests DEF LogoutBegin, ClearActiveSession, ClearFails, Enter, Free, Leave,
                               Brief
<1>3. /\ disk'.subscription = disk.subscription /\ disk'.verifier = disk.verifier
      /\ disk' \in [subscription : M!Subscriptions, verifier : BOOLEAN,
                    session : M!Snapshots \cup {NoSnapshot}]
      /\ disk'.session = NoSnapshot \/ (disk'.session = disk.session /\ ~LogoutBegin)
  BY DEF LogoutBegin, ClearActiveSession, ClearFails, TypeOK
<1>4. /\ MutationTyped' /\ Resting' /\ ~Busy' /\ mutation' \notin Planned
      /\ LogoutBegin => mutation' # Idle
  BY <1>2, Left, BriefEntered
<1>5. TypeOK'
  BY <1>1, <1>2, <1>3 DEF TypeOK, M!TypeOK, Steps
<1>6. Follows'
  BY <1>1, <1>2, <1>3, <1>4
<1> QED
  BY <1>4, <1>5, <1>6

\* The snapshot a probe publishes: the next generation, of a given creation time.
LEMMA ProbedSnapshot ==
    ASSUME TypeOK, NEW p \in probes, NEW o \in 0 .. MaxTime, ProbePublish(p, o)
    PROVE  /\ snapshot \in M!Snapshots /\ snapshot # NoSnapshot
           /\ snapshot' \in M!Snapshots /\ snapshot' # NoSnapshot
           /\ snapshot'.generation = snapshot.generation + 1 /\ snapshot'.createdAt = o
           /\ snapshot'.sessions = snapshot.sessions /\ snapshot'.expiresAt = snapshot.expiresAt
           /\ snapshot'.routes = snapshot.routes
<1> DEFINE g == snapshot.generation + 1
<1>1. /\ snapshot \in M!Snapshots /\ snapshot # NoSnapshot /\ snapshot.generation < MaxGeneration
      /\ snapshot' = [snapshot EXCEPT !.generation = g, !.createdAt = o]
  BY DEF ProbePublish, ProbeMatches, M!Commit, TypeOK, M!TypeOK
<1>2. g \in 1 .. MaxGeneration
  BY <1>1, RuntimeConstants DEF M!Snapshots
<1>3. o \in M!Time
  BY RuntimeConstants DEF M!Time
<1> HIDE DEF g
<1>4. /\ snapshot' \in M!Snapshots /\ snapshot'.generation = g /\ snapshot'.createdAt = o
      /\ snapshot'.sessions = snapshot.sessions /\ snapshot'.expiresAt = snapshot.expiresAt
      /\ snapshot'.routes = snapshot.routes
  BY <1>1, <1>2, <1>3 DEF M!Snapshots
<1> QED
  BY <1>1, <1>4, RuntimeConstants DEF g

\* A probe is taken, dropped or published; what it publishes was not created before
\* the snapshot it measured.
LEMMA ProbeSteps ==
    ASSUME RInv, \/ ProbeBegin
                 \/ \E p \in probes : ProbeStale(p) \/ \E o \in 0 .. MaxTime : ProbePublish(p, o)
    PROVE  RInv'
<1> USE DEF RInv, Follows, ManagerFollows, AtSome, At, managerVars, Swapped,
       SecretsFollow, KeyFollowsVerifier, BindingsFollow, SessionsBound, DiskFollows,
       CandidateFits, LogoutHolds, ProbesFollow, Pending, NextGeneration, LogoutIsDurable,
       Matches, M!HasSessions
<1>1. CASE ProbeBegin
  <2>1. /\ UNCHANGED <<managerVars, now, alive, mutation, registry, installs, disk, loggedOut, lastToken>>
        /\ probes' = probes \cup {[generation |-> snapshot.generation, started |-> now]}
        /\ M!SessionUsable(snapshot, now)
    BY <1>1 DEF ProbeBegin
  <2>2. /\ snapshot.generation \in 1 .. MaxGeneration /\ snapshot.generation \in Nat
        /\ now \in 0 .. MaxTime /\ snapshot # NoSnapshot /\ snapshot.createdAt <= now
    BY <2>1 DEF TypeOK, M!TypeOK, M!Snapshots, M!SessionUsable
  <2>3. TypeOK'
    BY <2>1, <2>2 DEF TypeOK, M!TypeOK
  <2>4. ProbesFollow'
    BY <2>1, <2>2
  <2>5. MutationTyped' /\ Follows'
    BY <2>1, <2>4 DEF MutationTyped, Resting, Busy
  <2> QED
    BY <2>3, <2>5
<1>2. ASSUME NEW p \in probes, ProbeStale(p) PROVE RInv'
  <2>1. /\ UNCHANGED <<managerVars, now, alive, mutation, registry, installs, disk, loggedOut, lastToken>>
        /\ probes' = probes \ {p}
    BY <1>2 DEF ProbeStale
  <2>2. TypeOK'
    BY <2>1 DEF TypeOK, M!TypeOK
  <2>3. MutationTyped' /\ Follows'
    BY <2>1 DEF MutationTyped, Resting, Busy
  <2> QED
    BY <2>2, <2>3
<1>3. ASSUME NEW p \in probes, NEW o \in 0 .. MaxTime, ProbePublish(p, o) PROVE RInv'
  <2>1. /\ Free /\ Resting /\ ~Busy
        /\ UNCHANGED <<active, lease, subscription, keyConfigured, handles, rollbacks, now,
                       alive, mutation, registry, installs, disk, loggedOut, lastToken>>
        /\ probes' = probes \ {p}
    BY <1>3, FreeRests DEF ProbePublish, Enter, M!Commit
  <2>2. state' = state
    BY <1>3, <2>1 DEF ProbePublish, M!Commit
  <2>4. /\ snapshot \in M!Snapshots /\ snapshot # NoSnapshot
        /\ snapshot' \in M!Snapshots /\ snapshot' # NoSnapshot
        /\ snapshot'.generation = snapshot.generation + 1
        /\ snapshot'.sessions = snapshot.sessions /\ snapshot'.expiresAt = snapshot.expiresAt
        /\ snapshot'.routes = snapshot.routes
    BY <1>3, ProbedSnapshot
  <2>5. TypeOK'
    BY <2>1, <2>2, <2>4 DEF TypeOK, M!TypeOK
  <2>6. ProbesFollow'
    <3>1. snapshot.generation \in Nat
      BY <2>4 DEF M!Snapshots
    <3>2. \A q \in probes : q.generation \in Nat
      BY DEF TypeOK
    <3> QED
      BY <2>1, <2>4, <3>1, <3>2
  <2>7. MutationTyped' /\ Resting' /\ ~Busy'
    BY <2>1 DEF MutationTyped, Resting, Busy
  <2>8. Follows'
    BY <2>1, <2>2, <2>4, <2>6, <2>7 DEF Free
  <2> QED
    BY <2>5, <2>7, <2>8
<1> QED
  BY <1>1, <1>2, <1>3

\* Stop begins or the clock advances.
LEMMA QuietSteps == ASSUME RInv, StopBegin \/ Tick \/ UNCHANGED vars PROVE RInv'
<1>1. /\ UNCHANGED <<managerVars, mutation, registry, installs, disk, probes, loggedOut, lastToken>>
      /\ alive' \in BOOLEAN /\ now' \in 0 .. MaxTime
  <2>1. now \in 0 .. MaxTime /\ alive \in BOOLEAN /\ MaxTime \in Nat
    BY RuntimeConstants DEF RInv, TypeOK, M!TypeOK
  <2>2. CASE StopBegin
    BY <2>1, <2>2 DEF StopBegin
  <2>3. CASE Tick
    BY <2>1, <2>3 DEF Tick, M!Tick, M!managerVars, managerVars
  <2>4. CASE UNCHANGED vars
    BY <2>1, <2>4 DEF vars
  <2> QED
    BY <2>2, <2>3, <2>4
<1>2. TypeOK'
  BY <1>1 DEF RInv, TypeOK, M!TypeOK, managerVars
<1>3. MutationTyped' /\ Follows'
  BY <1>1 DEF RInv, Follows, ManagerFollows, AtSome, At, managerVars, Swapped,
       SecretsFollow, KeyFollowsVerifier, BindingsFollow, SessionsBound, DiskFollows,
       CandidateFits, LogoutHolds, ProbesFollow, Pending, NextGeneration, LogoutIsDurable,
       Matches, M!HasSessions, MutationTyped, Resting, Busy
<1> QED
  BY <1>2, <1>3 DEF RInv

\* A crash at any point: the new process serves what the aggregate holds, if it is
\* still usable, and the registry follows the aggregate.
LEMMA CrashStep == ASSUME RInv, CrashRestart PROVE RInv'
<1> USE DEF RInv, Follows, ManagerFollows, AtSome, At, managerVars, Swapped,
       SecretsFollow, KeyFollowsVerifier, BindingsFollow, SessionsBound, DiskFollows,
       CandidateFits, LogoutHolds, ProbesFollow, Pending, NextGeneration, LogoutIsDurable,
       Matches, M!HasSessions
<1> DEFINE s == StartupSession(disk)
<1>1. /\ snapshot' = s /\ state' = M!RestoredState(s, now)
      /\ subscription' = disk.subscription /\ keyConfigured' = disk.verifier
      /\ active' = "none" /\ lease' = 0 /\ handles' = {} /\ rollbacks' = {}
      /\ registry' = RegistryOf(disk.subscription, 0) /\ installs' = 0
      /\ disk' = [disk EXCEPT !.session = s]
      /\ alive' = TRUE /\ mutation' = Idle /\ probes' = {}
      /\ UNCHANGED <<now, loggedOut, lastToken>>
  BY DEF CrashRestart, Started
<1>2. \/ s = NoSnapshot
      \/ s = disk.session /\ M!SessionUsable(s, now) /\ s # NoSnapshot /\ s.sessions # NoSessions
  BY DEF StartupSession, M!SessionUsable
<1>3. s = NoSnapshot \/ s \in M!Snapshots
  BY <1>2 DEF TypeOK
<1>4. state' \in {"ready", "signed_out"} /\ (state' = "ready" <=> s # NoSnapshot)
  BY <1>1, <1>2 DEF M!RestoredState, M!SessionUsable, M!Prepare
<1> HIDE DEF s
<1>5. /\ disk'.session = s /\ disk'.subscription = disk.subscription
      /\ disk'.verifier = disk.verifier
      /\ disk' \in [subscription : M!Subscriptions, verifier : BOOLEAN,
                    session : M!Snapshots \cup {NoSnapshot}]
  BY <1>1, <1>3 DEF TypeOK
<1>6. registry' \in Registries /\ Matches(registry', disk.subscription)
  <2>1. disk.subscription.generation \in 1 .. MaxGeneration /\ disk.subscription.key \in Keys
    BY DEF TypeOK, M!Subscriptions
  <2> QED
    BY <1>1, <2>1, RuntimeConstants DEF RegistryOf, Registries
<1>7. TypeOK'
  BY <1>1, <1>3, <1>4, <1>5, <1>6, RuntimeConstants DEF TypeOK, M!TypeOK, M!ServiceState
<1>8. Follows'
  BY <1>1, <1>2, <1>4, <1>5, <1>6, Left
<1> QED
  BY <1>1, <1>7, <1>8, Left

\* A fresh installation satisfies the invariant.
LEMMA RuntimeInit == Init => RInv
<1> SUFFICES ASSUME NEW k \in Keys,
                    disk = [subscription |-> FreshSubscription(k), verifier |-> FALSE,
                            session |-> NoSnapshot],
                    subscription = FreshSubscription(k),
                    registry = RegistryOf(FreshSubscription(k), 0),
                    installs = 0, snapshot = NoSnapshot, state = "signed_out",
                    active = "none", lease = 0, keyConfigured = FALSE, handles = {},
                    rollbacks = {}, now = 0, alive = TRUE, mutation = Idle, probes = {},
                    loggedOut = FALSE, lastToken = 0
             PROVE  RInv
  BY DEF Init
<1>1. TypeOK
  <2>1. subscription \in M!Subscriptions
    BY RuntimeConstants DEF FreshSubscription, M!Subscriptions
  <2>2. registry \in Registries
    BY RuntimeConstants DEF FreshSubscription, RegistryOf, Registries
  <2>3. M!TypeOK
    <3>1. lease \in 0 .. MaxLease /\ now \in 0 .. MaxTime
      BY RuntimeConstants
    <3>2. state \in M!ServiceState /\ active \in M!Operation \cup {"none"}
      BY DEF M!ServiceState
    <3> QED
      BY <2>1, <3>1, <3>2 DEF M!TypeOK
  <2>4. installs \in 0 .. MaxInstalls
    BY RuntimeConstants
  <2> QED
    BY <2>1, <2>2, <2>3, <2>4 DEF TypeOK
<1>2. MutationTyped /\ Resting /\ ~Busy /\ mutation \notin Planned
  BY DEF MutationTyped, Resting, Busy, Idle, Brief, Entered, Built, Planned, Operations
<1>3. Follows
  BY <1>2 DEF Follows, ManagerFollows, AtSome, At, managerVars, Swapped,
       SecretsFollow, KeyFollowsVerifier, BindingsFollow, SessionsBound, DiskFollows,
       CandidateFits, LogoutHolds, ProbesFollow, Pending, NextGeneration, LogoutIsDurable,
       Matches, M!HasSessions, FreshSubscription, RegistryOf
<1> QED
  BY <1>1, <1>2, <1>3 DEF RInv

\* Every step of every operation, probe, crash and restart preserves the invariant.
LEMMA RuntimeStep == RInv /\ [Next]_vars => RInv'
<1> SUFFICES ASSUME RInv, [Next]_vars PROVE RInv'
  OBVIOUS
<1>1. CASE Control
  BY <1>1, AuthenticatedStep, GivesUp, FetchStep, PrepareStep, InstallStep,
     InstallSelectorsStep, InstallSelectorsFailsStep, PersistStep, UndoSteps, PublishSteps, SucceedStep, FailStep
     DEF Control
<1>2. CASE Running
  BY <1>1, <1>2, SetupSteps, BeginSteps, WipeSteps, ClearSteps, ProbeSteps, QuietSteps
     DEF Running
<1> QED
  BY <1>2, CrashStep, QuietSteps DEF Next

----------------------------------------------------------------------------
(* What a step does to sessions and bindings.                               *)

\* Nothing but the candidate, which may be given up.
Quiet ==
    /\ UNCHANGED <<snapshot, lastToken>>
    /\ disk'.session = disk.session /\ disk'.subscription = disk.subscription
    /\ Offered' \in {Offered, NoSessions}
    /\ Pending' => Pending

\* A step of an operation that only moves on, of a probe that is not published, of
\* Stop or of the clock is quiet.
LEMMA QuietActions ==
    ASSUME RInv,
           \/ AccessSetup \/ AccessConfigure \/ (\E u \in Users : LoginBegin(u)) \/ RefreshBegin
           \/ LoginAuthenticated \/ ProviderFails \/ (\E k \in Keys : Prepare(k)) \/ PrepareFails
           \/ Install \/ InstallSelectors \/ InstallSelectorsFails \/ PersistFails
           \/ UndoSelectors \/ UndoManager \/ Return \/ Succeed \/ ClearFails
           \/ ProbeBegin \/ (\E p \in probes : ProbeStale(p)) \/ StopBegin \/ Tick
    PROVE  Quiet
<1> USE DEF AtSome, At, Free, Pending, Offered, managerVars
<1>0. MutationTyped /\ TypeOK
  BY DEF RInv
<1>1. CASE AccessSetup
  BY <1>0, <1>1 DEF Quiet, AccessSetup, Enter, TypeOK
<1>2. CASE AccessConfigure
  BY <1>2 DEF Quiet, AccessConfigure, M!ConfigureBindingKey, Leave
<1>3. CASE \/ \E u \in Users : LoginBegin(u)
           \/ RefreshBegin
  BY <1>3 DEF Quiet, LoginBegin, RefreshBegin, Enter, M!Begin, Operating
<1>4. CASE LoginAuthenticated
  <2>1. mutation \in Entered /\ Goto("fetch")
    BY <1>0, <1>4, StepShapes DEF LoginAuthenticated
  <2> QED
    BY <1>4, <2>1, EnteredGoes DEF Quiet, LoginAuthenticated, M!TransitionToSyncing
<1>5. CASE ProviderFails
  <2>1. mutation \in Entered /\ Goto("fail")
    BY <1>0, <1>5, StepShapes DEF ProviderFails
  <2> QED
    BY <1>5, <2>1, EnteredGoes DEF Quiet, ProviderFails
<1>6. ASSUME NEW k \in Keys, Prepare(k) PROVE Quiet
  BY <1>6 DEF Quiet, Prepare
<1>7. CASE PrepareFails
  <2>1. mutation \in Built /\ Goto("fail")
    BY <1>0, <1>7, StepShapes DEF PrepareFails
  <2> QED
    BY <1>7, <2>1, BuiltFails DEF Quiet, PrepareFails
<1>8. CASE Install \/ InstallSelectorsFails \/ PersistFails \/ UndoSelectors \/ UndoManager \/ Return
  <2>1. mutation \in Planned
    BY <1>0, <1>8, StepShapes
       DEF Install, InstallSelectorsFails, PersistFails, UndoSelectors, UndoManager, Return
  <2>2. CASE Install
    BY <2>1, <2>2, PlannedGoes DEF PlannedSteps, Quiet, Install, M!InstallSubscriptionGeneration
  <2>3. CASE InstallSelectorsFails \/ PersistFails
    BY <2>1, <2>3, PlannedGoes DEF PlannedSteps, Quiet, InstallSelectorsFails, PersistFails
  <2>4. CASE UndoSelectors
    BY <2>1, <2>4, PlannedGoes DEF PlannedSteps, Quiet, UndoSelectors
  <2>5. CASE UndoManager
    BY <2>1, <2>5, PlannedGoes DEF PlannedSteps, Quiet, UndoManager, M!RollbackInstall
  <2>6. CASE Return
    BY <2>1, <2>6, PlannedGoes DEF PlannedSteps, Quiet, Return, M!DropRollback
  <2> QED
    BY <1>8, <2>2, <2>3, <2>4, <2>5, <2>6
<1>9. CASE InstallSelectors
  <2>1. mutation \in Planned /\ mutation.candidate \in M!Snapshots
    BY <1>0, <1>9, StepShapes DEF InstallSelectors, Planned
  <2>2. PICK c : /\ mutation' = [mutation EXCEPT !.step = "persist", !.candidate = c]
                 /\ c = [mutation.candidate EXCEPT !.routes.generation = mutation.plan.generation]
    BY <1>9, <2>1 DEF InstallSelectors, Planned
  <2>3. c.sessions = mutation.candidate.sessions
    BY <2>1, <2>2 DEF M!Snapshots
  <2>4. mutation'.candidate = c /\ mutation'.step = "persist"
    BY <2>1, <2>2 DEF Planned
  <2> QED
    BY <1>9, <2>3, <2>4 DEF Quiet, InstallSelectors
<1>10. CASE Succeed
  BY <1>0, <1>10, StepShapes, HeldFunctions
     DEF Quiet, Succeed, Leave, M!Finish, M!FinishSucceeded, Busy
<1>11. CASE ClearFails
  BY <1>11 DEF Quiet, ClearFails, Leave
<1>12. CASE ProbeBegin
  BY <1>12 DEF Quiet, ProbeBegin
<1>13. ASSUME NEW p \in probes, ProbeStale(p) PROVE Quiet
  BY <1>13 DEF Quiet, ProbeStale
<1>14. CASE StopBegin
  BY <1>14 DEF Quiet, StopBegin
<1>15. CASE Tick
  BY <1>15 DEF Quiet, Tick, M!Tick, M!managerVars
<1> QED
  BY <1>1, <1>2, <1>3, <1>4, <1>5, <1>6, <1>7, <1>8, <1>9, <1>10, <1>11, <1>12, <1>13, <1>14,
     <1>15

\* The loud steps: a candidate is offered, stored, served; a session is discarded
\* from the aggregate or withdrawn from memory; a probe republishes the snapshot.
Offers ==
    \E u \in Users : /\ lastToken' = lastToken + 1
                     /\ Offered' = [user |-> u, token |-> lastToken']
                     /\ UNCHANGED <<snapshot, disk>>
Stores ==
    /\ Pending /\ Offered # NoSessions
    /\ SessionsOf(snapshot) \in {NoSessions, SessionsOf(disk.session)}
    /\ SessionsOf(disk'.session) = Offered
    /\ disk'.subscription.account = Offered.user
    /\ M!SuccessorGeneration(disk.subscription, disk'.subscription)
    /\ Offered' = NoSessions
    /\ UNCHANGED <<snapshot, lastToken>>
Serves ==
    /\ Pending /\ ~Pending' /\ Offered = NoSessions /\ Offered' = NoSessions
    /\ SessionsOf(disk.session) # NoSessions
    /\ SessionsOf(snapshot') = SessionsOf(disk.session)
    /\ snapshot'.sessions.token = lastToken
    /\ UNCHANGED <<disk, lastToken>>
Discards ==
    /\ disk'.session = NoSnapshot /\ disk'.subscription = disk.subscription
    /\ ~Pending' /\ Offered' = Offered
    /\ UNCHANGED <<snapshot, lastToken>>
Withdraws ==
    /\ ~M!HasSessions(snapshot') /\ SessionsOf(snapshot') = NoSessions
    /\ ~Pending' /\ Offered' = Offered
    /\ UNCHANGED <<disk, lastToken>>
Republishes ==
    /\ snapshot # NoSnapshot /\ snapshot' # NoSnapshot
    /\ snapshot'.sessions = snapshot.sessions /\ snapshot'.expiresAt = snapshot.expiresAt
    /\ snapshot.createdAt <= snapshot'.createdAt
    /\ snapshot.createdAt \in Nat /\ snapshot'.createdAt \in Nat
    /\ ~Pending' /\ Offered' = Offered
    /\ UNCHANGED <<disk, lastToken>>

\* Every step of the running process is one of these.
LEMMA Effects ==
    ASSUME RInv, Running
    PROVE  Quiet \/ Offers \/ Stores \/ Serves \/ Discards \/ Withdraws \/ Republishes
<1> USE DEF AtSome, At, Free, Pending, Offered, managerVars
<1>0. MutationTyped /\ TypeOK /\ now \in 0 .. MaxTime
  BY DEF RInv, TypeOK, M!TypeOK
<1>1. ASSUME NEW t \in Tokens, NEW n \in SUBSET Nodes, FetchCatalogue(t, n) PROVE Offers
  <2>1. mutation.user \in Users
    BY <1>0, <1>1, StepShapes DEF FetchCatalogue, Entered
  <2>2. mutation'.candidate.sessions = [user |-> mutation.user, token |-> lastToken']
        /\ mutation'.step = "prepare" /\ mutation' # Idle
    BY <1>1 DEF FetchCatalogue, BuildCandidate, Idle
  <2> QED
    BY <1>1, <2>1, <2>2 DEF Offers, FetchCatalogue
<1>2. CASE Persist
  <2>1. mutation \in Planned /\ Goto("publish")
    BY <1>0, <1>2, StepShapes DEF Persist
  <2>2. /\ disk'.session = mutation.candidate /\ disk'.subscription = mutation.plan
        /\ disk.subscription = mutation.previous
    BY <1>0, <1>2 DEF Persist, TypeOK, CanPersist
  <2>3. /\ mutation.candidate # NoSnapshot
        /\ mutation.candidate.sessions = [user |-> mutation.user, token |-> lastToken]
        /\ lastToken \in Tokens /\ mutation.user \in Users
        /\ mutation.plan.account = mutation.user
        /\ M!SuccessorGeneration(mutation.previous, mutation.plan)
    BY <1>2, <2>1, RuntimeConstants
       DEF Persist, RInv, Follows, CandidateFits, BindingsFollow, Planned
  <2>4. mutation.candidate.sessions \in M!Sessions /\ mutation.candidate.sessions # NoSessions
    BY <2>3, RuntimeConstants DEF M!Sessions
  <2>5. mutation'.step = "publish" /\ mutation' # Idle
    BY <2>1, PlannedGoes DEF PlannedSteps
  <2>6. SessionsOf(snapshot) \in {NoSessions, SessionsOf(disk.session)}
    BY <1>2 DEF Persist, SessionsOf, RInv, Follows, DiskFollows, M!HasSessions
  <2> QED
    BY <1>2, <2>2, <2>3, <2>4, <2>5, <2>6 DEF Stores, Persist, SessionsOf
<1>3. CASE Publish
  <2>1. mutation \in Planned /\ Goto("return")
    BY <1>0, <1>3, StepShapes DEF Publish
  <2>2. /\ snapshot' = mutation.candidate /\ mutation.candidate.sessions # NoSessions
        /\ disk.session = mutation.candidate /\ mutation.candidate # NoSnapshot
        /\ mutation.candidate.sessions.token = lastToken
    BY <1>3, <2>1, RuntimeConstants
       DEF Publish, M!Commit, M!CanCommit, RInv, Follows, DiskFollows, CandidateFits, Planned
  <2>3. mutation'.step = "return" /\ mutation' # Idle
    BY <2>1, PlannedGoes DEF PlannedSteps
  <2> QED
    BY <1>3, <2>2, <2>3 DEF Serves, Publish, SessionsOf
<1>4. CASE Fail
  <2>1. Busy /\ mutation.op \in Operations
    BY <1>0, <1>4, StepShapes DEF Fail
  <2>2. /\ UNCHANGED <<disk, lastToken>>
        /\ mutation' = Idle \/ mutation' = [op |-> "refresh", step |-> "clear"]
        /\ \/ snapshot' = snapshot
           \/ snapshot' = M!SignedOutView(snapshot)
           \/ snapshot' = M!ExpiredView(snapshot, now)
    <3>1. CASE mutation.op = "login"
      BY <1>4, <2>1, <3>1, HeldFunctions DEF Fail, M!Finish, M!FinishFailedLogin, Leave
    <3>2. CASE mutation.op = "refresh"
      BY <1>4, <2>1, <3>2, HeldFunctions DEF Fail, M!Finish, M!FinishFailedRefresh, Leave
    <3> QED
      BY <2>1, <3>1, <3>2 DEF Operations
  <2>3. ~Pending' /\ Offered = NoSessions /\ Offered' = NoSessions
    BY <1>4, <2>2 DEF Fail
  <2>4. CASE snapshot' = snapshot
    BY <2>2, <2>3, <2>4 DEF Quiet
  <2>5. CASE snapshot' = M!SignedOutView(snapshot) \/ snapshot' = M!ExpiredView(snapshot, now)
    BY <1>0, <2>2, <2>3, <2>5, WipedViews DEF Withdraws
  <2> QED
    BY <2>2, <2>4, <2>5
<1>5. CASE ExpireAuthority
  <2>1. /\ UNCHANGED <<disk, lastToken>> /\ Offered = NoSessions /\ Offered' = NoSessions
        /\ ~Pending'
        /\ snapshot' = snapshot \/ snapshot' = M!ExpiredView(snapshot, now)
    BY <1>5 DEF ExpireAuthority, Enter, M!MarkExpired
  <2>2. CASE snapshot' = snapshot
    BY <2>1, <2>2 DEF Quiet
  <2>3. CASE snapshot' = M!ExpiredView(snapshot, now)
    BY <1>0, <2>1, <2>3, WipedViews DEF Withdraws
  <2> QED
    BY <2>1, <2>2, <2>3
<1>6. CASE ClearActiveSession \/ LogoutBegin
  <2>1. /\ disk'.session = NoSnapshot /\ disk'.subscription = disk.subscription
        /\ UNCHANGED <<snapshot, lastToken>>
    BY <1>0, <1>6 DEF ClearActiveSession, LogoutBegin, TypeOK
  <2>2. Offered = NoSessions /\ Offered' = NoSessions /\ ~Pending'
    BY <1>6 DEF ClearActiveSession, LogoutBegin, Enter, Leave
  <2> QED
    BY <2>1, <2>2 DEF Discards
<1>7. CASE LogoutSignOut \/ StopSignOut
  <2>1. /\ UNCHANGED <<disk, lastToken>> /\ Offered = NoSessions /\ Offered' = NoSessions
        /\ ~Pending' /\ snapshot' = M!SignedOutView(snapshot)
    BY <1>7 DEF LogoutSignOut, StopSignOut, M!SignOut, Leave
  <2> QED
    BY <1>0, <2>1, WipedViews DEF Withdraws
<1>8. ASSUME NEW p \in probes, NEW o \in 0 .. MaxTime, ProbePublish(p, o) PROVE Republishes
  <2>1. /\ UNCHANGED <<disk, lastToken, mutation>> /\ Free
        /\ o \in p.started .. now
        /\ snapshot.generation = p.generation
    BY <1>8 DEF ProbePublish, Enter, ProbeMatches, M!Commit
  <2>2. /\ snapshot \in M!Snapshots /\ snapshot # NoSnapshot /\ snapshot' # NoSnapshot
        /\ snapshot'.createdAt = o /\ snapshot'.sessions = snapshot.sessions
        /\ snapshot'.expiresAt = snapshot.expiresAt
    BY <1>0, <1>8, ProbedSnapshot
  <2>3. /\ snapshot.createdAt <= p.started /\ p.started \in Nat /\ snapshot.createdAt \in Nat
        /\ o \in Nat
    BY <2>1, <2>2, RuntimeConstants DEF RInv, TypeOK, Follows, ProbesFollow, M!Snapshots, M!Time
  <2> QED
    BY <2>1, <2>2, <2>3 DEF Republishes
<1> QED
  BY <1>1, <1>2, <1>3, <1>4, <1>5, <1>6, <1>7, <1>8, QuietActions DEF Running, Control

----------------------------------------------------------------------------
(* The flows.                                                               *)

FlowRecords == {Closed} \cup Greeted \cup Loading \cup Pinned \cup Final

\* The phase of a flow tells what it holds.
LEMMA FlowShapes ==
    ASSUME FlowsTyped, NEW f \in Flows, flows[f] # Closed
    PROVE  /\ flows[f].phase = "hello" => flows[f] \in Greeted
           /\ flows[f].phase = "loaded" => flows[f] \in Loading
           /\ flows[f].phase \in {"authenticated", "reloaded", "repinned", "dialing", "acked",
                                  "current"} => flows[f] \in Pinned
           /\ flows[f].phase \in {"finalloaded", "finalpinned", "admitted"} => flows[f] \in Final
           /\ flows[f].cred \in Credentials
BY DEF FlowsTyped, Greeted, Loading, Pinned, Final

\* One flow changes: the invariant is asked of its new record alone.
LEMMA FlowPreserves ==
    ASSUME FInv, UNCHANGED <<vars, issued>>, NEW f \in Flows, NEW x \in FlowRecords,
           flows' = [flows EXCEPT ![f] = x],
           x # Closed => WasIssued(x.cred),
           x \in Pinned \cup Final => IsOld(x.pin, x.cred),
           x \in Final /\ ~x.served => /\ x.phase = "finalloaded"
                                       /\ ~SessionCurrentPin(x.pin, x.clock)
    PROVE  FInv'
<1>1. \A g \in Flows : flows'[g] = IF g = f THEN x ELSE flows[g]
  BY DEF FInv, FlowsTyped
<1>2. RInv'
  BY QuietSteps DEF FInv
<1>3. FlowsTyped'
  BY DEF FInv, FlowsTyped, FlowRecords
<1>4. IssuedOnce' /\ CredentialsIssued'
  BY <1>1 DEF FInv, IssuedOnce, CredentialsIssued, WasIssued, vars
<1>5. PinsAreOld'
  BY <1>1 DEF FInv, PinsAreOld, IsOld, vars, Pending, AtSome
<1>6. RefusedStaysRefused'
  BY <1>1
     DEF FInv, RefusedStaysRefused, vars, managerVars, SessionCurrentPin, M!SessionUsable,
         M!HasSessions
<1> QED
  BY <1>2, <1>3, <1>4, <1>5, <1>6 DEF FInv

\* A session that is served belongs to the owner of every credential that resolves
\* to it, is not newer than a candidate and can be pinned.
LEMMA PinOfServed ==
    ASSUME FInv, NEW f \in Flows, flows[f] # Closed, NEW g, NEW t,
           Resolves(flows[f].cred, g, t)
    PROVE  /\ CompactPin(flows[f].cred) \in Pins
           /\ CompactPin(flows[f].cred).sessions = snapshot.sessions
           /\ CompactPin(flows[f].cred).expiresAt = snapshot.expiresAt
           /\ IsOld(CompactPin(flows[f].cred), flows[f].cred)
<1>1. M!HasSessions(snapshot) /\ snapshot.routes.generation = flows[f].cred.generation
  BY DEF Resolves, M!SessionUsable
<1>2. /\ snapshot.sessions.user = disk.subscription.account
      /\ flows[f].cred.generation = disk.subscription.generation
  BY <1>1 DEF FInv, RInv, Follows, SessionsBound
<1>3. snapshot.sessions.user = flows[f].cred.owner
  BY <1>2 DEF FInv, IssuedOnce, CredentialsIssued, WasIssued
<1>4. /\ snapshot.sessions.token <= lastToken
      /\ Pending => snapshot.sessions.token < lastToken
  BY <1>1 DEF FInv, RInv, Follows, CandidateFits
<1>5. snapshot \in M!Snapshots /\ snapshot.sessions \in M!Sessions /\ snapshot.expiresAt \in M!Time
  BY <1>1 DEF M!HasSessions, FInv, RInv, TypeOK, M!TypeOK, M!Snapshots
<1>6. flows[f].cred.node \in Nodes
  BY FlowShapes DEF FInv, Credentials
<1> QED
  BY <1>3, <1>4, <1>5, <1>6 DEF CompactPin, Pins, IsOld

\* Every step of a connection's handler preserves the invariant.
LEMMA FlowSteps == ASSUME FInv, NEW f \in Flows, FlowStep(f) PROVE FInv'
<1> DEFINE r == flows[f]
<1>0. /\ UNCHANGED <<vars, issued>> /\ flows \in [Flows -> FlowRecords]
      /\ registry \in Registries /\ now \in 0 .. MaxTime
  BY DEF FlowStep, FInv, FlowsTyped, FlowRecords, RInv, TypeOK, M!TypeOK
<1>1. r # Closed => WasIssued(r.cred)
  BY DEF FInv, CredentialsIssued
<1>2. r \in Pinned \cup Final => IsOld(r.pin, r.cred)
  BY DEF FInv, PinsAreOld
<1>3. CASE Connect(f)
  <2>1. PICK s \in issued, n \in Nodes :
            flows' = [flows EXCEPT ![f] = [phase |-> "hello", cred |-> Credential(s, n)]]
    BY <1>3 DEF Connect, Become
  <2> DEFINE x == [phase |-> "hello", cred |-> Credential(s, n)]
  <2>2. /\ Credential(s, n) \in Credentials /\ Credential(s, n).generation = s.generation
        /\ Credential(s, n).owner = s.account
    BY DEF FInv, IssuedOnce, Credential, Credentials, M!Subscriptions
  <2>3. /\ x \in Greeted /\ x.cred = Credential(s, n) /\ x \notin Pinned \cup Final
    BY <2>2 DEF Greeted, Pinned, Final
  <2> HIDE DEF x
  <2> QED
    BY <1>0, <2>1, <2>2, <2>3, FlowPreserves DEF FlowRecords, WasIssued, x
<1>4. CASE LoadRegistry(f, "hello", "loaded")
  <2> DEFINE x == [phase |-> "loaded", cred |-> r.cred, registry |-> registry, clock |-> now,
                   pin |-> NoSessions]
  <2>1. r # Closed /\ flows' = [flows EXCEPT ![f] = x]
    BY <1>4 DEF LoadRegistry, Phase, Become
  <2>2. x \in Loading /\ x.cred = r.cred /\ x \notin Pinned \cup Final
    BY <1>0, <2>1, FlowShapes DEF FInv, Loading, Pinned, Final
  <2> HIDE DEF x
  <2> QED
    BY <1>0, <1>1, <2>1, <2>2, FlowPreserves DEF FlowRecords
<1>5. CASE Authenticate(f)
  <2> DEFINE x == [r EXCEPT !.phase = "authenticated", !.pin = CompactPin(r.cred)]
  <2>1. /\ r # Closed /\ r \in Loading /\ flows' = [flows EXCEPT ![f] = x]
        /\ Resolves(r.cred, r.registry.generation, r.clock)
    BY <1>5, FlowShapes DEF Authenticate, Phase, Become, FInv
  <2>2. CompactPin(r.cred) \in Pins
    BY <2>1, PinOfServed
  <2>3. x \in Pinned /\ x.cred = r.cred /\ x.pin = CompactPin(r.cred) /\ x \notin Final
    BY <2>1, <2>2 DEF Loading, Pinned, Final
  <2> HIDE DEF x
  <2> QED
    BY <1>0, <1>1, <2>1, <2>3, PinOfServed, FlowPreserves DEF FlowRecords
<1>6. CASE LoadRegistry(f, "authenticated", "reloaded")
  <2> DEFINE x == [phase |-> "reloaded", cred |-> r.cred, registry |-> registry, clock |-> now,
                   pin |-> r.pin]
  <2>1. r # Closed /\ r \in Pinned /\ flows' = [flows EXCEPT ![f] = x]
    BY <1>6, FlowShapes DEF LoadRegistry, Phase, Become, FInv
  <2>2. x \in Pinned /\ x.cred = r.cred /\ x.pin = r.pin /\ x \notin Final
    BY <1>0, <2>1 DEF Pinned, Final
  <2> HIDE DEF x
  <2> QED
    BY <1>0, <1>1, <1>2, <2>1, <2>2, FlowPreserves DEF FlowRecords
<1>7. ASSUME NEW to \in {"repinned", "dialing", "current"},
             r # Closed, r.phase \in {"reloaded", "repinned", "acked"},
             flows' = [flows EXCEPT ![f] = [r EXCEPT !.phase = to]]
      PROVE  FInv'
  <2> DEFINE x == [r EXCEPT !.phase = to]
  <2>1. r \in Pinned
    BY <1>7, FlowShapes DEF FInv
  <2>2. x \in Pinned /\ x.cred = r.cred /\ x.pin = r.pin /\ x \notin Final
    BY <1>7, <2>1 DEF Pinned, Final
  <2> HIDE DEF x
  <2>3. flows' = [flows EXCEPT ![f] = x]
    BY <1>7 DEF x
  <2> QED
    BY <1>0, <1>1, <1>2, <1>7, <2>1, <2>2, <2>3, FlowPreserves DEF FlowRecords
<1>8. CASE Acknowledged(f)
  <2> DEFINE x == [r EXCEPT !.phase = "acked", !.clock = now]
  <2>1. r # Closed /\ r \in Pinned /\ flows' = [flows EXCEPT ![f] = x]
    BY <1>8, FlowShapes DEF Acknowledged, Phase, Become, FInv
  <2>2. x \in Pinned /\ x.cred = r.cred /\ x.pin = r.pin /\ x \notin Final
    BY <1>0, <2>1 DEF Pinned, Final
  <2> HIDE DEF x
  <2> QED
    BY <1>0, <1>1, <1>2, <2>1, <2>2, FlowPreserves DEF FlowRecords
<1>9. CASE FinalLoad(f)
  <2> DEFINE sv == SessionCurrentPin(r.pin, r.clock)
  <2> DEFINE x == [phase |-> "finalloaded", cred |-> r.cred, registry |-> registry,
                   clock |-> r.clock, pin |-> r.pin, served |-> sv]
  <2>1. r # Closed /\ r \in Pinned /\ flows' = [flows EXCEPT ![f] = x]
    BY <1>9, FlowShapes DEF FinalLoad, Phase, Become, FInv
  <2>2. sv \in BOOLEAN
    BY DEF SessionCurrentPin
  <2> HIDE DEF sv
  <2>3. /\ x \in Final /\ x.cred = r.cred /\ x.pin = r.pin /\ x.clock = r.clock
        /\ x.served = sv /\ x.phase = "finalloaded"
    BY <1>0, <2>1, <2>2 DEF Pinned, Final
  <2> HIDE DEF x
  <2>4. ~x.served => ~SessionCurrentPin(x.pin, x.clock)
    BY <2>3 DEF sv
  <2> QED
    BY <1>0, <1>1, <1>2, <2>1, <2>3, <2>4, FlowPreserves DEF FlowRecords
<1>10. ASSUME NEW to \in {"finalpinned", "admitted"},
              r # Closed, r.phase \in {"finalloaded", "finalpinned"}, r.served,
              flows' = [flows EXCEPT ![f] = [r EXCEPT !.phase = to]]
       PROVE  FInv'
  <2> DEFINE x == [r EXCEPT !.phase = to]
  <2>1. r \in Final
    BY <1>10, FlowShapes DEF FInv
  <2>2. x \in Final /\ x.cred = r.cred /\ x.pin = r.pin /\ x.served = r.served
    BY <1>10, <2>1 DEF Final
  <2> HIDE DEF x
  <2>3. flows' = [flows EXCEPT ![f] = x]
    BY <1>10 DEF x
  <2> QED
    BY <1>0, <1>1, <1>2, <1>10, <2>1, <2>2, <2>3, FlowPreserves DEF FlowRecords
<1>11. CASE Repin(f, "finalloaded", "finalpinned")
  <2>1. /\ r # Closed /\ r.phase = "finalloaded" /\ r \in Final
        /\ Resolves(r.cred, r.registry.generation, r.clock)
        /\ r.pin = CompactPin(r.cred)
        /\ flows' = [flows EXCEPT ![f] = [r EXCEPT !.phase = "finalpinned"]]
    BY <1>11, FlowShapes DEF Repin, Phase, Become, SamePinAuthority, FInv
  <2>2. SessionCurrentPin(r.pin, r.clock)
    BY <2>1, PinOfServed DEF SessionCurrentPin, Resolves, M!SessionUsable, M!HasSessions
  <2>3. r.served
    BY <2>1, <2>2 DEF FInv, RefusedStaysRefused
  <2> QED
    BY <1>10, <2>1, <2>3
<1>12. CASE Recheck(f, "finalpinned", "admitted")
  <2>1. /\ r # Closed /\ r.phase = "finalpinned" /\ r \in Final
        /\ flows' = [flows EXCEPT ![f] = [r EXCEPT !.phase = "admitted"]]
    BY <1>12, FlowShapes DEF Recheck, Phase, Advance, FInv
  <2>2. r.served
    BY <2>1 DEF FInv, RefusedStaysRefused
  <2> QED
    BY <1>10, <2>1, <2>2
<1>13. CASE Close(f)
  <2>1. flows' = [flows EXCEPT ![f] = Closed] /\ Closed \notin Pinned \cup Final
    BY <1>13 DEF Close, Become, Closed, Pinned, Final
  <2> QED
    BY <1>0, <2>1, FlowPreserves DEF FlowRecords
<1>14. CASE \/ Repin(f, "reloaded", "repinned")
            \/ Recheck(f, "repinned", "dialing")
            \/ SessionCurrent(f)
  BY <1>7, <1>14 DEF Repin, Recheck, SessionCurrent, Phase, Become, Advance
<1> QED
  BY <1>3, <1>4, <1>5, <1>6, <1>8, <1>9, <1>11, <1>12, <1>13, <1>14 DEF FlowStep

\* A step of the process beside the flows: the durable generation moves to a successor
\* or stays, and a session that left memory does not come back to it.
LEMMA RunningBesideFlows == ASSUME FInv, Running, Issue, UNCHANGED flows PROVE FInv'
<1>0. RInv /\ RInv' /\ TypeOK /\ TypeOK'
  BY RuntimeStep DEF FInv, RInv, Next
<1>1. Quiet \/ Offers \/ Stores \/ Serves \/ Discards \/ Withdraws \/ Republishes
  BY <1>0, Effects
<1>2. FlowsTyped'
  BY DEF FInv, FlowsTyped
<1>3. IssuedOnce'
  <2>1. \/ disk'.subscription = disk.subscription
        \/ M!SuccessorGeneration(disk.subscription, disk'.subscription)
    BY <1>1 DEF Quiet, Offers, Stores, Serves, Discards, Withdraws, Republishes
  <2>2. /\ disk.subscription \in M!Subscriptions /\ disk'.subscription \in M!Subscriptions
        /\ disk.subscription.generation # 0
    BY <1>0 DEF TypeOK, RInv, Follows, BindingsFollow
  <2>3. /\ disk.subscription.generation \in Nat /\ disk'.subscription.generation \in Nat
    BY <2>2 DEF M!Subscriptions
  <2>4. ASSUME NEW s \in issued
        PROVE  /\ s.generation <= disk'.subscription.generation
               /\ s.generation = disk'.subscription.generation => s = disk'.subscription
    <3>1. /\ s \in M!Subscriptions /\ s.account # NoUser /\ s.generation \in Nat
          /\ s.generation <= disk.subscription.generation
          /\ s.generation = disk.subscription.generation => s = disk.subscription
      BY DEF FInv, IssuedOnce, M!Subscriptions
    <3>2. CASE disk'.subscription = disk.subscription
      BY <3>1, <3>2
    <3>3. CASE M!SuccessorGeneration(disk.subscription, disk'.subscription)
      <4>1. \/ disk'.subscription.generation = disk.subscription.generation + 1
            \/ /\ disk'.subscription.generation = disk.subscription.generation
               /\ disk'.subscription.key = disk.subscription.key
               /\ disk.subscription.account \in {NoUser, disk'.subscription.account}
        BY <2>2, <3>3 DEF M!SuccessorGeneration
      <4>2. ASSUME s = disk.subscription, s.account = disk'.subscription.account,
                   disk'.subscription.key = disk.subscription.key,
                   disk'.subscription.generation = disk.subscription.generation
            PROVE  s = disk'.subscription
        BY <2>2, <4>2 DEF M!Subscriptions
      <4> QED
        BY <2>3, <3>1, <4>1, <4>2
    <3> QED
      BY <2>1, <3>2, <3>3
  <2>5. \A s \in issued : s \in M!Subscriptions /\ s.account # NoUser
    BY DEF FInv, IssuedOnce
  <2> QED
    BY <2>2, <2>3, <2>4, <2>5 DEF IssuedOnce, Issue
<1>4. CredentialsIssued'
  BY DEF FInv, CredentialsIssued, WasIssued, Issue
<1>5. PinsAreOld'
  <2>1. \/ lastToken' = lastToken /\ (Pending' => Pending)
        \/ lastToken' = lastToken + 1
    BY <1>1 DEF Quiet, Offers, Stores, Serves, Discards, Withdraws, Republishes
  <2>2. lastToken \in Nat
    BY <1>0 DEF RInv, Follows, CandidateFits
  <2> SUFFICES ASSUME NEW f \in Flows, flows[f] \in Pinned \cup Final
               PROVE  IsOld(flows[f].pin, flows[f].cred)'
    BY DEF PinsAreOld
  <2>3. flows[f].pin.sessions.token \in Nat
    BY RuntimeConstants DEF Pinned, Final, Pins, M!Sessions
  <2>4. IsOld(flows[f].pin, flows[f].cred)
    BY DEF FInv, PinsAreOld
  <2> QED
    BY <2>1, <2>2, <2>3, <2>4 DEF IsOld
<1>6. RefusedStaysRefused'
  <2> SUFFICES ASSUME NEW f \in Flows, flows[f] \in Final, ~flows[f].served,
                      SessionCurrentPin(flows[f].pin, flows[f].clock)'
               PROVE  FALSE
    BY DEF FInv, RefusedStaysRefused
  <2>1. /\ flows[f].pin.sessions \in M!Sessions /\ flows[f].pin.sessions.token \in Nat
        /\ flows[f].clock \in Nat
    <3>1. flows[f].pin \in Pins /\ flows[f].clock \in 0 .. MaxTime
      BY DEF Final
    <3>2. flows[f].pin.sessions \in M!Sessions
      BY <3>1 DEF Pins
    <3>3. flows[f].pin.sessions.token \in Nat
      BY <3>2, RuntimeConstants DEF M!Sessions
    <3>4. flows[f].clock \in Nat
      BY <3>1, RuntimeConstants
    <3> QED
      BY <3>2, <3>3, <3>4
  <2>2. ~SessionCurrentPin(flows[f].pin, flows[f].clock)
    BY DEF FInv, RefusedStaysRefused
  <2>3. /\ snapshot' # NoSnapshot /\ snapshot'.sessions = flows[f].pin.sessions
        /\ snapshot'.expiresAt = flows[f].pin.expiresAt
        /\ snapshot'.createdAt <= flows[f].clock /\ flows[f].clock < snapshot'.expiresAt
        /\ M!HasSessions(snapshot')
    BY <2>1 DEF SessionCurrentPin, M!SessionUsable, M!HasSessions
  <2>4. CASE Serves
    <3>1. flows[f].pin.sessions.token < lastToken /\ lastToken \in Nat
      BY <1>0, <2>4 DEF FInv, PinsAreOld, IsOld, Serves, RInv, Follows, CandidateFits
    <3>2. snapshot'.sessions.token = lastToken
      BY <2>4 DEF Serves
    <3> QED
      BY <2>1, <2>3, <3>1, <3>2
  <2>5. CASE Withdraws
    BY <2>3, <2>5 DEF Withdraws
  <2>6. CASE Quiet \/ Offers \/ Stores \/ Discards \/ Republishes
    <3>1. /\ snapshot # NoSnapshot /\ snapshot.sessions = flows[f].pin.sessions
          /\ snapshot.expiresAt = flows[f].pin.expiresAt
          /\ snapshot'.expiresAt = snapshot.expiresAt
          /\ snapshot.createdAt <= flows[f].clock
      BY <2>1, <2>3, <2>6 DEF Quiet, Offers, Stores, Discards, Republishes
    <3>2. M!HasSessions(snapshot)
      BY <2>1, <3>1, RuntimeConstants DEF M!HasSessions
    <3>3. state \in ServingStates
      BY <1>0, <3>2 DEF RInv, Follows, SecretsFollow, ServingStates
    <3> QED
      BY <2>2, <2>3, <3>1, <3>2, <3>3 DEF SessionCurrentPin, M!SessionUsable
  <2> QED
    BY <1>1, <2>4, <2>5, <2>6
<1> QED
  BY <1>0, <1>2, <1>3, <1>4, <1>5, <1>6 DEF FInv

\* A crash closes every flow and keeps the aggregate's binding.
LEMMA CrashBesideFlows ==
    ASSUME FInv, CrashRestart, flows' = [f \in Flows |-> Closed], UNCHANGED issued
    PROVE  FInv'
<1>1. RInv'
  BY CrashStep DEF FInv
<1>2. disk'.subscription = disk.subscription
  BY DEF FInv, RInv, TypeOK, CrashRestart, Started
<1>3. \A f \in Flows : flows'[f] = Closed /\ flows'[f] \notin Pinned \cup Final
  BY DEF Closed, Pinned, Final
<1>4. FlowsTyped'
  BY DEF FlowsTyped
<1>5. IssuedOnce'
  BY <1>2 DEF FInv, IssuedOnce
<1>6. CredentialsIssued' /\ PinsAreOld' /\ RefusedStaysRefused'
  BY <1>3 DEF CredentialsIssued, PinsAreOld, RefusedStaysRefused
<1> QED
  BY <1>1, <1>4, <1>5, <1>6 DEF FInv

\* Without a connection and without a credential the invariant holds.
LEMMA FlowsInit == FlowInit => FInv
<1> SUFFICES ASSUME FlowInit PROVE FInv
  OBVIOUS
<1>1. RInv
  BY RuntimeInit DEF FlowInit
<1>2. \A f \in Flows : flows[f] = Closed /\ flows[f] \notin Pinned \cup Final
  BY DEF FlowInit, Closed, Pinned, Final
<1>3. FlowsTyped /\ IssuedOnce
  BY DEF FlowInit, FlowsTyped, IssuedOnce
<1>4. CredentialsIssued /\ PinsAreOld /\ RefusedStaysRefused
  BY <1>2 DEF CredentialsIssued, PinsAreOld, RefusedStaysRefused
<1> QED
  BY <1>1, <1>3, <1>4 DEF FInv

\* Every step of process and flows preserves the invariant.
LEMMA FlowsStep == FInv /\ [FlowNext]_flowVars => FInv'
<1> SUFFICES ASSUME FInv, [FlowNext]_flowVars PROVE FInv'
  OBVIOUS
<1>1. CASE UNCHANGED flowVars
  <2>1. RInv' /\ UNCHANGED <<vars, flows, issued>>
    BY <1>1, QuietSteps DEF FInv, flowVars
  <2> QED
    BY <2>1 DEF FInv, FlowsTyped, IssuedOnce, CredentialsIssued, WasIssued, PinsAreOld, IsOld,
                RefusedStaysRefused, SessionCurrentPin, M!SessionUsable, M!HasSessions, vars,
                managerVars, Pending, AtSome
<1> QED
  BY <1>1, RunningBesideFlows, CrashBesideFlows, FlowSteps DEF FlowNext

----------------------------------------------------------------------------
(* The theorems.                                                            *)

\* The inductive invariant holds throughout every behaviour of process and flows.
THEOREM FlowsInvariant == FlowSpec => []FInv
BY FlowsInit, FlowsStep, PTL DEF FlowSpec

\* The runtime's invariant holds with flows around it: between operations the three
\* generations agree and the manager rests, no commit is refused after it was stored,
\* and every authenticated flow holds a complete session.
THEOREM FlowInvHolds == FlowSpec => []FlowInv
<1>1. FInv => FlowInv
  <2> SUFFICES ASSUME FInv PROVE FlowInv
    OBVIOUS
  <2>0. RInv /\ TypeOK /\ MutationTyped
    BY DEF FInv, RInv
  <2>1. GenerationsCoherent
    BY <2>0 DEF RInv, Follows, BindingsFollow, GenerationsCoherent, Free, Swapped, AtSome, Matches
  <2>2. NoOrphanOperation
    BY <2>0, FreeRests DEF RInv, Follows, ManagerFollows, NoOrphanOperation
  <2>3. SessionsBelongToBinding
    BY <2>0 DEF RInv, Follows, SessionsBound, SessionsBelongToBinding
  <2>4. CommitNeverRefused
    <3>1. ASSUME At("install") PROVE M!CanInstall(mutation.plan, mutation.user)
      <4>1. mutation \in Planned /\ Busy
        BY <2>0, <3>1, StepShapes DEF At, AtSome, Busy
      <4> QED
        BY <2>0, <3>1, <4>1
           DEF RInv, Follows, BindingsFollow, ManagerFollows, KeyFollowsVerifier, M!CanInstall,
               At, AtSome, Swapped
    <3>2. ASSUME At("persist") PROVE disk.subscription = mutation.previous
      BY <2>0, <3>2 DEF RInv, Follows, BindingsFollow, Swapped, At, AtSome
    <3>3. ASSUME At("publish") PROVE M!CanCommit(mutation.candidate)
      <4>1. mutation \in Planned /\ Busy
        BY <2>0, <3>3, StepShapes DEF At, AtSome, Busy
      <4>2. /\ mutation.candidate \in M!Snapshots /\ mutation.user \in Users
            /\ lastToken \in Tokens
            /\ mutation.candidate.sessions = [user |-> mutation.user, token |-> lastToken]
            /\ mutation.candidate.generation = NextGeneration
            /\ mutation.candidate.expiresAt = mutation.candidate.createdAt + Lifetime
            /\ mutation.candidate.routes.nodes # {}
        BY <2>0, <3>3, <4>1 DEF RInv, Follows, CandidateFits, Pending, At, AtSome, Planned
      <4>3. M!ValidLifetime(mutation.candidate)
        BY <4>2, RuntimeConstants DEF M!ValidLifetime, M!Snapshots, M!Time
      <4>4. mutation.candidate.sessions # NoSessions
        BY <4>2, RuntimeConstants DEF M!Sessions
      <4>5. mutation.candidate.routes \in EligibleRoutes
        BY <4>2 DEF M!Snapshots, EligibleRoutes
      <4>6. state = "syncing" /\ keyConfigured
        BY <2>0, <3>3, <4>1
           DEF RInv, Follows, ManagerFollows, KeyFollowsVerifier, At, AtSome
      <4>7. M!AdvancesGeneration(mutation.candidate)
        BY <2>0, <4>2 DEF M!AdvancesGeneration, M!Published, NextGeneration, TypeOK, M!TypeOK,
                          M!Snapshots
      <4>8. M!BoundAccount(mutation.candidate)
        BY <2>0, <3>3, <4>1, <4>2, <4>6
           DEF M!BoundAccount, RInv, Follows, BindingsFollow, Swapped, At, AtSome
      <4> QED
        BY <4>3, <4>4, <4>5, <4>6, <4>7, <4>8 DEF M!CanCommit
    <3> QED
      BY <3>1, <3>2, <3>3 DEF CommitNeverRefused
  <2>5. FlowTypeOK
    <3>1. \A f \in Flows :
             \/ flows[f] = Closed
             \/ flows[f].phase = "hello" /\ flows[f].cred.key \in Keys
             \/ flows[f].phase = "loaded" /\ flows[f].clock \in 0 .. MaxTime
             \/ /\ flows[f].phase \in Phases \ {"closed", "hello", "loaded"}
                /\ flows[f].clock \in 0 .. MaxTime
                /\ flows[f].pin.sessions \in M!Sessions
      BY DEF FInv, FlowsTyped, Greeted, Loading, Pinned, Final, Phases, Credentials, Pins
    <3>2. issued \subseteq M!Subscriptions
      BY DEF FInv, IssuedOnce
    <3> QED
      BY <3>1, <3>2 DEF FlowTypeOK
  <2> QED
    BY <2>0, <2>1, <2>2, <2>3, <2>4, <2>5 DEF FlowInv, RuntimeInv
<1> QED
  BY <1>1, FlowsInvariant, PTL

\* What a crash at any point leaves on disk is an aggregate the next process starts
\* from, with the authority that was served and without one that was logged out.
THEOREM DurableInvHolds == FlowSpec => []DurableInv
<1>1. FInv => DurableInv
  <2> SUFFICES ASSUME FInv PROVE DurableInv
    OBVIOUS
  <2>1. DurableMatchesMemory
    BY DEF FInv, RInv, Follows, DiskFollows, DurableMatchesMemory, Free, AtSome
  <2>2. LogoutIsDurable
    BY DEF FInv, RInv, Follows, LogoutHolds
  <2>3. StartupPossible
    BY DEF FInv, RInv, Follows, SessionsBound, BindingsFollow, StartupPossible, M!RestorableBy,
           M!SessionUsable, M!HasSessions
  <2> QED
    BY <2>1, <2>2, <2>3 DEF DurableInv
<1> QED
  BY <1>1, FlowsInvariant, PTL

\* An admitted tunnel's session was still the served one when its last resolution
\* began, whatever the client or the upstream stalled for.
THEOREM AdmissionIsFresh == FlowSpec => []AdmissionFollowsInvalidation
<1>1. FInv => AdmissionFollowsInvalidation
  <2> SUFFICES ASSUME FInv, NEW f \in Flows, Phase(f, "finalpinned") \/ Phase(f, "admitted")
               PROVE  flows[f].served
    BY DEF AdmissionFollowsInvalidation
  <2>1. flows[f] \in Final
    BY FlowShapes DEF FInv, Phase
  <2> QED
    BY <2>1 DEF FInv, RefusedStaysRefused, Phase
<1> QED
  BY <1>1, FlowsInvariant, PTL

\* A flow only ever holds the session of the account its credential was issued to.
THEOREM CredentialsStay == FlowSpec => []CredentialsStayWithAccount
<1>1. FInv => CredentialsStayWithAccount
  <2> SUFFICES ASSUME FInv, NEW f \in Flows, flows[f] # Closed,
                      flows[f].phase \notin {"hello", "loaded"}
               PROVE  flows[f].pin.sessions.user = flows[f].cred.owner
    BY DEF CredentialsStayWithAccount
  <2>1. flows[f] \in Pinned \cup Final
    BY DEF FInv, FlowsTyped, Greeted, Loading
  <2> QED
    BY <2>1 DEF FInv, PinsAreOld, IsOld
<1> QED
  BY <1>1, FlowsInvariant, PTL

\* A fresh installation maps to the contract's initial state.
LEMMA AuthorityStart == Init => Authority!Init
BY DEF Init, Authority!Init, Offered, SessionsOf, FreshSubscription

\* Every step of the process is a step of the contract or changes nothing it sees.
LEMMA AuthorityStep == RInv /\ [Next]_vars => [Authority!Next]_(Authority!vars)
<1> SUFFICES ASSUME RInv, [Next]_vars PROVE [Authority!Next]_(Authority!vars)
  OBVIOUS
<1>1. CASE Running
  <2>1. CASE Quiet
    <3>1. CASE Offered' = Offered
      BY <2>1, <3>1 DEF Quiet, Authority!vars
    <3>2. CASE Offered' = NoSessions
      BY <2>1, <3>2 DEF Quiet, Authority!Next, Authority!Drop
    <3> QED
      BY <2>1, <3>1, <3>2 DEF Quiet
  <2>2. CASE Offers
    BY <2>2 DEF Offers, Authority!Next, Authority!Offer
  <2>3. CASE Stores
    BY <2>3 DEF Stores, Authority!Next, Authority!Store
  <2>4. CASE Serves
    BY <2>4 DEF Serves, Authority!Next, Authority!Serve
  <2>5. CASE Discards
    BY <2>5 DEF Discards, Authority!Next, Authority!Discard, SessionsOf
  <2>6. CASE Withdraws
    BY <2>6 DEF Withdraws, Authority!Next, Authority!Withdraw
  <2>7. CASE Republishes
    BY <2>7 DEF Republishes, Authority!vars, SessionsOf
  <2> QED
    BY <1>1, <2>1, <2>2, <2>3, <2>4, <2>5, <2>6, <2>7, Effects
<1>2. CASE CrashRestart
  <2>1. /\ snapshot' = StartupSession(disk) /\ disk'.session = StartupSession(disk)
        /\ disk'.subscription = disk.subscription /\ mutation' = Idle /\ lastToken' = lastToken
    BY <1>2 DEF RInv, TypeOK, CrashRestart, Started
  <2>2. StartupSession(disk) \in {disk.session, NoSnapshot}
    BY DEF StartupSession
  <2> QED
    BY <2>1, <2>2 DEF Authority!Next, Authority!Restart, Offered, SessionsOf
<1>3. CASE UNCHANGED vars
  BY <1>3 DEF vars, managerVars, Authority!vars, Offered, SessionsOf
<1> QED
  BY <1>1, <1>2, <1>3 DEF Next

\* A step of process and flows is a step of the process, or leaves it alone.
LEMMA FlowsBesideRuntime == [FlowNext]_flowVars => [Next]_vars
BY DEF FlowNext, FlowStep, flowVars, Next

\* Login, refresh, logout, expiry, probes, Stop and crashes, with every failure and
\* rollback between their steps, implement AuthorityContract: sessions are stored with
\* their account before they are served, and none comes back.
THEOREM RuntimeImplementsAuthority == FlowSpec => ImplementsAuthority
<1>1. FlowInit => Authority!Init
  BY AuthorityStart DEF FlowInit
<1>2. FInv /\ [FlowNext]_flowVars => [Authority!Next]_(Authority!vars)
  BY AuthorityStep, FlowsBesideRuntime DEF FInv
<1> QED
  BY <1>1, <1>2, FlowsInvariant, PTL DEF FlowSpec, ImplementsAuthority, Authority!Spec
=============================================================================
