--------------------------- MODULE ManagerProofs ---------------------------
(***************************************************************************)
(* The lifecycle guarantees of Manager, for every set of accounts, keys    *)
(* and routes and every bound.                                             *)
(***************************************************************************)
EXTENDS Manager, TLAPS

\* Every clock value is a time a snapshot may carry.
LEMMA NowIsTime == ASSUME TypeOK PROVE now \in Time
BY ManagerConstants DEF TypeOK, Time

\* Stripping a snapshot keeps its type.
LEMMA ViewTypes ==
    ASSUME NEW s \in Snapshots, NEW t \in Time
    PROVE  /\ Wiped(s) \in Snapshots /\ ~HasSessions(Wiped(s))
           /\ SignedOutView(s) \in Snapshots /\ ~HasSessions(SignedOutView(s))
           /\ ExpiredView(s, t) \in Snapshots /\ ~HasSessions(ExpiredView(s, t))
BY DEF Snapshots, Wiped, SignedOutView, ExpiredView, HasSessions

\* What NewManagerWithSubscription publishes for a restored snapshot.
LEMMA PrepareType ==
    ASSUME NEW s \in Persisted \cup {NoSnapshot}, NEW t \in 0 .. MaxTime
    PROVE  /\ Prepare(s, t) \in Snapshots \cup {NoSnapshot}
           /\ HasSessions(Prepare(s, t)) <=> SessionUsable(s, t)
<1>1. t \in Time BY ManagerConstants DEF Time
<1>2. CASE s = NoSnapshot
  BY <1>2 DEF Prepare, HasSessions, SessionUsable
<1>3. CASE s \in Persisted
  <2>1. s \in Snapshots /\ s # NoSnapshot /\ s.sessions # NoSessions
    BY <1>3, NoSnapshotIsDistinct DEF Persisted
  <2>2. s.createdAt \in Nat /\ s.expiresAt \in Nat /\ t \in Nat
    BY <2>1, ManagerConstants DEF Snapshots, Time
  <2>3. CASE t < s.createdAt
    BY <2>1, <2>2, <2>3 DEF Prepare, HasSessions, SessionUsable
  <2>4. CASE s.createdAt <= t /\ SessionUsable(s, t)
    BY <2>1, <2>2, <2>4 DEF Prepare, SessionUsable
  <2>5. CASE s.createdAt <= t /\ ~SessionUsable(s, t)
    <3>1. Prepare(s, t) = [Wiped(s) EXCEPT !.expiresAt =
                             IF t < s.expiresAt THEN t ELSE s.expiresAt]
      BY <2>1, <2>2, <2>5 DEF Prepare
    <3>2. Prepare(s, t) \in Snapshots /\ Prepare(s, t).sessions = NoSessions
      BY <1>1, <2>1, <3>1, ViewTypes DEF Snapshots, Wiped
    <3>3. QED BY <3>2, <2>5 DEF HasSessions
  <2>6. QED BY <2>2, <2>3, <2>4, <2>5
<1>4. QED BY <1>2, <1>3

----------------------------------------------------------------------------
\* The conjunction that every action preserves.  Secrets and serving states
\* need each other: a failed refresh may only keep serving what still has
\* secrets, and signing out may only wipe because no serving state survives.
IInv ==
    /\ TypeOK
    /\ SecretsOnlyWhenLive
    /\ ServingHasAuthority
    /\ ActiveOperationHasOwner

\* A new manager, before Restore, satisfies the inductive invariant.
LEMMA InitIInv == Init => IInv
<1> SUFFICES ASSUME NEW initial \in Persisted \cup {NoSnapshot}, InitWith(initial)
             PROVE  IInv
  BY DEF Init
<1>1. /\ snapshot \in Snapshots \cup {NoSnapshot}
      /\ HasSessions(snapshot) <=> SessionUsable(initial, now)
  BY PrepareType DEF InitWith
<1>2. TypeOK
  BY <1>1, ManagerConstants DEF InitWith, TypeOK, RestoredState, ServiceState
<1>3. SecretsOnlyWhenLive /\ ServingHasAuthority
  BY <1>1 DEF InitWith, RestoredState, SecretsOnlyWhenLive, ServingHasAuthority
<1>4. ActiveOperationHasOwner
  BY DEF InitWith, ActiveOperationHasOwner
<1>5. QED BY <1>2, <1>3, <1>4 DEF IInv

\* Two finish functions of the same lease and operation are the same one.
LEMMA HandleExtensional ==
    ASSUME NEW g \in [lease : 1 .. MaxLease, op : Operation],
           NEW h \in [lease : 1 .. MaxLease, op : Operation],
           g.lease = h.lease, g.op = h.op
    PROVE  g = h
OBVIOUS

\* Wiping the published snapshot, as signOutLocked and expireLocked do.
LEMMA WipedSnapshot ==
    ASSUME TypeOK, NEW t \in Time
    PROVE  /\ SignedOutView(snapshot) \in Snapshots \cup {NoSnapshot}
           /\ ~HasSessions(SignedOutView(snapshot))
           /\ ExpiredView(snapshot, t) \in Snapshots \cup {NoSnapshot}
           /\ ~HasSessions(ExpiredView(snapshot, t))
<1>1. CASE snapshot = NoSnapshot
  BY <1>1 DEF SignedOutView, ExpiredView, HasSessions
<1>2. CASE snapshot \in Snapshots
  BY <1>2, ViewTypes
<1>3. QED BY <1>1, <1>2 DEF TypeOK

\* An action that leaves the lease, the active operation and the handles
\* alone leaves the operation's owner alone.
LEMMA OwnerUndisturbed ==
    ASSUME ActiveOperationHasOwner, UNCHANGED <<active, lease, handles>>
    PROVE  ActiveOperationHasOwner'
BY DEF ActiveOperationHasOwner, OwnsLease

\* InstallSubscriptionGeneration, which publishes a new subscription, keeps IInv.
LEMMA InstallStep ==
    ASSUME IInv, NEW c \in Subscriptions, NEW u \in Users,
           InstallSubscriptionGeneration(c, u)
    PROVE  IInv'
<1>1. TypeOK'
  BY DEF IInv, TypeOK, InstallSubscriptionGeneration
<1>2. SecretsOnlyWhenLive' /\ ServingHasAuthority'
  BY DEF IInv, SecretsOnlyWhenLive, ServingHasAuthority, HasSessions,
         InstallSubscriptionGeneration
<1>3. ActiveOperationHasOwner'
  BY OwnerUndisturbed DEF IInv, InstallSubscriptionGeneration
<1>4. QED BY <1>1, <1>2, <1>3 DEF IInv

\* The rollback of an install, run or dropped by its caller, keeps IInv.
LEMMA RollbackStep ==
    ASSUME IInv, NEW r \in rollbacks, RollbackInstall(r) \/ DropRollback(r)
    PROVE  IInv'
<1>1. TypeOK'
  BY DEF IInv, TypeOK, RollbackInstall, DropRollback
<1>2. SecretsOnlyWhenLive' /\ ServingHasAuthority'
  BY DEF IInv, SecretsOnlyWhenLive, ServingHasAuthority, HasSessions,
         RollbackInstall, DropRollback
<1>3. ActiveOperationHasOwner'
  BY OwnerUndisturbed DEF IInv, RollbackInstall, DropRollback
<1>4. QED BY <1>1, <1>2, <1>3 DEF IInv

\* Begin, which grants the single operation lease, keeps IInv.
LEMMA BeginStep ==
    ASSUME IInv, NEW op \in Operation, Begin(op)
    PROVE  IInv'
<1>1. \/ op = "login" /\ state \in {"signed_out", "expired", "error"}
         /\ state' = "authenticating"
      \/ op = "refresh" /\ state \in {"ready", "degraded"} /\ state' = "syncing"
  BY DEF Begin, BeginTarget, Operation
<1>2. lease' \in 1 .. MaxLease /\ lease' # lease
  BY ManagerConstants DEF IInv, TypeOK, Begin
<1>3. TypeOK'
  BY <1>1, <1>2, ManagerConstants DEF IInv, TypeOK, Begin, ServiceState, Operation
<1>4. SecretsOnlyWhenLive' /\ ServingHasAuthority'
  BY <1>1 DEF IInv, SecretsOnlyWhenLive, ServingHasAuthority, HasSessions, Begin
<1>5. ActiveOperationHasOwner'
  <2> DEFINE mine == [lease |-> lease', op |-> op]
  <2>1. mine \in handles' /\ lease' = mine.lease /\ active' = mine.op
    BY DEF Begin
  <2>2. ASSUME NEW h \in handles', NEW g \in handles',
               lease' = h.lease, active' = h.op, lease' = g.lease, active' = g.op
        PROVE  g = h
    <3>1. /\ g \in [lease : 1 .. MaxLease, op : Operation]
          /\ h \in [lease : 1 .. MaxLease, op : Operation]
      BY <1>3 DEF TypeOK
    <3>2. g.lease = h.lease /\ g.op = h.op BY <2>2
    <3>3. QED BY <3>1, <3>2, HandleExtensional
  <2>3. QED BY <2>1, <2>2 DEF ActiveOperationHasOwner, OwnsLease
<1>6. QED BY <1>3, <1>4, <1>5 DEF IInv

\* A finish function, owner or stale, keeps IInv.
LEMMA FinishStep ==
    ASSUME IInv, NEW h \in handles, NEW o \in Outcome, Finish(h, o)
    PROVE  IInv'
<1>0. now \in Time /\ now \in Nat
  BY NowIsTime, ManagerConstants DEF IInv, TypeOK
<1>1. CASE ~OwnsLease(h)
  <2>1. UNCHANGED <<state, active, lease, snapshot>> /\ handles' = handles \ {h}
    BY <1>1 DEF Finish
  <2>2. TypeOK'
    BY <2>1 DEF IInv, TypeOK, Finish
  <2>3. SecretsOnlyWhenLive' /\ ServingHasAuthority'
    BY <2>1 DEF IInv, SecretsOnlyWhenLive, ServingHasAuthority, HasSessions
  <2>4. ActiveOperationHasOwner'
    BY <1>1, <2>1 DEF IInv, ActiveOperationHasOwner, OwnsLease
  <2>5. QED BY <2>2, <2>3, <2>4 DEF IInv
<1>2. CASE OwnsLease(h)
  <2>1. active' = "none" /\ handles' = handles \ {h} /\ UNCHANGED lease
    BY <1>2 DEF Finish
  <2>2. h.op \in Operation
    BY DEF IInv, TypeOK
  <2>3. \/ state' \in {state, "syncing"} /\ (state' # state => state = "authenticating")
            /\ snapshot' = snapshot
        \/ state' = "signed_out" /\ snapshot' = SignedOutView(snapshot)
        \/ state' = "degraded" /\ HasSessions(snapshot) /\ snapshot' = snapshot
        \/ state' = "expired" /\ snapshot' = ExpiredView(snapshot, now)
        \/ state' = "error" /\ ~HasSessions(snapshot) /\ snapshot' = snapshot
    <3>1. CASE o = "succeeded"
      BY <1>2, <3>1 DEF Finish, FinishSucceeded
    <3>2. CASE o = "failed" /\ h.op = "login"
      BY <1>2, <3>2 DEF Finish, FinishFailedLogin
    <3>3. CASE o = "failed" /\ h.op = "refresh"
      BY <1>2, <3>3 DEF Finish, FinishFailedRefresh
    <3>4. QED BY <2>2, <3>1, <3>2, <3>3 DEF Outcome, Operation
  <2>4. state' \in ServiceState /\ (snapshot' = NoSnapshot \/ snapshot' \in Snapshots)
    BY <1>0, <2>3, WipedSnapshot DEF IInv, TypeOK, ServiceState
  <2>5. TypeOK'
    BY <2>1, <2>4 DEF IInv, TypeOK, Finish
  <2>6. SecretsOnlyWhenLive' /\ ServingHasAuthority'
    BY <1>0, <2>3, WipedSnapshot
       DEF IInv, SecretsOnlyWhenLive, ServingHasAuthority, HasSessions
  <2>7. ActiveOperationHasOwner'
    BY <2>1, <2>2, <2>5 DEF ActiveOperationHasOwner, OwnsLease, TypeOK, Operation
  <2>8. QED BY <2>5, <2>6, <2>7 DEF IInv
<1>3. QED BY <1>1, <1>2

\* Commit as a whole, accepted or refused, keeps IInv.
LEMMA CommitStep ==
    ASSUME IInv, NEW s \in Candidates, Commit(s)
    PROVE  IInv'
<1>1. s \in Snapshots /\ s # NoSnapshot /\ s.sessions # NoSessions
  BY NoSnapshotIsDistinct DEF Candidates
<1>2. state' \in {"ready", "degraded"} /\ snapshot' = s
  BY DEF Commit, CanCommit
<1>3. TypeOK'
  BY <1>1, <1>2 DEF IInv, TypeOK, Commit, ServiceState
<1>4. SecretsOnlyWhenLive' /\ ServingHasAuthority'
  BY <1>1, <1>2 DEF SecretsOnlyWhenLive, ServingHasAuthority, HasSessions
<1>5. ActiveOperationHasOwner'
  BY OwnerUndisturbed DEF IInv, Commit
<1>6. QED BY <1>3, <1>4, <1>5 DEF IInv

\* SignOut, which withdraws the authority and its secrets, keeps IInv.
LEMMA SignOutStep == ASSUME IInv, SignOut PROVE IInv'
<1>1. now \in Time BY NowIsTime DEF IInv
<1>2. TypeOK'
  BY <1>1, WipedSnapshot, ManagerConstants DEF IInv, TypeOK, SignOut, ServiceState
<1>3. SecretsOnlyWhenLive' /\ ServingHasAuthority'
  BY <1>1, WipedSnapshot
     DEF IInv, SecretsOnlyWhenLive, ServingHasAuthority, HasSessions, SignOut
<1>4. ActiveOperationHasOwner'
  <2>1. active' = "none" /\ handles' = handles /\ \A h \in handles : h.op # "none"
    BY DEF IInv, TypeOK, Operation, SignOut
  <2>2. QED BY <2>1 DEF ActiveOperationHasOwner, OwnsLease
<1>5. QED BY <1>2, <1>3, <1>4 DEF IInv

\* MarkExpired, which keeps the account and drops its secrets, keeps IInv.
LEMMA MarkExpiredStep == ASSUME IInv, MarkExpired PROVE IInv'
<1>1. now \in Time BY NowIsTime DEF IInv
<1>2. TypeOK'
  BY <1>1, WipedSnapshot DEF IInv, TypeOK, MarkExpired, ServiceState
<1>3. SecretsOnlyWhenLive' /\ ServingHasAuthority'
  BY <1>1, WipedSnapshot
     DEF IInv, SecretsOnlyWhenLive, ServingHasAuthority, HasSessions, MarkExpired
<1>4. ActiveOperationHasOwner'
  BY OwnerUndisturbed DEF IInv, MarkExpired
<1>5. QED BY <1>2, <1>3, <1>4 DEF IInv

\* The remaining steps touch neither the snapshot nor the lease.
LEMMA QuietStep ==
    ASSUME IInv, ConfigureBindingKey \/ TransitionToSyncing \/ Tick \/ UNCHANGED vars
    PROVE  IInv'
<1>1. TypeOK'
  <2>1. CASE ConfigureBindingKey
    BY <2>1 DEF IInv, TypeOK, ConfigureBindingKey
  <2>2. CASE TransitionToSyncing
    BY <2>2 DEF IInv, TypeOK, TransitionToSyncing, ServiceState
  <2>3. CASE Tick
    BY <2>3, ManagerConstants DEF IInv, TypeOK, Tick, managerVars
  <2>4. CASE UNCHANGED vars
    BY <2>4 DEF IInv, TypeOK, vars, managerVars
  <2>5. QED BY <2>1, <2>2, <2>3, <2>4
<1>2. SecretsOnlyWhenLive' /\ ServingHasAuthority'
  BY DEF IInv, SecretsOnlyWhenLive, ServingHasAuthority, HasSessions,
     ConfigureBindingKey, TransitionToSyncing, Tick, vars, managerVars
<1>3. ActiveOperationHasOwner'
  BY OwnerUndisturbed DEF IInv, ConfigureBindingKey, TransitionToSyncing, Tick,
     vars, managerVars
<1>4. QED BY <1>1, <1>2, <1>3 DEF IInv

\* Every manager call and every stuttering step keeps IInv.
LEMMA NextIInv == IInv /\ [Next]_vars => IInv'
BY InstallStep, RollbackStep, BeginStep, FinishStep, CommitStep, SignOutStep,
   MarkExpiredStep, QuietStep DEF Next

\* The strengthened invariant holds in every reachable state, for any calls
\* in any order.
THEOREM InductiveInvariant == Spec => []IInv
BY InitIInv, NextIInv, PTL DEF Spec

\* Type correctness of the manager.
THEOREM TypeCorrect == Spec => []TypeOK
<1>1. IInv => TypeOK BY DEF IInv
<1>2. QED BY <1>1, InductiveInvariant, PTL

\* No secret survives logout, expiry or a failed login (signOutLocked,
\* expireLocked and finish in manager.go).
THEOREM SecretsAreConfined == Spec => []SecretsOnlyWhenLive
<1>1. IInv => SecretsOnlyWhenLive BY DEF IInv
<1>2. QED BY <1>1, InductiveInvariant, PTL

\* A ready or degraded service always has an authority to serve with.
THEOREM ServingIsBacked == Spec => []ServingHasAuthority
<1>1. IInv => ServingHasAuthority BY DEF IInv
<1>2. QED BY <1>1, InductiveInvariant, PTL

\* The lease of a running operation always has exactly one owner.
THEOREM LeaseHasOwner == Spec => []ActiveOperationHasOwner
<1>1. IInv => ActiveOperationHasOwner BY DEF IInv
<1>2. QED BY <1>1, InductiveInvariant, PTL

----------------------------------------------------------------------------
\* What a step may do to the published snapshot: leave it, wipe it in one of
\* the two ways, or replace it by an accepted candidate.
SnapshotStep ==
    \/ snapshot' = snapshot
    \/ snapshot' = SignedOutView(snapshot)
    \/ snapshot' = ExpiredView(snapshot, now)
    \/ \E s \in Candidates : Commit(s)

\* Every step replaces the snapshot in one of the ways SnapshotStep names.
LEMMA NextSnapshotStep == IInv /\ [Next]_vars => SnapshotStep
<1> SUFFICES ASSUME IInv, [Next]_vars PROVE SnapshotStep
  OBVIOUS
<1>1. CASE \E h \in handles, o \in Outcome : Finish(h, o)
  <2> PICK h \in handles, o \in Outcome : Finish(h, o) BY <1>1
  <2>1. h.op \in Operation
    BY DEF IInv, TypeOK
  <2>2. CASE ~OwnsLease(h)
    BY <2>2 DEF Finish, SnapshotStep
  <2>3. CASE OwnsLease(h) /\ o = "succeeded"
    BY <2>3 DEF Finish, FinishSucceeded, SnapshotStep
  <2>4. CASE OwnsLease(h) /\ o = "failed" /\ h.op = "login"
    BY <2>4 DEF Finish, FinishFailedLogin, SnapshotStep
  <2>5. CASE OwnsLease(h) /\ o = "failed" /\ h.op = "refresh"
    BY <2>5 DEF Finish, FinishFailedRefresh, SnapshotStep
  <2>6. QED BY <2>1, <2>2, <2>3, <2>4, <2>5 DEF Outcome, Operation
<1>2. CASE \E s \in Candidates : Commit(s)
  BY <1>2 DEF SnapshotStep
<1>3. CASE SignOut \/ MarkExpired
  BY <1>3 DEF SignOut, MarkExpired, SnapshotStep
<1>4. CASE \/ ConfigureBindingKey
           \/ \E c \in Subscriptions, u \in Users : InstallSubscriptionGeneration(c, u)
           \/ \E r \in rollbacks : RollbackInstall(r) \/ DropRollback(r)
           \/ \E op \in Operation : Begin(op)
           \/ TransitionToSyncing \/ Tick \/ UNCHANGED vars
  BY <1>4 DEF ConfigureBindingKey, InstallSubscriptionGeneration, RollbackInstall,
     DropRollback, Begin, TransitionToSyncing, Tick, vars, managerVars, SnapshotStep
<1>5. QED BY <1>1, <1>2, <1>3, <1>4 DEF Next

\* No manager call publishes an older generation or rewrites one with secrets.
LEMMA GenerationAdvancesStep == IInv /\ [Next]_vars => GenerationAdvances
<1> SUFFICES ASSUME IInv, [Next]_vars, Published PROVE GenerationAdvances
  BY DEF GenerationAdvances
<1>1. snapshot \in Snapshots /\ snapshot # NoSnapshot
  BY DEF IInv, TypeOK, Published
<1>2. snapshot.generation \in Nat
  BY <1>1, ManagerConstants DEF Snapshots
<1>3. CASE snapshot' = snapshot
  BY <1>1, <1>2, <1>3 DEF GenerationAdvances
<1>4. CASE snapshot' = SignedOutView(snapshot) \/ snapshot' = ExpiredView(snapshot, now)
  <2>1. now \in Time BY NowIsTime DEF IInv
  <2>2. snapshot' \in Snapshots /\ snapshot' # NoSnapshot
    BY <1>1, <1>4, <2>1, ViewTypes, NoSnapshotIsDistinct
  <2>3. /\ snapshot'.generation = snapshot.generation
        /\ snapshot'.routes = snapshot.routes
        /\ snapshot'.createdAt = snapshot.createdAt
        /\ snapshot'.sessions = NoSessions
        /\ snapshot'.account \in {snapshot.account, NoUser}
    BY <1>1, <1>4 DEF Snapshots, SignedOutView, ExpiredView, Wiped
  <2>4. QED BY <1>2, <2>2, <2>3 DEF GenerationAdvances
<1>5. CASE \E s \in Candidates : Commit(s)
  <2> PICK s \in Candidates : Commit(s) BY <1>5
  <2>1. s \in Snapshots /\ s # NoSnapshot /\ s.generation \in Nat
    BY NoSnapshotIsDistinct, ManagerConstants DEF Candidates, Snapshots
  <2>2. snapshot' = s /\ s.generation > snapshot.generation
    BY DEF Commit, CanCommit, AdvancesGeneration
  <2>3. QED BY <1>2, <2>1, <2>2 DEF GenerationAdvances
<1>6. QED BY <1>3, <1>4, <1>5, NextSnapshotStep DEF SnapshotStep

\* Secrets that appear in a step were brought by Commit, in an open phase.
LEMMA SecretsEnteredStep == IInv /\ [Next]_vars => SecretsEntered
<1> SUFFICES ASSUME IInv, [Next]_vars, HasSessions(snapshot'), snapshot' # snapshot
             PROVE  SecretsEntered
  BY DEF SecretsEntered
<1>1. now \in Time BY NowIsTime DEF IInv
<1>2. ~HasSessions(SignedOutView(snapshot)) /\ ~HasSessions(ExpiredView(snapshot, now))
  BY <1>1, WipedSnapshot DEF IInv
<1>3. PICK s \in Candidates : Commit(s)
  BY <1>2, NextSnapshotStep DEF SnapshotStep
<1>4. QED BY <1>3 DEF Commit, CanCommit, BoundAccount, SecretsEntered

\* Published generations never go back and are never rewritten in place.
THEOREM GenerationsAdvance == Spec => GenerationsOnlyAdvance
<1>1. IInv /\ [Next]_vars => [GenerationAdvances]_vars
  BY GenerationAdvancesStep
<1>2. QED BY <1>1, InductiveInvariant, PTL DEF Spec, GenerationsOnlyAdvance

\* Secrets enter memory only through an accepted Commit of the bound account.
THEOREM SecretsEnter == Spec => SecretsEnterByCommit
<1>1. IInv /\ [Next]_vars => [SecretsEntered]_vars
  BY SecretsEnteredStep
<1>2. QED BY <1>1, InductiveInvariant, PTL DEF Spec, SecretsEnterByCommit
============================================================================
