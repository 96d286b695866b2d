-------------------------- MODULE RefreshSchedule --------------------------
(***************************************************************************)
(* When a served session is renewed.  The heartbeat worker reads the       *)
(* schedule, expires the authority if it is due to, and runs a scheduled   *)
(* refresh; Login and Refresh requests run at the same time.  Operations   *)
(* exclude each other with r.mutations, but the schedule has its own lock, *)
(* and scheduleRefreshRetry runs after r.mutations was released: it reads  *)
(* the session's expiry first and writes the schedule later.               *)
(***************************************************************************)
EXTENDS Naturals

CONSTANTS
    Lifetime,   \* of a session: AuthorityLifetime
    Every,      \* r.refreshEvery
    MinPolicy,  \* minRefreshPolicy: the least interval, and that of retries
    Margin,     \* refreshExpirySafetyMargin
    Budget,     \* refreshRetryAttemptBudget
    MaxTime,    \* bounds of the model: the clock and
    MaxRestarts \* how often the process is killed

ASSUME ScheduleConstants ==
    /\ Lifetime \in Nat /\ Every \in Nat /\ MinPolicy \in Nat
    /\ Margin \in Nat /\ Budget \in Nat /\ MaxTime \in Nat \ {0} /\ MaxRestarts \in Nat
    /\ 0 < MinPolicy /\ MinPolicy <= Every
    /\ Budget <= Margin /\ Margin < Lifetime

VARIABLES
    now,
    service,        \* the manager's state between operations
    expiresAt,      \* of the published snapshot, Never when there is none
    nextRefreshAt,  \* r.nextRefreshAt, Never for the zero time
    section,        \* who is inside r.mutations, and where
    worker,         \* the heartbeat worker
    stored,         \* the session's secrets are in the store
    failedAt,       \* history: when a scheduled refresh of this session last failed
    restarts        \* how often the process was restarted

scheduleVars == <<now, service, expiresAt, nextRefreshAt, section, worker, stored, failedAt, restarts>>

Never == 0
Times == 0 .. MaxTime + Lifetime

Free == [op |-> "none"]
Waiting == [at |-> "ticker"]

\* The one type invariant of this module.
TypeOK ==
    /\ now \in 1 .. MaxTime
    /\ service \in {"signed_out", "ready", "degraded", "expired"}
    /\ expiresAt \in Times
    /\ nextRefreshAt \in Times
    /\ section \in {Free} \cup
           [op : {"login", "refresh", "scheduled"}, at : {"provider", "record"}]
    /\ worker \in {Waiting}
           \cup [at : {"expire", "check"}, due : BOOLEAN]
           \cup [at : {"refresh", "running", "failed"}]
           \cup [at : {"read"}, clock : 1 .. MaxTime]
           \cup [at : {"write"}, clock : 1 .. MaxTime, expiry : Times]
    /\ stored \in BOOLEAN
    /\ failedAt \in 0 .. MaxTime
    /\ restarts \in 0 .. MaxRestarts

Authenticated == service \in {"ready", "degraded"}
Expired == expiresAt # Never /\ expiresAt <= now

----------------------------------------------------------------------------
(* The schedule.                                                            *)

\* Fault: the schedule ignores when the session ends.
UnboundedRefreshAt(base, expiry) == base + Every

\* boundedRefreshAt: the policy's interval, but safely before the expiry.
BoundedRefreshAt(base, expiry) ==
    IF base + Every > expiry - Margin THEN expiry - Margin ELSE base + Every

\* RefreshDue.
RefreshDue == nextRefreshAt # Never /\ nextRefreshAt <= now

\* Fault: a failed scheduled refresh is tried again at the next heartbeat.
RetryAtOnce(clock, expiry) == clock

\* scheduleRefreshRetry's choice: after MinPolicy, or at the last moment that
\* leaves an attempt its time.
RetryAt(clock, expiry) ==
    IF expiry # Never /\ clock + MinPolicy > expiry - Budget THEN expiry - Budget
    ELSE clock + MinPolicy

\* No attempt fits before the expiry any more.
TooLate(clock, expiry) == expiry # Never /\ expiry <= clock + Budget

----------------------------------------------------------------------------
ScheduleInit ==
    /\ now = 1
    /\ service = "signed_out"
    /\ expiresAt = Never
    /\ nextRefreshAt = Never
    /\ section = Free
    /\ worker = Waiting
    /\ stored = FALSE
    /\ failedAt = 0
    /\ restarts = 0

\* Login and Refresh requests enter the section when the manager lets them.
Request(asked) ==
    /\ section = Free
    /\ \/ asked = "login" /\ ~Authenticated
       \/ asked = "refresh" /\ Authenticated /\ ~Expired
    /\ section' = [op |-> asked, at |-> "provider"]
    /\ UNCHANGED <<now, service, expiresAt, nextRefreshAt, worker, stored, failedAt, restarts>>

\* The new session is published; the schedule follows in a second step.
Succeeds ==
    /\ section # Free /\ section.at = "provider"
    /\ now + Lifetime \in Times
    /\ service' = "ready"
    /\ expiresAt' = now + Lifetime
    /\ section' = [section EXCEPT !.at = "record"]
    /\ stored' = TRUE
    /\ failedAt' = 0
    /\ UNCHANGED <<now, nextRefreshAt, worker, restarts>>

\* recordRefresh, and the mutex is released.
RecordRefresh ==
    /\ section # Free /\ section.at = "record"
    /\ nextRefreshAt' = BoundedRefreshAt(now, expiresAt)
    /\ section' = Free
    /\ worker' = IF section.op = "scheduled" THEN Waiting ELSE worker
    /\ UNCHANGED <<now, service, expiresAt, stored, failedAt, restarts>>

\* clearActiveSession: the update of the store may fail.
ClearActiveSession == stored' \in {stored, FALSE}

\* A failed login signs out; a failed refresh keeps a session that is still
\* good and expires one that is not.
FailedInto ==
    IF section.op = "login" THEN "signed_out"
    ELSE IF now < expiresAt THEN "degraded" ELSE "expired"

OperationFails ==
    /\ section # Free /\ section.at = "provider"
    /\ service' = FailedInto
    /\ expiresAt' = IF service' = "expired" THEN now ELSE expiresAt
    /\ section' = Free
    /\ worker' = IF section.op = "scheduled" THEN [at |-> "failed"] ELSE worker
    /\ failedAt' = IF section.op = "scheduled" THEN now ELSE failedAt
    /\ IF service' = "expired" THEN ClearActiveSession ELSE UNCHANGED stored
    /\ UNCHANGED <<now, nextRefreshAt, restarts>>

\* A Refresh request that finds the session over: it expires what is served and
\* clears the store.
RequestTooLate ==
    /\ section = Free /\ Expired
    /\ Authenticated \/ service = "expired"
    /\ service' = "expired"
    /\ expiresAt' = IF Authenticated THEN now ELSE expiresAt
    /\ ClearActiveSession
    /\ UNCHANGED <<now, nextRefreshAt, section, worker, failedAt, restarts>>

\* The store is cleared first; when that fails the service stays as it was.
Logout ==
    /\ section = Free
    /\ service' = "signed_out"
    /\ stored' = FALSE
    /\ UNCHANGED <<now, expiresAt, nextRefreshAt, section, worker, failedAt, restarts>>

----------------------------------------------------------------------------
(* The heartbeat worker.                                                    *)

\* runHeartbeat: the ticker fires and the schedule is read.
Beat ==
    /\ worker = Waiting
    /\ worker' = [at |-> "expire", due |-> RefreshDue]
    /\ UNCHANGED <<now, service, expiresAt, nextRefreshAt, section, stored, failedAt, restarts>>

\* Fault: the store is cleared only by the heartbeat that expires the session.
ClearOnceExpired == IF Authenticated THEN ClearActiveSession ELSE UNCHANGED stored

\* ExpireIfNeeded goes on answering that the session is over, so every heartbeat
\* clears the store again.
ClearWhenExpired == ClearActiveSession

\* Heartbeat's first section: ExpireIfNeeded.
BeatExpire ==
    /\ worker.at = "expire"
    /\ section = Free
    /\ \/ /\ Expired
          /\ service' = IF Authenticated THEN "expired" ELSE service
          /\ expiresAt' = IF Authenticated THEN now ELSE expiresAt
          /\ worker' = Waiting
          /\ ClearWhenExpired
       \/ /\ ~Expired
          /\ worker' = IF worker.due THEN [worker EXCEPT !.at = "check"] ELSE Waiting
          /\ UNCHANGED <<service, expiresAt, stored>>
    /\ UNCHANGED <<now, nextRefreshAt, section, failedAt, restarts>>

\* Fault: a degraded service is not refreshed.
ReadyOnly == service = "ready" /\ (section = Free \/ section.at = "record")

\* Ready or degraded, which a service is not during a login or refresh.
Refreshable ==
    service \in {"ready", "degraded"} /\ (section = Free \/ section.at = "record")

\* The state is looked at without the mutex.
BeatCheck ==
    /\ worker.at = "check"
    /\ worker' = IF Refreshable THEN [at |-> "refresh"] ELSE Waiting
    /\ UNCHANGED <<now, service, expiresAt, nextRefreshAt, section, stored, failedAt, restarts>>

\* Runtime.Refresh waits for the mutex; what it finds then may be expired or
\* signed out, which is an error like any other.
BeatRefresh ==
    /\ worker.at = "refresh"
    /\ section = Free
    /\ \/ /\ Authenticated /\ ~Expired
          /\ section' = [op |-> "scheduled", at |-> "provider"]
          /\ worker' = [at |-> "running"]
          /\ UNCHANGED <<service, expiresAt, failedAt, stored>>
       \/ /\ Authenticated /\ Expired
          /\ service' = "expired" /\ expiresAt' = now
          /\ worker' = [at |-> "failed"] /\ failedAt' = now
          /\ ClearActiveSession
          /\ UNCHANGED section
       \/ /\ ~Authenticated
          /\ worker' = [at |-> "failed"] /\ failedAt' = now
          /\ IF service = "expired" THEN ClearActiveSession ELSE UNCHANGED stored
          /\ UNCHANGED <<service, expiresAt, section>>
    /\ UNCHANGED <<now, nextRefreshAt, restarts>>

\* scheduleRefreshRetry, outside of every section: the clock is read ...
RetryClock ==
    /\ worker.at = "failed"
    /\ worker' = [at |-> "read", clock |-> now]
    /\ UNCHANGED <<now, service, expiresAt, nextRefreshAt, section, stored, failedAt, restarts>>

\* ... then the expiry of what is published by then ...
RetryRead ==
    /\ worker.at = "read"
    /\ worker' = [at |-> "write", clock |-> worker.clock, expiry |-> expiresAt]
    /\ UNCHANGED <<now, service, expiresAt, nextRefreshAt, section, stored, failedAt, restarts>>

\* ... and the schedule is written under its own lock.
RetryWrite ==
    /\ worker.at = "write"
    /\ nextRefreshAt' =
           IF TooLate(worker.clock, worker.expiry) THEN Never
           ELSE IF nextRefreshAt < RetryAt(worker.clock, worker.expiry)
                THEN RetryAt(worker.clock, worker.expiry)
                ELSE nextRefreshAt
    /\ worker' = Waiting
    /\ UNCHANGED <<now, service, expiresAt, section, stored, failedAt, restarts>>

Tick ==
    /\ now < MaxTime
    /\ now' = now + 1
    /\ UNCHANGED <<service, expiresAt, nextRefreshAt, section, worker, stored, failedAt, restarts>>

\* NewRuntime over the persisted session: the schedule starts from when it was
\* created.  A session that can no longer be used is dropped, from the store too,
\* or the start fails.
Restart ==
    /\ restarts < MaxRestarts
    /\ restarts' = restarts + 1
    /\ IF Authenticated /\ ~Expired
       THEN /\ service' = "ready"
            /\ nextRefreshAt' = BoundedRefreshAt(expiresAt - Lifetime, expiresAt)
            /\ UNCHANGED <<expiresAt, stored>>
       ELSE /\ service' = "signed_out" /\ stored' = FALSE
            /\ nextRefreshAt' = Never /\ expiresAt' = Never
    /\ section' = Free
    /\ worker' = Waiting
    /\ failedAt' = 0
    /\ UNCHANGED now

Worker ==
    \/ Beat \/ BeatExpire \/ BeatCheck \/ BeatRefresh
    \/ RetryClock \/ RetryRead \/ RetryWrite

ScheduleNext ==
    \/ \E asked \in {"login", "refresh"} : Request(asked)
    \/ Succeeds \/ OperationFails \/ RecordRefresh
    \/ Logout \/ RequestTooLate
    \/ Worker
    \/ Tick
    \/ Restart

ScheduleSpec == ScheduleInit /\ [][ScheduleNext]_scheduleVars

\* The ticker keeps firing, the worker's goroutine runs, Go's mutex does not
\* starve it, every operation ends (provider calls are bounded), and the store
\* does not fail for ever.
FairScheduleSpec ==
    /\ ScheduleSpec
    /\ WF_scheduleVars(Beat \/ BeatCheck \/ RetryClock \/ RetryRead \/ RetryWrite)
    /\ SF_scheduleVars(BeatExpire) /\ SF_scheduleVars(BeatRefresh)
    /\ SF_scheduleVars(BeatExpire /\ stored /\ ~stored')
    /\ WF_scheduleVars(Succeeds \/ OperationFails) /\ WF_scheduleVars(RecordRefresh)

----------------------------------------------------------------------------
(* Properties.                                                              *)

\* Whenever a refresh is scheduled for a served session, the schedule leaves
\* an attempt its time before the session ends, whatever stale expiry a retry
\* was computed from.
ScheduledBeforeExpiry ==
    section = Free /\ Authenticated /\ nextRefreshAt # Never =>
        nextRefreshAt <= expiresAt - Budget

\* The schedule is well formed and leaves room for an attempt.
ScheduleInv == TypeOK /\ ScheduledBeforeExpiry

\* "a failed scheduled refresh cannot create a minute-by-minute control-plane
\* retry storm": once it has failed, the next one for the same session starts
\* MinPolicy later at the earliest, or in the last moment before the expiry.
AttemptsSpaced ==
    worker.at = "refresh" /\ worker'.at = "running" /\ failedAt # 0 =>
        \/ now >= failedAt + MinPolicy
        \/ now >= expiresAt - Budget

NoRetryStorm == [][AttemptsSpaced]_scheduleVars

\* A refresh that is due is attempted, by the worker or by a request, unless
\* the session ends first, also after earlier attempts failed.
DueRefreshHappens ==
    (Authenticated /\ RefreshDue) ~> (section # Free \/ ~Authenticated \/ ~RefreshDue)

\* The secrets of a session that is over leave the disk, although clearing them
\* may fail any number of times, in the heartbeat and in a refresh; a login that
\* fails in between does not make the heartbeat forget them.
ExpiredSecretsLeaveDisk == (stored /\ Expired) ~> (~stored \/ ~Expired)

\* "A zero schedule means no login has completed in this process": a served
\* session that leaves time for an attempt has one scheduled.
ServedSessionIsScheduled ==
    section = Free /\ Authenticated /\ now < expiresAt - Budget => nextRefreshAt # Never
============================================================================
