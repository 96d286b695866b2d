-------------------------- MODULE BrowserSessions --------------------------
(***************************************************************************)
(* The management API's browser sessions (internal/web/security.go) and    *)
(* the rows behind them (the browser_sessions part of                      *)
(* internal/state/store.go).  The map in memory decides who is logged in;  *)
(* the rows carry the sessions over a restart.  The two are changed by     *)
(* separate critical sections, by many HTTP requests at once, and a store  *)
(* call may fail.                                                          *)
(*                                                                         *)
(* Tokens are 32 random bytes and never repeat here, so the collision      *)
(* retry of create is not taken; the CSRF secret lives and dies with its   *)
(* token and is left out.  A session's done channel is identified with its *)
(* membership of the map.                                                  *)
(***************************************************************************)
EXTENDS Naturals, FiniteSets

CONSTANTS
    Requests,       \* HTTP requests that may be in progress together
    MaxSessions,    \* s.max
    TTL,            \* s.ttl
    LoginLimit,     \* counted login failures a window admits (5)
    LoginWindow,    \* its length (one minute)
    MaxTokens, MaxTime  \* bounds of the model

ASSUME BrowserConstants ==
    /\ MaxSessions \in Nat \ {0} /\ TTL \in Nat \ {0}
    /\ LoginLimit \in Nat \ {0} /\ LoginWindow \in Nat \ {0}
    /\ MaxTokens \in Nat /\ MaxTime \in Nat

VARIABLES
    now,
    sessions,   \* s.sessions: expiry per token, 0 when absent
    pending,    \* s.pending: tokens reserved while they are stored
    attempts,   \* s.loginAttempts
    rows,       \* browser_sessions: expiry per token, 0 when absent
    requests,   \* where each request is
    lastToken,  \* tokens drawn so far
    cookies,    \* tokens some browser was given
    revoked     \* history: tokens whose lock request succeeded

sessionVars == <<now, sessions, pending, attempts, rows, requests, lastToken, cookies, revoked>>

Tokens == 1 .. MaxTokens
Expiries == 0 .. MaxTime + TTL

Idle == [at |-> "idle"]
At(r, place) == requests[r].at = place

\* Where a request is that has become an event stream (EventStreams).
StreamPlaces == {"slot", "subscribe", "hello", "streaming", "event", "deliver",
                 "closing", "releasing"}

NoAttempt == [failures |-> 0, windowEnd |-> 0, inFlight |-> FALSE]

\* The one type invariant of this module.  A row never lasts longer than the
\* TTL from now on, which is what restore demands of it.
SessionsTypeOK ==
    /\ now \in 0 .. MaxTime
    /\ sessions \in [Tokens -> Expiries]
    /\ rows \in [Tokens -> 0 .. now + TTL]
    /\ pending \subseteq Tokens
    /\ attempts \in [Tokens -> [failures : 0 .. LoginLimit,
                                windowEnd : 0 .. MaxTime + LoginWindow,
                                inFlight : BOOLEAN]]
    /\ Cardinality({t \in Tokens : sessions[t] # 0}) + Cardinality(pending) <= MaxSessions
    /\ \A r \in Requests :
           requests[r].at \in {"idle", "purge", "save", "admit", "authenticated",
                               "revoke", "backend"} \cup StreamPlaces
    /\ lastToken \in 0 .. MaxTokens
    /\ cookies \subseteq 1 .. lastToken
    /\ revoked \subseteq cookies

SessionsInit ==
    /\ now = 0
    /\ sessions = [t \in Tokens |-> 0]
    /\ rows = [t \in Tokens |-> 0]
    /\ pending = {}
    /\ attempts = [t \in Tokens |-> NoAttempt]
    /\ requests = [r \in Requests |-> Idle]
    /\ lastToken = 0
    /\ cookies = {}
    /\ revoked = {}

----------------------------------------------------------------------------
(* What is left after expiry.                                               *)

Present(expiry) == {t \in Tokens : expiry[t] # 0}
Expired(expiry) == {t \in Present(expiry) : expiry[t] <= now}
Without(expiry, gone) == [t \in Tokens |-> IF t \in gone THEN 0 ELSE expiry[t]]

\* A login attempt without a call in flight is dropped once its window is over.
Stale(attempt) == ~attempt.inFlight /\ attempt.windowEnd <= now

AttemptsWithout(gone) ==
    [t \in Tokens |-> IF t \in gone \/ Stale(attempts[t]) THEN NoAttempt ELSE attempts[t]]

\* pruneLocked.  Attempts belong to present sessions (LoginStateFollowsSession),
\* of which there are at most MaxSessions, so its last loop never runs.
PruneLocked ==
    /\ sessions' = Without(sessions, Expired(sessions))
    /\ attempts' = AttemptsWithout(Expired(sessions))

\* pruneBrowserSessionsTx: expired rows go, then the ones past the limit in the
\* order of expiry and token.
Pruned(expiry) ==
    LET live == Present(expiry) \ Expired(expiry)
        before(t) == {u \in live : \/ expiry[u] < expiry[t]
                                   \/ expiry[u] = expiry[t] /\ u < t}
    IN  Without(expiry, {t \in Tokens : \/ t \notin live
                                        \/ Cardinality(before(t)) >= MaxSessions})

\* deleteBrowserSessions runs after the lock is released, before `then`.
Purging(doomed, then) ==
    IF doomed = {} THEN then ELSE [at |-> "purge", doomed |-> doomed, then |-> then]

Goto(r, place) == requests' = [requests EXCEPT ![r] = place]

\* Each row is deleted in a transaction of its own whose error is ignored.
Purge(r) ==
    /\ At(r, "purge")
    /\ \E gone \in SUBSET requests[r].doomed : rows' = Without(rows, gone)
    /\ Goto(r, requests[r].then)
    /\ UNCHANGED <<now, sessions, pending, attempts, lastToken, cookies, revoked>>

----------------------------------------------------------------------------
(* create, called once the access token was verified.                       *)

RoomForOne == Cardinality(Present(sessions')) + Cardinality(pending) < MaxSessions

Reserve(r) ==
    /\ At(r, "idle")
    /\ lastToken < MaxTokens
    /\ PruneLocked
    /\ IF RoomForOne
       THEN /\ lastToken' = lastToken + 1
            /\ pending' = pending \cup {lastToken'}
            /\ Goto(r, Purging(Expired(sessions),
                       [at |-> "save", token |-> lastToken', expiry |-> now + TTL]))
       ELSE /\ Goto(r, Purging(Expired(sessions), Idle))
            /\ UNCHANGED <<pending, lastToken>>
    /\ UNCHANGED <<now, rows, cookies, revoked>>

\* SaveBrowserSession.  Without room, or with an expired session, it is refused;
\* the transaction may also fail.
CanSave(expiry) ==
    /\ now < expiry
    /\ Cardinality(Present(Pruned(rows))) < MaxSessions

Save(r) ==
    /\ At(r, "save")
    /\ \E saved \in {CanSave(requests[r].expiry), FALSE} :
           /\ rows' = IF saved
                      THEN [Pruned(rows) EXCEPT ![requests[r].token] = requests[r].expiry]
                      ELSE rows
           /\ Goto(r, [at |-> "admit", token |-> requests[r].token,
                       expiry |-> requests[r].expiry, saved |-> saved])
    /\ UNCHANGED <<now, sessions, pending, attempts, lastToken, cookies, revoked>>

Release(r) == pending' = pending \ {requests[r].token}

Usable(r) == requests[r].saved /\ now < requests[r].expiry

\* The second half of create.  A session that expired while it was being stored
\* is deleted again.
Admit(r) ==
    /\ At(r, "admit")
    /\ Release(r)
    /\ IF Usable(r)
       THEN /\ sessions' = [sessions EXCEPT ![requests[r].token] = requests[r].expiry]
            /\ cookies' = cookies \cup {requests[r].token}
            /\ Goto(r, Idle)
       ELSE /\ Goto(r, Purging(IF requests[r].saved THEN {requests[r].token} ELSE {}, Idle))
            /\ UNCHANGED <<sessions, cookies>>
    /\ UNCHANGED <<now, attempts, rows, lastToken, revoked>>

----------------------------------------------------------------------------
(* Requests that carry a cookie.                                            *)

\* removeSessionLocked.
Remove(gone) ==
    /\ sessions' = Without(sessions, gone)
    /\ attempts' = [t \in Tokens |-> IF t \in gone THEN NoAttempt ELSE attempts[t]]

\* valid, and matches for a stream that checks its session again.
Authenticate(r, t) ==
    /\ At(r, "idle")
    /\ t \in cookies
    /\ sessions[t] # 0
    /\ IF t \in Expired(sessions)
       THEN /\ Remove({t})
            /\ Goto(r, Purging({t}, Idle))
       ELSE /\ Goto(r, [at |-> "authenticated", token |-> t])
            /\ UNCHANGED <<sessions, attempts>>
    /\ UNCHANGED <<now, pending, rows, lastToken, cookies, revoked>>

\* Every handler that does not touch the session store.
Leave(r) ==
    /\ At(r, "authenticated")
    /\ Goto(r, Idle)
    /\ UNCHANGED <<now, sessions, pending, attempts, rows, lastToken, cookies, revoked>>

\* Fault: a failed deletion does not stop the revocation.
DeleteRowOrNot(r) ==
    /\ \/ rows' = Without(rows, {requests[r].token})
       \/ rows' = rows
    /\ Goto(r, [at |-> "revoke", token |-> requests[r].token])

\* revoke's DeleteBrowserSession; when it fails the request ends with an error.
DeleteRow(r) ==
    \/ /\ rows' = Without(rows, {requests[r].token})
       /\ Goto(r, [at |-> "revoke", token |-> requests[r].token])
    \/ /\ rows' = rows
       /\ Goto(r, Idle)

Lock(r) ==
    /\ At(r, "authenticated")
    /\ DeleteRow(r)
    /\ UNCHANGED <<now, sessions, pending, attempts, lastToken, cookies, revoked>>

Revoke(r) ==
    /\ At(r, "revoke")
    /\ Remove({requests[r].token})
    /\ revoked' = revoked \cup {requests[r].token}
    /\ Goto(r, Idle)
    /\ UNCHANGED <<now, pending, rows, lastToken, cookies>>

\* beginLogin: the session may have gone since it was authenticated, another
\* login of it may be in flight, or its window may be used up.
BeginLogin(r) ==
    LET t == requests[r].token
        attempt == AttemptsWithout(Expired(sessions))[t]
        admitted == /\ sessions[t] > now
                    /\ ~attempt.inFlight
                    /\ attempt.failures < LoginLimit
        after == IF admitted THEN [at |-> "backend", token |-> t] ELSE Idle
    IN  /\ At(r, "authenticated")
        /\ sessions' = Without(sessions, Expired(sessions))
        /\ attempts' = IF admitted
                       THEN [AttemptsWithout(Expired(sessions)) EXCEPT ![t].inFlight = TRUE]
                       ELSE AttemptsWithout(Expired(sessions))
        /\ Goto(r, Purging(Expired(sessions), after))
        /\ UNCHANGED <<now, pending, rows, lastToken, cookies, revoked>>

\* What a failed login leaves: the window restarts when it is over, and only
\* a counted failure opens one.
Failed(attempt, counted) ==
    LET over == attempt.windowEnd <= now
        failures == IF over THEN 0 ELSE attempt.failures
        windowEnd == IF over THEN 0 ELSE attempt.windowEnd
        kept == [failures |-> IF counted /\ failures < LoginLimit
                              THEN failures + 1 ELSE failures,
                 windowEnd |-> IF counted /\ windowEnd = 0
                               THEN now + LoginWindow ELSE windowEnd,
                 inFlight |-> FALSE]
    IN  IF kept.failures = 0 THEN NoAttempt ELSE kept

\* finishLogin under the lock.
LoginState(t, outcome) ==
    IF sessions[t] = 0 \/ t \in Expired(sessions) THEN Remove({t})
    ELSE /\ attempts' = [attempts EXCEPT ![t] =
                            IF outcome = "ok" THEN NoAttempt
                            ELSE Failed(@, outcome = "counted")]
         /\ sessions' = sessions

FinishLogin(r, outcome) ==
    /\ At(r, "backend")
    /\ LoginState(requests[r].token, outcome)
    /\ Goto(r, Purging({requests[r].token} \cap Expired(sessions), Idle))
    /\ UNCHANGED <<now, pending, rows, lastToken, cookies, revoked>>

----------------------------------------------------------------------------

\* A crash and the next start: newSessionStore restores the rows that are left
\* after RestoreBrowserSessions pruned them.
Restart ==
    /\ rows' = Pruned(rows)
    /\ sessions' = rows'
    /\ pending' = {}
    /\ attempts' = [t \in Tokens |-> NoAttempt]
    /\ requests' = [r \in Requests |-> Idle]
    /\ UNCHANGED <<now, lastToken, cookies, revoked>>

Tick ==
    /\ now < MaxTime
    /\ now' = now + 1
    /\ UNCHANGED <<sessions, pending, attempts, rows, requests, lastToken, cookies, revoked>>

SessionStep(r) ==
    \/ Reserve(r) \/ Save(r) \/ Admit(r) \/ Purge(r)
    \/ \E t \in Tokens : Authenticate(r, t)
    \/ Leave(r) \/ Lock(r) \/ Revoke(r) \/ BeginLogin(r)
    \/ \E outcome \in {"ok", "counted", "uncounted"} : FinishLogin(r, outcome)

----------------------------------------------------------------------------
(* Properties.                                                              *)

\* A browser whose lock request succeeded stays locked out, also after a crash
\* at any later moment: its token is neither in memory nor on disk, although
\* other requests with the same cookie may still be under way.
RevokedStaysRevoked ==
    \A t \in revoked : sessions[t] = 0 /\ rows[t] = 0

\* A session that is accepted is also on disk, so a restart does not log its
\* browser out; the only exception is a session whose lock is half done.
LiveSessionIsDurable ==
    \A t \in Tokens :
        sessions[t] > now =>
            \/ rows[t] = sessions[t]
            \/ \E r \in Requests : At(r, "revoke") /\ requests[r].token = t

\* Whoever reserved a place under the session limit finds a free row: create
\* is not refused by SaveBrowserSession for a limit it already checked, with
\* any number of requests creating sessions at once.
ReservationIsHonoured ==
    \A r \in Requests :
        At(r, "save") /\ now < requests[r].expiry => CanSave(requests[r].expiry)

\* A reservation belongs to a request that is still storing it, so a failed
\* store call cannot use up the session limit for good.
PendingHasOwner ==
    \A t \in pending :
        \E r \in Requests :
            \/ requests[r].at \in {"save", "admit"} /\ requests[r].token = t
            \/ At(r, "purge") /\ requests[r].then.at = "save" /\ requests[r].then.token = t

\* Two requests of a browser are never in the provider's login together,
\* although pruning by other requests trims login state meanwhile.
OneLoginPerSession ==
    \A q, r \in Requests :
        At(q, "backend") /\ At(r, "backend") /\ requests[q].token = requests[r].token => q = r

\* finishLogin "never recreates login state for a session that logout or expiry
\* removed in flight".
LoginStateFollowsSession ==
    \A t \in Tokens : attempts[t] # NoAttempt => sessions[t] # 0

\* Together: memory, table, reservations, login calls and login state agree.
SessionsInv ==
    /\ SessionsTypeOK
    /\ LiveSessionIsDurable /\ PendingHasOwner /\ ReservationIsHonoured
    /\ OneLoginPerSession /\ LoginStateFollowsSession
=============================================================================
