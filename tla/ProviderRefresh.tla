-------------------------- MODULE ProviderRefresh --------------------------
(***************************************************************************)
(* Login and refresh of the provider account (internal/kuaifan/refresh.go  *)
(* over client.go, ios_client.go and windows_client.go), down to the row   *)
(* the store keeps: two control profiles that must stay one account, calls *)
(* that are retried or not, a provider that rotates tokens, and a process  *)
(* that may be killed at any moment.                                       *)
(*                                                                         *)
(* The provider is external.  It accepts the last token it issued to a     *)
(* profile, and may or may not rotate it when the session is refreshed;    *)
(* an answer may be lost after it took effect.  Whether an operation may   *)
(* start, and its publication in memory, are in Manager and Runtime.       *)
(***************************************************************************)
EXTENDS StateStore

CONSTANTS
    Users,          \* provider accounts
    Attempts,       \* r.attempts
    MaxTokens       \* bound: tokens the provider issues to one profile

ASSUME ProviderConstants == Attempts \in Nat \ {0} /\ MaxTokens \in Nat \ {0}

Profiles == {"ios", "windows"}
Calls == Profiles \X {"authority", "lines"}

NoSession == [user |-> None, token |-> 0]
Sessions == [user : Users, token : 1 .. MaxTokens]
SignedOut == [p \in Profiles |-> NoSession]

\* What is stored: both profiles; a release before the Windows profile has
\* left only the iOS one.
AllAggregates == {SignedOut} \cup [Profiles -> Sessions \cup {NoSession}]

ASSUME AggregatesAreStored == AllAggregates \subseteq Aggregates

VARIABLES
    op,         \* "idle", "sessions", "profiles", "commit" or "committing"
    kind,       \* "login" or "refresh"
    branches,   \* per profile: the goroutine of parallelSessions
    fetches,    \* per profile and request: the goroutine of fetchAuthorityAndLines
    valid,      \* the session the provider accepts for each profile
    succeeded   \* the last operation ended with OutcomeSucceeded

opVars == <<op, kind, branches, fetches, valid, succeeded>>
vars == <<storeVars, opVars>>

Off == [at |-> "off", tries |-> 1, session |-> NoSession]
NoFetch == [at |-> "off", tries |-> 1]

ProviderTypeOK ==
    /\ op \in {"idle", "sessions", "profiles", "commit", "committing"}
    /\ kind \in {"login", "refresh"}
    /\ \A p \in Profiles :
          /\ branches[p].at \in {"off", "config", "login", "renew", "done", "failed"}
          /\ branches[p].tries \in 1 .. Attempts
          /\ branches[p].session \in Sessions \cup {NoSession}
    /\ fetches \in [Calls -> [at : {"off", "call", "ok"}, tries : 1 .. Attempts]]
    /\ valid \in [Profiles -> Sessions \cup {NoSession}]
    /\ succeeded \in BOOLEAN

Init ==
    /\ StoreInit
    /\ acked \in {None, SignedOut} \cup
                 {[SignedOut EXCEPT !["ios"] = [user |-> u, token |-> 1]] : u \in Users}
    /\ op = "idle" /\ kind = "login"
    /\ branches = [p \in Profiles |-> Off]
    /\ fetches = [c \in Calls |-> NoFetch]
    /\ valid = IF acked = None THEN SignedOut ELSE acked
    /\ succeeded = FALSE

----------------------------------------------------------------------------
(* Login and Refresh start.                                                 *)

Begin(k, sessionOf) ==
    /\ At("serving") /\ op = "idle"
    /\ op' = "sessions" /\ kind' = k
    /\ branches' = [p \in Profiles |-> [at |-> "config", tries |-> 1, session |-> sessionOf[p]]]
    /\ succeeded' = FALSE
    /\ UNCHANGED <<storeVars, fetches, valid>>

BeginLogin == Begin("login", SignedOut)

\* Refresh needs both profiles; a store migrated from the older release has to
\* log in again.
BeginRefresh ==
    /\ At("serving")
    /\ NoSession \notin {acked[p] : p \in Profiles}
    /\ Begin("refresh", acked)

\* The operation returns its error.
Fails ==
    /\ op' = "idle"
    /\ fetches' = [c \in Calls |-> NoFetch]

----------------------------------------------------------------------------
(* parallelSessions.                                                        *)

\* Fault: a transient error is retried without end.
MayRetryAlways(tries) == kind = "refresh"

\* retry gives a transient error Attempts calls; login calls are not retried.
MayRetry(tries) == kind = "refresh" /\ tries < Attempts

NextTry(tries) == (tries % Attempts) + 1

\* A call that brought no answer: a transient error is tried again when that is
\* allowed, any other error (a timeout too) ends the goroutine.
NoAnswer(b) ==
    {[b EXCEPT !.at = "failed"]}
       \cup (IF MayRetry(b.tries) THEN {[b EXCEPT !.tries = NextTry(@)]} ELSE {})

Advance(b, place, session) == [at |-> place, tries |-> 1, session |-> session]

SetBranch(p, b) == branches' = [branches EXCEPT ![p] = b]

\* FetchClientConfig, then the login or, on a refresh, the renewal.
FetchClientConfig(p) ==
    /\ op = "sessions" /\ branches[p].at = "config"
    /\ \E b \in NoAnswer(branches[p])
               \cup {Advance(branches[p], IF kind = "login" THEN "login" ELSE "renew",
                             branches[p].session)} :
          SetBranch(p, b)
    /\ UNCHANGED <<storeVars, op, kind, fetches, valid, succeeded>>

\* The next session the provider issues to p for a user.
Issue(p, u) == [user |-> u, token |-> valid[p].token + 1]

\* The iOS profile must refresh its new session once before use.
RequiresPostLoginRefresh(p) == p = "ios"

\* loginBoth, one profile's goroutine.  An answer that is refused or lost may have
\* taken effect at the provider.
Login(p) ==
    LET issued == {Issue(p, u) : u \in Users}
        after == IF RequiresPostLoginRefresh(p) THEN "renew" ELSE "done"
    IN  /\ op = "sessions" /\ branches[p].at = "login"
        /\ \/ SetBranch(p, [branches[p] EXCEPT !.at = "failed"]) /\ UNCHANGED valid
           \/ /\ valid[p].token < MaxTokens
              /\ \E s \in issued :
                    /\ valid' = [valid EXCEPT ![p] = s]
                    /\ \/ SetBranch(p, Advance(branches[p], after, s))
                       \/ SetBranch(p, [branches[p] EXCEPT !.at = "failed"])
        /\ UNCHANGED <<storeVars, op, kind, fetches, succeeded>>

\* Fault: the rotated token is not taken over.
RenewedKeepsToken(p, answer) == branches[p].session

Renewed(p, answer) == answer

\* RefreshSession.  The provider knows the token and answers with the one that
\* is valid from now on, its answer is lost, or it refuses; an answer for
\* another user is refused here.
RefreshSession(p) ==
    /\ op = "sessions" /\ branches[p].at = "renew"
    /\ \/ \E b \in NoAnswer(branches[p]) : SetBranch(p, b) /\ UNCHANGED valid
       \/ /\ branches[p].session = valid[p]
          /\ \E s \in {valid[p]} \cup {t \in {Issue(p, valid[p].user)} : t.token <= MaxTokens} :
                /\ valid' = [valid EXCEPT ![p] = s]
                /\ \E b \in NoAnswer(branches[p]) \cup {Advance(branches[p], "done", Renewed(p, s))} :
                      SetBranch(p, b)
    /\ UNCHANGED <<storeVars, op, kind, fetches, succeeded>>

\* The comparison parallelSessions, aggregateAccountDisplay and commit make.
SameUser(b) == b["ios"].session.user = b["windows"].session.user

\* Fault: the first error is returned while the other call is under way.
JoinedEarly ==
    \/ \A p \in Profiles : branches[p].at = "done"
    \/ \E p \in Profiles : branches[p].at = "failed"

\* Both results are awaited, also after an error.
Joined == \A p \in Profiles : branches[p].at \in {"done", "failed"}

Join ==
    /\ op = "sessions" /\ Joined
    /\ IF (\A p \in Profiles : branches[p].at = "done") /\ SameUser(branches)
       THEN /\ op' = "profiles"
            /\ fetches' = [c \in Calls |-> [at |-> "call", tries |-> 1]]
       ELSE Fails
    /\ UNCHANGED <<storeVars, kind, branches, valid, succeeded>>

----------------------------------------------------------------------------
(* fetchBothProfiles.  The first error cancels the three other calls and is *)
(* returned; what they still bring goes to a channel nobody reads.          *)

Fetch(c) ==
    /\ op = "profiles" /\ fetches[c].at = "call"
    /\ \/ fetches' = [fetches EXCEPT ![c].at = "ok"] /\ UNCHANGED op
       \/ /\ MayRetry(fetches[c].tries)
          /\ fetches' = [fetches EXCEPT ![c].tries = NextTry(@)] /\ UNCHANGED op
       \/ Fails
    /\ UNCHANGED <<storeVars, kind, branches, valid, succeeded>>

FetchAuthority(p) == Fetch(<<p, "authority">>)

FetchLines(p) == Fetch(<<p, "lines">>)

ProfilesFetched ==
    /\ op = "profiles"
    /\ \A c \in Calls : fetches[c].at = "ok"
    /\ op' = "commit"
    /\ fetches' = [c \in Calls |-> NoFetch]
    /\ UNCHANGED <<storeVars, kind, branches, valid, succeeded>>

----------------------------------------------------------------------------
(* commit.                                                                  *)

Aggregate == [p \in Profiles |-> branches[p].session]

\* aggregateAccountDisplay, nodesFromLines or the selector builder refuses.
CommitRefused ==
    /\ op = "commit"
    /\ Fails
    /\ UNCHANGED <<storeVars, kind, branches, valid, succeeded>>

CommitBegins ==
    /\ op = "commit" /\ SameUser(branches)
    /\ BeginWrite(Aggregate)
    /\ op' = "committing"
    /\ UNCHANGED <<kind, branches, fetches, valid, succeeded>>

\* Logout and expiry clear the stored session.
ClearSession ==
    /\ op = "idle"
    /\ BeginWrite(SignedOut)
    /\ UNCHANGED opVars

WriteEnds ==
    \/ /\ CommitWrite
       /\ op' = "idle"
       /\ succeeded' = (succeeded \/ op = "committing")
       /\ UNCHANGED <<kind, branches, fetches, valid>>
    \/ /\ RollbackWrite
       /\ op' = "idle"
       /\ UNCHANGED <<kind, branches, fetches, valid, succeeded>>

----------------------------------------------------------------------------

\* The process ends; what was under way is forgotten, not what the provider did.
Stops ==
    /\ Exit \/ Crash
    /\ op' = "idle"
    /\ branches' = [p \in Profiles |-> Off]
    /\ fetches' = [c \in Calls |-> NoFetch]
    /\ UNCHANGED <<kind, valid, succeeded>>

SessionCalls == \E p \in Profiles : FetchClientConfig(p) \/ Login(p) \/ RefreshSession(p)

OperationSteps ==
    \/ SessionCalls \/ Join
    \/ \E p \in Profiles : FetchAuthority(p) \/ FetchLines(p)
    \/ ProfilesFetched
    \/ CommitRefused \/ CommitBegins \/ WriteEnds

Next ==
    \/ (Start(SignedOut) \/ StartSteps) /\ UNCHANGED opVars
    \/ BeginLogin \/ BeginRefresh \/ OperationSteps \/ ClearSession
    \/ Stops

Spec == Init /\ [][Next]_vars

\* Every call ends by its request timeout.
FairSpec == Spec /\ WF_vars(OperationSteps)

----------------------------------------------------------------------------
(* Properties.                                                              *)

\* Whatever failed, was retried or was cut off by a crash, the store holds no
\* session, the iOS session of an older release, or both profiles of one user.
AggregateIsWhole ==
    acked \notin {None, SignedOut} =>
        acked["windows"] = NoSession \/ acked["ios"].user = acked["windows"].user

\* No login or token rotation is under way once the operation has returned: a
\* late answer could not be stored any more, and its token would be lost.
SessionCallsJoined ==
    op # "sessions" => \A p \in Profiles : branches[p].at \in {"off", "done", "failed"}

\* Together, over a database that a kill at any point leaves loadable.
ProviderInv == StoreInv /\ ProviderTypeOK /\ AggregateIsWhole /\ SessionCallsJoined

\* After a login or refresh that reported success, and until the next one
\* starts, the stored tokens are the ones the provider accepts, whatever was
\* rotated, lost or retried on the way, also across a restart.
CommittedTokensAreCurrent ==
    (succeeded /\ op = "idle" /\ acked # SignedOut) => acked = valid

\* An operation ends: neither retries nor a silent branch hold its lease.
OperationEnds == (op # "idle") ~> (op = "idle")

\* Not an invariant: a failure in one profile, a lost answer or a crash leaves
\* tokens in the store that the provider has rotated away.
StoredTokensAreCurrent == (op = "idle" /\ acked \notin {None, SignedOut}) => acked = valid
=============================================================================
