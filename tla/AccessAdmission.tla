-------------------------- MODULE AccessAdmission --------------------------
(***************************************************************************)
(* Admission to the access-token verifier (internal/web/security.go and    *)
(* the access handler of internal/web/api.go): one verification in flight  *)
(* per source address, and a pause after a number of wrong tokens.  The    *)
(* state is in memory only and starts empty with the process.              *)
(***************************************************************************)
EXTENDS Naturals, FiniteSets, Sequences

CONSTANTS
    Clients,        \* source addresses
    Requests,       \* access requests that may be in progress together
    FailureLimit,   \* counted failures that start a pause (5)
    Window,         \* length of a failure window and of a pause (one minute)
    MaxTracked,     \* addresses remembered at once (1024)
    MaxTime         \* bound of the model

ASSUME AccessConstants ==
    /\ FailureLimit \in Nat \ {0, 1} /\ Window \in Nat \ {0}
    /\ MaxTracked \in Nat \ {0} /\ MaxTime \in Nat

VARIABLES
    now,
    accessAttempts, \* s.accessAttempts, a function on the tracked clients
    requests,       \* per request: the client whose token is being verified
    strikes,        \* history: when a client's counted failures were, since a
                    \* verification of its that was not a counted failure
    pausedTo        \* history: until when a client was last told to wait

accessVars == <<now, accessAttempts, requests, strikes, pausedTo>>

NoRequest == [at |-> "idle"]
Fresh == [failures |-> 0, windowEnd |-> 0, blockedTo |-> 0, inFlight |-> FALSE]
Times == 0 .. MaxTime + Window

\* The one type invariant of this module; it bounds the tracked clients.
AccessTypeOK ==
    /\ now \in 0 .. MaxTime
    /\ DOMAIN accessAttempts \subseteq Clients
    /\ Cardinality(DOMAIN accessAttempts) <= MaxTracked
    /\ \A c \in DOMAIN accessAttempts :
           accessAttempts[c] \in [failures : 0 .. FailureLimit - 1, windowEnd : Times,
                                  blockedTo : Times, inFlight : BOOLEAN]
    /\ requests \in [Requests -> {NoRequest} \cup
                       [at : {"verify"}, client : Clients, since : 0 .. MaxTime]]
    /\ strikes \in [Clients -> Seq(0 .. MaxTime)]
    /\ pausedTo \in [Clients -> Times]

AccessInit ==
    /\ now = 0
    /\ accessAttempts = [c \in {} |-> Fresh]
    /\ requests = [r \in Requests |-> NoRequest]
    /\ strikes = [c \in Clients |-> << >>]
    /\ pausedTo = [c \in Clients |-> 0]

----------------------------------------------------------------------------

\* Fault: only the failure count keeps a client tracked, not its pause.
OverCount(attempt) == ~attempt.inFlight /\ attempt.failures = 0

Over(attempt) ==
    ~attempt.inFlight /\ attempt.windowEnd <= now /\ attempt.blockedTo <= now

\* trimAccessAttemptsLocked.  beginAccess refuses an untracked client at the
\* limit, so the eviction of others that follows in the code never runs.
Trim(all) ==
    [c \in {d \in DOMAIN all : ~Over(all[d])} |-> all[c]]

MayTrack(all, c) ==
    c \in DOMAIN all \/ Cardinality(DOMAIN all) < MaxTracked

Attempt(all, c) == IF c \in DOMAIN all THEN all[c] ELSE Fresh

With(all, c, attempt) ==
    [d \in DOMAIN all \cup {c} |-> IF d = c THEN attempt ELSE all[d]]

Admits(all, c) ==
    /\ ~Attempt(all, c).inFlight
    /\ Attempt(all, c).blockedTo <= now

\* What remains of an attempt when it is reserved: a window that is over is
\* forgotten.
Reserved(attempt) ==
    [(IF attempt.windowEnd # 0 /\ attempt.windowEnd <= now THEN Fresh ELSE attempt)
        EXCEPT !.inFlight = TRUE]

\* beginAccess.  A refused request ends, after the trim.
BeginAccess(r, c) ==
    LET trimmed == Trim(accessAttempts)
    IN  /\ requests[r] = NoRequest
        /\ IF MayTrack(trimmed, c) /\ Admits(trimmed, c)
           THEN /\ accessAttempts' = With(trimmed, c, Reserved(Attempt(trimmed, c)))
                /\ requests' = [requests EXCEPT ![r] =
                                  [at |-> "verify", client |-> c, since |-> now]]
           ELSE accessAttempts' = trimmed /\ requests' = requests
        /\ UNCHANGED <<now, strikes, pausedTo>>

\* A counted failure in finishAccess.
Struck(attempt) ==
    LET restart == attempt.windowEnd = 0 \/ attempt.windowEnd <= now
        failures == IF restart THEN 1 ELSE attempt.failures + 1
        end == IF restart THEN now + Window ELSE attempt.windowEnd
    IN  IF failures >= FailureLimit
        THEN [failures |-> 0, windowEnd |-> now + Window,
              blockedTo |-> now + Window, inFlight |-> FALSE]
        ELSE [failures |-> failures, windowEnd |-> end,
              blockedTo |-> attempt.blockedTo, inFlight |-> FALSE]

\* finishAccess(client, successful, countedFailure): a success and a failure
\* that does not count both forget the client.  Without a reservation it does
\* nothing.
FinishAccess(r, counted) ==
    LET c == requests[r].client
        reserved == c \in DOMAIN accessAttempts /\ accessAttempts[c].inFlight
        struck == Struck(accessAttempts[c])
    IN  /\ requests[r] # NoRequest
        /\ requests' = [requests EXCEPT ![r] = NoRequest]
        /\ \/ /\ reserved /\ counted
              /\ accessAttempts' = Trim(With(accessAttempts, c, struck))
              /\ strikes' = [strikes EXCEPT ![c] = Append(@, now)]
              /\ pausedTo' = [pausedTo EXCEPT ![c] =
                                IF struck.blockedTo > now THEN struck.blockedTo ELSE @]
           \/ /\ reserved => ~counted
              /\ accessAttempts' = IF reserved
                                   THEN [d \in DOMAIN accessAttempts \ {c} |-> accessAttempts[d]]
                                   ELSE accessAttempts
              /\ strikes' = [strikes EXCEPT ![c] = << >>]
              /\ pausedTo' = pausedTo
        /\ UNCHANGED now

Tick ==
    /\ now < MaxTime
    /\ now' = now + 1
    /\ UNCHANGED <<accessAttempts, requests, strikes, pausedTo>>

AccessNext ==
    \/ \E r \in Requests :
          \/ \E c \in Clients : BeginAccess(r, c)
          \/ \E counted \in BOOLEAN : FinishAccess(r, counted)
    \/ Tick

AccessSpec == AccessInit /\ [][AccessNext]_accessVars

----------------------------------------------------------------------------
(* Properties.                                                              *)

\* Two requests of a client are never verified together, although trims by
\* other requests run while a verification is in flight.
OneVerifierPerClient ==
    \A q, r \in Requests :
        requests[q] # NoRequest /\ requests[r] # NoRequest /\ requests[q].client = requests[r].client
            => q = r

\* A client that was told to wait is not verified before its pause is over,
\* whatever trimming and other clients did to the table meanwhile.
PauseIsServed ==
    \A r \in Requests :
        requests[r] # NoRequest => requests[r].since >= pausedTo[requests[r].client]

\* The windows are fixed, not sliding, so a client can fail more often than
\* FailureLimit in a stretch of a window's length: with all but the first of a window
\* that ends one short of a pause, and with those up to the pause of the next window.
\* One more always takes longer.
FailuresAreBounded ==
    \A c \in Clients : \A i, j \in DOMAIN strikes[c] :
        j = i + 2 * FailureLimit - 2 => strikes[c][i] + Window <= strikes[c][j]

\* What throttling promises for every client, however many there are: one
\* verification at a time, pauses that are served although other clients' calls
\* trim the table, and a bounded number of failures.
AdmissionInv == AccessTypeOK /\ OneVerifierPerClient /\ PauseIsServed /\ FailuresAreBounded
=============================================================================
