---------------------------- MODULE StreamsProofs ----------------------------
(***************************************************************************)
(* Proofs about browser sessions and the event streams that live on them:  *)
(* a locked browser stays locked out, memory and table agree, the limits   *)
(* are kept and no event reaches a browser that was not entitled to it,    *)
(* for any number of requests, sessions, slots and queue places.           *)
(***************************************************************************)
EXTENDS EventStreams, FiniteSetTheorems, TLAPS

----------------------------------------------------------------------------
(* Requests.                                                                *)

HolderPlaces == {"authenticated", "revoke", "backend"} \cup StreamPlaces
EventPlaces == {"event", "deliver"}

Saves == [at : {"save"}, token : Tokens, expiry : Expiries]
Admits == [at : {"admit"}, token : Tokens, expiry : Expiries, saved : BOOLEAN]
Holders == [at : HolderPlaces \ EventPlaces, token : Tokens]
Events == [at : EventPlaces, token : Tokens, event : SUBSET Tokens]

Works == {Idle} \cup Saves \cup Admits \cup Holders \cup Events

\* What may come after rows were deleted.
Deferred == {y \in Works : y.at \in {"idle", "save", "backend", "closing"}}
Purges == [at : {"purge"}, doomed : SUBSET Tokens, then : Deferred]

RequestsTyped == requests \in [Requests -> Works \cup Purges]

\* What a request does, now or after it has deleted expired rows.
Work(x) == IF x.at = "purge" THEN x.then ELSE x

\* The rows it still has to delete.
Doomed(x) == IF x.at = "purge" THEN x.doomed ELSE {}

Doing(r) == Work(requests[r])

Storing(r) == Doing(r).at \in {"save", "admit"}
Holding(r) == Doing(r).at \in HolderPlaces

----------------------------------------------------------------------------
(* Sessions and rows.                                                       *)

StateTyped ==
    /\ now \in 0 .. MaxTime
    /\ sessions \in [Tokens -> Expiries]
    /\ rows \in [Tokens -> 0 .. now + TTL]
    /\ attempts \in [Tokens -> [failures : 0 .. LoginLimit,
                                windowEnd : 0 .. MaxTime + LoginWindow,
                                inFlight : BOOLEAN]]
    /\ lastToken \in 0 .. MaxTokens
    /\ pending \subseteq 1 .. lastToken
    /\ cookies \subseteq 1 .. lastToken
    /\ revoked \subseteq cookies
    /\ \A t \in Tokens : sessions[t] # 0 \/ rows[t] # 0 => t <= lastToken

\* A token that is being stored is reserved, was given to no browser and to no
\* other request; its row is there once it was saved and has not expired.
StoringFresh ==
    \A r \in Requests : Storing(r) =>
        /\ Doing(r).token \in pending \ cookies
        /\ sessions[Doing(r).token] = 0
        /\ Doing(r).expiry <= now + TTL
        /\ Doing(r).at = "save" => rows[Doing(r).token] = 0
        /\ Doing(r).at = "admit" =>
              /\ rows[Doing(r).token] \in {0, Doing(r).expiry}
              /\ ~Doing(r).saved => rows[Doing(r).token] = 0
              /\ Doing(r).saved /\ now < Doing(r).expiry =>
                    rows[Doing(r).token] = Doing(r).expiry
        /\ \A q \in Requests : Storing(q) /\ Doing(q).token = Doing(r).token => q = r

PendingOwned == \A t \in pending : \E r \in Requests : Storing(r) /\ Doing(r).token = t

\* A request with a cookie; its row is gone once its lock is half done.
HoldersKnown ==
    \A r \in Requests : Holding(r) =>
        /\ Doing(r).token \in cookies
        /\ Doing(r).at = "revoke" => rows[Doing(r).token] = 0

\* Rows that are still to be deleted belong to sessions that cannot come back.
DoomedGone ==
    \A r \in Requests : \A t \in Doomed(requests[r]) :
        sessions[t] = 0 /\ t \notin pending /\ t <= lastToken

\* Memory and table.
RowsFollow ==
    \A t \in Tokens :
        /\ sessions[t] # 0 => t \notin pending /\ rows[t] \in {0, sessions[t]}
        /\ rows[t] > now => t \in pending \/ sessions[t] = rows[t]

WithinLimit == Cardinality(Present(sessions)) + Cardinality(pending) <= MaxSessions

\* Only one request of a session is in the provider's login, and it is marked
\* for as long as the session lasts.
LoginsMarked ==
    \A r \in Requests : Doing(r).at = "backend" =>
        /\ sessions[Doing(r).token] # 0 => attempts[Doing(r).token].inFlight
        /\ \A q \in Requests :
              Doing(q).at = "backend" /\ Doing(q).token = Doing(r).token => q = r

\* The inductive invariant of the sessions.
SInv ==
    /\ RequestsTyped /\ StateTyped
    /\ StoringFresh /\ PendingOwned /\ HoldersKnown /\ DoomedGone
    /\ RowsFollow /\ LiveSessionIsDurable /\ WithinLimit
    /\ LoginsMarked /\ LoginStateFollowsSession
    /\ RevokedStaysRevoked

----------------------------------------------------------------------------
(* Streams.                                                                 *)

SlotHolders == {r \in Requests : Doing(r).at \in StreamPlaces \ {"slot"}}

\* A subscriber is a handler between its subscription and its clean-up, and so
\* is whoever has queued events.
Subscribed(r) == Doing(r).at \in {"hello", "streaming", "event", "deliver", "closing"}

HubTyped ==
    /\ slots \in 0 .. StreamSlots
    /\ IsFiniteSet(SlotHolders) /\ slots = Cardinality(SlotHolders)
    /\ clients \subseteq Requests /\ left \subseteq Requests
    /\ hubClosed \in BOOLEAN
    /\ hubClosed => clients = {}
    /\ queues \in [Requests -> Seq(SUBSET Tokens)]
    /\ \A r \in Requests : Len(queues[r]) <= Buffer

QueuesFollow ==
    \A r \in Requests : r \in clients \/ queues[r] # <<>> => Subscribed(r)

\* While its session is live, everything a subscriber has received or will
\* receive was published for it.
EventsEntitle ==
    \A r \in Requests :
        /\ Subscribed(r) /\ sessions[Doing(r).token] > now =>
              \A i \in 1 .. Len(queues[r]) : Doing(r).token \in queues[r][i]
        /\ Doing(r).at = "event" /\ sessions[Doing(r).token] > now =>
              Doing(r).token \in Doing(r).event
        /\ Doing(r).at = "deliver" => Doing(r).token \in Doing(r).event

\* The inductive invariant of the streams.
HInv == HubTyped /\ QueuesFollow /\ EventsEntitle

\* The inductive invariant.
EInv == SInv /\ HInv

----------------------------------------------------------------------------
(* Helpers.                                                                 *)

Attempts == [failures : 0 .. LoginLimit, windowEnd : 0 .. MaxTime + LoginWindow,
             inFlight : BOOLEAN]

\* A request that deletes no rows does its work at once.
LEMMA WorkIsNow == \A x \in Works : Work(x) = x /\ Doomed(x) = {}
<1> SUFFICES ASSUME NEW x \in Works PROVE x.at # "purge"
  BY DEF Work, Doomed
<1> QED
  BY DEF Works, Idle, Saves, Admits, Holders, Events, HolderPlaces, EventPlaces, StreamPlaces

\* Deleting rows comes before the work and does not change it.
LEMMA PurgingThen ==
    ASSUME NEW doomed \in SUBSET Tokens, NEW then \in Deferred
    PROVE  /\ Purging(doomed, then) \in Works \cup Purges
           /\ Work(Purging(doomed, then)) = then
           /\ Doomed(Purging(doomed, then)) = doomed
<1>1. CASE doomed = {}
  BY <1>1, WorkIsNow DEF Purging, Deferred
<1>2. CASE doomed # {}
  <2>1. Purging(doomed, then) = [at |-> "purge", doomed |-> doomed, then |-> then]
    BY <1>2 DEF Purging
  <2> QED
    BY <2>1 DEF Purges, Work, Doomed
<1> QED
  BY <1>1, <1>2

\* A step of one request leaves the others where they are.
LEMMA GotoMoves ==
    ASSUME RequestsTyped, NEW r \in Requests, NEW x \in Works \cup Purges, Goto(r, x)
    PROVE  /\ RequestsTyped'
           /\ requests'[r] = x
           /\ \A q \in Requests : q # r => requests'[q] = requests[q]
BY DEF RequestsTyped, Goto

\* The kinds of work.
LEMMA WorkKinds ==
    /\ Idle \in Works /\ Idle \in Deferred /\ Idle.at = "idle"
    /\ \A t \in Tokens, place \in HolderPlaces \ EventPlaces :
          /\ [at |-> place, token |-> t] \in Works
          /\ [at |-> place, token |-> t].at = place /\ [at |-> place, token |-> t].token = t
    /\ \A t \in Tokens, place \in EventPlaces, e \in SUBSET Tokens :
          /\ [at |-> place, token |-> t, event |-> e] \in Works
          /\ [at |-> place, token |-> t, event |-> e].at = place
          /\ [at |-> place, token |-> t, event |-> e].token = t
          /\ [at |-> place, token |-> t, event |-> e].event = e
<1>1. Idle \in Works /\ Idle \in Deferred /\ Idle.at = "idle"
  BY DEF Works, Deferred, Idle
<1>2. ASSUME NEW t \in Tokens, NEW place \in HolderPlaces \ EventPlaces
      PROVE  [at |-> place, token |-> t] \in Works
  BY DEF Works, Holders
<1>3. ASSUME NEW t \in Tokens, NEW place \in EventPlaces, NEW e \in SUBSET Tokens
      PROVE  [at |-> place, token |-> t, event |-> e] \in Works
  BY DEF Works, Events
<1> QED
  BY <1>1, <1>2, <1>3

\* A request with a cookie has a token; one that stores has an expiry too.
LEMMA WorkFields ==
    ASSUME NEW x \in Works
    PROVE  /\ x.at \in HolderPlaces => x.token \in Tokens
           /\ x.at \in EventPlaces => x.event \in SUBSET Tokens
           /\ x.at = "save" => x \in Saves
           /\ x.at = "admit" => x \in Admits
           /\ x.at \in {"idle", "save", "admit"} \cup HolderPlaces
           /\ x.at = "idle" => x = Idle
<1>1. CASE x = Idle
  BY <1>1 DEF Idle, HolderPlaces, EventPlaces, StreamPlaces
<1>2. CASE x \in Saves
  BY <1>2 DEF Saves, HolderPlaces, EventPlaces, StreamPlaces
<1>3. CASE x \in Admits
  BY <1>3 DEF Admits, HolderPlaces, EventPlaces, StreamPlaces
<1>4. CASE x \in Holders
  BY <1>4 DEF Holders, HolderPlaces, EventPlaces, StreamPlaces
<1>5. CASE x \in Events
  BY <1>5 DEF Events, HolderPlaces, EventPlaces, StreamPlaces
<1> QED
  BY <1>1, <1>2, <1>3, <1>4, <1>5 DEF Works

\* Sets of tokens are finite.
LEMMA TokensFinite ==
    /\ IsFiniteSet(Tokens)
    /\ \A S \in SUBSET Tokens : IsFiniteSet(S) /\ Cardinality(S) \in Nat
    /\ \A S, T \in SUBSET Tokens : S \subseteq T => Cardinality(S) <= Cardinality(T)
<1>1. IsFiniteSet(Tokens)
  BY FS_Interval, BrowserConstants DEF Tokens
<1>2. \A S \in SUBSET Tokens : IsFiniteSet(S) /\ Cardinality(S) \in Nat
  BY <1>1, FS_Subset, FS_CardinalityType
<1>3. \A S, T \in SUBSET Tokens : S \subseteq T => Cardinality(S) <= Cardinality(T)
  BY <1>2, FS_Subset
<1> QED
  BY <1>1, <1>2, <1>3

\* Where everybody is after a step of one request.
LEMMA Moved ==
    ASSUME SInv, NEW r \in Requests, NEW x \in Works \cup Purges, Goto(r, x)
    PROVE  /\ RequestsTyped'
           /\ requests'[r] = x
           /\ Doing(r)' = Work(x)
           /\ \A q \in Requests : q # r => requests'[q] = requests[q] /\ Doing(q)' = Doing(q)
BY GotoMoves DEF SInv, Doing

\* What a request does is work of its kinds.
LEMMA DoingWorks ==
    ASSUME RequestsTyped
    PROVE  \A r \in Requests : Doing(r) \in Works /\ Doomed(requests[r]) \in SUBSET Tokens
<1> SUFFICES ASSUME NEW r \in Requests
             PROVE  Doing(r) \in Works /\ Doomed(requests[r]) \in SUBSET Tokens
  OBVIOUS
<1>1. CASE requests[r] \in Works
  BY <1>1, WorkIsNow DEF Doing
<1>2. CASE requests[r] \in Purges
  BY <1>2 DEF Doing, Purges, Deferred, Work, Doomed
<1> QED
  BY <1>1, <1>2 DEF RequestsTyped

\* Sessions that leave memory leave fewer in it.
LEMMA WithoutSome ==
    ASSUME NEW expiry \in [Tokens -> Expiries], NEW gone \in SUBSET Tokens
    PROVE  /\ Without(expiry, gone) \in [Tokens -> Expiries]
           /\ Cardinality(Present(Without(expiry, gone))) <= Cardinality(Present(expiry))
<1>1. Without(expiry, gone) \in [Tokens -> Expiries]
  BY BrowserConstants DEF Without, Expiries
<1>2. Present(Without(expiry, gone)) \subseteq Present(expiry)
  BY DEF Without, Present
<1> QED
  BY <1>1, <1>2, TokensFinite DEF Present

\* Login state after sessions left memory, for a request that does not go to
\* the provider's login.
LEMMA LoginsKeep ==
    ASSUME SInv, NEW r \in Requests, NEW x \in Works \cup Purges, Goto(r, x),
           NEW gone \in SUBSET Tokens,
           sessions' = Without(sessions, gone),
           attempts' \in [Tokens -> Attempts],
           \A t \in Tokens :
              \/ attempts'[t] = NoAttempt /\ (t \in gone \/ ~attempts[t].inFlight)
              \/ attempts'[t] = attempts[t] /\ t \notin gone,
           Work(x).at # "backend"
    PROVE  LoginsMarked' /\ LoginStateFollowsSession'
<1>1. /\ \A t \in gone : sessions'[t] = 0
      /\ \A t \in Tokens \ gone : sessions'[t] = sessions[t]
  BY DEF SInv, StateTyped, Without
<1>2. LoginStateFollowsSession'
  BY <1>1 DEF SInv, LoginStateFollowsSession
<1>3. \A q \in Requests : Doing(q)'.at = "backend" =>
          q # r /\ Doing(q)' = Doing(q) /\ Doing(q).at = "backend" /\ Doing(q).token \in Tokens
  BY Moved, DoingWorks, WorkFields DEF SInv, HolderPlaces
<1>4. LoginsMarked'
  <2> SUFFICES ASSUME NEW q \in Requests, Doing(q)'.at = "backend"
               PROVE  /\ sessions'[Doing(q)'.token] # 0 => attempts'[Doing(q)'.token].inFlight
                      /\ \A p \in Requests :
                            Doing(p)'.at = "backend" /\ Doing(p)'.token = Doing(q)'.token => p = q
    BY DEF LoginsMarked
  <2>1. /\ sessions[Doing(q).token] # 0 => attempts[Doing(q).token].inFlight
        /\ \A p \in Requests :
              Doing(p).at = "backend" /\ Doing(p).token = Doing(q).token => p = q
    BY <1>3 DEF SInv, LoginsMarked
  <2> QED
    BY <2>1, <1>1, <1>3
<1> QED
  BY <1>2, <1>4

\* A request moves on while sessions leave memory: they had expired, or their
\* row was deleted before.  No row, reservation or token changes.
LEMMA MoveKeeps ==
    ASSUME SInv, NEW r \in Requests, NEW x \in Works \cup Purges, Goto(r, x),
           NEW gone \in SUBSET Tokens,
           sessions' = Without(sessions, gone),
           attempts' \in [Tokens -> Attempts],
           LoginsMarked', LoginStateFollowsSession',
           \A t \in gone : sessions[t] <= now \/ rows[t] = 0,
           \A t \in Doomed(x) : t \in gone /\ sessions[t] # 0,
           ~Storing(r),
           Doing(r).at = "revoke" => Doing(r).token \in gone,
           Work(x).at = "idle"
              \/ (Work(x).at \in HolderPlaces \ {"revoke"} /\ Work(x).token \in cookies),
           revoked' \subseteq cookies,
           \A t \in revoked' : t \in revoked \/ (t \in gone /\ rows[t] = 0),
           UNCHANGED <<now, pending, rows, lastToken, cookies>>
    PROVE  SInv'
<1> USE BrowserConstants
<1>1. /\ \A t \in gone : sessions'[t] = 0
      /\ \A t \in Tokens \ gone : sessions'[t] = sessions[t]
      /\ sessions' \in [Tokens -> Expiries]
  BY WithoutSome DEF SInv, StateTyped, Without
<1>2. /\ RequestsTyped' /\ requests'[r] = x /\ Doing(r)' = Work(x)
      /\ \A q \in Requests : q # r => requests'[q] = requests[q] /\ Doing(q)' = Doing(q)
  BY Moved
<1>3. StateTyped'
  <2>1. \A t \in Tokens : sessions'[t] # 0 \/ rows'[t] # 0 => t <= lastToken'
    BY <1>1 DEF SInv, StateTyped
  <2>2. revoked' \subseteq cookies'
    OBVIOUS
  <2>3. rows' \in [Tokens -> 0 .. now' + TTL]
    BY DEF SInv, StateTyped
  <2> QED
    BY <1>1, <2>1, <2>2, <2>3 DEF SInv, StateTyped, Attempts
<1>4. \A q \in Requests : Storing(q)' => q # r /\ Storing(q) /\ Doing(q)' = Doing(q)
                                          /\ Doing(q).token \in Tokens
  <2>1. ~Storing(r)'
    BY <1>2 DEF Storing, HolderPlaces, StreamPlaces
  <2>2. \A q \in Requests : Storing(q) => Doing(q).token \in Tokens
    BY DoingWorks, WorkFields DEF SInv, Storing, Saves, Admits
  <2> QED
    BY <1>2, <2>1, <2>2 DEF Storing
<1>5. StoringFresh'
  <2> SUFFICES ASSUME NEW q \in Requests, Storing(q)'
               PROVE  /\ Doing(q)'.token \in pending' \ cookies'
                      /\ sessions'[Doing(q)'.token] = 0
                      /\ Doing(q)'.expiry <= now' + TTL
                      /\ Doing(q)'.at = "save" => rows'[Doing(q)'.token] = 0
                      /\ Doing(q)'.at = "admit" =>
                            /\ rows'[Doing(q)'.token] \in {0, Doing(q)'.expiry}
                            /\ ~Doing(q)'.saved => rows'[Doing(q)'.token] = 0
                            /\ Doing(q)'.saved /\ now' < Doing(q)'.expiry =>
                                  rows'[Doing(q)'.token] = Doing(q)'.expiry
                      /\ \A p \in Requests :
                            Storing(p)' /\ Doing(p)'.token = Doing(q)'.token => p = q
    BY DEF StoringFresh
  <2> QED
    BY <1>1, <1>4 DEF SInv, StoringFresh
<1>6. PendingOwned'
  <2> SUFFICES ASSUME NEW t \in pending
               PROVE  \E q \in Requests : Storing(q)' /\ Doing(q)'.token = t
    BY DEF PendingOwned
  <2>1. PICK q \in Requests : Storing(q) /\ Doing(q).token = t
    BY DEF SInv, PendingOwned
  <2> QED
    BY <2>1, <1>2 DEF Storing
<1>7. HoldersKnown'
  BY <1>2 DEF SInv, HoldersKnown, Holding, HolderPlaces, StreamPlaces
<1>8. DoomedGone'
  <2> SUFFICES ASSUME NEW q \in Requests, NEW t \in Doomed(requests'[q])
               PROVE  sessions'[t] = 0 /\ t \notin pending /\ t <= lastToken
    BY DEF DoomedGone
  <2>1. CASE q = r
    BY <2>1, <1>1, <1>2 DEF SInv, RowsFollow, StateTyped
  <2>2. CASE q # r
    BY <2>2, <1>1, <1>2, DoingWorks DEF SInv, DoomedGone
  <2> QED
    BY <2>1, <2>2
<1>9. RowsFollow'
  <2> SUFFICES ASSUME NEW t \in Tokens
               PROVE  /\ sessions'[t] # 0 => t \notin pending /\ rows[t] \in {0, sessions'[t]}
                      /\ rows[t] > now => t \in pending \/ sessions'[t] = rows[t]
    BY DEF RowsFollow
  <2> QED
    BY <1>1 DEF SInv, RowsFollow, StateTyped, Expiries
<1>10. LiveSessionIsDurable'
  <2> SUFFICES ASSUME NEW t \in Tokens, sessions'[t] > now, rows[t] # sessions'[t]
               PROVE  \E q \in Requests : requests'[q].at = "revoke" /\ requests'[q].token = t
    BY DEF LiveSessionIsDurable, At
  <2>1. t \notin gone /\ sessions[t] > now /\ rows[t] # sessions[t]
    BY <1>1 DEF SInv, StateTyped
  <2>2. PICK q \in Requests : requests[q].at = "revoke" /\ requests[q].token = t
    BY <2>1 DEF SInv, LiveSessionIsDurable, At
  <2>3. q # r
    BY <2>1, <2>2 DEF Doing, Work
  <2> QED
    BY <2>2, <2>3, <1>2
<1>11. WithinLimit'
  <2>1. Cardinality(Present(sessions')) <= Cardinality(Present(sessions))
    BY WithoutSome DEF SInv, StateTyped
  <2>2. /\ Cardinality(Present(sessions)) \in Nat /\ Cardinality(Present(sessions')) \in Nat
        /\ Cardinality(pending) \in Nat
    BY TokensFinite DEF SInv, StateTyped, Present, Tokens
  <2> QED
    BY <2>1, <2>2 DEF SInv, WithinLimit
<1>12. RevokedStaysRevoked'
  BY <1>1 DEF SInv, RevokedStaysRevoked, StateTyped, Tokens
<1> QED
  BY <1>2, <1>3, <1>5, <1>6, <1>7, <1>8, <1>9, <1>10, <1>11, <1>12 DEF SInv

\* Login state is dropped with its session or when its window is over, never
\* while a login is in flight.
LEMMA AttemptsKept ==
    ASSUME SInv, NEW gone \in SUBSET Tokens,
           \/ attempts' = AttemptsWithout(gone)
           \/ attempts' = [t \in Tokens |-> IF t \in gone THEN NoAttempt ELSE attempts[t]]
    PROVE  /\ attempts' \in [Tokens -> Attempts]
           /\ \A t \in Tokens :
                 \/ attempts'[t] = NoAttempt /\ (t \in gone \/ ~attempts[t].inFlight)
                 \/ attempts'[t] = attempts[t] /\ t \notin gone
<1>1. NoAttempt \in Attempts
  BY BrowserConstants DEF NoAttempt, Attempts
<1>2. attempts \in [Tokens -> Attempts]
  BY DEF SInv, StateTyped, Attempts
<1>3. CASE attempts' = AttemptsWithout(gone)
  BY <1>1, <1>2, <1>3 DEF AttemptsWithout, Stale
<1>4. CASE attempts' = [t \in Tokens |-> IF t \in gone THEN NoAttempt ELSE attempts[t]]
  BY <1>1, <1>2, <1>4
<1> QED
  BY <1>3, <1>4

\* Where a request with a cookie may be that is neither locking nor logging in.
Plain(x) == x.at = "idle" \/ (x.at \in HolderPlaces \ {"revoke", "backend"} /\ x.token \in cookies)

\* A request drops expired sessions from memory and moves on.
LEMMA DropKeeps ==
    ASSUME SInv, NEW r \in Requests, NEW x \in Works \cup Purges, Goto(r, x),
           NEW gone \in SUBSET Expired(sessions),
           sessions' = Without(sessions, gone),
           \/ attempts' = AttemptsWithout(gone)
           \/ attempts' = [t \in Tokens |-> IF t \in gone THEN NoAttempt ELSE attempts[t]],
           Doomed(x) \subseteq gone, Plain(Work(x)),
           ~Storing(r), Doing(r).at # "revoke",
           UNCHANGED <<now, pending, rows, lastToken, cookies, revoked>>
    PROVE  SInv'
<1>1. gone \in SUBSET Tokens /\ \A t \in gone : sessions[t] # 0 /\ sessions[t] <= now
  BY DEF Expired, Present
<1>2. /\ attempts' \in [Tokens -> Attempts]
      /\ \A t \in Tokens :
            \/ attempts'[t] = NoAttempt /\ (t \in gone \/ ~attempts[t].inFlight)
            \/ attempts'[t] = attempts[t] /\ t \notin gone
  BY <1>1, AttemptsKept
<1>3. Work(x).at # "backend"
  BY DEF Plain
<1>4. LoginsMarked' /\ LoginStateFollowsSession'
  BY <1>1, <1>2, <1>3, LoginsKeep
<1>5. revoked' \subseteq cookies /\ \A t \in revoked' : t \in revoked
  BY DEF SInv, StateTyped
<1>6. Work(x).at = "idle"
         \/ (Work(x).at \in HolderPlaces \ {"revoke"} /\ Work(x).token \in cookies)
  BY DEF Plain
<1> QED
  BY <1>1, <1>2, <1>4, <1>5, <1>6, MoveKeeps

\* A request moves on and nothing else of the sessions changes.
LEMMA StayKeeps ==
    ASSUME SInv, NEW r \in Requests, NEW x \in Works, Goto(r, x), Plain(x),
           ~Storing(r), Doing(r).at # "revoke",
           UNCHANGED <<now, sessions, pending, attempts, rows, lastToken, cookies, revoked>>
    PROVE  SInv'
<1>1. /\ sessions' = Without(sessions, {})
      /\ attempts' = [t \in Tokens |-> IF t \in {} THEN NoAttempt ELSE attempts[t]]
  BY DEF SInv, StateTyped, Without
<1>2. Work(x) = x /\ Doomed(x) = {}
  BY WorkIsNow
<1>3. {} \in SUBSET Expired(sessions) /\ Doomed(x) \subseteq {} /\ x \in Works \cup Purges
  BY <1>2
<1>4. Plain(Work(x))
  BY <1>2
<1> QED
  BY <1>1, <1>3, <1>4, DropKeeps

\* A request that is not deleting rows.
LEMMA AtPlace ==
    ASSUME SInv, NEW r \in Requests, requests[r].at # "purge"
    PROVE  /\ requests[r] \in Works /\ Doing(r) = requests[r]
           /\ requests[r].at \in HolderPlaces =>
                 /\ requests[r].token \in Tokens /\ requests[r].token \in cookies
                 /\ ~Storing(r)
           /\ At(r, "idle") => ~Storing(r)
<1>1. requests[r] \in Works /\ Doing(r) = requests[r]
  BY DEF SInv, RequestsTyped, Purges, Doing, Work
<1> QED
  BY <1>1, WorkFields
     DEF SInv, HoldersKnown, Holding, Storing, At, HolderPlaces, StreamPlaces

\* A stream asks for its session again.
LEMMA MatchKeeps ==
    ASSUME SInv, NEW r \in Requests, NEW then \in Works, NEW otherwise \in Deferred,
           requests[r].at \in HolderPlaces \ {"revoke"},
           Plain(then), Plain(otherwise), IfMatches(r, then, otherwise),
           UNCHANGED <<now, pending, rows, lastToken, cookies, revoked>>
    PROVE  SInv'
<1> DEFINE expired == {requests[r].token} \cap Expired(sessions)
           x == IF Matches(r) THEN then ELSE Purging(expired, otherwise)
<1>1. requests[r].at # "purge"
  BY DEF HolderPlaces, StreamPlaces
<1>2. /\ Doing(r) = requests[r] /\ ~Storing(r) /\ Doing(r).at # "revoke"
      /\ requests[r].token \in Tokens
  BY <1>1, AtPlace
<1>3. expired \in SUBSET Expired(sessions) /\ expired \in SUBSET Tokens
  BY DEF Expired, Present
<1>4. /\ x \in Works \cup Purges /\ (Work(x) = then \/ Work(x) = otherwise)
      /\ Doomed(x) \subseteq expired
  BY <1>3, PurgingThen, WorkIsNow
<1>5. Goto(r, x) /\ sessions' = Without(sessions, expired)
      /\ attempts' = [t \in Tokens |-> IF t \in expired THEN NoAttempt ELSE attempts[t]]
  BY DEF IfMatches, Remove
<1>6. Plain(Work(x))
  BY <1>4
<1> HIDE DEF x, expired
<1> QED
  BY <1>2, <1>3, <1>4, <1>5, <1>6, DropKeeps

----------------------------------------------------------------------------
(* The steps of a stream keep the sessions' invariant.                      *)

\* A place of a stream.
LEMMA StreamPlain ==
    ASSUME SInv, NEW r \in Requests, requests[r].at \in HolderPlaces \ {"revoke"}
    PROVE  /\ Idle \in Works /\ Idle \in Deferred /\ Plain(Idle)
           /\ AtStream(r, "closing") \in Deferred
           /\ \A place \in StreamPlaces \ EventPlaces :
                 AtStream(r, place) \in Works /\ Plain(AtStream(r, place))
           /\ \A place \in EventPlaces, e \in SUBSET Tokens :
                 LET y == [at |-> place, token |-> requests[r].token, event |-> e]
                 IN  y \in Works /\ Plain(y)
           /\ ~Storing(r) /\ Doing(r).at # "revoke"
           /\ requests[r].at \in EventPlaces => requests[r].event \in SUBSET Tokens
<1>1. requests[r].at # "purge"
  BY DEF HolderPlaces, StreamPlaces
<1>2. /\ requests[r] \in Works /\ Doing(r) = requests[r]
      /\ requests[r].token \in Tokens /\ requests[r].token \in cookies /\ ~Storing(r)
  BY <1>1, AtPlace
<1>3. Idle \in Works /\ Idle \in Deferred /\ Plain(Idle)
  BY WorkKinds DEF Plain
<1>4. ASSUME NEW place \in StreamPlaces \ EventPlaces
      PROVE  /\ AtStream(r, place) \in Works /\ Plain(AtStream(r, place))
             /\ place = "closing" => AtStream(r, place) \in Deferred
  <2>1. place \in HolderPlaces \ EventPlaces /\ place \in HolderPlaces \ {"revoke", "backend"}
    BY DEF HolderPlaces, StreamPlaces
  <2> QED
    BY <1>2, <2>1, WorkKinds DEF Plain, AtStream, Deferred
<1>5. ASSUME NEW place \in EventPlaces, NEW e \in SUBSET Tokens
      PROVE  LET y == [at |-> place, token |-> requests[r].token, event |-> e]
             IN  y \in Works /\ Plain(y)
  <2>1. place \in HolderPlaces \ {"revoke", "backend"}
    BY DEF HolderPlaces, StreamPlaces, EventPlaces
  <2> QED
    BY <1>2, <2>1, WorkKinds DEF Plain
<1>6. requests[r].at \in EventPlaces => requests[r].event \in SUBSET Tokens
  BY <1>2, WorkFields
<1>7. "closing" \in StreamPlaces \ EventPlaces
  BY DEF StreamPlaces, EventPlaces
<1> QED
  BY <1>2, <1>3, <1>4, <1>5, <1>6, <1>7

\* No step of a stream disturbs the sessions.
LEMMA StreamKeepsSessions ==
    ASSUME SInv, NEW r \in Requests, HubTyped,
           OpenStream(r) \/ StreamStep(r) \/ HeartbeatFails(r)
    PROVE  SInv'
<1> DEFINE Kept == UNCHANGED <<now, sessions, pending, attempts, rows, lastToken, cookies, revoked>>
<1>0. requests[r].at \in HolderPlaces \ {"revoke"}
  BY DEF OpenStream, StreamStep, HeartbeatFails, TakeSlot, Subscribe, Write, ReceiveEvent, Check,
         StreamEnds, SessionCheck, CloseStream, ReleaseSlot, At, HolderPlaces, StreamPlaces
<1>1. /\ Idle \in Works /\ Idle \in Deferred /\ Plain(Idle)
      /\ AtStream(r, "closing") \in Deferred
      /\ \A place \in StreamPlaces \ EventPlaces :
            AtStream(r, place) \in Works /\ Plain(AtStream(r, place))
      /\ \A place \in EventPlaces, e \in SUBSET Tokens :
            LET y == [at |-> place, token |-> requests[r].token, event |-> e]
            IN  y \in Works /\ Plain(y)
      /\ ~Storing(r) /\ Doing(r).at # "revoke"
      /\ requests[r].at \in EventPlaces => requests[r].event \in SUBSET Tokens
  BY <1>0, StreamPlain
<1>2. {"slot", "subscribe", "hello", "streaming", "closing", "releasing"}
         \subseteq StreamPlaces \ EventPlaces
  BY DEF StreamPlaces, EventPlaces
<1>3. "event" \in EventPlaces /\ "deliver" \in EventPlaces
  BY DEF EventPlaces
<1>4. ASSUME NEW x \in Works, Plain(x), Goto(r, x), Kept
      PROVE  SInv'
  BY <1>1, <1>4, StayKeeps
<1>5. CASE OpenStream(r)
  BY <1>0, <1>1, <1>2, <1>5, MatchKeeps DEF OpenStream
<1>6. CASE TakeSlot(r)
  BY <1>1, <1>2, <1>4, <1>6 DEF TakeSlot
<1>7. CASE Subscribe(r)
  BY <1>1, <1>2, <1>4, <1>7 DEF Subscribe
<1>8. CASE Write(r)
  <2>1. PICK ok \in {r \notin left, FALSE} :
            Goto(r, AtStream(r, IF ok THEN "streaming" ELSE "closing"))
    BY <1>8 DEF Write, WriteSSE
  <2> QED
    BY <1>1, <1>2, <1>4, <1>8, <2>1 DEF Write
<1>9. CASE ReceiveEvent(r)
  <2>1. Head(queues[r]) \in SUBSET Tokens
    BY <1>9 DEF ReceiveEvent, HubTyped
  <2>2. Goto(r, [at |-> "event", token |-> requests[r].token, event |-> Head(queues[r])]) /\ Kept
    BY <1>9 DEF ReceiveEvent
  <2> QED
    BY <1>1, <1>3, <1>4, <2>1, <2>2
<1>10. CASE Check(r)
  <2>1. requests[r].event \in SUBSET Tokens
    BY <1>1, <1>3, <1>10 DEF Check, At
  <2>2. IfMatches(r, [at |-> "deliver", token |-> requests[r].token, event |-> requests[r].event],
                  AtStream(r, "closing"))
    BY <1>10 DEF Check, CheckedEvent
  <2>3. UNCHANGED <<now, pending, rows, lastToken, cookies, revoked>>
    BY <1>10 DEF Check
  <2> QED
    BY <1>0, <1>1, <1>2, <1>3, <2>1, <2>2, <2>3, MatchKeeps
<1>11. CASE StreamEnds(r)
  BY <1>1, <1>2, <1>4, <1>11 DEF StreamEnds
<1>12. CASE SessionCheck(r)
  BY <1>0, <1>1, <1>2, <1>12, MatchKeeps DEF SessionCheck
<1>13. CASE CloseStream(r)
  BY <1>1, <1>2, <1>4, <1>13 DEF CloseStream
<1>14. CASE ReleaseSlot(r)
  BY <1>1, <1>2, <1>4, <1>14 DEF ReleaseSlot
<1>15. CASE HeartbeatFails(r)
  BY <1>1, <1>2, <1>4, <1>15 DEF HeartbeatFails
<1> QED
  BY <1>5, <1>6, <1>7, <1>8, <1>9, <1>10, <1>11, <1>12, <1>13, <1>14, <1>15 DEF StreamStep

----------------------------------------------------------------------------
(* The table.                                                               *)

LiveRows == {t \in Tokens : rows[t] > now}

\* The live rows belong to sessions in memory and to reservations, so there are
\* never more of them than the limit.
LEMMA RowsFit ==
    ASSUME SInv
    PROVE  Cardinality(LiveRows) <= MaxSessions
<1>1. /\ LiveRows \in SUBSET Tokens /\ Present(sessions) \in SUBSET Tokens
      /\ pending \in SUBSET Tokens
  BY BrowserConstants DEF SInv, StateTyped, LiveRows, Present, Tokens
<1>2. LiveRows \subseteq Present(sessions) \cup pending
  BY BrowserConstants DEF SInv, RowsFollow, StateTyped, LiveRows, Present
<1>3. Cardinality(LiveRows) <= Cardinality(Present(sessions) \cup pending)
  BY <1>1, <1>2, TokensFinite
<1>4. /\ Cardinality(Present(sessions) \cup pending) =
            Cardinality(Present(sessions)) + Cardinality(pending)
               - Cardinality(Present(sessions) \cap pending)
  BY <1>1, TokensFinite, FS_Union
<1>5. /\ Cardinality(LiveRows) \in Nat /\ Cardinality(Present(sessions)) \in Nat
      /\ Cardinality(pending) \in Nat /\ Cardinality(Present(sessions) \cap pending) \in Nat
  BY <1>1, TokensFinite
<1> QED
  BY <1>3, <1>4, <1>5, BrowserConstants DEF SInv, WithinLimit

\* So pruning the table drops the expired rows and no others.
LEMMA PruneExact ==
    ASSUME SInv
    PROVE  /\ Pruned(rows) \in [Tokens -> 0 .. now + TTL]
           /\ \A t \in Tokens : Pruned(rows)[t] = IF rows[t] > now THEN rows[t] ELSE 0
           /\ Present(Pruned(rows)) = LiveRows
<1> DEFINE live == Present(rows) \ Expired(rows)
           before(t) == {u \in live : \/ rows[u] < rows[t]
                                      \/ rows[u] = rows[t] /\ u < t}
           cut == {t \in Tokens : \/ t \notin live
                                  \/ Cardinality(before(t)) >= MaxSessions}
<1>1. now \in Nat /\ rows \in [Tokens -> 0 .. now + TTL] /\ now + TTL \in Nat
  BY BrowserConstants DEF SInv, StateTyped
<1>2. live = LiveRows
  BY <1>1 DEF Present, Expired, LiveRows
<1>3. Pruned(rows) = Without(rows, cut)
  BY DEF Pruned
<1>4. ASSUME NEW t \in live
      PROVE  ~(Cardinality(before(t)) >= MaxSessions)
  <2>1. before(t) \subseteq live /\ t \in live /\ t \notin before(t)
    BY <1>1, <1>4 DEF Present, Tokens
  <2>2. IsFiniteSet(live) /\ Cardinality(live) \in Nat /\ Cardinality(live) <= MaxSessions
    BY <1>2, RowsFit, TokensFinite DEF LiveRows
  <2>3. Cardinality(before(t)) \in Nat /\ Cardinality(before(t)) < Cardinality(live)
    <3> HIDE DEF before, live
    <3>1. IsFiniteSet(before(t)) /\ Cardinality(before(t)) <= Cardinality(live)
      BY <2>1, <2>2, FS_Subset
    <3>2. Cardinality(before(t)) = Cardinality(live) => before(t) = live
      BY <2>1, <2>2, FS_Subset
    <3>3. Cardinality(before(t)) \in Nat
      BY <3>1, FS_CardinalityType
    <3> QED
      BY <2>1, <2>2, <3>1, <3>2, <3>3
  <2> QED
    BY <2>2, <2>3, BrowserConstants
<1>5. \A t \in Tokens : t \in cut <=> ~(rows[t] > now)
  BY <1>2, <1>4 DEF LiveRows
<1>6. \A t \in Tokens : Pruned(rows)[t] = IF rows[t] > now THEN rows[t] ELSE 0
  BY <1>3, <1>5 DEF Without
<1>7. Pruned(rows) \in [Tokens -> 0 .. now + TTL]
  <2>1. Pruned(rows) = [t \in Tokens |-> IF t \in cut THEN 0 ELSE rows[t]]
    BY <1>3 DEF Without
  <2> HIDE DEF cut
  <2> QED
    BY <1>1, <2>1
<1>8. Present(Pruned(rows)) = LiveRows
  BY <1>1, <1>6 DEF Present, LiveRows
<1> QED
  BY <1>6, <1>7, <1>8

----------------------------------------------------------------------------
(* The steps of the session store keep its invariant.                       *)

\* A request that stores has a token and an expiry.
LEMMA StoringFields ==
    ASSUME SInv
    PROVE  \A r \in Requests : Storing(r) => Doing(r).token \in Tokens /\ Doing(r).expiry \in Expiries
BY DoingWorks, WorkFields DEF SInv, Storing, Saves, Admits

\* Rows are deleted: of sessions that cannot come back, or of the one that is
\* being locked.
LEMMA RowsDropKeeps ==
    ASSUME SInv, NEW r \in Requests, NEW x \in Works, Goto(r, x),
           requests[r].at # "revoke",
           NEW gone \in SUBSET Tokens, rows' = Without(rows, gone),
           \A t \in gone : /\ t \notin pending
                           /\ sessions[t] = 0 \/ (x.at = "revoke" /\ x.token = t),
           \/ x = Doing(r)
           \/ ~Storing(r) /\ x.at = "revoke" /\ x.token \in cookies /\ x.token \in gone,
           UNCHANGED <<now, sessions, pending, attempts, lastToken, cookies, revoked>>
    PROVE  SInv'
<1> USE BrowserConstants
<1>1. /\ \A t \in gone : rows'[t] = 0
      /\ \A t \in Tokens \ gone : rows'[t] = rows[t]
      /\ rows' \in [Tokens -> 0 .. now' + TTL]
  BY DEF SInv, StateTyped, Without
<1>2. /\ RequestsTyped' /\ requests'[r] = x /\ Doing(r)' = x /\ Doomed(x) = {}
      /\ \A q \in Requests : q # r => requests'[q] = requests[q] /\ Doing(q)' = Doing(q)
  BY Moved, WorkIsNow
<1>3. StateTyped'
  <2>1. \A t \in Tokens : sessions'[t] # 0 \/ rows'[t] # 0 => t <= lastToken'
    BY <1>1 DEF SInv, StateTyped
  <2> QED
    BY <1>1, <2>1 DEF SInv, StateTyped
<1>4. \A q \in Requests : Storing(q)' <=> Storing(q)
  BY <1>2 DEF Storing
<1>5. \A q \in Requests : Storing(q) => Doing(q)' = Doing(q) /\ Doing(q).token \in Tokens
  BY <1>2, StoringFields DEF Storing
<1>6. StoringFresh'
  <2> SUFFICES ASSUME NEW q \in Requests, Storing(q)'
               PROVE  /\ Doing(q)'.token \in pending' \ cookies'
                      /\ sessions'[Doing(q)'.token] = 0
                      /\ Doing(q)'.expiry <= now' + TTL
                      /\ Doing(q)'.at = "save" => rows'[Doing(q)'.token] = 0
                      /\ Doing(q)'.at = "admit" =>
                            /\ rows'[Doing(q)'.token] \in {0, Doing(q)'.expiry}
                            /\ ~Doing(q)'.saved => rows'[Doing(q)'.token] = 0
                            /\ Doing(q)'.saved /\ now' < Doing(q)'.expiry =>
                                  rows'[Doing(q)'.token] = Doing(q)'.expiry
                      /\ \A p \in Requests :
                            Storing(p)' /\ Doing(p)'.token = Doing(q)'.token => p = q
    BY DEF StoringFresh
  <2> QED
    BY <1>1, <1>4, <1>5 DEF SInv, StoringFresh
<1>7. PendingOwned'
  <2> SUFFICES ASSUME NEW t \in pending
               PROVE  \E q \in Requests : Storing(q)' /\ Doing(q)'.token = t
    BY DEF PendingOwned
  <2>1. PICK q \in Requests : Storing(q) /\ Doing(q).token = t
    BY DEF SInv, PendingOwned
  <2> QED
    BY <2>1, <1>4, <1>5
<1>8. HoldersKnown'
  <2> SUFFICES ASSUME NEW q \in Requests, Holding(q)'
               PROVE  /\ Doing(q)'.token \in cookies
                      /\ Doing(q)'.at = "revoke" => rows'[Doing(q)'.token] = 0
    BY DEF HoldersKnown
  <2>1. cookies \subseteq Tokens
    BY DEF SInv, StateTyped, Tokens
  <2>2. CASE Doing(q)' = Doing(q)
    BY <2>1, <2>2, <1>1 DEF SInv, HoldersKnown, Holding
  <2>3. CASE q = r /\ x.token \in cookies /\ x.token \in gone
    BY <2>1, <2>3, <1>1, <1>2
  <2> QED
    BY <2>2, <2>3, <1>2
<1>9. DoomedGone'
  <2> SUFFICES ASSUME NEW q \in Requests, NEW t \in Doomed(requests'[q])
               PROVE  sessions[t] = 0 /\ t \notin pending /\ t <= lastToken
    BY DEF DoomedGone
  <2> QED
    BY <1>2 DEF SInv, DoomedGone
<1>10. RowsFollow'
  <2> SUFFICES ASSUME NEW t \in Tokens
               PROVE  /\ sessions[t] # 0 => t \notin pending /\ rows'[t] \in {0, sessions[t]}
                      /\ rows'[t] > now => t \in pending \/ sessions[t] = rows'[t]
    BY DEF RowsFollow
  <2> QED
    BY <1>1 DEF SInv, RowsFollow, StateTyped
<1>11. LiveSessionIsDurable'
  <2> SUFFICES ASSUME NEW t \in Tokens, sessions[t] > now, rows'[t] # sessions[t]
               PROVE  \E q \in Requests : requests'[q].at = "revoke" /\ requests'[q].token = t
    BY DEF LiveSessionIsDurable, At
  <2>1. CASE t \in gone
    <3>1. sessions[t] # 0
      BY DEF SInv, StateTyped
    <3> QED
      BY <2>1, <3>1, <1>2
  <2>2. CASE t \notin gone
    BY <2>2, <1>1, <1>2 DEF SInv, LiveSessionIsDurable, At
  <2> QED
    BY <2>1, <2>2
<1>12. LoginsMarked'
  <2>1. \A q \in Requests : Doing(q)'.at = "backend" => Doing(q)' = Doing(q)
    BY <1>2
  <2> QED
    BY <2>1 DEF SInv, LoginsMarked
<1>13. RevokedStaysRevoked'
  BY <1>1 DEF SInv, RevokedStaysRevoked, StateTyped, Tokens
<1>14. WithinLimit' /\ LoginStateFollowsSession'
  BY DEF SInv, WithinLimit, Present, LoginStateFollowsSession
<1> QED
  BY <1>2, <1>3, <1>6, <1>7, <1>8, <1>9, <1>10, <1>11, <1>12, <1>13, <1>14 DEF SInv

\* SaveBrowserSession stores a row under a reserved token or nothing at all.
LEMMA SaveKeeps ==
    ASSUME SInv, NEW r \in Requests, Save(r)
    PROVE  SInv'
<1> USE BrowserConstants
<1> DEFINE t0 == requests[r].token
           e0 == requests[r].expiry
<1>1. /\ Doing(r) = requests[r] /\ requests[r].at = "save" /\ Storing(r)
      /\ t0 \in Tokens /\ e0 \in Expiries
  BY AtPlace, StoringFields DEF Save, At, Storing
<1>2. /\ t0 \in pending /\ t0 \notin cookies /\ sessions[t0] = 0 /\ rows[t0] = 0
      /\ e0 <= now + TTL
      /\ \A q \in Requests : Storing(q) /\ Doing(q).token = t0 => q = r
  BY <1>1 DEF SInv, StoringFresh
<1>3. PICK saved \in {CanSave(e0), FALSE} :
          /\ rows' = IF saved THEN [Pruned(rows) EXCEPT ![t0] = e0] ELSE rows
          /\ Goto(r, [at |-> "admit", token |-> t0, expiry |-> e0, saved |-> saved])
  BY DEF Save
<1>4. UNCHANGED <<now, sessions, pending, attempts, lastToken, cookies, revoked>>
  BY DEF Save
<1>5. saved \in BOOLEAN /\ (saved => now < e0)
  BY <1>3 DEF CanSave
<1> DEFINE x == [at |-> "admit", token |-> t0, expiry |-> e0, saved |-> saved]
<1>6. x \in Works /\ Work(x) = x /\ Doomed(x) = {} /\ x.at = "admit" /\ x.token = t0
      /\ x.expiry = e0 /\ x.saved = saved
  BY <1>1, <1>5, WorkIsNow DEF Works, Admits
<1>7. /\ RequestsTyped' /\ requests'[r] = x /\ Doing(r)' = x /\ Doomed(x) = {}
      /\ \A q \in Requests : q # r => requests'[q] = requests[q] /\ Doing(q)' = Doing(q)
  BY <1>3, <1>6, Moved
<1> HIDE DEF t0, e0, x
<1>8. /\ rows' \in [Tokens -> 0 .. now' + TTL]
      /\ rows'[t0] = IF saved THEN e0 ELSE 0
      /\ \A t \in Tokens : t # t0 => rows'[t] = rows[t] \/ (rows'[t] = 0 /\ rows[t] <= now)
  <2>1. CASE saved
    <3>1. e0 \in 0 .. now + TTL
      BY <1>1, <1>2 DEF Expiries
    <3>2. Pruned(rows) \in [Tokens -> 0 .. now + TTL]
          /\ \A t \in Tokens : Pruned(rows)[t] = IF rows[t] > now THEN rows[t] ELSE 0
      BY PruneExact
    <3>3. rows' = [Pruned(rows) EXCEPT ![t0] = e0]
      BY <1>3, <2>1
    <3> QED
      BY <3>1, <3>2, <3>3, <1>1, <1>4, <2>1 DEF SInv, StateTyped
  <2>2. CASE ~saved
    BY <2>2, <1>2, <1>3, <1>4 DEF SInv, StateTyped
  <2> QED
    BY <2>1, <2>2
<1>9. StateTyped'
  <2>1. t0 <= lastToken
    BY <1>2 DEF SInv, StateTyped
  <2>2. \A t \in Tokens : sessions'[t] # 0 \/ rows'[t] # 0 => t <= lastToken'
    BY <1>4, <1>8, <2>1 DEF SInv, StateTyped
  <2> QED
    BY <1>4, <1>8, <2>2 DEF SInv, StateTyped
<1>10. \A q \in Requests : Storing(q)' <=> Storing(q)
  BY <1>1, <1>6, <1>7 DEF Storing
<1>11. \A q \in Requests : Storing(q) => Doing(q)'.token = Doing(q).token /\ Doing(q).token \in Tokens
  BY <1>1, <1>6, <1>7, StoringFields DEF t0
<1>12. StoringFresh'
  <2> SUFFICES ASSUME NEW q \in Requests, Storing(q)'
               PROVE  /\ Doing(q)'.token \in pending' \ cookies'
                      /\ sessions'[Doing(q)'.token] = 0
                      /\ Doing(q)'.expiry <= now' + TTL
                      /\ Doing(q)'.at = "save" => rows'[Doing(q)'.token] = 0
                      /\ Doing(q)'.at = "admit" =>
                            /\ rows'[Doing(q)'.token] \in {0, Doing(q)'.expiry}
                            /\ ~Doing(q)'.saved => rows'[Doing(q)'.token] = 0
                            /\ Doing(q)'.saved /\ now' < Doing(q)'.expiry =>
                                  rows'[Doing(q)'.token] = Doing(q)'.expiry
                      /\ \A p \in Requests :
                            Storing(p)' /\ Doing(p)'.token = Doing(q)'.token => p = q
    BY DEF StoringFresh
  <2>1. \A p \in Requests : Storing(p)' /\ Doing(p)'.token = Doing(q)'.token => p = q
    BY <1>10, <1>11 DEF SInv, StoringFresh
  <2>2. CASE q = r
    BY <2>1, <2>2, <1>2, <1>4, <1>6, <1>7, <1>8
  <2>3. CASE q # r
    <3>1. Doing(q)' = Doing(q) /\ Storing(q) /\ Doing(q).token # t0 /\ Doing(q).token \in Tokens
          /\ Doing(q).expiry \in Expiries
      BY <2>3, <1>2, <1>7, <1>10, StoringFields
    <3>2. rows'[Doing(q).token] = rows[Doing(q).token]
          \/ (rows'[Doing(q).token] = 0 /\ rows[Doing(q).token] <= now)
      BY <3>1, <1>8
    <3>3. now \in Nat /\ Doing(q).expiry \in Nat
      BY <3>1 DEF SInv, StateTyped, Expiries
    <3> QED
      BY <2>1, <3>1, <3>2, <3>3, <1>4 DEF SInv, StoringFresh
  <2> QED
    BY <2>2, <2>3
<1>13. PendingOwned'
  <2> SUFFICES ASSUME NEW t \in pending
               PROVE  \E q \in Requests : Storing(q)' /\ Doing(q)'.token = t
    BY <1>4 DEF PendingOwned
  <2>1. PICK q \in Requests : Storing(q) /\ Doing(q).token = t
    BY DEF SInv, PendingOwned
  <2> QED
    BY <2>1, <1>10, <1>11
<1>14. \A q \in Requests : Doing(q)'.at \in HolderPlaces => q # r /\ Doing(q)' = Doing(q)
  BY <1>6, <1>7 DEF HolderPlaces, StreamPlaces
<1>15. HoldersKnown'
  <2> SUFFICES ASSUME NEW q \in Requests, Holding(q)'
               PROVE  /\ Doing(q)'.token \in cookies
                      /\ Doing(q)'.at = "revoke" => rows'[Doing(q)'.token] = 0
    BY <1>4 DEF HoldersKnown
  <2>1. cookies \subseteq Tokens
    BY DEF SInv, StateTyped, Tokens
  <2> QED
    BY <2>1, <1>2, <1>8, <1>14 DEF SInv, HoldersKnown, Holding
<1>16. DoomedGone'
  BY <1>4, <1>7 DEF SInv, DoomedGone
<1>17. RowsFollow'
  <2> SUFFICES ASSUME NEW t \in Tokens
               PROVE  /\ sessions[t] # 0 => t \notin pending /\ rows'[t] \in {0, sessions[t]}
                      /\ rows'[t] > now => t \in pending \/ sessions[t] = rows'[t]
    BY <1>4 DEF RowsFollow
  <2>1. now \in Nat
    BY DEF SInv, StateTyped
  <2> QED
    BY <2>1, <1>2, <1>8 DEF SInv, RowsFollow
<1>18. LiveSessionIsDurable'
  <2> SUFFICES ASSUME NEW t \in Tokens, sessions[t] > now, rows'[t] # sessions[t]
               PROVE  \E q \in Requests : requests'[q].at = "revoke" /\ requests'[q].token = t
    BY <1>4 DEF LiveSessionIsDurable, At
  <2>1. t # t0 /\ now \in Nat /\ sessions[t] \in Nat
    BY <1>2 DEF SInv, StateTyped, Expiries
  <2>2. rows[t] # sessions[t]
    BY <2>1, <1>8
  <2>3. PICK q \in Requests : requests[q].at = "revoke" /\ requests[q].token = t
    BY <2>2 DEF SInv, LiveSessionIsDurable, At
  <2>4. q # r
    BY <2>3, <1>1
  <2> QED
    BY <2>3, <2>4, <1>7
<1>19. LoginsMarked'
  <2>1. \A q \in Requests : Doing(q)'.at = "backend" => Doing(q)' = Doing(q)
    BY <1>14 DEF HolderPlaces
  <2> QED
    BY <2>1, <1>4 DEF SInv, LoginsMarked
<1>20. RevokedStaysRevoked'
  BY <1>2, <1>4, <1>8 DEF SInv, RevokedStaysRevoked, StateTyped, Tokens
<1>21. WithinLimit' /\ LoginStateFollowsSession'
  BY <1>4 DEF SInv, WithinLimit, Present, LoginStateFollowsSession
<1> QED
  BY <1>7, <1>9, <1>12, <1>13, <1>15, <1>16, <1>17, <1>18, <1>19, <1>20, <1>21 DEF SInv

\* The second half of create gives its reservation back, with a session in
\* memory that is also on disk, or without one.
LEMMA AdmitKeeps ==
    ASSUME SInv, NEW r \in Requests, Admit(r)
    PROVE  SInv'
<1> USE BrowserConstants
<1> DEFINE t0 == requests[r].token
           e0 == requests[r].expiry
           doomed == IF requests[r].saved THEN {t0} ELSE {}
           x == IF Usable(r) THEN Idle ELSE Purging(doomed, Idle)
<1>1. /\ Doing(r) = requests[r] /\ requests[r].at = "admit" /\ Storing(r)
      /\ t0 \in Tokens /\ e0 \in Expiries /\ requests[r].saved \in BOOLEAN
  <2>1. Doing(r) = requests[r] /\ requests[r].at = "admit" /\ requests[r] \in Works
    BY AtPlace DEF Admit, At
  <2> QED
    BY <2>1, WorkFields DEF Storing, Admits
<1>2. /\ t0 \in pending /\ t0 \notin cookies /\ sessions[t0] = 0 /\ t0 <= lastToken
      /\ e0 <= now + TTL /\ rows[t0] \in {0, e0}
      /\ ~requests[r].saved => rows[t0] = 0
      /\ requests[r].saved /\ now < e0 => rows[t0] = e0
      /\ \A q \in Requests : Storing(q) /\ Doing(q).token = t0 => q = r
  <2>1. /\ t0 \in pending /\ t0 \notin cookies /\ sessions[t0] = 0
        /\ e0 <= now + TTL /\ rows[t0] \in {0, e0}
    BY <1>1 DEF SInv, StoringFresh
  <2>2. ~requests[r].saved => rows[t0] = 0
    BY <1>1 DEF SInv, StoringFresh
  <2>3. requests[r].saved /\ now < e0 => rows[t0] = e0
    BY <1>1 DEF SInv, StoringFresh
  <2>4. \A q \in Requests : Storing(q) /\ Doing(q).token = t0 => q = r
    BY <1>1 DEF SInv, StoringFresh
  <2>5. t0 <= lastToken
    <3>1. pending \subseteq 1 .. lastToken /\ lastToken \in Nat
      BY DEF SInv, StateTyped
    <3> HIDE DEF t0
    <3> QED
      BY <2>1, <3>1
  <2> QED
    BY <2>1, <2>2, <2>3, <2>4, <2>5
<1>3. /\ pending' = pending \ {t0}
      /\ sessions' = IF Usable(r) THEN [sessions EXCEPT ![t0] = e0] ELSE sessions
      /\ cookies' = IF Usable(r) THEN cookies \cup {t0} ELSE cookies
      /\ UNCHANGED <<now, attempts, rows, lastToken, revoked>>
  BY DEF Admit, Release
<1>4. Goto(r, x)
  BY DEF Admit
<1>5. doomed \subseteq {t0} /\ doomed \in SUBSET Tokens
  BY <1>1
<1>6. x \in Works \cup Purges /\ Work(x) = Idle /\ Doomed(x) \subseteq doomed
      /\ (Usable(r) => Doomed(x) = {})
  BY <1>5, PurgingThen, WorkIsNow, WorkKinds
<1>7. /\ RequestsTyped' /\ requests'[r] = x /\ Doing(r)' = Idle
      /\ \A q \in Requests : q # r => requests'[q] = requests[q] /\ Doing(q)' = Doing(q)
  BY <1>4, <1>6, Moved
<1>8. Usable(r) => rows[t0] = e0 /\ e0 > now /\ e0 \in Expiries
  BY <1>1, <1>2 DEF Usable, SInv, StateTyped, Expiries
<1>9. ~Usable(r) => ~(rows[t0] > now)
  BY <1>1, <1>2 DEF Usable, SInv, StateTyped, Expiries
<1> HIDE DEF t0, e0, doomed, x
<1>10. /\ sessions' \in [Tokens -> Expiries]
       /\ \A t \in Tokens : t # t0 => sessions'[t] = sessions[t]
       /\ sessions'[t0] = IF Usable(r) THEN e0 ELSE 0
  BY <1>1, <1>2, <1>3 DEF SInv, StateTyped
<1>11. StateTyped'
  <2>1. \A t \in Tokens : sessions'[t] # 0 \/ rows'[t] # 0 => t <= lastToken'
    BY <1>2, <1>3, <1>10 DEF SInv, StateTyped
  <2>2. /\ pending' \subseteq 1 .. lastToken' /\ cookies' \subseteq 1 .. lastToken'
        /\ revoked' \subseteq cookies'
    BY <1>2, <1>3 DEF SInv, StateTyped
  <2> QED
    BY <1>3, <1>10, <2>1, <2>2 DEF SInv, StateTyped
<1>12. \A q \in Requests : Storing(q)' <=> Storing(q) /\ q # r
  BY <1>7, WorkKinds DEF Storing
<1>13. \A q \in Requests : Storing(q) /\ q # r =>
           Doing(q)' = Doing(q) /\ Doing(q).token \in Tokens /\ Doing(q).token # t0
  BY <1>2, <1>7, StoringFields
<1>14. StoringFresh'
  <2> SUFFICES ASSUME NEW q \in Requests, Storing(q)'
               PROVE  /\ Doing(q)'.token \in pending' \ cookies'
                      /\ sessions'[Doing(q)'.token] = 0
                      /\ Doing(q)'.expiry <= now' + TTL
                      /\ Doing(q)'.at = "save" => rows'[Doing(q)'.token] = 0
                      /\ Doing(q)'.at = "admit" =>
                            /\ rows'[Doing(q)'.token] \in {0, Doing(q)'.expiry}
                            /\ ~Doing(q)'.saved => rows'[Doing(q)'.token] = 0
                            /\ Doing(q)'.saved /\ now' < Doing(q)'.expiry =>
                                  rows'[Doing(q)'.token] = Doing(q)'.expiry
                      /\ \A p \in Requests :
                            Storing(p)' /\ Doing(p)'.token = Doing(q)'.token => p = q
    BY DEF StoringFresh
  <2> QED
    BY <1>3, <1>10, <1>12, <1>13 DEF SInv, StoringFresh
<1>15. PendingOwned'
  <2> SUFFICES ASSUME NEW t \in pending \ {t0}
               PROVE  \E q \in Requests : Storing(q)' /\ Doing(q)'.token = t
    BY <1>3 DEF PendingOwned
  <2>1. PICK q \in Requests : Storing(q) /\ Doing(q).token = t
    BY DEF SInv, PendingOwned
  <2>2. q # r
    BY <2>1, <1>1 DEF t0
  <2> QED
    BY <2>1, <2>2, <1>12, <1>13
<1>16. \A q \in Requests : Doing(q)'.at \in HolderPlaces =>
           q # r /\ Doing(q)' = Doing(q) /\ Doing(q).token \in cookies /\ Doing(q).token \in Tokens
  <2>1. \A q \in Requests : Doing(q)'.at \in HolderPlaces => q # r /\ Doing(q)' = Doing(q)
    BY <1>7, WorkKinds DEF HolderPlaces, StreamPlaces
  <2> QED
    BY <2>1, DoingWorks, WorkFields DEF SInv, HoldersKnown, Holding
<1>17. HoldersKnown'
  <2> SUFFICES ASSUME NEW q \in Requests, Holding(q)'
               PROVE  /\ Doing(q)'.token \in cookies'
                      /\ Doing(q)'.at = "revoke" => rows'[Doing(q)'.token] = 0
    BY DEF HoldersKnown
  <2> QED
    BY <1>3, <1>16 DEF SInv, HoldersKnown, Holding
<1>18. DoomedGone'
  <2> SUFFICES ASSUME NEW q \in Requests, NEW t \in Doomed(requests'[q])
               PROVE  sessions'[t] = 0 /\ t \notin pending' /\ t <= lastToken'
    BY DEF DoomedGone
  <2>1. CASE q = r
    <3>1. t = t0 /\ ~Usable(r)
      BY <2>1, <1>5, <1>6, <1>7
    <3> QED
      BY <3>1, <1>2, <1>3, <1>10
  <2>2. CASE q # r
    <3>1. sessions[t] = 0 /\ t \notin pending /\ t <= lastToken /\ t \in Tokens
      BY <2>2, <1>7, DoingWorks DEF SInv, DoomedGone
    <3> QED
      BY <3>1, <1>2, <1>3, <1>10
  <2> QED
    BY <2>1, <2>2
<1>19. RowsFollow'
  <2> SUFFICES ASSUME NEW t \in Tokens
               PROVE  /\ sessions'[t] # 0 => t \notin pending' /\ rows[t] \in {0, sessions'[t]}
                      /\ rows[t] > now => t \in pending' \/ sessions'[t] = rows[t]
    BY <1>3 DEF RowsFollow
  <2>1. CASE t = t0
    BY <2>1, <1>3, <1>8, <1>9, <1>10
  <2>2. CASE t # t0
    BY <2>2, <1>3, <1>10 DEF SInv, RowsFollow
  <2> QED
    BY <2>1, <2>2
<1>20. LiveSessionIsDurable'
  <2> SUFFICES ASSUME NEW t \in Tokens, sessions'[t] > now, rows[t] # sessions'[t]
               PROVE  \E q \in Requests : requests'[q].at = "revoke" /\ requests'[q].token = t
    BY <1>3 DEF LiveSessionIsDurable, At
  <2>1. t # t0
    BY <1>8, <1>10 DEF SInv, StateTyped
  <2>2. PICK q \in Requests : requests[q].at = "revoke" /\ requests[q].token = t
    BY <2>1, <1>10 DEF SInv, LiveSessionIsDurable, At
  <2>3. q # r
    BY <2>2, <1>1
  <2> QED
    BY <2>2, <2>3, <1>7
<1>21. LoginsMarked'
  <2> SUFFICES ASSUME NEW q \in Requests, Doing(q)'.at = "backend"
               PROVE  /\ sessions'[Doing(q)'.token] # 0 => attempts[Doing(q)'.token].inFlight
                      /\ \A p \in Requests :
                            Doing(p)'.at = "backend" /\ Doing(p)'.token = Doing(q)'.token => p = q
    BY <1>3 DEF LoginsMarked
  <2>1. \A p \in Requests : Doing(p)'.at = "backend" => Doing(p)' = Doing(p)
    BY <1>16 DEF HolderPlaces
  <2>2. sessions'[Doing(q).token] = sessions[Doing(q).token]
    BY <1>2, <1>10, <1>16 DEF HolderPlaces
  <2> QED
    BY <2>1, <2>2 DEF SInv, LoginsMarked
<1>22. LoginStateFollowsSession'
  <2> SUFFICES ASSUME NEW t \in Tokens, attempts[t] # NoAttempt
               PROVE  sessions'[t] # 0
    BY <1>3 DEF LoginStateFollowsSession
  <2>1. sessions[t] # 0
    BY DEF SInv, LoginStateFollowsSession
  <2> QED
    BY <2>1, <1>2, <1>10
<1>23. RevokedStaysRevoked'
  BY <1>2, <1>3, <1>10 DEF SInv, RevokedStaysRevoked, StateTyped, Tokens
<1>24. WithinLimit'
  <2>1. Present(sessions') \subseteq Present(sessions) \cup {t0} /\ t0 \in Tokens
    BY <1>1, <1>10 DEF Present
  <2>2. Present(sessions) \in SUBSET Tokens /\ pending \in SUBSET Tokens
        /\ Present(sessions') \in SUBSET Tokens
    BY DEF SInv, StateTyped, Present, Tokens
  <2>3. /\ Cardinality(pending') = Cardinality(pending) - 1
    BY <2>2, <1>2, <1>3, TokensFinite, FS_RemoveElement
  <2>4. Cardinality(Present(sessions) \cup {t0}) <= Cardinality(Present(sessions)) + 1
    BY <2>2, TokensFinite, FS_AddElement
  <2>5. Cardinality(Present(sessions')) <= Cardinality(Present(sessions) \cup {t0})
    BY <2>1, <2>2, TokensFinite
  <2>6. /\ Cardinality(Present(sessions)) \in Nat /\ Cardinality(pending) \in Nat
        /\ Cardinality(Present(sessions')) \in Nat
        /\ Cardinality(Present(sessions) \cup {t0}) \in Nat
    BY <2>1, <2>2, TokensFinite
  <2> QED
    BY <2>3, <2>4, <2>5, <2>6 DEF SInv, WithinLimit
<1> QED
  BY <1>7, <1>11, <1>14, <1>15, <1>17, <1>18, <1>19, <1>20, <1>21, <1>22, <1>23, <1>24 DEF SInv

\* The first half of create reserves a token nobody knows, under the limit.
LEMMA ReserveKeeps ==
    ASSUME SInv, NEW r \in Requests, Reserve(r)
    PROVE  SInv'
<1> USE BrowserConstants
<1> DEFINE gone == Expired(sessions)
           t0 == lastToken + 1
           y == [at |-> "save", token |-> t0, expiry |-> now + TTL]
<1>1. gone \in SUBSET Tokens /\ gone \in SUBSET Expired(sessions)
      /\ \A t \in gone : sessions[t] # 0 /\ sessions[t] <= now
  BY DEF Expired, Present
<1>2. sessions' = Without(sessions, gone) /\ attempts' = AttemptsWithout(gone)
      /\ UNCHANGED <<now, rows, cookies, revoked>>
  BY DEF Reserve, PruneLocked
<1>3. requests[r].at = "idle" /\ Doing(r) = requests[r] /\ ~Storing(r) /\ Doing(r).at # "revoke"
  BY AtPlace DEF Reserve, At
<1>4. CASE ~RoomForOne
  <2> DEFINE x == Purging(gone, Idle)
  <2>1. Goto(r, x) /\ UNCHANGED <<pending, lastToken>>
    BY <1>4 DEF Reserve
  <2>2. x \in Works \cup Purges /\ Work(x) = Idle /\ Doomed(x) = gone
    BY <1>1, PurgingThen, WorkKinds
  <2>3. Plain(Work(x))
    BY <2>2, WorkKinds DEF Plain
  <2> HIDE DEF x, gone
  <2> QED
    BY <1>1, <1>2, <1>3, <2>1, <2>2, <2>3, DropKeeps
<1>5. CASE RoomForOne
  <2> DEFINE x == Purging(gone, y)
  <2>1. Goto(r, x) /\ pending' = pending \cup {t0} /\ lastToken' = t0 /\ t0 \in Tokens
    BY <1>5 DEF Reserve, SInv, StateTyped, Tokens
  <2>2. y \in Deferred
    <3>1. now + TTL \in Expiries
      BY DEF SInv, StateTyped, Expiries
    <3> QED
      BY <3>1, <2>1 DEF Deferred, Works, Saves
  <2>3. /\ x \in Works \cup Purges /\ Work(x) = y /\ Doomed(x) = gone
        /\ y.at = "save" /\ y.token = t0 /\ y.expiry = now + TTL
    BY <1>1, <2>2, PurgingThen
  <2>4. /\ RequestsTyped' /\ requests'[r] = x /\ Doing(r)' = y
        /\ \A q \in Requests : q # r => requests'[q] = requests[q] /\ Doing(q)' = Doing(q)
    BY <2>1, <2>3, Moved
  <2>5. /\ t0 \notin pending /\ t0 \notin cookies /\ t0 \notin revoked /\ lastToken < t0
        /\ sessions[t0] = 0 /\ rows[t0] = 0
    BY <2>1 DEF SInv, StateTyped
  <2> HIDE DEF x, y, t0, gone
  <2>6. /\ sessions' \in [Tokens -> Expiries]
        /\ \A t \in gone : sessions'[t] = 0
        /\ \A t \in Tokens \ gone : sessions'[t] = sessions[t]
    BY <1>1, <1>2, WithoutSome DEF SInv, StateTyped, Without
  <2>7. /\ attempts' \in [Tokens -> Attempts]
        /\ \A t \in Tokens :
              \/ attempts'[t] = NoAttempt /\ (t \in gone \/ ~attempts[t].inFlight)
              \/ attempts'[t] = attempts[t] /\ t \notin gone
    BY <1>1, <1>2, AttemptsKept
  <2>8. LoginsMarked' /\ LoginStateFollowsSession'
    BY <1>1, <1>2, <2>1, <2>3, <2>7, LoginsKeep
  <2>9. StateTyped'
    <3>1. \A t \in Tokens : sessions'[t] # 0 \/ rows'[t] # 0 => t <= lastToken'
      <4> SUFFICES ASSUME NEW t \in Tokens, sessions'[t] # 0 \/ rows[t] # 0
                   PROVE  t <= lastToken'
        BY <1>2
      <4>1. sessions[t] # 0 \/ rows[t] # 0
        BY <2>6
      <4>2. t <= lastToken /\ lastToken \in Nat /\ t \in Nat /\ t0 \in Nat
        BY <4>1, <2>1 DEF SInv, StateTyped, Tokens
      <4> QED
        BY <4>2, <2>1, <2>5
    <3>2. pending' \subseteq 1 .. lastToken' /\ cookies' \subseteq 1 .. lastToken'
          /\ lastToken' \in 0 .. MaxTokens
      BY <1>2, <2>1, <2>5 DEF SInv, StateTyped, Tokens
    <3>3. now' \in 0 .. MaxTime /\ rows' \in [Tokens -> 0 .. now' + TTL] /\ revoked' \subseteq cookies'
      BY <1>2 DEF SInv, StateTyped
    <3> QED
      BY <2>6, <2>7, <3>1, <3>2, <3>3 DEF StateTyped, Attempts
  <2>10. \A q \in Requests : Storing(q)' <=> Storing(q) \/ q = r
    BY <1>3, <2>3, <2>4 DEF Storing
  <2>11. \A q \in Requests : Storing(q) => q # r /\ Doing(q)' = Doing(q)
             /\ Doing(q).token \in Tokens /\ Doing(q).token \in pending /\ Doing(q).token # t0
    BY <1>3, <2>4, <2>5, StoringFields DEF SInv, StoringFresh
  <2>12. StoringFresh'
    <3> SUFFICES ASSUME NEW q \in Requests, Storing(q)'
                 PROVE  /\ Doing(q)'.token \in pending' \ cookies'
                        /\ sessions'[Doing(q)'.token] = 0
                        /\ Doing(q)'.expiry <= now' + TTL
                        /\ Doing(q)'.at = "save" => rows'[Doing(q)'.token] = 0
                        /\ Doing(q)'.at = "admit" =>
                              /\ rows'[Doing(q)'.token] \in {0, Doing(q)'.expiry}
                              /\ ~Doing(q)'.saved => rows'[Doing(q)'.token] = 0
                              /\ Doing(q)'.saved /\ now' < Doing(q)'.expiry =>
                                    rows'[Doing(q)'.token] = Doing(q)'.expiry
                        /\ \A p \in Requests :
                              Storing(p)' /\ Doing(p)'.token = Doing(q)'.token => p = q
      BY DEF StoringFresh
    <3>1. CASE q = r
      <4>1. sessions'[t0] = 0 /\ now' + TTL = now + TTL /\ now + TTL \in Nat
        BY <1>2, <2>1, <2>5, <2>6 DEF SInv, StateTyped
      <4>2. \A p \in Requests : Storing(p)' /\ Doing(p)'.token = t0 => p = r
        BY <2>10, <2>11
      <4> QED
        BY <3>1, <4>1, <4>2, <1>2, <2>1, <2>3, <2>4, <2>5
    <3>2. CASE q # r
      <4>1. Storing(q) /\ Doing(q)' = Doing(q) /\ Doing(q).token \in Tokens /\ Doing(q).token # t0
        BY <3>2, <2>10, <2>11
      <4>2. sessions'[Doing(q).token] = 0
        BY <4>1, <2>6 DEF SInv, StoringFresh
      <4>3. \A p \in Requests : Storing(p)' /\ Doing(p)'.token = Doing(q).token => p = q
        BY <4>1, <2>3, <2>4, <2>10, <2>11 DEF SInv, StoringFresh
      <4> QED
        BY <4>1, <4>2, <4>3, <1>2, <2>1 DEF SInv, StoringFresh
    <3> QED
      BY <3>1, <3>2
  <2>13. PendingOwned'
    <3> SUFFICES ASSUME NEW t \in pending \cup {t0}
                 PROVE  \E q \in Requests : Storing(q)' /\ Doing(q)'.token = t
      BY <2>1 DEF PendingOwned
    <3>1. CASE t = t0
      BY <3>1, <2>3, <2>4, <2>10
    <3>2. CASE t \in pending
      <4>1. PICK q \in Requests : Storing(q) /\ Doing(q).token = t
        BY <3>2 DEF SInv, PendingOwned
      <4> QED
        BY <4>1, <2>10, <2>11
    <3> QED
      BY <3>1, <3>2
  <2>14. HoldersKnown'
    <3>1. \A q \in Requests : Holding(q)' => Holding(q) /\ Doing(q)' = Doing(q)
      BY <2>3, <2>4 DEF Holding, HolderPlaces, StreamPlaces
    <3> QED
      BY <3>1, <1>2 DEF SInv, HoldersKnown
  <2>15. DoomedGone'
    <3> SUFFICES ASSUME NEW q \in Requests, NEW t \in Doomed(requests'[q])
                 PROVE  sessions'[t] = 0 /\ t \notin pending' /\ t <= lastToken'
      BY DEF DoomedGone
    <3>1. lastToken \in Nat /\ lastToken' = lastToken + 1
      BY <2>1 DEF SInv, StateTyped, t0
    <3>2. /\ t \in Tokens /\ sessions'[t] = 0 /\ t \notin pending /\ t <= lastToken
      <4>1. CASE q = r
        <5>1. t \in gone
          BY <4>1, <2>3, <2>4
        <5> QED
          BY <5>1, <1>1, <2>6 DEF SInv, RowsFollow, StateTyped
      <4>2. CASE q # r
        BY <4>2, <2>4, <2>6, DoingWorks DEF SInv, DoomedGone
      <4> QED
        BY <4>1, <4>2
    <3> QED
      BY <3>1, <3>2, <2>1, <2>5 DEF Tokens
  <2>16. RowsFollow'
    <3> SUFFICES ASSUME NEW t \in Tokens
                 PROVE  /\ sessions'[t] # 0 => t \notin pending' /\ rows[t] \in {0, sessions'[t]}
                        /\ rows[t] > now => t \in pending' \/ sessions'[t] = rows[t]
      BY <1>2 DEF RowsFollow
    <3>1. now \in Nat
      BY DEF SInv, StateTyped
    <3>2. /\ sessions[t] # 0 => t \notin pending /\ rows[t] \in {0, sessions[t]}
          /\ rows[t] > now => t \in pending \/ sessions[t] = rows[t]
      BY DEF SInv, RowsFollow
    <3>3. CASE t \in gone
      <4>1. ~(sessions[t] > now) /\ sessions'[t] = 0
        BY <3>3, <1>1, <2>6 DEF SInv, StateTyped, Expiries
      <4> QED
        BY <4>1, <3>2, <2>1
    <3>4. CASE t \notin gone
      BY <3>2, <3>4, <2>1, <2>5, <2>6
    <3> QED
      BY <3>3, <3>4
  <2>17. LiveSessionIsDurable'
    <3> SUFFICES ASSUME NEW t \in Tokens, sessions'[t] > now, rows[t] # sessions'[t]
                 PROVE  \E q \in Requests : requests'[q].at = "revoke" /\ requests'[q].token = t
      BY <1>2 DEF LiveSessionIsDurable, At
    <3>1. t \notin gone /\ sessions[t] > now /\ rows[t] # sessions[t]
      BY <2>6 DEF SInv, StateTyped
    <3>2. PICK q \in Requests : requests[q].at = "revoke" /\ requests[q].token = t
      BY <3>1 DEF SInv, LiveSessionIsDurable, At
    <3>3. q # r
      BY <3>2, <1>3
    <3> QED
      BY <3>2, <3>3, <2>4
  <2>18. WithinLimit'
    <3>1. Cardinality(Present(sessions')) + Cardinality(pending) < MaxSessions
      BY <1>5 DEF RoomForOne
    <3>2. pending \in SUBSET Tokens /\ Present(sessions') \in SUBSET Tokens
      BY DEF SInv, StateTyped, Present, Tokens
    <3>3. Cardinality(pending') = Cardinality(pending) + 1
      BY <3>2, <2>1, <2>5, TokensFinite, FS_AddElement
    <3>4. Cardinality(pending) \in Nat /\ Cardinality(Present(sessions')) \in Nat
      BY <3>2, TokensFinite
    <3> QED
      BY <3>1, <3>3, <3>4 DEF WithinLimit
  <2>19. RevokedStaysRevoked'
    <3>1. revoked \subseteq Tokens
      BY DEF SInv, StateTyped, Tokens
    <3> QED
      BY <3>1, <1>2, <2>6 DEF SInv, RevokedStaysRevoked
  <2> QED
    BY <2>4, <2>8, <2>9, <2>12, <2>13, <2>14, <2>15, <2>16, <2>17, <2>18, <2>19 DEF SInv
<1> QED
  BY <1>4, <1>5

\* Deleting the rows of expired sessions.
LEMMA PurgeKeeps ==
    ASSUME SInv, NEW r \in Requests, Purge(r)
    PROVE  SInv'
<1>1. requests[r] \in Purges
  <2>1. requests[r].at = "purge"
    BY DEF Purge, At
  <2>2. \A y \in Works : y.at # "purge"
    BY WorkFields DEF HolderPlaces, StreamPlaces
  <2> QED
    BY <2>1, <2>2 DEF SInv, RequestsTyped
<1> DEFINE x == requests[r].then
<1>2. /\ x \in Works /\ x = Doing(r) /\ requests[r].at # "revoke"
      /\ Doomed(requests[r]) = requests[r].doomed /\ requests[r].doomed \in SUBSET Tokens
  BY <1>1 DEF Purges, Deferred, Doing, Work, Doomed
<1>3. PICK gone \in SUBSET requests[r].doomed : rows' = Without(rows, gone)
  BY DEF Purge
<1>4. gone \in SUBSET Tokens /\ \A t \in gone : t \notin pending /\ sessions[t] = 0
  BY <1>2, <1>3 DEF SInv, DoomedGone
<1>5. Goto(r, x) /\ UNCHANGED <<now, sessions, pending, attempts, lastToken, cookies, revoked>>
  BY DEF Purge
<1> HIDE DEF x
<1> QED
  BY <1>2, <1>3, <1>4, <1>5, RowsDropKeeps

\* valid.
LEMMA AuthenticateKeeps ==
    ASSUME SInv, NEW r \in Requests, NEW t \in Tokens, Authenticate(r, t)
    PROVE  SInv'
<1>1. Doing(r) = requests[r] /\ requests[r].at = "idle" /\ ~Storing(r) /\ Doing(r).at # "revoke"
  BY AtPlace DEF Authenticate, At
<1>2. CASE t \in Expired(sessions)
  <2> DEFINE x == Purging({t}, Idle)
  <2>1. /\ Goto(r, x) /\ sessions' = Without(sessions, {t})
        /\ attempts' = [u \in Tokens |-> IF u \in {t} THEN NoAttempt ELSE attempts[u]]
        /\ UNCHANGED <<now, pending, rows, lastToken, cookies, revoked>>
    BY <1>2 DEF Authenticate, Remove
  <2>2. x \in Works \cup Purges /\ Work(x) = Idle /\ Doomed(x) = {t}
    BY PurgingThen, WorkKinds
  <2>3. Plain(Work(x)) /\ {t} \in SUBSET Expired(sessions)
    BY <1>2, <2>2, WorkKinds DEF Plain
  <2> HIDE DEF x
  <2> QED
    BY <1>1, <2>1, <2>2, <2>3, DropKeeps
<1>3. CASE t \notin Expired(sessions)
  <2> DEFINE x == [at |-> "authenticated", token |-> t]
  <2>1. Goto(r, x)
        /\ UNCHANGED <<now, sessions, pending, attempts, rows, lastToken, cookies, revoked>>
    BY <1>3 DEF Authenticate
  <2>2. "authenticated" \in HolderPlaces \ EventPlaces
    BY DEF HolderPlaces, EventPlaces
  <2>3. x \in Works /\ Plain(x)
    BY <2>2, WorkKinds DEF Plain, Authenticate
  <2> HIDE DEF x
  <2> QED
    BY <1>1, <2>1, <2>3, StayKeeps
<1> QED
  BY <1>2, <1>3

\* The handlers that leave the session alone, and the first half of revoke.
LEMMA LeaveLockKeeps ==
    ASSUME SInv, NEW r \in Requests, Leave(r) \/ Lock(r)
    PROVE  SInv'
<1>1. requests[r].at = "authenticated"
  BY DEF Leave, Lock, At
<1>2. "authenticated" \in HolderPlaces /\ "revoke" \in HolderPlaces \ EventPlaces
  BY DEF HolderPlaces, EventPlaces
<1>3. /\ Doing(r) = requests[r] /\ ~Storing(r) /\ requests[r].token \in Tokens
      /\ requests[r].token \in cookies
  BY <1>1, <1>2, AtPlace
<1>4. Idle \in Works /\ Plain(Idle)
  BY WorkKinds DEF Plain
<1>5. ASSUME Goto(r, Idle),
             UNCHANGED <<now, sessions, pending, attempts, rows, lastToken, cookies, revoked>>
      PROVE  SInv'
  BY <1>1, <1>3, <1>4, <1>5, StayKeeps
<1>6. CASE Leave(r)
  BY <1>5, <1>6 DEF Leave
<1>7. CASE Lock(r)
  <2> DEFINE t == requests[r].token
             x == [at |-> "revoke", token |-> t]
  <2>1. UNCHANGED <<now, sessions, pending, attempts, lastToken, cookies, revoked>>
    BY <1>7 DEF Lock
  <2>2. CASE rows' = rows /\ Goto(r, Idle)
    BY <1>5, <2>1, <2>2
  <2>3. CASE rows' = Without(rows, {t}) /\ Goto(r, x)
    <3>1. x \in Works /\ x.at = "revoke" /\ x.token = t
      BY <1>2, <1>3, WorkKinds
    <3>2. t \notin pending
      <4> SUFFICES ASSUME t \in pending PROVE FALSE
        OBVIOUS
      <4>1. PICK q \in Requests : Storing(q) /\ Doing(q).token = t
        BY DEF SInv, PendingOwned
      <4> QED
        BY <4>1, <1>3 DEF SInv, StoringFresh
    <3>3. {t} \in SUBSET Tokens /\ requests[r].at # "revoke"
      BY <1>1, <1>3
    <3>4. \A u \in {t} : u \notin pending /\ (sessions[u] = 0 \/ (x.at = "revoke" /\ x.token = u))
      BY <3>1, <3>2
    <3>5. x.token \in cookies /\ x.token \in {t}
      BY <3>1, <1>3
    <3> HIDE DEF x
    <3> QED
      BY <1>3, <2>1, <2>3, <3>1, <3>3, <3>4, <3>5, RowsDropKeeps
  <2> QED
    BY <1>7, <2>2, <2>3 DEF Lock, DeleteRow
<1> QED
  BY <1>6, <1>7

\* The second half of revoke.
LEMMA RevokeKeeps ==
    ASSUME SInv, NEW r \in Requests, Revoke(r)
    PROVE  SInv'
<1> DEFINE t == requests[r].token
<1>1. requests[r].at = "revoke" /\ "revoke" \in HolderPlaces
  BY DEF Revoke, At, HolderPlaces
<1>2. Doing(r) = requests[r] /\ ~Storing(r) /\ t \in Tokens /\ t \in cookies
  BY <1>1, AtPlace
<1>3. rows[t] = 0
  BY <1>1, <1>2 DEF SInv, HoldersKnown, Holding
<1>4. /\ Goto(r, Idle) /\ sessions' = Without(sessions, {t})
      /\ attempts' = [u \in Tokens |-> IF u \in {t} THEN NoAttempt ELSE attempts[u]]
      /\ revoked' = revoked \cup {t}
      /\ UNCHANGED <<now, pending, rows, lastToken, cookies>>
  BY DEF Revoke, Remove
<1>5. Idle \in Works \cup Purges /\ Work(Idle) = Idle /\ Doomed(Idle) = {} /\ Idle.at = "idle"
  BY WorkKinds, WorkIsNow
<1>6. {t} \in SUBSET Tokens
  BY <1>2
<1>7. /\ attempts' \in [Tokens -> Attempts]
      /\ \A u \in Tokens :
            \/ attempts'[u] = NoAttempt /\ (u \in {t} \/ ~attempts[u].inFlight)
            \/ attempts'[u] = attempts[u] /\ u \notin {t}
  BY <1>4, <1>6, AttemptsKept
<1>8. Work(Idle).at # "backend" /\ Work(Idle).at = "idle"
  BY <1>5
<1>9. LoginsMarked' /\ LoginStateFollowsSession'
  BY <1>4, <1>5, <1>6, <1>7, <1>8, LoginsKeep
<1>10. revoked' \subseteq cookies
       /\ \A u \in revoked' : u \in revoked \/ (u \in {t} /\ rows[u] = 0)
  BY <1>2, <1>3, <1>4 DEF SInv, StateTyped
<1>11. /\ \A u \in {t} : sessions[u] <= now \/ rows[u] = 0
       /\ \A u \in Doomed(Idle) : u \in {t} /\ sessions[u] # 0
       /\ Doing(r).at = "revoke" => Doing(r).token \in {t}
  BY <1>2, <1>3, <1>5
<1> HIDE DEF t
<1> QED
  BY <1>2, <1>4, <1>5, <1>6, <1>7, <1>8, <1>9, <1>10, <1>11, MoveKeeps

\* beginLogin admits a login only when no other of the session is in flight.
LEMMA BeginLoginKeeps ==
    ASSUME SInv, NEW r \in Requests, BeginLogin(r)
    PROVE  SInv'
<1> USE BrowserConstants
<1> DEFINE t == requests[r].token
           gone == Expired(sessions)
           kept == AttemptsWithout(gone)
           admitted == /\ sessions[t] > now
                       /\ ~kept[t].inFlight
                       /\ kept[t].failures < LoginLimit
           y == [at |-> "backend", token |-> t]
<1>1. requests[r].at = "authenticated" /\ "authenticated" \in HolderPlaces
      /\ "backend" \in HolderPlaces \ EventPlaces
  BY DEF BeginLogin, At, HolderPlaces, EventPlaces
<1>2. Doing(r) = requests[r] /\ ~Storing(r) /\ Doing(r).at = "authenticated"
      /\ t \in Tokens /\ t \in cookies
  BY <1>1, AtPlace
<1>3. gone \in SUBSET Tokens /\ gone \in SUBSET Expired(sessions)
      /\ \A u \in gone : sessions[u] # 0 /\ sessions[u] <= now
  BY DEF Expired, Present
<1>4. sessions' = Without(sessions, gone)
      /\ UNCHANGED <<now, pending, rows, lastToken, cookies, revoked>>
  BY DEF BeginLogin
<1>5. CASE ~admitted
  <2> DEFINE x == Purging(gone, Idle)
  <2>1. Goto(r, x) /\ attempts' = AttemptsWithout(gone)
    BY <1>5 DEF BeginLogin
  <2>2. x \in Works \cup Purges /\ Work(x) = Idle /\ Doomed(x) = gone
    BY <1>3, PurgingThen, WorkKinds
  <2>3. Plain(Work(x)) /\ Doing(r).at # "revoke"
    BY <1>2, <2>2, WorkKinds DEF Plain
  <2> HIDE DEF x, gone, t
  <2> QED
    BY <1>2, <1>3, <1>4, <2>1, <2>2, <2>3, DropKeeps
<1>6. CASE admitted
  <2> DEFINE x == Purging(gone, y)
  <2>1. Goto(r, x) /\ attempts' = [kept EXCEPT ![t].inFlight = TRUE]
    BY <1>6 DEF BeginLogin
  <2>2. y \in Deferred /\ y.at = "backend" /\ y.token = t
    BY <1>1, <1>2, WorkKinds DEF Deferred
  <2>3. x \in Works \cup Purges /\ Work(x) = y /\ Doomed(x) = gone
    BY <1>3, <2>2, PurgingThen
  <2>4. /\ kept \in [Tokens -> Attempts]
        /\ \A u \in Tokens :
              \/ kept[u] = NoAttempt /\ (u \in gone \/ ~attempts[u].inFlight)
              \/ kept[u] = attempts[u] /\ u \notin gone
    <3>1. NoAttempt \in Attempts
      BY DEF NoAttempt, Attempts
    <3>2. attempts \in [Tokens -> Attempts]
      BY DEF SInv, StateTyped, Attempts
    <3> HIDE DEF gone
    <3> QED
      BY <3>1, <3>2 DEF AttemptsWithout, Stale
  <2>5. ~kept[t].inFlight /\ sessions[t] > now
    BY <1>6
  <2> HIDE DEF x, y, gone, t, kept, admitted
  <2>6. /\ attempts' \in [Tokens -> Attempts] /\ attempts'[t].inFlight
        /\ \A u \in Tokens : u # t => attempts'[u] = kept[u]
    <3>1. kept[t] \in Attempts
      BY <1>2, <2>4
    <3>2. [kept[t] EXCEPT !.inFlight = TRUE] \in Attempts
          /\ [kept[t] EXCEPT !.inFlight = TRUE].inFlight
      BY <3>1 DEF Attempts
    <3>3. attempts' = [kept EXCEPT ![t] = [kept[t] EXCEPT !.inFlight = TRUE]]
      BY <2>1
    <3> QED
      BY <1>2, <2>4, <3>2, <3>3
  <2>7. /\ \A u \in gone : sessions'[u] = 0
        /\ \A u \in Tokens \ gone : sessions'[u] = sessions[u]
        /\ t \notin gone
    <3>1. sessions \in [Tokens -> Expiries] /\ now \in Nat
      BY DEF SInv, StateTyped
    <3>2. t \notin gone
      BY <1>2, <1>3, <2>5, <3>1 DEF Expiries
    <3> QED
      BY <1>3, <1>4, <3>1, <3>2 DEF Without
  <2>8. LoginStateFollowsSession'
    <3> SUFFICES ASSUME NEW u \in Tokens, attempts'[u] # NoAttempt
                 PROVE  sessions'[u] # 0
      BY DEF LoginStateFollowsSession
    <3>1. CASE u = t
      <4>1. now \in Nat /\ sessions'[t] = sessions[t]
        BY <1>2, <2>7 DEF SInv, StateTyped
      <4> QED
        BY <3>1, <4>1, <2>5
    <3>2. CASE u # t
      <4>1. u \notin gone /\ attempts[u] # NoAttempt
        BY <3>2, <2>4, <2>6
      <4> QED
        BY <4>1, <2>7 DEF SInv, LoginStateFollowsSession
    <3> QED
      BY <3>1, <3>2
  <2>9. /\ Doing(r)' = y
        /\ \A q \in Requests : q # r => Doing(q)' = Doing(q)
    BY <2>1, <2>3, Moved
  <2>10. \A q \in Requests : Doing(q).at = "backend" => Doing(q).token \in Tokens
    BY <1>1, DoingWorks, WorkFields DEF SInv
  <2>11. \A q \in Requests : q # r /\ Doing(q).at = "backend" => Doing(q).token # t
    <3> SUFFICES ASSUME NEW q \in Requests, Doing(q).at = "backend", Doing(q).token = t
                 PROVE  FALSE
      OBVIOUS
    <3>1. sessions[t] # 0
      BY <1>2, <2>5 DEF SInv, StateTyped
    <3>2. attempts[t].inFlight
      BY <3>1 DEF SInv, LoginsMarked
    <3> QED
      BY <3>2, <1>2, <2>4, <2>5, <2>7
  <2>12. LoginsMarked'
    <3> SUFFICES ASSUME NEW q \in Requests, Doing(q)'.at = "backend"
                 PROVE  /\ sessions'[Doing(q)'.token] # 0 => attempts'[Doing(q)'.token].inFlight
                        /\ \A p \in Requests :
                              Doing(p)'.at = "backend" /\ Doing(p)'.token = Doing(q)'.token => p = q
      BY DEF LoginsMarked
    <3>1. CASE q = r
      BY <3>1, <2>2, <2>6, <2>9, <2>11
    <3>2. CASE q # r
      <4>1. /\ Doing(q)' = Doing(q) /\ Doing(q).at = "backend" /\ Doing(q).token \in Tokens
            /\ Doing(q).token # t
        BY <3>2, <2>9, <2>10, <2>11
      <4>2. /\ sessions[Doing(q).token] # 0 => attempts[Doing(q).token].inFlight
            /\ \A p \in Requests :
                  Doing(p).at = "backend" /\ Doing(p).token = Doing(q).token => p = q
        BY <4>1 DEF SInv, LoginsMarked
      <4>3. sessions'[Doing(q).token] # 0 => attempts'[Doing(q).token].inFlight
        BY <4>1, <4>2, <2>4, <2>6, <2>7
      <4> QED
        BY <4>1, <4>2, <4>3, <2>2, <2>9
    <3> QED
      BY <3>1, <3>2
  <2>13. /\ \A u \in gone : sessions[u] <= now \/ rows[u] = 0
         /\ \A u \in Doomed(x) : u \in gone /\ sessions[u] # 0
         /\ Doing(r).at = "revoke" => Doing(r).token \in gone
         /\ Work(x).at \in HolderPlaces \ {"revoke"} /\ Work(x).token \in cookies
         /\ revoked' \subseteq cookies
         /\ \A u \in revoked' : u \in revoked \/ (u \in gone /\ rows[u] = 0)
    BY <1>1, <1>2, <1>3, <1>4, <2>2, <2>3 DEF SInv, StateTyped
  <2> QED
    BY <1>2, <1>3, <1>4, <2>1, <2>3, <2>6, <2>8, <2>12, <2>13, MoveKeeps
<1> QED
  BY <1>5, <1>6

\* What a failed login leaves is within the limits.
LEMMA FailedTyped ==
    ASSUME SInv, NEW a \in Attempts, NEW counted \in BOOLEAN
    PROVE  Failed(a, counted) \in Attempts
<1> USE BrowserConstants
<1> DEFINE over == a.windowEnd <= now
           failures == IF over THEN 0 ELSE a.failures
           windowEnd == IF over THEN 0 ELSE a.windowEnd
           f == IF counted /\ failures < LoginLimit THEN failures + 1 ELSE failures
           w == IF counted /\ windowEnd = 0 THEN now + LoginWindow ELSE windowEnd
           kept == [failures |-> f, windowEnd |-> w, inFlight |-> FALSE]
<1>1. now \in 0 .. MaxTime
  BY DEF SInv, StateTyped
<1>2. failures \in 0 .. LoginLimit /\ windowEnd \in 0 .. MaxTime + LoginWindow
  BY DEF Attempts
<1>3. f \in 0 .. LoginLimit /\ w \in 0 .. MaxTime + LoginWindow
  <2> HIDE DEF failures, windowEnd
  <2> QED
    BY <1>1, <1>2
<1>4. Failed(a, counted) = IF kept.failures = 0 THEN NoAttempt ELSE kept
  BY DEF Failed
<1>5. NoAttempt \in Attempts
  BY DEF NoAttempt, Attempts
<1> HIDE DEF f, w
<1>6. kept \in Attempts
  BY <1>3 DEF Attempts
<1> HIDE DEF kept
<1> QED
  BY <1>4, <1>5, <1>6

\* finishLogin takes its mark away, with the session when it is gone.
LEMMA FinishLoginKeeps ==
    ASSUME SInv, NEW r \in Requests, NEW outcome, FinishLogin(r, outcome)
    PROVE  SInv'
<1> USE BrowserConstants
<1> DEFINE t == requests[r].token
           doomed == {t} \cap Expired(sessions)
           x == Purging(doomed, Idle)
<1>1. requests[r].at = "backend" /\ "backend" \in HolderPlaces
  BY DEF FinishLogin, At, HolderPlaces
<1>2. Doing(r) = requests[r] /\ ~Storing(r) /\ Doing(r).at = "backend"
      /\ Doing(r).at # "revoke" /\ t \in Tokens /\ t \in cookies
  BY <1>1, AtPlace
<1>3. Goto(r, x) /\ LoginState(t, outcome)
      /\ UNCHANGED <<now, pending, rows, lastToken, cookies, revoked>>
  BY DEF FinishLogin
<1>4. doomed \in SUBSET Tokens
  BY <1>2
<1>5. x \in Works \cup Purges /\ Work(x) = Idle /\ Doomed(x) = doomed
      /\ Work(x).at = "idle" /\ Work(x).at # "backend"
  BY <1>4, PurgingThen, WorkKinds
<1>6. revoked' \subseteq cookies /\ \A u \in revoked' : u \in revoked
  BY <1>3 DEF SInv, StateTyped
<1>7. CASE sessions[t] = 0 \/ t \in Expired(sessions)
  <2>1. /\ sessions' = Without(sessions, {t}) /\ {t} \in SUBSET Tokens
        /\ attempts' = [u \in Tokens |-> IF u \in {t} THEN NoAttempt ELSE attempts[u]]
    BY <1>2, <1>3, <1>7 DEF LoginState, Remove
  <2>2. sessions[t] <= now
    BY <1>7 DEF Expired, SInv, StateTyped
  <2>3. \A u \in Doomed(x) : u \in {t} /\ sessions[u] # 0
    BY <1>5 DEF Expired, Present
  <2> HIDE DEF t, x, doomed
  <2>4. /\ attempts' \in [Tokens -> Attempts]
        /\ \A u \in Tokens :
              \/ attempts'[u] = NoAttempt /\ (u \in {t} \/ ~attempts[u].inFlight)
              \/ attempts'[u] = attempts[u] /\ u \notin {t}
    BY <2>1, AttemptsKept
  <2>5. LoginsMarked' /\ LoginStateFollowsSession'
    BY <1>3, <1>5, <2>1, <2>4, LoginsKeep
  <2>6. \A u \in {t} : sessions[u] <= now \/ rows[u] = 0
    BY <2>2
  <2> QED
    BY <1>2, <1>3, <1>5, <1>6, <2>1, <2>3, <2>4, <2>5, <2>6, MoveKeeps
<1>8. CASE ~(sessions[t] = 0 \/ t \in Expired(sessions))
  <2> DEFINE a == IF outcome = "ok" THEN NoAttempt ELSE Failed(attempts[t], outcome = "counted")
  <2>1. attempts' = [attempts EXCEPT ![t] = a] /\ sessions' = sessions /\ doomed = {}
        /\ sessions[t] # 0
    BY <1>3, <1>8 DEF LoginState
  <2>2. sessions' = Without(sessions, {})
    BY <2>1 DEF SInv, StateTyped, Without
  <2>3. attempts \in [Tokens -> Attempts]
    BY DEF SInv, StateTyped, Attempts
  <2> HIDE DEF t, x, doomed
  <2>4. a \in Attempts
    <3>1. NoAttempt \in Attempts
      BY DEF NoAttempt, Attempts
    <3>2. attempts[t] \in Attempts /\ (outcome = "counted") \in BOOLEAN
      BY <1>2, <2>3
    <3>3. Failed(attempts[t], outcome = "counted") \in Attempts
      BY <3>2, FailedTyped
    <3> QED
      BY <3>1, <3>3
  <2> HIDE DEF a
  <2>5. attempts' \in [Tokens -> Attempts] /\ \A u \in Tokens : u # t => attempts'[u] = attempts[u]
    BY <1>2, <2>1, <2>3, <2>4
  <2>6. LoginStateFollowsSession'
    <3> SUFFICES ASSUME NEW u \in Tokens, attempts'[u] # NoAttempt
                 PROVE  sessions[u] # 0
      BY <2>1 DEF LoginStateFollowsSession
    <3> QED
      BY <2>1, <2>5 DEF SInv, LoginStateFollowsSession
  <2>7. \A q \in Requests : Doing(q)'.at = "backend" =>
            /\ Doing(q)' = Doing(q) /\ q # r /\ Doing(q).token \in Tokens /\ Doing(q).token # t
    <3>1. Doing(r)' = Idle /\ \A q \in Requests : q # r => Doing(q)' = Doing(q)
      BY <1>3, <1>5, Moved
    <3>2. \A q \in Requests : Doing(q).at = "backend" => Doing(q).token \in Tokens
      BY <1>1, DoingWorks, WorkFields DEF SInv
    <3>3. \A q \in Requests : Doing(q).at = "backend" /\ Doing(q).token = t => q = r
      BY <1>2 DEF SInv, LoginsMarked, t
    <3> QED
      BY <3>1, <3>2, <3>3, WorkKinds
  <2>8. LoginsMarked'
    <3> SUFFICES ASSUME NEW q \in Requests, Doing(q)'.at = "backend"
                 PROVE  /\ sessions[Doing(q)'.token] # 0 => attempts'[Doing(q)'.token].inFlight
                        /\ \A p \in Requests :
                              Doing(p)'.at = "backend" /\ Doing(p)'.token = Doing(q)'.token => p = q
      BY <2>1 DEF LoginsMarked
    <3> QED
      BY <2>5, <2>7 DEF SInv, LoginsMarked
  <2>9. \A u \in Doomed(x) : u \in {} /\ sessions[u] # 0
    BY <1>5, <2>1
  <2> QED
    BY <1>2, <1>3, <1>5, <1>6, <2>2, <2>5, <2>6, <2>8, <2>9, MoveKeeps
<1> QED
  BY <1>7, <1>8

\* No request of a browser disturbs the sessions' invariant.
LEMMA SessionStepKeeps ==
    ASSUME SInv, NEW r \in Requests, SessionStep(r)
    PROVE  SInv'
BY ReserveKeeps, SaveKeeps, AdmitKeeps, PurgeKeeps, AuthenticateKeeps, LeaveLockKeeps,
   RevokeKeeps, BeginLoginKeeps, FinishLoginKeeps DEF SessionStep

\* After a crash memory holds exactly the live rows.
LEMMA RestartKeeps ==
    ASSUME SInv, Restart
    PROVE  SInv'
<1> USE BrowserConstants
<1>1. /\ rows' \in [Tokens -> 0 .. now + TTL] /\ Present(rows') = LiveRows
      /\ \A t \in Tokens : rows'[t] = IF rows[t] > now THEN rows[t] ELSE 0
  BY PruneExact DEF Restart
<1>2. /\ sessions' = rows' /\ pending' = {} /\ attempts' = [t \in Tokens |-> NoAttempt]
      /\ requests' = [r \in Requests |-> Idle] /\ UNCHANGED <<now, lastToken, cookies, revoked>>
  BY DEF Restart
<1>3. \A r \in Requests : /\ requests'[r] = Idle /\ Doing(r)' = Idle
                          /\ Doomed(requests'[r]) = {} /\ requests'[r] \in Works
                          /\ Doing(r)'.at = "idle"
  BY <1>2, WorkIsNow, WorkKinds DEF Doing
<1>4. RequestsTyped'
  BY <1>2, WorkKinds DEF RequestsTyped
<1>5. StateTyped'
  <2>1. attempts' \in [Tokens -> Attempts]
    BY <1>2 DEF Attempts, NoAttempt
  <2>2. sessions' \in [Tokens -> Expiries] /\ rows' \in [Tokens -> 0 .. now' + TTL]
    BY <1>1, <1>2 DEF SInv, StateTyped, Expiries
  <2>3. \A t \in Tokens : sessions'[t] # 0 \/ rows'[t] # 0 => t <= lastToken'
    BY <1>1, <1>2 DEF SInv, StateTyped
  <2> QED
    BY <1>2, <2>1, <2>2, <2>3 DEF SInv, StateTyped, Attempts
<1>6. StoringFresh' /\ HoldersKnown' /\ LoginsMarked'
  BY <1>3 DEF StoringFresh, Storing, HoldersKnown, Holding, HolderPlaces, StreamPlaces, LoginsMarked
<1>7. PendingOwned' /\ DoomedGone' /\ LoginStateFollowsSession'
  BY <1>2, <1>3 DEF PendingOwned, DoomedGone, LoginStateFollowsSession
<1>8. RowsFollow' /\ LiveSessionIsDurable'
  BY <1>2 DEF RowsFollow, LiveSessionIsDurable
<1>9. WithinLimit'
  <2>1. Cardinality(Present(sessions')) <= MaxSessions /\ Cardinality(pending') = 0
    BY <1>1, <1>2, RowsFit, FS_EmptySet
  <2>2. Cardinality(Present(sessions')) \in Nat
    BY TokensFinite DEF Present
  <2> QED
    BY <2>1, <2>2 DEF WithinLimit
<1>10. RevokedStaysRevoked'
  BY <1>1, <1>2 DEF SInv, RevokedStaysRevoked, StateTyped, Tokens
<1> QED
  BY <1>4, <1>5, <1>6, <1>7, <1>8, <1>9, <1>10 DEF SInv

\* Time passes.
LEMMA TickKeeps ==
    ASSUME SInv, Tick
    PROVE  SInv'
<1> USE BrowserConstants
<1>1. /\ now \in Nat /\ now' = now + 1 /\ now' \in 0 .. MaxTime
      /\ UNCHANGED <<sessions, pending, attempts, rows, requests, lastToken, cookies, revoked>>
  BY DEF Tick, SInv, StateTyped
<1>2. \A r \in Requests : Doing(r)' = Doing(r) /\ (Storing(r)' <=> Storing(r))
                          /\ (Holding(r)' <=> Holding(r))
  BY <1>1 DEF Doing, Storing, Holding
<1>3. RequestsTyped' /\ StateTyped'
  BY <1>1 DEF SInv, RequestsTyped, StateTyped
<1>4. StoringFresh'
  <2> SUFFICES ASSUME NEW q \in Requests, Storing(q)
               PROVE  /\ Doing(q).token \in pending \ cookies
                      /\ sessions[Doing(q).token] = 0
                      /\ Doing(q).expiry <= now' + TTL
                      /\ Doing(q).at = "save" => rows[Doing(q).token] = 0
                      /\ Doing(q).at = "admit" =>
                            /\ rows[Doing(q).token] \in {0, Doing(q).expiry}
                            /\ ~Doing(q).saved => rows[Doing(q).token] = 0
                            /\ Doing(q).saved /\ now' < Doing(q).expiry =>
                                  rows[Doing(q).token] = Doing(q).expiry
                      /\ \A p \in Requests :
                            Storing(p) /\ Doing(p).token = Doing(q).token => p = q
    BY <1>1, <1>2 DEF StoringFresh
  <2>1. Doing(q).expiry \in Nat
    BY StoringFields DEF Expiries
  <2> QED
    BY <2>1, <1>1 DEF SInv, StoringFresh
<1>5. PendingOwned' /\ HoldersKnown' /\ DoomedGone' /\ LoginsMarked'
  BY <1>1, <1>2 DEF SInv, PendingOwned, HoldersKnown, DoomedGone, LoginsMarked
<1>6. RowsFollow'
  BY <1>1 DEF SInv, RowsFollow, StateTyped
<1>7. LiveSessionIsDurable'
  BY <1>1 DEF SInv, LiveSessionIsDurable, StateTyped, Expiries, At
<1>8. WithinLimit' /\ LoginStateFollowsSession' /\ RevokedStaysRevoked'
  BY <1>1 DEF SInv, WithinLimit, Present, LoginStateFollowsSession, RevokedStaysRevoked
<1> QED
  BY <1>3, <1>4, <1>5, <1>6, <1>7, <1>8 DEF SInv

\* Before the first request.
LEMMA SessionsInitially ==
    ASSUME SessionsInit
    PROVE  SInv
<1> USE BrowserConstants DEF SessionsInit
<1>1. \A r \in Requests : /\ requests[r] = Idle /\ Doing(r) = Idle
                          /\ Doomed(requests[r]) = {} /\ requests[r] \in Works
                          /\ Doing(r).at = "idle"
  BY WorkIsNow, WorkKinds DEF Doing
<1>2. RequestsTyped
  BY WorkKinds DEF RequestsTyped
<1>3. StateTyped
  BY DEF StateTyped, NoAttempt, Expiries
<1>4. StoringFresh /\ HoldersKnown /\ LoginsMarked
  BY <1>1 DEF StoringFresh, Storing, HoldersKnown, Holding, HolderPlaces, StreamPlaces, LoginsMarked
<1>5. PendingOwned /\ DoomedGone /\ LoginStateFollowsSession /\ RevokedStaysRevoked
  BY <1>1 DEF PendingOwned, DoomedGone, LoginStateFollowsSession, RevokedStaysRevoked
<1>6. RowsFollow /\ LiveSessionIsDurable
  BY DEF RowsFollow, LiveSessionIsDurable
<1>7. WithinLimit
  <2>1. Present(sessions) = {} /\ pending = {}
    BY DEF Present
  <2> QED
    BY <2>1, FS_EmptySet DEF WithinLimit
<1> QED
  BY <1>2, <1>3, <1>4, <1>5, <1>6, <1>7 DEF SInv

----------------------------------------------------------------------------
(* The streams.                                                             *)

\* The cookie of a stream was given to a browser.
LEMMA StreamToken ==
    ASSUME SInv, NEW r \in Requests, Doing(r).at \in StreamPlaces
    PROVE  Doing(r).token \in cookies /\ Doing(r).token \in Tokens
BY DoingWorks, WorkFields DEF SInv, HoldersKnown, Holding, HolderPlaces

\* A step that changes nothing of the hub and no stream's place: no session that
\* a browser knows comes to life.
LEMMA HubStays ==
    ASSUME SInv, HInv, UNCHANGED hubVars,
           \A q \in Requests :
              \/ Doing(q)' = Doing(q)
              \/ Doing(q).at \notin StreamPlaces /\ Doing(q)'.at \notin StreamPlaces,
           \A t \in cookies : sessions'[t] > now' => sessions[t] > now
    PROVE  HInv'
<1>1. \A q \in Requests : Doing(q)'.at \in StreamPlaces => Doing(q)' = Doing(q)
  OBVIOUS
<1>2. SlotHolders' = SlotHolders
  BY DEF SlotHolders
<1>3. UNCHANGED <<slots, clients, queues, hubClosed, left>>
  BY DEF hubVars
<1>4. HubTyped'
  BY <1>2, <1>3 DEF HInv, HubTyped
<1>5. \A q \in Requests : Subscribed(q)' <=> Subscribed(q)
  BY DEF Subscribed, StreamPlaces
<1>6. QueuesFollow'
  BY <1>3, <1>5 DEF HInv, QueuesFollow
<1>7. EventsEntitle'
  <2> SUFFICES ASSUME NEW q \in Requests
               PROVE  /\ Subscribed(q)' /\ sessions'[Doing(q)'.token] > now' =>
                            \A i \in 1 .. Len(queues[q]) : Doing(q)'.token \in queues[q][i]
                      /\ Doing(q)'.at = "event" /\ sessions'[Doing(q)'.token] > now' =>
                            Doing(q)'.token \in Doing(q)'.event
                      /\ Doing(q)'.at = "deliver" => Doing(q)'.token \in Doing(q)'.event
    BY <1>3 DEF EventsEntitle
  <2>1. CASE Doing(q)'.at \notin StreamPlaces
    BY <2>1 DEF Subscribed, StreamPlaces
  <2>2. CASE Doing(q)'.at \in StreamPlaces
    <3>1. Doing(q)' = Doing(q) /\ Doing(q).token \in cookies
      BY <2>2, <1>1, StreamToken
    <3> QED
      BY <3>1, <1>5 DEF HInv, EventsEntitle
  <2> QED
    BY <2>1, <2>2
<1> QED
  BY <1>4, <1>6, <1>7 DEF HInv

\* A handler moves on; what it has queued or received is for its browser.
LEMMA HubMoves ==
    ASSUME SInv, HInv, NEW r \in Requests,
           \A q \in Requests \ {r} : Doing(q)' = Doing(q),
           \A t \in cookies : sessions'[t] > now' => sessions[t] > now,
           NEW s \in Seq(SUBSET Tokens), Len(s) <= Buffer,
           queues' = [queues EXCEPT ![r] = s],
           clients' \subseteq clients \cup {r}, left' \subseteq Requests,
           hubClosed' = hubClosed, r \in clients' => r \in clients \/ ~hubClosed,
           (r \in clients' \/ s # <<>>) => Subscribed(r)',
           Subscribed(r)' /\ sessions'[Doing(r)'.token] > now' =>
              \A i \in 1 .. Len(s) : Doing(r)'.token \in s[i],
           Doing(r)'.at = "event" /\ sessions'[Doing(r)'.token] > now' =>
              Doing(r)'.token \in Doing(r)'.event,
           Doing(r)'.at = "deliver" => Doing(r)'.token \in Doing(r)'.event,
           \/ slots' = slots /\ SlotHolders' = SlotHolders
           \/ slots' = slots + 1 /\ slots < StreamSlots /\ r \notin SlotHolders
              /\ SlotHolders' = SlotHolders \cup {r}
           \/ slots' = slots - 1 /\ r \in SlotHolders /\ SlotHolders' = SlotHolders \ {r}
    PROVE  HInv'
<1> USE StreamConstants
<1>1. /\ queues' \in [Requests -> Seq(SUBSET Tokens)] /\ queues'[r] = s
      /\ \A q \in Requests : q # r => queues'[q] = queues[q]
  BY DEF HInv, HubTyped
<1>2. /\ slots' \in 0 .. StreamSlots
      /\ IsFiniteSet(SlotHolders') /\ slots' = Cardinality(SlotHolders')
  <2>1. slots \in 0 .. StreamSlots /\ IsFiniteSet(SlotHolders) /\ slots = Cardinality(SlotHolders)
    BY DEF HInv, HubTyped
  <2>2. CASE slots' = slots /\ SlotHolders' = SlotHolders
    BY <2>1, <2>2
  <2>3. CASE slots' = slots + 1 /\ slots < StreamSlots /\ r \notin SlotHolders
             /\ SlotHolders' = SlotHolders \cup {r}
    <3>1. IsFiniteSet(SlotHolders \cup {r}) /\ Cardinality(SlotHolders \cup {r}) = slots + 1
      BY <2>1, <2>3, FS_AddElement
    <3> QED
      BY <2>1, <2>3, <3>1
  <2>4. CASE slots' = slots - 1 /\ r \in SlotHolders /\ SlotHolders' = SlotHolders \ {r}
    <3>1. IsFiniteSet(SlotHolders \ {r}) /\ Cardinality(SlotHolders \ {r}) = slots - 1
      BY <2>1, <2>4, FS_RemoveElement
    <3>2. slots # 0
      BY <2>1, <2>4, FS_EmptySet
    <3> QED
      BY <2>1, <2>4, <3>1, <3>2
  <2> QED
    BY <2>2, <2>3, <2>4
<1>3. HubTyped'
  <2>1. \A q \in Requests : Len(queues'[q]) <= Buffer
    BY <1>1 DEF HInv, HubTyped
  <2>2. hubClosed' \in BOOLEAN /\ (hubClosed' => clients' = {})
    BY DEF HInv, HubTyped
  <2>3. clients' \subseteq Requests
    BY DEF HInv, HubTyped
  <2> QED
    BY <1>1, <1>2, <2>1, <2>2, <2>3 DEF HubTyped
<1>4. QueuesFollow'
  <2> SUFFICES ASSUME NEW q \in Requests, q \in clients' \/ queues'[q] # <<>>
               PROVE  Subscribed(q)'
    BY DEF QueuesFollow
  <2>1. CASE q = r
    BY <2>1, <1>1
  <2>2. CASE q # r
    <3>1. Subscribed(q)
      BY <2>2, <1>1 DEF HInv, QueuesFollow
    <3> QED
      BY <2>2, <3>1 DEF Subscribed
  <2> QED
    BY <2>1, <2>2
<1>5. EventsEntitle'
  <2> SUFFICES ASSUME NEW q \in Requests
               PROVE  /\ Subscribed(q)' /\ sessions'[Doing(q)'.token] > now' =>
                            \A i \in 1 .. Len(queues'[q]) : Doing(q)'.token \in queues'[q][i]
                      /\ Doing(q)'.at = "event" /\ sessions'[Doing(q)'.token] > now' =>
                            Doing(q)'.token \in Doing(q)'.event
                      /\ Doing(q)'.at = "deliver" => Doing(q)'.token \in Doing(q)'.event
    BY DEF EventsEntitle
  <2>1. CASE q = r
    BY <2>1, <1>1
  <2>2. CASE q # r
    <3>1. Doing(q)' = Doing(q) /\ queues'[q] = queues[q]
      BY <2>2, <1>1
    <3>2. Subscribed(q)' <=> Subscribed(q)
      BY <3>1 DEF Subscribed
    <3>3. CASE Doing(q).at \notin StreamPlaces
      BY <3>1, <3>2, <3>3 DEF Subscribed, StreamPlaces
    <3>4. CASE Doing(q).at \in StreamPlaces
      <4>1. Doing(q).token \in cookies
        BY <3>4, StreamToken
      <4> QED
        BY <3>1, <3>2, <4>1 DEF HInv, EventsEntitle
    <3> QED
      BY <3>3, <3>4
  <2> QED
    BY <2>1, <2>2
<1> QED
  BY <1>3, <1>4, <1>5 DEF HInv

\* A session that leaves memory is live no more, the others are as they were.
LEMMA FewerLive ==
    ASSUME SInv, NEW gone, sessions' = Without(sessions, gone) \/ sessions' = sessions, now' = now
    PROVE  \A t \in cookies : sessions'[t] > now' => sessions[t] > now
<1> SUFFICES ASSUME NEW t \in cookies, sessions'[t] > now
             PROVE  sessions[t] > now
  OBVIOUS
<1>1. t \in Tokens /\ now \in Nat
  BY BrowserConstants DEF SInv, StateTyped, Tokens
<1> QED
  BY <1>1 DEF Without

\* A request that is no stream does not become one, and leaves the hub alone.
LEMMA SessionStepHub ==
    ASSUME SInv, HInv, NEW r \in Requests, SessionStep(r), UNCHANGED hubVars
    PROVE  HInv'
<1> DEFINE Off(y) == y.at \notin StreamPlaces
           Quiet == \A t \in cookies : sessions'[t] > now' => sessions[t] > now
<1>1. ASSUME NEW x \in Works \cup Purges, Goto(r, x), Quiet,
             Work(x) = Doing(r) \/ (Off(Doing(r)) /\ Off(Work(x)))
      PROVE  HInv'
  <2>1. /\ Doing(r)' = Work(x)
        /\ \A q \in Requests : q # r => Doing(q)' = Doing(q)
    BY <1>1, Moved
  <2> QED
    BY <1>1, <2>1, HubStays
<1>2. ASSUME NEW doomed \in SUBSET Tokens, NEW y \in Deferred, Goto(r, Purging(doomed, y)), Quiet,
             Off(Doing(r)), Off(y)
      PROVE  HInv'
  <2>1. Purging(doomed, y) \in Works \cup Purges /\ Work(Purging(doomed, y)) = y
    BY PurgingThen
  <2> QED
    BY <1>1, <1>2, <2>1
<1>3. ASSUME NEW y \in Works, Goto(r, y), Quiet, Off(Doing(r)), Off(y)
      PROVE  HInv'
  BY <1>1, <1>3, WorkIsNow
<1>4. ASSUME requests[r].at \in {"idle", "save", "admit", "authenticated", "revoke", "backend"}
      PROVE  Doing(r) = requests[r] /\ requests[r] \in Works /\ Off(Doing(r))
  BY <1>4, AtPlace DEF StreamPlaces
<1>5. Off(Idle) /\ Idle \in Works /\ Idle \in Deferred
  BY WorkKinds DEF StreamPlaces
<1>6. Expired(sessions) \in SUBSET Tokens /\ \A t : {t} \cap Expired(sessions) \in SUBSET Tokens
  BY DEF Expired, Present
<1>7. CASE Reserve(r)
  <2>1. Off(Doing(r))
    BY <1>4, <1>7 DEF Reserve, At
  <2>2. Quiet
    BY <1>7, FewerLive DEF Reserve, PruneLocked
  <2> DEFINE y == [at |-> "save", token |-> lastToken + 1, expiry |-> now + TTL]
  <2>3. y \in Deferred /\ Off(y)
    <3>1. now + TTL \in Expiries /\ lastToken + 1 \in Tokens
      BY <1>7, BrowserConstants DEF Reserve, SInv, StateTyped, Expiries, Tokens
    <3> QED
      BY <3>1 DEF Deferred, Works, Saves, StreamPlaces
  <2>4. Goto(r, Purging(Expired(sessions), y)) \/ Goto(r, Purging(Expired(sessions), Idle))
    BY <1>7 DEF Reserve
  <2> HIDE DEF y, Off, Quiet
  <2> QED
    BY <1>2, <1>5, <1>6, <2>1, <2>2, <2>3, <2>4
<1>8. CASE Save(r)
  <2>1. Doing(r) = requests[r] /\ requests[r] \in Works /\ Off(Doing(r)) /\ requests[r].at = "save"
    BY <1>4, <1>8 DEF Save, At
  <2>2. Quiet
    BY <1>8, FewerLive DEF Save
  <2>3. PICK saved \in {CanSave(requests[r].expiry), FALSE} :
            Goto(r, [at |-> "admit", token |-> requests[r].token,
                     expiry |-> requests[r].expiry, saved |-> saved])
    BY <1>8 DEF Save
  <2> DEFINE y == [at |-> "admit", token |-> requests[r].token,
                   expiry |-> requests[r].expiry, saved |-> saved]
  <2>4. y \in Works /\ Off(y)
    <3>1. requests[r].token \in Tokens /\ requests[r].expiry \in Expiries /\ saved \in BOOLEAN
      BY <2>1, <2>3, WorkFields DEF Saves, CanSave
    <3> QED
      BY <3>1 DEF Works, Admits, StreamPlaces
  <2> HIDE DEF Off, Quiet
  <2> QED
    BY <1>3, <2>1, <2>2, <2>3, <2>4
<1>9. CASE Admit(r)
  <2>1. Doing(r) = requests[r] /\ requests[r] \in Works /\ Off(Doing(r)) /\ requests[r].at = "admit"
    BY <1>4, <1>9 DEF Admit, At
  <2>2. requests[r].token \in Tokens /\ requests[r].token \notin cookies
    BY <2>1, WorkFields DEF Admits, SInv, StoringFresh, Storing
  <2>3. Quiet
    <3>1. \A t \in cookies : sessions'[t] = sessions[t]
      <4>1. cookies \subseteq Tokens /\ sessions \in [Tokens -> Expiries]
        BY BrowserConstants DEF SInv, StateTyped, Tokens
      <4> QED
        BY <4>1, <2>2, <1>9 DEF Admit
    <3> QED
      BY <3>1, <1>9 DEF Admit
  <2>4. Goto(r, Idle)
        \/ Goto(r, Purging(IF requests[r].saved THEN {requests[r].token} ELSE {}, Idle))
    BY <1>9 DEF Admit
  <2>5. (IF requests[r].saved THEN {requests[r].token} ELSE {}) \in SUBSET Tokens
    BY <2>2
  <2> HIDE DEF Off, Quiet
  <2> QED
    BY <1>2, <1>3, <1>5, <2>1, <2>3, <2>4, <2>5
<1>10. CASE Purge(r)
  <2>1. requests[r].at = "purge" /\ Doing(r) = requests[r].then /\ Goto(r, requests[r].then)
    BY <1>10 DEF Purge, At, Doing, Work
  <2>2. Doing(r) \in Works
    BY DoingWorks DEF SInv
  <2>3. Quiet
    BY <1>10, FewerLive DEF Purge
  <2> HIDE DEF Off, Quiet
  <2> QED
    BY <1>1, <2>1, <2>2, <2>3, WorkIsNow
<1>11. ASSUME NEW t \in Tokens, Authenticate(r, t)
       PROVE  HInv'
  <2>1. Off(Doing(r))
    BY <1>4, <1>11 DEF Authenticate, At
  <2>2. Quiet
    BY <1>11, FewerLive DEF Authenticate, Remove
  <2>3. "authenticated" \in HolderPlaces \ EventPlaces /\ "authenticated" \notin StreamPlaces
    BY DEF HolderPlaces, EventPlaces, StreamPlaces
  <2>4. Goto(r, Purging({t}, Idle)) \/ Goto(r, [at |-> "authenticated", token |-> t])
    BY <1>11 DEF Authenticate
  <2>5. [at |-> "authenticated", token |-> t] \in Works /\ Off([at |-> "authenticated", token |-> t])
    BY <2>3, WorkKinds
  <2> HIDE DEF Off, Quiet
  <2> QED
    BY <1>2, <1>3, <1>5, <2>1, <2>2, <2>4, <2>5
<1>12. CASE Leave(r) \/ Lock(r) \/ Revoke(r)
  <2>1. /\ Off(Doing(r)) /\ Doing(r) = requests[r]
        /\ requests[r].at \in {"authenticated", "revoke"}
    BY <1>4, <1>12 DEF Leave, Lock, Revoke, At
  <2>2. Quiet
    BY <1>12, FewerLive DEF Leave, Lock, Revoke, Remove
  <2>3. requests[r].token \in Tokens
    BY <2>1, AtPlace DEF HolderPlaces
  <2>4. "revoke" \in HolderPlaces \ EventPlaces /\ "revoke" \notin StreamPlaces
    BY DEF HolderPlaces, EventPlaces, StreamPlaces
  <2> DEFINE y == [at |-> "revoke", token |-> requests[r].token]
  <2>5. y \in Works /\ Off(y)
    BY <2>3, <2>4, WorkKinds
  <2>6. Goto(r, Idle) \/ Goto(r, y)
    BY <1>12 DEF Leave, Lock, Revoke, DeleteRow
  <2> HIDE DEF Off, Quiet, y
  <2> QED
    BY <1>3, <1>5, <2>1, <2>2, <2>5, <2>6
<1>13. CASE BeginLogin(r)
  <2>1. /\ Off(Doing(r)) /\ requests[r].at = "authenticated"
    BY <1>4, <1>13 DEF BeginLogin, At
  <2>2. Quiet
    BY <1>13, FewerLive DEF BeginLogin
  <2>3. requests[r].token \in Tokens
    BY <2>1, AtPlace DEF HolderPlaces
  <2>4. "backend" \in HolderPlaces \ EventPlaces /\ "backend" \notin StreamPlaces
    BY DEF HolderPlaces, EventPlaces, StreamPlaces
  <2> DEFINE y == [at |-> "backend", token |-> requests[r].token]
  <2>5. y \in Deferred /\ Off(y)
    BY <2>3, <2>4, WorkKinds DEF Deferred
  <2>6. Goto(r, Purging(Expired(sessions), Idle)) \/ Goto(r, Purging(Expired(sessions), y))
    BY <1>13 DEF BeginLogin
  <2> HIDE DEF Off, Quiet, y
  <2> QED
    BY <1>2, <1>5, <1>6, <2>1, <2>2, <2>5, <2>6
<1>14. ASSUME NEW outcome, FinishLogin(r, outcome)
       PROVE  HInv'
  <2>1. Off(Doing(r))
    BY <1>4, <1>14 DEF FinishLogin, At
  <2>2. Quiet
    BY <1>14, FewerLive DEF FinishLogin, LoginState, Remove
  <2>3. Goto(r, Purging({requests[r].token} \cap Expired(sessions), Idle))
    BY <1>14 DEF FinishLogin
  <2> HIDE DEF Off, Quiet
  <2> QED
    BY <1>2, <1>5, <1>6, <2>1, <2>2, <2>3
<1> HIDE DEF Off, Quiet
<1> QED
  BY <1>7, <1>8, <1>9, <1>10, <1>11, <1>12, <1>13, <1>14 DEF SessionStep

\* A handler's place decides whether it holds a slot.
LEMMA SlotsMove ==
    ASSUME SInv, NEW r \in Requests, NEW x \in Works \cup Purges, Goto(r, x)
    PROVE  /\ Doing(r)' = Work(x) /\ \A q \in Requests \ {r} : Doing(q)' = Doing(q)
           /\ SlotHolders' = IF Work(x).at \in StreamPlaces \ {"slot"}
                             THEN SlotHolders \cup {r} ELSE SlotHolders \ {r}
           /\ r \in SlotHolders /\ Work(x).at \in StreamPlaces \ {"slot"} =>
                 SlotHolders' = SlotHolders
           /\ r \notin SlotHolders /\ Work(x).at \notin StreamPlaces \ {"slot"} =>
                 SlotHolders' = SlotHolders
<1>1. /\ Doing(r)' = Work(x)
      /\ \A q \in Requests : q # r => Doing(q)' = Doing(q)
  BY Moved
<1> QED
  BY <1>1 DEF SlotHolders

\* A subscriber that stays one, with the queue it has.
LEMMA SubscriberMoves ==
    ASSUME SInv, HInv, NEW r \in Requests, NEW x \in Works \cup Purges, Goto(r, x),
           UNCHANGED hubVars,
           \A t \in cookies : sessions'[t] > now' => sessions[t] > now,
           Subscribed(r), Work(x).token = Doing(r).token,
           \/ Work(x).at \in {"streaming", "closing"}
           \/ Work(x).at = "deliver" /\ Work(x).token \in Work(x).event
    PROVE  HInv'
<1> DEFINE s == queues[r]
<1>1. /\ Doing(r)' = Work(x) /\ \A q \in Requests \ {r} : Doing(q)' = Doing(q)
      /\ SlotHolders' = SlotHolders
  BY SlotsMove DEF SlotHolders, Subscribed, StreamPlaces
<1>2. /\ UNCHANGED <<slots, clients, hubClosed, left>> /\ queues' = [queues EXCEPT ![r] = s]
      /\ s \in Seq(SUBSET Tokens) /\ Len(s) <= Buffer /\ left' \subseteq Requests
  BY DEF hubVars, HInv, HubTyped
<1>3. Doing(r).token \in cookies
  BY StreamToken DEF Subscribed, StreamPlaces
<1>4. Subscribed(r)' /\ Doing(r)'.at # "event"
  BY <1>1 DEF Subscribed
<1>5. sessions'[Doing(r)'.token] > now' => \A i \in 1 .. Len(s) : Doing(r)'.token \in s[i]
  BY <1>1, <1>3 DEF HInv, EventsEntitle
<1>6. Doing(r)'.at = "deliver" => Doing(r)'.token \in Doing(r)'.event
  BY <1>1
<1> HIDE DEF s
<1> QED
  BY <1>1, <1>2, <1>4, <1>5, <1>6, HubMoves

\* A handler that was no subscriber has nothing queued, and moves on to where
\* it is none either.
LEMMA OutsiderMoves ==
    ASSUME SInv, HInv, NEW r \in Requests, NEW x \in Works \cup Purges, Goto(r, x),
           UNCHANGED <<clients, queues, hubClosed>>, left' \subseteq Requests,
           \A t \in cookies : sessions'[t] > now' => sessions[t] > now,
           ~Subscribed(r),
           Work(x).at \notin {"hello", "streaming", "event", "deliver", "closing"},
           \/ slots' = slots /\ SlotHolders' = SlotHolders
           \/ slots' = slots + 1 /\ slots < StreamSlots /\ r \notin SlotHolders
              /\ SlotHolders' = SlotHolders \cup {r}
           \/ slots' = slots - 1 /\ r \in SlotHolders /\ SlotHolders' = SlotHolders \ {r}
    PROVE  HInv'
<1>1. /\ Doing(r)' = Work(x) /\ \A q \in Requests \ {r} : Doing(q)' = Doing(q)
  BY SlotsMove
<1>2. r \notin clients /\ queues[r] = <<>>
  BY DEF HInv, QueuesFollow
<1>3. queues' = [queues EXCEPT ![r] = <<>>] /\ <<>> \in Seq(SUBSET Tokens) /\ Len(<<>>) <= Buffer
  BY <1>2, StreamConstants DEF HInv, HubTyped
<1>4. ~Subscribed(r)' /\ Doing(r)'.at # "event" /\ Doing(r)'.at # "deliver"
  BY <1>1 DEF Subscribed
<1> QED
  BY <1>1, <1>2, <1>3, <1>4, HubMoves

\* The steps of the events handler keep slots, subscriptions and queues in step.
LEMMA StreamStepHub ==
    ASSUME SInv, HInv, NEW r \in Requests,
           OpenStream(r) \/ StreamStep(r) \/ HeartbeatFails(r)
    PROVE  HInv'
<1> USE StreamConstants
<1> DEFINE Quiet == \A t \in cookies : sessions'[t] > now' => sessions[t] > now
           t0 == requests[r].token
           expired == {t0} \cap Expired(sessions)
<1>0. requests[r].at \in HolderPlaces \ {"revoke"} /\ requests[r].at # "purge"
  BY DEF OpenStream, StreamStep, HeartbeatFails, TakeSlot, Subscribe, Write, ReceiveEvent, Check,
         StreamEnds, SessionCheck, CloseStream, ReleaseSlot, At, HolderPlaces, StreamPlaces
<1>1. /\ requests[r] \in Works /\ Doing(r) = requests[r] /\ t0 \in Tokens /\ t0 \in cookies
  BY <1>0, AtPlace
<1>2. /\ Idle \in Works /\ Idle \in Deferred /\ AtStream(r, "closing") \in Deferred
      /\ \A place \in StreamPlaces \ EventPlaces : AtStream(r, place) \in Works
      /\ \A place \in EventPlaces, e \in SUBSET Tokens :
            [at |-> place, token |-> t0, event |-> e] \in Works
      /\ requests[r].at \in EventPlaces => requests[r].event \in SUBSET Tokens
  BY <1>0, StreamPlain
<1>3. {"slot", "subscribe", "hello", "streaming", "closing", "releasing"}
         \subseteq StreamPlaces \ EventPlaces /\ "event" \in EventPlaces /\ "deliver" \in EventPlaces
  BY DEF StreamPlaces, EventPlaces
<1>4. \A place \in StreamPlaces \ EventPlaces :
          Work(AtStream(r, place)) = AtStream(r, place)
          /\ AtStream(r, place).at = place /\ AtStream(r, place).token = t0
  BY <1>2, WorkIsNow DEF AtStream
<1>5. Work(Idle) = Idle /\ Idle.at = "idle"
  BY WorkKinds, WorkIsNow
<1>6. Quiet
  BY FewerLive
     DEF OpenStream, StreamStep, HeartbeatFails, TakeSlot, Subscribe, Write, ReceiveEvent, Check,
         CheckedEvent, StreamEnds, SessionCheck, CloseStream, ReleaseSlot, IfMatches, Remove
<1>7. /\ expired \in SUBSET Tokens
      /\ Purging(expired, Idle) \in Works \cup Purges /\ Work(Purging(expired, Idle)) = Idle
      /\ Purging(expired, AtStream(r, "closing")) \in Works \cup Purges
      /\ Work(Purging(expired, AtStream(r, "closing"))) = AtStream(r, "closing")
  <2>1. expired \in SUBSET Tokens
    BY <1>1
  <2> HIDE DEF expired
  <2> QED
    BY <2>1, <1>2, PurgingThen
<1>8. left \subseteq Requests /\ slots \in 0 .. StreamSlots
  BY DEF HInv, HubTyped
<1>9. CASE OpenStream(r)
  <2>1. ~Subscribed(r) /\ r \notin SlotHolders
    BY <1>1, <1>9 DEF OpenStream, At, Subscribed, SlotHolders, StreamPlaces
  <2>2. Goto(r, AtStream(r, "slot")) \/ Goto(r, Purging(expired, Idle))
    BY <1>9 DEF OpenStream, IfMatches
  <2>3. UNCHANGED <<slots, clients, queues, hubClosed, left>>
    BY <1>9 DEF OpenStream, hubVars
  <2> HIDE DEF Quiet, expired, t0
  <2>4. PICK x \in Works \cup Purges : Goto(r, x) /\ Work(x).at \in {"slot", "idle"}
    BY <1>2, <1>3, <1>4, <1>5, <1>7, <2>2
  <2>5. SlotHolders' = SlotHolders
    BY <2>1, <2>4, SlotsMove DEF StreamPlaces
  <2> QED
    BY <1>6, <1>8, <2>1, <2>3, <2>4, <2>5, OutsiderMoves DEF Quiet
<1>10. CASE TakeSlot(r)
  <2>1. ~Subscribed(r) /\ r \notin SlotHolders
    BY <1>1, <1>10 DEF TakeSlot, At, Subscribed, SlotHolders
  <2>2. UNCHANGED <<clients, queues, hubClosed>> /\ left' \subseteq Requests
    BY <1>8, <1>10 DEF TakeSlot
  <2>3. CASE slots < StreamSlots
    <3>1. Goto(r, AtStream(r, "subscribe")) /\ slots' = slots + 1
      BY <1>10, <2>3 DEF TakeSlot
    <3>2. SlotHolders' = SlotHolders \cup {r}
      BY <1>2, <1>3, <1>4, <3>1, SlotsMove
    <3> HIDE DEF Quiet, t0
    <3> QED
      BY <1>2, <1>3, <1>4, <1>6, <2>1, <2>2, <2>3, <3>1, <3>2, OutsiderMoves DEF Quiet
  <2>4. CASE ~(slots < StreamSlots)
    <3>1. Goto(r, Idle) /\ slots' = slots
      BY <1>10, <2>4 DEF TakeSlot
    <3>2. SlotHolders' = SlotHolders
      BY <1>2, <1>5, <2>1, <3>1, SlotsMove DEF StreamPlaces
    <3> HIDE DEF Quiet, t0
    <3> QED
      BY <1>2, <1>5, <1>6, <2>1, <2>2, <3>1, <3>2, OutsiderMoves DEF Quiet
  <2> QED
    BY <2>3, <2>4
<1>11. CASE Subscribe(r)
  <2>1. ~Subscribed(r) /\ r \in SlotHolders
    BY <1>1, <1>11 DEF Subscribe, At, Subscribed, SlotHolders, StreamPlaces
  <2>2. UNCHANGED <<slots, queues, hubClosed, left>>
    BY <1>11 DEF Subscribe
  <2>3. CASE hubClosed \/ Cardinality(clients) >= HubCapacity
    <3>1. Goto(r, AtStream(r, "releasing")) /\ clients' = clients
      BY <1>11, <2>3 DEF Subscribe
    <3>2. SlotHolders' = SlotHolders
      BY <1>2, <1>3, <1>4, <2>1, <3>1, SlotsMove
    <3> HIDE DEF Quiet, t0
    <3> QED
      BY <1>2, <1>3, <1>4, <1>6, <1>8, <2>1, <2>2, <3>1, <3>2, OutsiderMoves DEF Quiet
  <2>4. CASE ~(hubClosed \/ Cardinality(clients) >= HubCapacity)
    <3>1. Goto(r, AtStream(r, "hello")) /\ clients' = clients \cup {r} /\ ~hubClosed
      BY <1>11, <2>4 DEF Subscribe
    <3>2. /\ SlotHolders' = SlotHolders /\ Doing(r)' = AtStream(r, "hello")
          /\ \A q \in Requests \ {r} : Doing(q)' = Doing(q)
      BY <1>2, <1>3, <1>4, <2>1, <3>1, SlotsMove
    <3>3. queues[r] = <<>>
      BY <2>1 DEF HInv, QueuesFollow
    <3>4. queues' = [queues EXCEPT ![r] = <<>>] /\ <<>> \in Seq(SUBSET Tokens) /\ Len(<<>>) <= Buffer
      BY <2>2, <3>3 DEF HInv, HubTyped
    <3>5. Subscribed(r)' /\ Doing(r)'.at # "event" /\ Doing(r)'.at # "deliver"
      BY <1>3, <1>4, <3>2 DEF Subscribed
    <3>6. \A i \in 1 .. Len(<<>>) : Doing(r)'.token \in <<>>[i]
      OBVIOUS
    <3> HIDE DEF Quiet, t0
    <3> QED
      BY <1>6, <1>8, <2>2, <3>1, <3>2, <3>4, <3>5, <3>6, HubMoves DEF Quiet
  <2> QED
    BY <2>3, <2>4
<1>12. ASSUME NEW place \in {"streaming", "closing"}, Goto(r, AtStream(r, place)), UNCHANGED hubVars,
              requests[r].at \in {"hello", "deliver", "streaming"}
       PROVE  HInv'
  <2>1. Subscribed(r)
    BY <1>1, <1>12 DEF Subscribed
  <2> HIDE DEF Quiet
  <2> QED
    BY <1>1, <1>2, <1>3, <1>4, <1>6, <1>12, <2>1, SubscriberMoves DEF Quiet
<1>13. ASSUME Goto(r, Purging(expired, AtStream(r, "closing"))), UNCHANGED hubVars,
              requests[r].at \in {"event", "streaming"}
       PROVE  HInv'
  <2>1. Subscribed(r)
    BY <1>1, <1>13 DEF Subscribed
  <2> HIDE DEF Quiet, expired
  <2> QED
    BY <1>1, <1>3, <1>4, <1>6, <1>7, <1>13, <2>1, SubscriberMoves DEF Quiet
<1>14. CASE Write(r)
  BY <1>12, <1>14 DEF Write, WriteSSE
<1>15. CASE StreamEnds(r)
  BY <1>12, <1>15 DEF StreamEnds, At
<1>16. CASE HeartbeatFails(r)
  BY <1>12, <1>16 DEF HeartbeatFails, At
<1>17. CASE SessionCheck(r)
  <2>1. Goto(r, Purging(expired, AtStream(r, "closing"))) /\ UNCHANGED hubVars
        /\ requests[r].at = "streaming"
    BY <1>17 DEF SessionCheck, IfMatches, At
  <2> QED
    BY <2>1, <1>13
<1>18. CASE Check(r)
  <2> DEFINE y == [at |-> "deliver", token |-> t0, event |-> requests[r].event]
  <2>1. requests[r].at = "event" /\ UNCHANGED hubVars
    BY <1>18 DEF Check, At
  <2>2. IfMatches(r, y, AtStream(r, "closing"))
    BY <1>18 DEF Check, CheckedEvent
  <2>3. CASE Matches(r)
    <3>1. Goto(r, y)
      BY <2>2, <2>3 DEF IfMatches
    <3>2. y \in Works /\ Work(y) = y /\ y.at = "deliver" /\ y.token = t0 /\ y.event = requests[r].event
      BY <1>2, <1>3, <2>1, WorkIsNow
    <3>3. t0 \in requests[r].event
      BY <1>1, <2>1, <2>3 DEF HInv, EventsEntitle, Matches
    <3>4. Subscribed(r)
      BY <1>1, <2>1 DEF Subscribed
    <3> HIDE DEF Quiet, y
    <3> QED
      BY <1>1, <1>6, <2>1, <3>1, <3>2, <3>3, <3>4, SubscriberMoves DEF Quiet
  <2>4. CASE ~Matches(r)
    BY <1>13, <2>1, <2>2, <2>4 DEF IfMatches
  <2> QED
    BY <2>3, <2>4
<1>19. CASE ReceiveEvent(r)
  <2> DEFINE y == [at |-> "event", token |-> t0, event |-> Head(queues[r])]
             s == Tail(queues[r])
  <2>1. /\ requests[r].at = "streaming" /\ queues[r] # <<>> /\ Goto(r, y)
        /\ queues' = [queues EXCEPT ![r] = s] /\ UNCHANGED <<slots, clients, hubClosed, left>>
    BY <1>19 DEF ReceiveEvent, At
  <2>2. queues[r] \in Seq(SUBSET Tokens) /\ Len(queues[r]) <= Buffer
    BY DEF HInv, HubTyped
  <2>3. /\ Head(queues[r]) \in SUBSET Tokens /\ s \in Seq(SUBSET Tokens)
        /\ Len(s) = Len(queues[r]) - 1 /\ Len(queues[r]) \in Nat /\ Len(queues[r]) >= 1
        /\ Head(queues[r]) = queues[r][1]
        /\ \A i \in 1 .. Len(s) : s[i] = queues[r][i + 1]
    BY <2>1, <2>2
  <2>4. y \in Works /\ Work(y) = y /\ y.at = "event" /\ y.token = t0 /\ y.event = Head(queues[r])
    BY <1>2, <1>3, <2>3, WorkIsNow
  <2>5. Subscribed(r) /\ r \in SlotHolders
    BY <1>1, <2>1 DEF Subscribed, SlotHolders, StreamPlaces
  <2> HIDE DEF y, s, t0, Quiet
  <2>6. /\ Doing(r)' = y /\ \A q \in Requests \ {r} : Doing(q)' = Doing(q)
        /\ SlotHolders' = SlotHolders
    BY <2>1, <2>4, <2>5, SlotsMove DEF StreamPlaces
  <2>7. Subscribed(r)' /\ Doing(r)'.at # "deliver"
    BY <2>4, <2>6 DEF Subscribed
  <2>8. sessions'[t0] > now' => \A i \in 1 .. Len(queues[r]) : t0 \in queues[r][i]
    BY <1>1, <1>6, <2>5 DEF HInv, EventsEntitle, Quiet, t0
  <2>9. /\ sessions'[Doing(r)'.token] > now' => \A i \in 1 .. Len(s) : Doing(r)'.token \in s[i]
        /\ sessions'[Doing(r)'.token] > now' => Doing(r)'.token \in Doing(r)'.event
    <3>1. ASSUME sessions'[t0] > now', NEW i \in 1 .. Len(s)
          PROVE  t0 \in s[i]
      <4>1. i + 1 \in 1 .. Len(queues[r])
        BY <2>3
      <4> QED
        BY <4>1, <3>1, <2>3, <2>8
    <3>2. 1 \in 1 .. Len(queues[r])
      BY <2>3
    <3> QED
      BY <3>1, <3>2, <2>3, <2>4, <2>6, <2>8
  <2>10. Len(s) <= Buffer
    BY <2>2, <2>3
  <2> QED
    BY <1>6, <1>8, <2>1, <2>3, <2>6, <2>7, <2>9, <2>10, HubMoves DEF Quiet
<1>20. CASE CloseStream(r)
  <2>1. /\ requests[r].at = "closing" /\ Goto(r, AtStream(r, "releasing"))
        /\ queues' = [queues EXCEPT ![r] = <<>>] /\ clients' = clients \ {r}
        /\ UNCHANGED <<slots, hubClosed, left>>
    BY <1>20 DEF CloseStream, CancelSubscription, At
  <2>2. r \in SlotHolders
    BY <1>1, <2>1 DEF SlotHolders, StreamPlaces
  <2>3. /\ Doing(r)' = AtStream(r, "releasing") /\ \A q \in Requests \ {r} : Doing(q)' = Doing(q)
        /\ SlotHolders' = SlotHolders
    BY <1>2, <1>3, <1>4, <2>1, <2>2, SlotsMove
  <2>4. ~Subscribed(r)' /\ Doing(r)'.at # "event" /\ Doing(r)'.at # "deliver"
    BY <1>3, <1>4, <2>3 DEF Subscribed
  <2>5. <<>> \in Seq(SUBSET Tokens) /\ Len(<<>>) <= Buffer
    OBVIOUS
  <2> HIDE DEF Quiet, t0
  <2> QED
    BY <1>6, <1>8, <2>1, <2>3, <2>4, <2>5, HubMoves DEF Quiet
<1>21. CASE ReleaseSlot(r)
  <2>1. /\ requests[r].at = "releasing" /\ Goto(r, Idle) /\ slots' = slots - 1
        /\ UNCHANGED <<clients, queues, hubClosed>> /\ left' \subseteq Requests
    BY <1>8, <1>21 DEF ReleaseSlot, At
  <2>2. ~Subscribed(r) /\ r \in SlotHolders
    BY <1>1, <2>1 DEF SlotHolders, StreamPlaces, Subscribed
  <2>3. SlotHolders' = SlotHolders \ {r}
    BY <1>2, <1>5, <2>1, SlotsMove DEF StreamPlaces
  <2> HIDE DEF Quiet, t0
  <2> QED
    BY <1>2, <1>5, <1>6, <2>1, <2>2, <2>3, OutsiderMoves DEF Quiet
<1> QED
  BY <1>9, <1>10, <1>11, <1>14, <1>15, <1>16, <1>17, <1>18, <1>19, <1>20, <1>21 DEF StreamStep

\* Nothing of the sessions changes.
LEMMA SessionsRest ==
    ASSUME SInv, UNCHANGED sessionVars
    PROVE  /\ SInv' /\ UNCHANGED <<now, sessions>>
           /\ \A r \in Requests : Doing(r)' = Doing(r) /\ (Subscribed(r)' <=> Subscribed(r))
           /\ SlotHolders' = SlotHolders
<1>1. UNCHANGED <<now, sessions, pending, attempts, rows, requests, lastToken, cookies, revoked>>
  BY DEF sessionVars
<1>2. \A r \in Requests : Doing(r)' = Doing(r)
  BY <1>1 DEF Doing
<1>3. \A r \in Requests : /\ Storing(r)' <=> Storing(r)
                          /\ Holding(r)' <=> Holding(r)
                          /\ Subscribed(r)' <=> Subscribed(r)
  BY <1>2 DEF Storing, Holding, Subscribed
<1>4. RequestsTyped' /\ StateTyped'
  BY <1>1 DEF SInv, RequestsTyped, StateTyped
<1>5. StoringFresh' /\ PendingOwned'
  BY <1>1, <1>2, <1>3 DEF SInv, StoringFresh, PendingOwned
<1>6. HoldersKnown' /\ DoomedGone' /\ LoginsMarked'
  BY <1>1, <1>2, <1>3 DEF SInv, HoldersKnown, DoomedGone, LoginsMarked
<1>7. RowsFollow' /\ WithinLimit' /\ LoginStateFollowsSession' /\ RevokedStaysRevoked'
  BY <1>1 DEF SInv, RowsFollow, WithinLimit, Present, LoginStateFollowsSession, RevokedStaysRevoked
<1>8. LiveSessionIsDurable'
  BY <1>1 DEF SInv, LiveSessionIsDurable, At
<1>9. SlotHolders' = SlotHolders
  BY <1>2 DEF SlotHolders
<1> QED
  BY <1>1, <1>2, <1>3, <1>4, <1>5, <1>6, <1>7, <1>8, <1>9 DEF SInv

\* A browser goes, its subscription ends, or the hub closes.
LEMMA HubShrinks ==
    ASSUME SInv, HInv, UNCHANGED sessionVars, UNCHANGED <<slots, queues>>,
           clients' \subseteq clients, left' \subseteq Requests, hubClosed' \in BOOLEAN,
           hubClosed' => clients' = {}
    PROVE  HInv'
<1>1. /\ UNCHANGED <<now, sessions>> /\ SlotHolders' = SlotHolders
      /\ \A r \in Requests : Doing(r)' = Doing(r) /\ (Subscribed(r)' <=> Subscribed(r))
  BY SessionsRest
<1>2. HubTyped'
  BY <1>1 DEF HInv, HubTyped
<1>3. QueuesFollow'
  BY <1>1 DEF HInv, QueuesFollow
<1>4. EventsEntitle'
  BY <1>1 DEF HInv, EventsEntitle
<1> QED
  BY <1>2, <1>3, <1>4 DEF HInv

\* publish reaches the subscribers that have room, and only with what their
\* browsers may see.
LEMMA PublishKeeps ==
    ASSUME SInv, HInv, Publish
    PROVE  HInv'
<1> USE StreamConstants
<1>1. /\ UNCHANGED sessionVars /\ UNCHANGED <<slots, clients, hubClosed, left>>
      /\ queues' = [r \in Requests |->
                       IF r \in clients /\ Len(queues[r]) < Buffer
                       THEN Append(queues[r], Entitled) ELSE queues[r]]
  BY DEF Publish
<1>2. /\ UNCHANGED <<now, sessions>> /\ SlotHolders' = SlotHolders
      /\ \A r \in Requests : Doing(r)' = Doing(r) /\ (Subscribed(r)' <=> Subscribed(r))
  BY <1>1, SessionsRest
<1>3. Entitled \in SUBSET Tokens
  BY DEF Entitled
<1>4. ASSUME NEW r \in Requests
      PROVE  \/ queues'[r] = queues[r]
             \/ r \in clients /\ queues'[r] = Append(queues[r], Entitled) /\ Len(queues[r]) < Buffer
  BY <1>1
<1>5. ASSUME NEW r \in Requests
      PROVE  queues'[r] \in Seq(SUBSET Tokens) /\ Len(queues'[r]) <= Buffer
  <2>1. queues[r] \in Seq(SUBSET Tokens) /\ Len(queues[r]) <= Buffer
    BY DEF HInv, HubTyped
  <2>2. CASE queues'[r] = queues[r]
    BY <2>1, <2>2
  <2>3. CASE queues'[r] = Append(queues[r], Entitled) /\ Len(queues[r]) < Buffer
    <3>1. /\ Append(queues[r], Entitled) \in Seq(SUBSET Tokens)
          /\ Len(Append(queues[r], Entitled)) = Len(queues[r]) + 1 /\ Len(queues[r]) \in Nat
      BY <2>1, <1>3
    <3> QED
      BY <2>3, <3>1
  <2> QED
    BY <2>2, <2>3, <1>4
<1>6. HubTyped'
  <2>1. queues' \in [Requests -> Seq(SUBSET Tokens)]
    BY <1>1, <1>5
  <2> QED
    BY <2>1, <1>1, <1>2, <1>5 DEF HInv, HubTyped
<1>7. QueuesFollow'
  BY <1>1, <1>2, <1>4 DEF HInv, QueuesFollow
<1>8. EventsEntitle'
  <2> SUFFICES ASSUME NEW r \in Requests
               PROVE  /\ Subscribed(r) /\ sessions[Doing(r).token] > now =>
                            \A i \in 1 .. Len(queues'[r]) : Doing(r).token \in queues'[r][i]
                      /\ Doing(r).at = "event" /\ sessions[Doing(r).token] > now =>
                            Doing(r).token \in Doing(r).event
                      /\ Doing(r).at = "deliver" => Doing(r).token \in Doing(r).event
    BY <1>2 DEF EventsEntitle
  <2>1. ASSUME Subscribed(r), sessions[Doing(r).token] > now, NEW i \in 1 .. Len(queues'[r])
        PROVE  Doing(r).token \in queues'[r][i]
    <3>1. Doing(r).token \in Entitled
      BY <2>1, StreamToken DEF Entitled, Subscribed, StreamPlaces
    <3>2. \A j \in 1 .. Len(queues[r]) : Doing(r).token \in queues[r][j]
      BY <2>1 DEF HInv, EventsEntitle
    <3>3. queues[r] \in Seq(SUBSET Tokens)
      BY DEF HInv, HubTyped
    <3>4. CASE queues'[r] = queues[r]
      BY <3>2, <3>4, <2>1
    <3>5. CASE queues'[r] = Append(queues[r], Entitled)
      BY <3>1, <3>2, <3>3, <3>5, <2>1, <1>3
    <3> QED
      BY <3>4, <3>5, <1>4
  <2> QED
    BY <2>1 DEF HInv, EventsEntitle
<1> QED
  BY <1>6, <1>7, <1>8 DEF HInv

\* After a crash there are no streams.
LEMMA RestartHub ==
    ASSUME SInv, RestartStreams
    PROVE  HInv'
<1> USE StreamConstants
<1>1. /\ requests' = [r \in Requests |-> Idle] /\ queues' = [r \in Requests |-> <<>>]
      /\ slots' = 0 /\ clients' = {} /\ left' = {} /\ hubClosed' = FALSE
  BY DEF RestartStreams, Restart
<1>2. \A r \in Requests : Doing(r)' = Idle /\ Idle.at = "idle" /\ queues'[r] = <<>>
  BY <1>1, WorkIsNow, WorkKinds DEF Doing
<1>3. SlotHolders' = {}
  BY <1>2 DEF SlotHolders, StreamPlaces
<1>4. HubTyped'
  <2>1. IsFiniteSet(SlotHolders') /\ Cardinality(SlotHolders') = 0
    BY <1>3, FS_EmptySet
  <2>2. /\ queues' \in [Requests -> Seq(SUBSET Tokens)]
        /\ \A r \in Requests : Len(queues'[r]) <= Buffer
    BY <1>1, <1>2
  <2>3. slots' \in 0 .. StreamSlots /\ clients' \subseteq Requests /\ left' \subseteq Requests
    BY <1>1
  <2>4. hubClosed' \in BOOLEAN /\ (hubClosed' => clients' = {})
    BY <1>1
  <2> QED
    BY <1>1, <2>1, <2>2, <2>3, <2>4 DEF HubTyped
<1>5. QueuesFollow'
  BY <1>1, <1>2 DEF QueuesFollow
<1>6. EventsEntitle'
  BY <1>2 DEF EventsEntitle, Subscribed
<1> QED
  BY <1>4, <1>5, <1>6 DEF HInv

\* The initial state satisfies the invariant.
LEMMA EInvInit == Init => EInv
<1> SUFFICES ASSUME Init PROVE EInv
  OBVIOUS
<1> USE StreamConstants
<1>1. SInv
  BY SessionsInitially DEF Init
<1>2. \A r \in Requests : Doing(r) = Idle /\ Idle.at = "idle" /\ queues[r] = <<>>
  BY WorkIsNow, WorkKinds DEF Doing, Init, SessionsInit
<1>3. SlotHolders = {}
  BY <1>2 DEF SlotHolders, StreamPlaces
<1>4. HubTyped
  <2>1. IsFiniteSet(SlotHolders) /\ Cardinality(SlotHolders) = 0
    BY <1>3, FS_EmptySet
  <2>2. /\ queues \in [Requests -> Seq(SUBSET Tokens)]
        /\ \A r \in Requests : Len(queues[r]) <= Buffer
    BY <1>2 DEF Init
  <2>3. slots \in 0 .. StreamSlots /\ slots = 0 /\ clients \subseteq Requests /\ left \subseteq Requests
    BY DEF Init
  <2>4. hubClosed \in BOOLEAN /\ (hubClosed => clients = {})
    BY DEF Init
  <2> QED
    BY <2>1, <2>2, <2>3, <2>4 DEF HubTyped
<1>5. QueuesFollow /\ EventsEntitle
  BY <1>2 DEF QueuesFollow, EventsEntitle, Subscribed, Init
<1> QED
  BY <1>1, <1>4, <1>5 DEF EInv, HInv

\* Every step preserves it.
LEMMA EInvStep == EInv /\ [Next]_vars => EInv'
<1> SUFFICES ASSUME SInv, HInv, [Next]_vars PROVE SInv' /\ HInv'
  BY DEF EInv
<1>1. HubTyped /\ left \subseteq Requests /\ clients \subseteq Requests /\ hubClosed \in BOOLEAN
      /\ (hubClosed => clients = {})
  BY DEF HInv, HubTyped
<1>2. ASSUME NEW r \in Requests, SessionStep(r), UNCHANGED hubVars
      PROVE  SInv' /\ HInv'
  BY <1>2, SessionStepKeeps, SessionStepHub
<1>3. ASSUME NEW r \in Requests, OpenStream(r) \/ StreamStep(r) \/ HeartbeatFails(r)
      PROVE  SInv' /\ HInv'
  BY <1>1, <1>3, StreamKeepsSessions, StreamStepHub
<1>4. ASSUME NEW r \in Requests, BrowserLeaves(r) \/ Watcher(r)
      PROVE  SInv' /\ HInv'
  <2>1. /\ UNCHANGED sessionVars /\ UNCHANGED <<slots, queues>>
        /\ clients' \subseteq clients /\ left' \subseteq Requests /\ hubClosed' \in BOOLEAN
        /\ (hubClosed' => clients' = {})
    BY <1>1, <1>4 DEF BrowserLeaves, Watcher, CancelSubscription
  <2> QED
    BY <2>1, HubShrinks, SessionsRest
<1>5. CASE Publish
  BY <1>5, PublishKeeps, SessionsRest DEF Publish
<1>6. CASE CloseHub
  <2>1. /\ UNCHANGED sessionVars /\ UNCHANGED <<slots, queues>>
        /\ clients' \subseteq clients /\ left' \subseteq Requests /\ hubClosed' \in BOOLEAN
        /\ (hubClosed' => clients' = {})
    BY <1>1, <1>6 DEF CloseHub
  <2> QED
    BY <2>1, HubShrinks, SessionsRest
<1>7. CASE RestartStreams
  BY <1>7, RestartKeeps, RestartHub DEF RestartStreams
<1>8. CASE Tick /\ UNCHANGED hubVars
  <2>1. SInv'
    BY <1>8, TickKeeps
  <2>2. \A q \in Requests : Doing(q)' = Doing(q)
    BY <1>8 DEF Tick, Doing
  <2>3. \A t \in cookies : sessions'[t] > now' => sessions[t] > now
    <3> SUFFICES ASSUME NEW t \in cookies, sessions[t] > now'
                 PROVE  sessions[t] > now
      BY <1>8 DEF Tick
    <3>1. now \in Nat /\ now' = now + 1 /\ sessions[t] \in Nat
      BY <1>8, BrowserConstants DEF Tick, SInv, StateTyped, Tokens, Expiries
    <3> QED
      BY <3>1
  <2> QED
    BY <1>8, <2>1, <2>2, <2>3, HubStays
<1>9. CASE UNCHANGED vars
  <2>1. UNCHANGED sessionVars /\ UNCHANGED hubVars
    BY <1>9 DEF vars
  <2>2. SInv' /\ UNCHANGED <<now, sessions>> /\ \A q \in Requests : Doing(q)' = Doing(q)
    BY <2>1, SessionsRest
  <2> QED
    BY <2>1, <2>2, HubStays
<1> QED
  BY <1>2, <1>3, <1>4, <1>5, <1>6, <1>7, <1>8, <1>9 DEF Next

----------------------------------------------------------------------------
(* What follows.                                                            *)

\* A browser that stores its session has a place in the table.
LEMMA Honoured == SInv => ReservationIsHonoured
<1> SUFFICES ASSUME SInv, NEW r \in Requests, At(r, "save"), now < requests[r].expiry
             PROVE  CanSave(requests[r].expiry)
  BY DEF ReservationIsHonoured
<1> DEFINE t0 == requests[r].token
           others == pending \ {t0}
<1>1. Doing(r) = requests[r] /\ requests[r].at = "save" /\ Storing(r)
  BY AtPlace DEF At, Storing
<1>2. t0 \in pending /\ rows[t0] = 0
  BY <1>1 DEF SInv, StoringFresh
<1>3. /\ LiveRows \in SUBSET Tokens /\ Present(sessions) \in SUBSET Tokens
      /\ pending \in SUBSET Tokens
  BY BrowserConstants DEF SInv, StateTyped, LiveRows, Present, Tokens
<1>4. LiveRows \subseteq Present(sessions) \cup others
  <2> SUFFICES ASSUME NEW t \in Tokens, rows[t] > now
               PROVE  t \in Present(sessions) \/ t \in others
    BY DEF LiveRows
  <2>1. t # t0 /\ rows[t] # 0
    BY <1>2 DEF SInv, StateTyped
  <2> QED
    BY <2>1 DEF SInv, RowsFollow, Present
<1> HIDE DEF t0
<1>5. others \in SUBSET Tokens /\ Cardinality(others) = Cardinality(pending) - 1
  BY <1>2, <1>3, TokensFinite, FS_RemoveElement
<1> HIDE DEF others
<1>6. Cardinality(LiveRows) <= Cardinality(Present(sessions) \cup others)
  BY <1>3, <1>4, <1>5, TokensFinite
<1>7. Cardinality(Present(sessions) \cup others) =
         Cardinality(Present(sessions)) + Cardinality(others)
            - Cardinality(Present(sessions) \cap others)
  BY <1>3, <1>5, TokensFinite, FS_Union
<1>8. /\ Cardinality(LiveRows) \in Nat /\ Cardinality(Present(sessions)) \in Nat
      /\ Cardinality(pending) \in Nat /\ Cardinality(Present(sessions) \cap others) \in Nat
  BY <1>3, <1>5, TokensFinite
<1>9. Cardinality(LiveRows) < MaxSessions
  BY <1>5, <1>6, <1>7, <1>8, BrowserConstants DEF SInv, WithinLimit
<1> QED
  BY <1>9, PruneExact DEF CanSave

\* The sessions' invariant gives what the runs check of sessions.
LEMMA SessionsFollow == SInv => SessionsInv
<1> SUFFICES ASSUME SInv PROVE SessionsInv
  OBVIOUS
<1>1. \A r \in Requests : \/ requests[r] \in Works /\ Doing(r) = requests[r]
                          \/ /\ requests[r] \in Purges /\ requests[r].at = "purge"
                             /\ Doing(r) = requests[r].then /\ Doing(r) \in Deferred
  BY WorkIsNow DEF SInv, RequestsTyped, Purges, Doing, Work
<1>2. SessionsTypeOK
  <2>1. \A r \in Requests : requests[r].at \in
            {"idle", "purge", "save", "admit", "authenticated", "revoke", "backend"} \cup StreamPlaces
    BY <1>1, WorkFields DEF HolderPlaces
  <2>2. pending \subseteq Tokens
    BY BrowserConstants DEF SInv, StateTyped, Tokens
  <2>3. Cardinality({t \in Tokens : sessions[t] # 0}) + Cardinality(pending) <= MaxSessions
    BY DEF SInv, WithinLimit, Present
  <2> QED
    BY <2>1, <2>2, <2>3 DEF SInv, StateTyped, SessionsTypeOK
<1>3. PendingHasOwner
  <2> SUFFICES ASSUME NEW t \in pending
               PROVE  \E r \in Requests :
                         \/ requests[r].at \in {"save", "admit"} /\ requests[r].token = t
                         \/ At(r, "purge") /\ requests[r].then.at = "save" /\ requests[r].then.token = t
    BY DEF PendingHasOwner
  <2>1. PICK r \in Requests : Storing(r) /\ Doing(r).token = t
    BY DEF SInv, PendingOwned
  <2>2. CASE Doing(r) = requests[r]
    BY <2>1, <2>2 DEF Storing
  <2>3. CASE requests[r].at = "purge" /\ Doing(r) = requests[r].then /\ Doing(r) \in Deferred
    BY <2>1, <2>3 DEF Storing, Deferred, At
  <2> QED
    BY <1>1, <2>2, <2>3
<1>4. OneLoginPerSession
  <2> SUFFICES ASSUME NEW q \in Requests, NEW r \in Requests, At(q, "backend"), At(r, "backend"),
                      requests[q].token = requests[r].token
               PROVE  q = r
    BY DEF OneLoginPerSession
  <2>1. Doing(q) = requests[q] /\ Doing(r) = requests[r]
    BY AtPlace DEF At
  <2> QED
    BY <2>1 DEF SInv, LoginsMarked, At
<1> QED
  BY <1>2, <1>3, <1>4, Honoured DEF SessionsInv, SInv

\* The streams' invariant gives what the runs check of streams.
LEMMA StreamsFollow == SInv /\ HInv => StreamsAccounted
<1> SUFFICES ASSUME SInv, HInv PROVE StreamsAccounted
  OBVIOUS
<1>1. \A r \in Requests : \/ requests[r].at # "purge" /\ Doing(r) = requests[r]
                          \/ /\ requests[r].at = "purge" /\ Doing(r) = requests[r].then
                             /\ Doing(r) \in Deferred
  <2>1. \A y \in Works : y.at # "purge"
    BY WorkFields DEF HolderPlaces, StreamPlaces
  <2> QED
    BY <2>1 DEF SInv, RequestsTyped, Purges, Doing, Work
<1>2. SlotHolders = {r \in Requests : \/ Streaming(r)
                                      \/ At(r, "purge") /\ requests[r].then.at = "closing"}
  <2> SUFFICES ASSUME NEW r \in Requests
               PROVE  Doing(r).at \in StreamPlaces \ {"slot"} <=>
                         \/ requests[r].at \in StreamPlaces \ {"slot"}
                         \/ requests[r].at = "purge" /\ requests[r].then.at = "closing"
    BY DEF SlotHolders, Streaming, At
  <2>1. CASE requests[r].at # "purge" /\ Doing(r) = requests[r]
    BY <2>1
  <2>2. CASE requests[r].at = "purge" /\ Doing(r) = requests[r].then /\ Doing(r) \in Deferred
    BY <2>2 DEF Deferred, StreamPlaces
  <2> QED
    BY <1>1, <2>1, <2>2
<1>3. ASSUME NEW r \in clients
      PROVE  \/ requests[r].at \in StreamPlaces \ {"slot", "subscribe", "releasing"}
             \/ At(r, "purge") /\ requests[r].then.at = "closing"
  <2>1. r \in Requests /\ Subscribed(r)
    BY <1>3 DEF HInv, HubTyped, QueuesFollow
  <2>2. CASE Doing(r) = requests[r]
    BY <2>1, <2>2 DEF Subscribed, StreamPlaces
  <2>3. CASE requests[r].at = "purge" /\ Doing(r) = requests[r].then /\ Doing(r) \in Deferred
    BY <2>1, <2>3 DEF Subscribed, Deferred, At
  <2> QED
    BY <1>1, <2>1, <2>2, <2>3
<1>4. ASSUME StreamSlots <= HubCapacity, NEW r \in Requests, At(r, "subscribe")
      PROVE  Cardinality(clients) < HubCapacity
  <2>1. Doing(r).at = "subscribe"
    BY <1>1, <1>4 DEF At
  <2>2. r \in SlotHolders /\ clients \subseteq SlotHolders \ {r}
    BY <2>1 DEF SlotHolders, StreamPlaces, HInv, HubTyped, QueuesFollow, Subscribed
  <2>3. IsFiniteSet(SlotHolders) /\ Cardinality(SlotHolders) = slots /\ slots \in 0 .. StreamSlots
    BY DEF HInv, HubTyped
  <2>4. IsFiniteSet(SlotHolders \ {r}) /\ Cardinality(SlotHolders \ {r}) = slots - 1
    BY <2>2, <2>3, FS_RemoveElement
  <2>5. IsFiniteSet(clients) /\ Cardinality(clients) <= slots - 1
    BY <2>2, <2>4, FS_Subset
  <2>6. Cardinality(clients) \in Nat
    BY <2>5, FS_CardinalityType
  <2> QED
    BY <1>4, <2>3, <2>5, <2>6, StreamConstants
<1>5. HubTypeOK /\ (hubClosed => clients = {}) /\ slots = Cardinality(SlotHolders)
  BY DEF HInv, HubTyped, HubTypeOK
<1> QED
  BY <1>2, <1>3, <1>4, <1>5 DEF StreamsAccounted

----------------------------------------------------------------------------
(* Theorems.                                                                *)

\* The inductive invariant holds in every reachable state.
THEOREM StreamsInvariant == Spec => []EInv
BY EInvInit, EInvStep, PTL DEF Spec

\* Memory, table, reservations, login state, slots and subscriptions agree in
\* every reachable state: a live session is on disk, a reservation has an owner
\* and is honoured, a session has one login in flight at most, and slots are
\* held exactly by the handlers that took one.
THEOREM StreamsInvHolds == Spec => []StreamsInv
<1>1. EInv => StreamsInv
  BY SessionsFollow, StreamsFollow DEF EInv, StreamsInv
<1> QED
  BY <1>1, StreamsInvariant, PTL

\* A browser whose lock request succeeded stays locked out, in memory and on
\* disk, whatever other requests, crashes and restarts follow.
THEOREM RevokedHolds == Spec => []RevokedStaysRevoked
<1>1. EInv => RevokedStaysRevoked
  BY DEF EInv, SInv
<1> QED
  BY <1>1, StreamsInvariant, PTL

\* No event is written to a browser whose session was not live when the event
\* was published.
THEOREM EventsHold == Spec => []EventsStayEntitled
<1>1. ASSUME EInv PROVE EventsStayEntitled
  <2> SUFFICES ASSUME NEW r \in Requests, At(r, "deliver")
               PROVE  requests[r].token \in requests[r].event
    BY DEF EventsStayEntitled
  <2>1. Doing(r) = requests[r] /\ requests[r].at = "deliver"
    BY <1>1, AtPlace DEF At, EInv
  <2> QED
    BY <1>1, <2>1 DEF EInv, HInv, EventsEntitle
<1> QED
  BY <1>1, StreamsInvariant, PTL
=============================================================================
