------------------------ MODULE SubscriptionService ------------------------
(***************************************************************************)
(* The subscription that clients fetch (internal/subscription/service.go): *)
(* one rendered body per account binding, kept in SQLite and in a cache,   *)
(* re-rendered when a request reaches a wildcard listener through another  *)
(* address, with a durable proof that exactly this body was fetched.       *)
(*                                                                         *)
(* Every method runs under s.mu, and the ones that store also under the    *)
(* runtime's mutex, so each is a step; a response is several steps.        *)
(***************************************************************************)
EXTENDS Naturals, FiniteSets

CONSTANTS
    Users, NoUser,
    Catalogues,     \* what a snapshot's nodes render to, address aside
    Addresses,      \* host:port a client may reach the SOCKS listener by
    Wildcard,       \* the configured listener, an unspecified address
    NoBody, NoProof,
    Responses,      \* response slots: subscriptionResponseConcurrency
    MaxGeneration   \* bound of the model

ASSUME SubscriptionConstants ==
    /\ NoUser \notin Users
    /\ Wildcard \notin Addresses
    /\ MaxGeneration \in Nat \ {0}

VARIABLES
    store,      \* the aggregate's subscription and LastGood state
    cache,      \* s.cache
    address,    \* s.socksAddress
    operating,  \* a login or refresh holds the runtime's mutex
    responses,  \* per slot: the request being served
    delivered   \* history: generation and body of complete responses

vars == <<store, cache, address, operating, responses, delivered>>

Listen == Addresses \cup {Wildcard}

\* A rendered body: the links of a catalogue at an address, with credentials
\* of a generation.
Body == [generation : 1 .. MaxGeneration, catalogue : Catalogues, address : Listen]

\* An empty body and a missing proof (nil in the code) are no bodies.
ASSUME AbsentIsNoBody == NoBody \notin Body /\ NoProof \notin Body

\* fetched is the exact body the proof names.
Aggregate == [account : Users \cup {NoUser}, generation : 1 .. MaxGeneration,
              body : Body \cup {NoBody}, fetched : Body \cup {NoProof}]

Idle == [at |-> "idle"]

\* The one type invariant of this module.
TypeOK ==
    /\ store \in Aggregate
    /\ cache \in [account : Users \cup {NoUser}, generation : 0 .. MaxGeneration,
                  body : Body \cup {NoBody}, fetched : Body \cup {NoProof},
                  fetching : BOOLEAN]
    /\ address \in Listen
    /\ operating \in BOOLEAN
    /\ \A r \in Responses :
           \/ responses[r] = Idle
           \/ /\ responses[r].at \in {"adapt", "reread", "write", "record", "proof"}
              /\ responses[r].body \in Body
    /\ delivered \subseteq Body

----------------------------------------------------------------------------
(* The cache.                                                               *)

EmptyCache == [account |-> NoUser, generation |-> 0, body |-> NoBody,
               fetched |-> NoProof, fetching |-> FALSE]

\* What the aggregate says, without the flag.
Primed(s) ==
    IF s.account = NoUser \/ s.body = NoBody THEN EmptyCache
    ELSE [account |-> s.account, generation |-> s.generation, body |-> s.body,
          fetched |-> s.fetched, fetching |-> FALSE]

\* primeCacheLocked: the flag survives when the body stays the same.
PrimeCache(s) ==
    cache' = [Primed(s) EXCEPT !.fetching =
                 /\ cache.fetching
                 /\ cache.account = Primed(s).account
                 /\ cache.generation = Primed(s).generation
                 /\ cache.body = Primed(s).body]

\* The proof of the cached body exists.
FetchedExact == cache.fetched # NoProof /\ cache.fetched = cache.body

----------------------------------------------------------------------------
(* Publication by a login or refresh.                                       *)

Init ==
    /\ store = [account |-> NoUser, generation |-> 1, body |-> NoBody, fetched |-> NoProof]
    /\ cache = EmptyCache
    /\ address = Wildcard
    /\ operating = FALSE
    /\ responses = [r \in Responses |-> Idle]
    /\ delivered = {}

Operation ==
    /\ operating' = ~operating
    /\ UNCHANGED <<store, cache, address, responses, delivered>>

\* The generation PrepareRuntimeCommit plans for the account.
PlannedGeneration(user) ==
    IF store.account \in {NoUser, user} THEN store.generation ELSE store.generation + 1

Rendered(generation, catalogue) ==
    [generation |-> generation, catalogue |-> catalogue, address |-> address]

\* updateLastGood drops the proof of another body.
ProofOf(body) == IF store.body = body THEN store.fetched ELSE NoProof

\* CommitRuntimeSnapshot.  A first binding and an account change start from an
\* empty LastGood state.
Commit(user, catalogue) ==
    /\ operating
    /\ PlannedGeneration(user) <= MaxGeneration
    /\ LET body == Rendered(PlannedGeneration(user), catalogue) IN
           store' = [account |-> user, generation |-> PlannedGeneration(user), body |-> body,
                     fetched |-> IF store.account = user THEN ProofOf(body) ELSE NoProof]
    /\ PrimeCache(store')
    /\ UNCHANGED <<address, operating, responses, delivered>>

----------------------------------------------------------------------------
(* The listener address.                                                    *)

\* Fault: re-rendering keeps the proof of the old body.
ReconciledProven(a) ==
    IF store.body = NoBody \/ store.body.address = a THEN store
    ELSE [store EXCEPT !.body.address = a]

\* reconcileListenerAddress: the stored body at the new address, unproven.
Reconciled(a) ==
    IF store.body = NoBody \/ store.body.address = a THEN store
    ELSE [store EXCEPT !.body.address = a, !.fetched = NoProof]

\* Fault: the new address stays although the body could not be stored.
AddressStays(a) == address' = a /\ UNCHANGED <<store, cache>>

\* A load or an update failed: the previous address is restored.
AddressFails(a) == a # address /\ UNCHANGED <<address, store, cache>>

\* SetSocksAddress, which waits for the runtime's mutex.
SetSocksAddress(a) ==
    /\ ~operating
    /\ \/ a = address /\ UNCHANGED <<address, store, cache>>
       \/ /\ a # address
          /\ address' = a
          /\ store' = Reconciled(a)
          /\ PrimeCache(store')

\* An administrator asks for the subscription URL through some address.
SubscriptionURL(a) ==
    /\ SetSocksAddress(a) \/ (~operating /\ AddressFails(a))
    /\ UNCHANGED <<operating, responses, delivered>>

----------------------------------------------------------------------------
(* A response.                                                              *)

Matches(user) == cache.body # NoBody /\ cache.account = user

Holding(r, phase) ==
    responses' = [responses EXCEPT ![r].at = phase, ![r].body = cache.body]

End(r) == responses' = [responses EXCEPT ![r] = Idle]

\* A slot is free and the path names the cached binding; anything else is
\* answered busy or not found at once.
Request(r, user, a) ==
    /\ responses[r] = Idle
    /\ Matches(user)
    /\ responses' = [responses EXCEPT ![r] = [at |-> "adapt", user |-> user, wanted |-> a,
                                              body |-> cache.body]]
    /\ UNCHANGED <<store, cache, address, operating, delivered>>

Adapt(r) ==
    /\ responses[r].at = "adapt"
    /\ \/ /\ SetSocksAddress(responses[r].wanted)
          /\ responses' = [responses EXCEPT ![r].at = "reread"]
       \/ /\ ~operating
          /\ AddressFails(responses[r].wanted)
          /\ End(r)
    /\ UNCHANGED <<operating, delivered>>

\* Fault: the path is not checked again after the wait.
RereadUnchecked(r) ==
    /\ responses[r].at = "reread"
    /\ \/ cache.body # NoBody /\ Holding(r, "write")
       \/ cache.body = NoBody /\ End(r)
    /\ UNCHANGED <<store, cache, address, operating, delivered>>

\* Fault: a response that finds another address adapts it again.
RereadRetrying(r) ==
    /\ responses[r].at = "reread"
    /\ \/ /\ Matches(responses[r].user)
          /\ Holding(r, IF cache.body.address = responses[r].wanted THEN "write"
                        ELSE "adapt")
       \/ ~Matches(responses[r].user) /\ End(r)
    /\ UNCHANGED <<store, cache, address, operating, delivered>>

Reread(r) ==
    /\ responses[r].at = "reread"
    /\ \/ Matches(responses[r].user) /\ Holding(r, "write")
       \/ ~Matches(responses[r].user) /\ End(r)
    /\ UNCHANGED <<store, cache, address, operating, delivered>>

\* Every byte was accepted, or the client went away.
Write(r) ==
    /\ responses[r].at = "write"
    /\ \/ /\ delivered' = delivered \cup {responses[r].body}
          /\ responses' = [responses EXCEPT ![r].at = "record"]
       \/ End(r) /\ UNCHANGED delivered
    /\ UNCHANGED <<store, cache, address, operating>>

\* recordActiveFetch, first half: one recorder per body.
StillCached(r) == cache.body = responses[r].body

Record(r) ==
    /\ responses[r].at = "record"
    /\ IF StillCached(r) /\ ~FetchedExact /\ ~cache.fetching
       THEN /\ cache' = [cache EXCEPT !.fetching = TRUE]
            /\ responses' = [responses EXCEPT ![r].at = "proof"]
       ELSE End(r) /\ UNCHANGED cache
    /\ UNCHANGED <<store, address, operating, delivered>>

\* The recorder, now with the mutex, still finds its body and flag.
RecordsThis(r) == StillCached(r) /\ cache.fetching

\* The store failed: another fetch may try again.
RecordFails == cache' = [cache EXCEPT !.fetching = FALSE] /\ UNCHANGED store

RecordStores ==
    /\ store' = [store EXCEPT !.fetched = cache.body]
    /\ PrimeCache(store')

\* Second half, after waiting for the runtime's mutex.
Prove(r) ==
    /\ responses[r].at = "proof"
    /\ ~operating
    /\ \/ ~RecordsThis(r) /\ UNCHANGED <<store, cache>>
       \/ RecordsThis(r) /\ FetchedExact
             /\ cache' = [cache EXCEPT !.fetching = FALSE] /\ UNCHANGED store
       \/ RecordsThis(r) /\ ~FetchedExact /\ RecordStores
       \/ RecordsThis(r) /\ ~FetchedExact /\ RecordFails
    /\ End(r)
    /\ UNCHANGED <<address, operating, delivered>>

----------------------------------------------------------------------------
\* NewService: a wildcard listener takes over the concrete address of the
\* stored body.
StartAddress == IF store.body = NoBody THEN Wildcard ELSE store.body.address

Restart ==
    /\ address' = StartAddress
    /\ cache' = Primed(store)
    /\ operating' = FALSE
    /\ responses' = [r \in Responses |-> Idle]
    /\ UNCHANGED <<store, delivered>>

Serve(r) ==
    \/ \E u \in Users, a \in Addresses : Request(r, u, a)
    \/ Adapt(r) \/ Reread(r) \/ Write(r) \/ Record(r) \/ Prove(r)

Next ==
    \/ Operation
    \/ \E u \in Users, c \in Catalogues : Commit(u, c)
    \/ \E a \in Addresses : SubscriptionURL(a)
    \/ \E r \in Responses : Serve(r)
    \/ Restart

Spec == Init /\ [][Next]_vars

\* Handlers run on, clients read or disconnect, and operations end.
FairSpec ==
    /\ Spec
    /\ WF_vars(operating /\ Operation)
    /\ \A r \in Responses : WF_vars(Write(r)) /\ WF_vars(Reread(r)) /\ WF_vars(Record(r))
    /\ \A r \in Responses : SF_vars(Adapt(r)) /\ SF_vars(Prove(r))

----------------------------------------------------------------------------
(* Properties.                                                              *)

\* The cache, the only thing a request is checked against, never differs from
\* what a restart would load: no store, re-rendering or proof reaches one of
\* the two alone.
CacheIsDurable ==
    /\ cache.account = Primed(store).account
    /\ cache.generation = Primed(store).generation
    /\ cache.body = Primed(store).body
    /\ cache.fetched = Primed(store).fetched

\* The flag that keeps a second recorder away has a recorder behind it, or
\* nothing is left to record: a body never stays unproven because of it.
FetchingHasRecorder ==
    cache.fetching /\ ~FetchedExact =>
        \E r \in Responses : responses[r].at = "proof" /\ responses[r].body = cache.body

\* The cached body was rendered in the bound generation for the address the
\* service believes it is reached by, also when re-rendering failed.
BodyIsCurrent ==
    cache.body # NoBody => /\ cache.body.address = address
                           /\ cache.body.generation = cache.generation

\* Every variable is well formed, cache and aggregate agree on a body that is
\* current, and no flag is left behind by a recorder or a failed re-rendering.
CacheInv == TypeOK /\ CacheIsDurable /\ FetchingHasRecorder /\ BodyIsCurrent

\* A client gets links of the account its path was checked against, although
\* the account may change while the request waits for the runtime's mutex: a
\* body about to be written that carries the bound generation's credentials
\* goes to the bound account, and no generation goes to two accounts.
ServedToItsAccount ==
    \A r \in Responses : responses[r].at = "write" =>
        /\ responses[r].body.generation = cache.generation => responses[r].user = cache.account
        /\ \A s \in Responses :
               responses[s].at = "write" /\ responses[s].user # responses[r].user
                   => responses[s].body.generation # responses[r].body.generation

\* A stored proof names the current body, and that body was delivered to a
\* client in full, although it was changed and changed back meanwhile
\* ("persists proof only after every response byte was accepted, and only if
\* the exact body/generation remains current").
ProofIsExact ==
    store.fetched # NoProof => store.fetched = store.body /\ store.fetched \in delivered

\* A request is answered: no response keeps its slot for ever, even though it
\* waits for the runtime's mutex twice.
SlotsAreReleased == \A r \in Responses : []<>(responses[r] = Idle)

\* "serves a valid binding after adapting a wildcard SOCKS listener to the
\* concrete host used for this request": the body written is for the address
\* the client used.  Not an invariant: another request may adapt the service
\* between Adapt and Reread.
ServedAtWantedAddress ==
    \A r \in Responses : responses[r].at = "write" =>
        responses[r].body.address = responses[r].wanted
============================================================================
