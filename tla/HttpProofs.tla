----------------------------- MODULE HttpProofs -----------------------------
(***************************************************************************)
(* Proofs about two services to HTTP clients.  The subscription: cache and *)
(* store agree, and no client gets another account's links, for any        *)
(* accounts, addresses and responses.  The throttle of access tokens:      *)
(* verifications, pauses and the number of failures per client are         *)
(* limited, for any clients, requests and limits.                          *)
(***************************************************************************)
EXTENDS SubscriptionService, AccessAdmission, FiniteSetTheorems, TLAPS

----------------------------------------------------------------------------
(* The subscription: its inductive invariant.                               *)

\* A response in progress: TypeOK and the request it answers.
Response == [at : {"adapt", "reread", "write", "record", "proof"},
             user : Users, wanted : Addresses, body : Body]

ResponsesTyped == responses \in [Responses -> {Idle} \cup Response]

\* The aggregate has a body exactly when an account is bound, rendered in its
\* generation for the listener's address.
StoreIsCurrent ==
    /\ (store.account = NoUser) <=> (store.body = NoBody)
    /\ store.body # NoBody => /\ store.body.address = address
                              /\ store.body.generation = store.generation

\* What a recorder is about to prove was delivered.
RecordedWasDelivered ==
    \A r \in Responses : responses[r].at \in {"record", "proof"} =>
        responses[r].body \in delivered

\* A body being written is of the bound generation and goes to the bound account,
\* or it is of an earlier one: generations never go back.
WrittenIsNotAhead ==
    \A r \in Responses : responses[r].at = "write" =>
        /\ responses[r].body.generation <= store.generation
        /\ responses[r].body.generation = store.generation => responses[r].user = store.account

\* No generation is written to two accounts.
OneAccountPerGeneration ==
    \A r, s \in Responses :
        responses[r].at = "write" /\ responses[s].at = "write"
            /\ responses[r].body.generation = responses[s].body.generation
            => responses[r].user = responses[s].user

\* CacheInv, ServedToItsAccount and ProofIsExact with what they rest on.
SubscriptionInv ==
    /\ TypeOK /\ ResponsesTyped
    /\ CacheIsDurable /\ FetchingHasRecorder /\ StoreIsCurrent
    /\ RecordedWasDelivered /\ ProofIsExact
    /\ WrittenIsNotAhead /\ OneAccountPerGeneration

----------------------------------------------------------------------------
(* Lemmas on the cache.                                                     *)

\* primeCacheLocked leaves the cache of a well-formed aggregate well formed, equal
\* to it, and fetching only what was being fetched before.
LEMMA PrimeCacheLoads ==
    ASSUME TypeOK, store' \in Aggregate, PrimeCache(store')
    PROVE  /\ cache' \in [account : Users \cup {NoUser}, generation : 0 .. MaxGeneration,
                          body : Body \cup {NoBody}, fetched : Body \cup {NoProof},
                          fetching : BOOLEAN]
           /\ CacheIsDurable'
           /\ cache'.fetching => cache.fetching /\ cache.body = cache'.body
                                   /\ cache.account = cache'.account
<1>1. PICK f \in BOOLEAN :
          /\ cache' = [Primed(store') EXCEPT !.fetching = f]
          /\ f => /\ cache.fetching /\ cache.body = Primed(store').body
                  /\ cache.account = Primed(store').account
  BY DEF PrimeCache, TypeOK
<1>2. CASE store'.account = NoUser \/ store'.body = NoBody
  BY <1>1, <1>2, SubscriptionConstants DEF Primed, EmptyCache, CacheIsDurable
<1>3. CASE ~(store'.account = NoUser \/ store'.body = NoBody)
  BY <1>1, <1>3, SubscriptionConstants DEF Primed, EmptyCache, CacheIsDurable, Aggregate
<1> QED
  BY <1>2, <1>3

----------------------------------------------------------------------------
(* The invariant holds.                                                     *)

\* A new service without a binding satisfies the invariant.
LEMMA SubscriptionInit == Init => SubscriptionInv
<1> SUFFICES ASSUME Init PROVE SubscriptionInv
  OBVIOUS
<1> USE SubscriptionConstants DEF Init
<1>1. TypeOK
  <2>1. store \in Aggregate
    BY SubscriptionConstants DEF Aggregate
  <2>2. cache \in [account : Users \cup {NoUser}, generation : 0 .. MaxGeneration,
                   body : Body \cup {NoBody}, fetched : Body \cup {NoProof},
                   fetching : BOOLEAN]
    BY SubscriptionConstants DEF EmptyCache
  <2> QED
    BY <2>1, <2>2 DEF TypeOK, Listen
<1>2. ResponsesTyped
  BY DEF ResponsesTyped
<1>3. CacheIsDurable /\ FetchingHasRecorder
  BY DEF CacheIsDurable, Primed, EmptyCache, FetchingHasRecorder
<1>4. StoreIsCurrent /\ ProofIsExact
  BY DEF StoreIsCurrent, ProofIsExact
<1>5. RecordedWasDelivered /\ WrittenIsNotAhead /\ OneAccountPerGeneration
  BY DEF RecordedWasDelivered, WrittenIsNotAhead, OneAccountPerGeneration, Idle
<1> QED
  BY <1>1, <1>2, <1>3, <1>4, <1>5 DEF SubscriptionInv

\* CommitRuntimeSnapshot: a new account takes a new generation, and the proof goes
\* unless the body stays.
LEMMA CommitPreserves ==
    ASSUME SubscriptionInv, NEW u \in Users, NEW c \in Catalogues, Commit(u, c)
    PROVE  SubscriptionInv'
<1> DEFINE g == PlannedGeneration(u)
<1> DEFINE b == Rendered(g, c)
<1> USE SubscriptionConstants, AbsentIsNoBody
<1>1. g \in 1 .. MaxGeneration /\ g >= store.generation
  BY DEF SubscriptionInv, TypeOK, Aggregate, Commit, PlannedGeneration
<1>2. b \in Body /\ b.generation = g /\ b.address = address
  BY <1>1 DEF SubscriptionInv, TypeOK, Rendered, Body
<1>3. /\ store'.account = u /\ store'.generation = g /\ store'.body = b
      /\ store'.fetched = IF store.account = u THEN ProofOf(b) ELSE NoProof
      /\ UNCHANGED <<address, operating, responses, delivered>>
      /\ PrimeCache(store')
  BY DEF Commit
<1>4. store' \in Aggregate
  BY <1>1, <1>2 DEF Commit, SubscriptionInv, TypeOK, Aggregate, ProofOf
<1> HIDE DEF g, b
<1>5. TypeOK' /\ CacheIsDurable'
  BY <1>3, <1>4, PrimeCacheLoads DEF SubscriptionInv, TypeOK
<1>6. ResponsesTyped' /\ RecordedWasDelivered'
  BY <1>3 DEF SubscriptionInv, ResponsesTyped, RecordedWasDelivered
<1>7. StoreIsCurrent'
  BY <1>2, <1>3 DEF StoreIsCurrent
<1>8. ProofIsExact'
  BY <1>3 DEF SubscriptionInv, ProofIsExact, ProofOf
<1>9. FetchingHasRecorder'
  <2> SUFFICES ASSUME cache'.fetching, ~FetchedExact'
               PROVE  \E r \in Responses : responses[r].at = "proof" /\ responses[r].body = cache'.body
    BY <1>3 DEF FetchingHasRecorder
  <2>1. cache.fetching /\ cache.body = cache'.body /\ cache.account = cache'.account
    BY <1>3, <1>4, PrimeCacheLoads DEF SubscriptionInv
  <2>2. cache'.account = u /\ cache'.body = b /\ cache'.fetched = store'.fetched
    BY <1>2, <1>3, <1>5 DEF CacheIsDurable, Primed
  <2>3. store.account = u /\ store.body = b /\ cache.fetched = store.fetched
    BY <1>2, <2>1, <2>2 DEF SubscriptionInv, CacheIsDurable, Primed, EmptyCache
  <2>4. ~FetchedExact
    BY <1>3, <2>1, <2>2, <2>3 DEF FetchedExact, ProofOf
  <2> QED
    BY <2>1, <2>4 DEF SubscriptionInv, FetchingHasRecorder
<1>10. WrittenIsNotAhead'
  <2> SUFFICES ASSUME NEW r \in Responses, responses[r].at = "write"
               PROVE  /\ responses[r].body.generation <= g
                      /\ responses[r].body.generation = g => responses[r].user = u
    BY <1>3 DEF WrittenIsNotAhead
  <2>1. responses[r] \in Response
    BY DEF SubscriptionInv, ResponsesTyped, Idle
  <2>2. /\ responses[r].body.generation \in 1 .. MaxGeneration
        /\ responses[r].user \in Users
    BY <2>1 DEF Response, Body
  <2>3. /\ responses[r].body.generation <= store.generation
        /\ responses[r].body.generation = store.generation => responses[r].user = store.account
    BY DEF SubscriptionInv, WrittenIsNotAhead
  <2>4. store.generation \in Nat
    BY DEF SubscriptionInv, TypeOK, Aggregate
  <2> QED
    BY <1>1, <2>2, <2>3, <2>4 DEF g, PlannedGeneration
<1>11. OneAccountPerGeneration'
  BY <1>3 DEF SubscriptionInv, OneAccountPerGeneration
<1> QED
  BY <1>5, <1>6, <1>7, <1>8, <1>9, <1>10, <1>11 DEF SubscriptionInv

\* The address is set or stays while at most responses that wait for it move on:
\* the re-rendered body is unproven, and cache and aggregate take it together.
LEMMA AddressPreserves ==
    ASSUME SubscriptionInv, NEW a \in Addresses,
           SetSocksAddress(a) \/ AddressFails(a),
           UNCHANGED <<operating, delivered>>, ResponsesTyped',
           \A r \in Responses :
               \/ responses'[r] = responses[r]
               \/ /\ responses[r].at = "adapt"
                  /\ responses'[r].at \notin {"write", "record", "proof"}
    PROVE  SubscriptionInv'
<1> USE AbsentIsNoBody
<1>1. RecordedWasDelivered' /\ OneAccountPerGeneration'
  BY DEF SubscriptionInv, RecordedWasDelivered, OneAccountPerGeneration
<1>2. \A r \in Responses :
          \/ responses'[r] = Idle
          \/ /\ responses'[r].at \in {"adapt", "reread", "write", "record", "proof"}
             /\ responses'[r].body \in Body
  BY DEF ResponsesTyped, Response
<1>3. \A r \in Responses : responses[r].at = "proof" => responses'[r] = responses[r]
  OBVIOUS
<1>4. CASE UNCHANGED <<address, store, cache>>
  <2>1. TypeOK'
    BY <1>2, <1>4 DEF SubscriptionInv, TypeOK
  <2>2. CacheIsDurable' /\ StoreIsCurrent' /\ ProofIsExact'
    BY <1>4 DEF SubscriptionInv, CacheIsDurable, StoreIsCurrent, ProofIsExact
  <2>3. FetchingHasRecorder'
    BY <1>3, <1>4 DEF SubscriptionInv, FetchingHasRecorder, FetchedExact
  <2>4. WrittenIsNotAhead'
    BY <1>4 DEF SubscriptionInv, WrittenIsNotAhead
  <2> QED
    BY <1>1, <2>1, <2>2, <2>3, <2>4 DEF SubscriptionInv
<1>5. CASE /\ address' = a
           /\ store' = Reconciled(a)
           /\ PrimeCache(store')
  <2>1. /\ store' \in Aggregate
        /\ store'.account = store.account /\ store'.generation = store.generation
        /\ store'.body = NoBody <=> store.body = NoBody
        /\ store'.body # NoBody => /\ store'.body.address = a
                                   /\ store'.body.generation = store.generation
        /\ \/ store'.body = store.body /\ store'.fetched = store.fetched
           \/ store'.body # store.body /\ store'.fetched = NoProof
    <3>1. CASE store.body = NoBody \/ store.body.address = a
      BY <1>5, <3>1 DEF Reconciled, SubscriptionInv, TypeOK, StoreIsCurrent
    <3>2. CASE ~(store.body = NoBody \/ store.body.address = a)
      <4>1. store \in Aggregate /\ store.body \in Body
        BY <3>2 DEF SubscriptionInv, TypeOK, Aggregate
      <4>2. store' = [store EXCEPT !.body = [store.body EXCEPT !.address = a], !.fetched = NoProof]
        BY <1>5, <3>2 DEF Reconciled
      <4>3. [store.body EXCEPT !.address = a] \in Body
        BY <4>1 DEF Body, Listen
      <4>4. [store.body EXCEPT !.address = a].address = a
        BY <4>1 DEF Body
      <4>5. [store.body EXCEPT !.address = a].generation = store.generation
        BY <3>2, <4>1 DEF Body, SubscriptionInv, StoreIsCurrent
      <4> HIDE DEF Body
      <4> QED
        BY <3>2, <4>1, <4>2, <4>3, <4>4, <4>5 DEF Aggregate
    <3> QED
      BY <3>1, <3>2
  <2>2. TypeOK' /\ CacheIsDurable'
    BY <1>2, <1>5, <2>1, PrimeCacheLoads DEF SubscriptionInv, TypeOK, Listen
  <2>3. StoreIsCurrent' /\ ProofIsExact'
    BY <1>5, <2>1 DEF SubscriptionInv, StoreIsCurrent, ProofIsExact
  <2>4. FetchingHasRecorder'
    <3> SUFFICES ASSUME cache'.fetching, ~FetchedExact'
                 PROVE  \E r \in Responses : responses[r].at = "proof" /\ responses[r].body = cache'.body
      BY <1>3 DEF FetchingHasRecorder
    <3>1. cache.fetching /\ cache.body = cache'.body
      BY <1>5, <2>1, PrimeCacheLoads DEF SubscriptionInv
    <3>2. cache.fetched = cache'.fetched
      BY <2>1, <2>2, <3>1 DEF SubscriptionInv, StoreIsCurrent, CacheIsDurable, Primed, EmptyCache
    <3>3. ~FetchedExact
      BY <3>1, <3>2 DEF FetchedExact
    <3> QED
      BY <3>1, <3>3 DEF SubscriptionInv, FetchingHasRecorder
  <2>5. WrittenIsNotAhead'
    BY <2>1 DEF SubscriptionInv, WrittenIsNotAhead
  <2> QED
    BY <1>1, <2>2, <2>3, <2>4, <2>5 DEF SubscriptionInv
<1> QED
  BY <1>4, <1>5 DEF SetSocksAddress, AddressFails

\* One response changes while aggregate, cache and address stay: what the
\* invariant asks of it is asked of the changed slot alone.
LEMMA ResponsePreserves ==
    ASSUME SubscriptionInv, NEW r \in Responses, NEW x \in {Idle} \cup Response,
           responses' = [responses EXCEPT ![r] = x],
           UNCHANGED <<store, cache, address, operating>>,
           delivered \subseteq delivered', delivered' \subseteq Body,
           x.at \in {"record", "proof"} => x.body \in delivered',
           x.at = "write" => x.body = store.body /\ x.user = store.account,
           responses[r].at # "proof"
    PROVE  SubscriptionInv'
<1> USE AbsentIsNoBody
<1>1. /\ responses \in [Responses -> {Idle} \cup Response]
      /\ \A s \in Responses : responses'[s] = IF s = r THEN x ELSE responses[s]
  BY DEF SubscriptionInv, ResponsesTyped
<1>2. ResponsesTyped'
  BY <1>1 DEF ResponsesTyped
<1>3. TypeOK'
  <2>1. \A s \in Responses :
            \/ responses'[s] = Idle
            \/ /\ responses'[s].at \in {"adapt", "reread", "write", "record", "proof"}
               /\ responses'[s].body \in Body
    BY <1>2 DEF ResponsesTyped, Response
  <2> QED
    BY <2>1 DEF SubscriptionInv, TypeOK
<1>4. CacheIsDurable' /\ StoreIsCurrent'
  BY DEF SubscriptionInv, CacheIsDurable, StoreIsCurrent
<1>5. ProofIsExact'
  BY DEF SubscriptionInv, ProofIsExact
<1>6. FetchingHasRecorder'
  BY <1>1 DEF SubscriptionInv, FetchingHasRecorder, FetchedExact
<1>7. RecordedWasDelivered'
  BY <1>1 DEF SubscriptionInv, RecordedWasDelivered
<1>8. x.at = "write" => x.body.generation = store.generation /\ store.generation \in Nat
  <2> SUFFICES ASSUME x.at = "write" PROVE x.body.generation = store.generation /\ store.generation \in Nat
    OBVIOUS
  <2>1. x.body \in Body
    BY DEF Response, Idle
  <2> QED
    BY <2>1 DEF SubscriptionInv, StoreIsCurrent, TypeOK, Aggregate
<1>9. WrittenIsNotAhead'
  BY <1>1, <1>8 DEF SubscriptionInv, WrittenIsNotAhead
<1>10. OneAccountPerGeneration'
  BY <1>1, <1>8 DEF SubscriptionInv, WrittenIsNotAhead, OneAccountPerGeneration
<1> QED
  BY <1>2, <1>3, <1>4, <1>5, <1>6, <1>7, <1>9, <1>10 DEF SubscriptionInv

\* recordActiveFetch, first half: the flag is set with a recorder behind it.
LEMMA RecordPreserves ==
    ASSUME SubscriptionInv, NEW r \in Responses, Record(r)
    PROVE  SubscriptionInv'
<1> USE AbsentIsNoBody
<1>1. /\ responses \in [Responses -> {Idle} \cup Response]
      /\ responses[r] \in Response /\ responses[r].at = "record"
      /\ responses[r].body \in Body /\ responses[r].body \in delivered
  BY DEF SubscriptionInv, ResponsesTyped, RecordedWasDelivered, Record, Idle, Response
<1>2. CASE End(r) /\ UNCHANGED cache
  <2>1. /\ responses' = [responses EXCEPT ![r] = Idle]
        /\ UNCHANGED <<store, cache, address, operating, delivered>>
    BY <1>2 DEF End, Record
  <2>2. delivered \subseteq Body /\ Idle.at = "idle"
    BY DEF SubscriptionInv, TypeOK, Idle
  <2> QED
    BY <1>1, <2>1, <2>2, ResponsePreserves
<1>3. CASE /\ cache' = [cache EXCEPT !.fetching = TRUE]
           /\ responses' = [responses EXCEPT ![r].at = "proof"]
           /\ StillCached(r)
  <2>1. /\ cache'.account = cache.account /\ cache'.generation = cache.generation
        /\ cache'.body = cache.body /\ cache'.fetched = cache.fetched
        /\ cache' \in [account : Users \cup {NoUser}, generation : 0 .. MaxGeneration,
                       body : Body \cup {NoBody}, fetched : Body \cup {NoProof},
                       fetching : BOOLEAN]
    BY <1>3 DEF SubscriptionInv, TypeOK
  <2>2. PICK x \in Response : /\ x.at = "proof" /\ x.body = responses[r].body
                              /\ responses' = [responses EXCEPT ![r] = x]
    <3>1. /\ [responses[r] EXCEPT !.at = "proof"] \in Response
          /\ [responses[r] EXCEPT !.at = "proof"].at = "proof"
          /\ [responses[r] EXCEPT !.at = "proof"].body = responses[r].body
      BY <1>1 DEF Response
    <3> QED
      BY <1>3, <3>1
  <2>3. \A s \in Responses : responses'[s] = IF s = r THEN x ELSE responses[s]
    BY <1>1, <2>2
  <2>4. ResponsesTyped'
    BY <1>1, <2>2 DEF ResponsesTyped
  <2>5. UNCHANGED <<store, address, operating, delivered>>
    BY DEF Record
  <2>6. TypeOK'
    <3>1. \A s \in Responses :
              \/ responses'[s] = Idle
              \/ /\ responses'[s].at \in {"adapt", "reread", "write", "record", "proof"}
                 /\ responses'[s].body \in Body
      BY <2>4 DEF ResponsesTyped, Response
    <3> QED
      BY <2>1, <2>5, <3>1 DEF SubscriptionInv, TypeOK
  <2>7. CacheIsDurable' /\ StoreIsCurrent' /\ ProofIsExact'
    BY <2>1, <2>5 DEF SubscriptionInv, CacheIsDurable, StoreIsCurrent, ProofIsExact
  <2>8. FetchingHasRecorder'
    BY <1>3, <2>1, <2>2, <2>3 DEF FetchingHasRecorder, StillCached
  <2>9. RecordedWasDelivered' /\ WrittenIsNotAhead' /\ OneAccountPerGeneration'
    BY <1>1, <2>2, <2>3, <2>5 DEF SubscriptionInv, RecordedWasDelivered, WrittenIsNotAhead,
                                  OneAccountPerGeneration
  <2> QED
    BY <2>4, <2>6, <2>7, <2>8, <2>9 DEF SubscriptionInv
<1> QED
  BY <1>2, <1>3 DEF Record

\* recordActiveFetch, second half: the recorder of the cached body stores the proof,
\* or takes the flag back; any other one leaves the flag to its owner.
LEMMA ProvePreserves ==
    ASSUME SubscriptionInv, NEW r \in Responses, Prove(r)
    PROVE  SubscriptionInv'
<1> USE AbsentIsNoBody
<1>1. /\ responses \in [Responses -> {Idle} \cup Response]
      /\ responses[r] \in Response /\ responses[r].at = "proof"
      /\ responses[r].body \in Body /\ responses[r].body \in delivered
  BY DEF SubscriptionInv, ResponsesTyped, RecordedWasDelivered, Prove, Idle, Response
<1>2. /\ UNCHANGED <<address, operating, delivered>>
      /\ \A s \in Responses : responses'[s] = IF s = r THEN Idle ELSE responses[s]
      /\ Idle.at = "idle"
  BY <1>1 DEF Prove, End, Idle
<1>3. ResponsesTyped'
  BY <1>1 DEF ResponsesTyped, Prove, End
<1>4. \A s \in Responses :
          \/ responses'[s] = Idle
          \/ /\ responses'[s].at \in {"adapt", "reread", "write", "record", "proof"}
             /\ responses'[s].body \in Body
  BY <1>3 DEF ResponsesTyped, Response
<1>5. RecordedWasDelivered' /\ OneAccountPerGeneration'
  BY <1>2 DEF SubscriptionInv, RecordedWasDelivered, OneAccountPerGeneration
<1>6. CASE UNCHANGED store /\ ~(RecordsThis(r) /\ RecordStores)
  <2>1. CASE UNCHANGED cache /\ ~RecordsThis(r)
    <3>1. TypeOK'
      BY <1>2, <1>4, <1>6, <2>1 DEF SubscriptionInv, TypeOK
    <3>2. CacheIsDurable' /\ StoreIsCurrent' /\ ProofIsExact' /\ WrittenIsNotAhead'
      BY <1>2, <1>6, <2>1 DEF SubscriptionInv, CacheIsDurable, StoreIsCurrent, ProofIsExact,
                              WrittenIsNotAhead
    <3>3. FetchingHasRecorder'
      BY <1>2, <2>1 DEF SubscriptionInv, FetchingHasRecorder, FetchedExact, RecordsThis,
                        StillCached
    <3> QED
      BY <1>3, <1>5, <3>1, <3>2, <3>3 DEF SubscriptionInv
  <2>2. CASE cache' = [cache EXCEPT !.fetching = FALSE]
    <3>1. /\ cache'.account = cache.account /\ cache'.generation = cache.generation
          /\ cache'.body = cache.body /\ cache'.fetched = cache.fetched
          /\ ~cache'.fetching
          /\ cache' \in [account : Users \cup {NoUser}, generation : 0 .. MaxGeneration,
                         body : Body \cup {NoBody}, fetched : Body \cup {NoProof},
                         fetching : BOOLEAN]
      BY <2>2 DEF SubscriptionInv, TypeOK
    <3>2. TypeOK'
      BY <1>2, <1>4, <1>6, <3>1 DEF SubscriptionInv, TypeOK
    <3>3. CacheIsDurable' /\ StoreIsCurrent' /\ ProofIsExact' /\ WrittenIsNotAhead'
      BY <1>2, <1>6, <3>1 DEF SubscriptionInv, CacheIsDurable, StoreIsCurrent, ProofIsExact,
                              WrittenIsNotAhead
    <3>4. FetchingHasRecorder'
      BY <3>1 DEF FetchingHasRecorder
    <3> QED
      BY <1>3, <1>5, <3>2, <3>3, <3>4 DEF SubscriptionInv
  <2> QED
    BY <1>6, <2>1, <2>2 DEF Prove, RecordFails
<1>7. CASE RecordsThis(r) /\ RecordStores
  <2>1. cache.body = responses[r].body /\ store.body = responses[r].body
    BY <1>1, <1>7 DEF RecordsThis, StillCached, SubscriptionInv, CacheIsDurable, Primed, EmptyCache
  <2>2. /\ store' \in Aggregate /\ store'.account = store.account
        /\ store'.generation = store.generation /\ store'.body = store.body
        /\ store'.fetched = store.body
    BY <1>1, <1>7, <2>1 DEF RecordStores, SubscriptionInv, TypeOK, Aggregate
  <2>3. TypeOK' /\ CacheIsDurable'
    BY <1>2, <1>4, <1>7, <2>2, PrimeCacheLoads DEF RecordStores, SubscriptionInv, TypeOK
  <2>4. StoreIsCurrent' /\ ProofIsExact' /\ WrittenIsNotAhead'
    BY <1>1, <1>2, <2>1, <2>2 DEF SubscriptionInv, StoreIsCurrent, ProofIsExact,
                                  WrittenIsNotAhead
  <2>5. FetchingHasRecorder'
    <3>1. store'.body \in Body /\ store'.account # NoUser
      BY <1>1, <2>1, <2>2 DEF SubscriptionInv, StoreIsCurrent
    <3>2. cache'.body = store'.body /\ cache'.fetched = store'.fetched
      BY <2>3, <3>1 DEF CacheIsDurable, Primed
    <3> QED
      BY <2>2, <3>1, <3>2 DEF FetchingHasRecorder, FetchedExact
  <2> QED
    BY <1>3, <1>5, <2>3, <2>4, <2>5 DEF SubscriptionInv
<1> QED
  BY <1>6, <1>7 DEF Prove, RecordFails

\* Every step of operations, listener changes, responses and restarts preserves
\* the invariant.
LEMMA SubscriptionStep == SubscriptionInv /\ [Next]_vars => SubscriptionInv'
<1> SUFFICES ASSUME SubscriptionInv, [Next]_vars PROVE SubscriptionInv'
  OBVIOUS
<1> USE AbsentIsNoBody
<1>0. /\ responses \in [Responses -> {Idle} \cup Response]
      /\ delivered \subseteq Body
      /\ Idle.at = "idle" /\ Idle \notin Response
  BY DEF SubscriptionInv, ResponsesTyped, TypeOK, Idle, Response
<1>1. CASE Operation
  <2>1. TypeOK'
    BY <1>1 DEF Operation, SubscriptionInv, TypeOK
  <2> QED
    BY <1>1, <2>1 DEF Operation, SubscriptionInv, ResponsesTyped, CacheIsDurable,
          FetchingHasRecorder, FetchedExact, StoreIsCurrent, RecordedWasDelivered,
          ProofIsExact, WrittenIsNotAhead, OneAccountPerGeneration
<1>2. ASSUME NEW u \in Users, NEW c \in Catalogues, Commit(u, c) PROVE SubscriptionInv'
  BY <1>2, CommitPreserves
<1>3. ASSUME NEW a \in Addresses, SubscriptionURL(a) PROVE SubscriptionInv'
  <2>1. ResponsesTyped'
    BY <1>3 DEF SubscriptionURL, SubscriptionInv, ResponsesTyped
  <2> QED
    BY <1>3, <2>1, AddressPreserves DEF SubscriptionURL
<1>4. ASSUME NEW r \in Responses, Serve(r) PROVE SubscriptionInv'
  <2>1. ASSUME NEW u \in Users, NEW a \in Addresses, Request(r, u, a) PROVE SubscriptionInv'
    <3> DEFINE x == [at |-> "adapt", user |-> u, wanted |-> a, body |-> cache.body]
    <3>1. cache.body \in Body
      BY <2>1 DEF Request, Matches, SubscriptionInv, TypeOK
    <3>2. x \in Response /\ x.at = "adapt"
      BY <3>1 DEF Response
    <3>3. /\ responses' = [responses EXCEPT ![r] = x]
          /\ UNCHANGED <<store, cache, address, operating, delivered>>
          /\ responses[r] = Idle
      BY <2>1 DEF Request
    <3> HIDE DEF x
    <3> QED
      BY <1>0, <3>2, <3>3, ResponsePreserves
  <2>2. CASE Adapt(r)
    <3>1. responses[r] \in Response /\ responses[r].wanted \in Addresses
      BY <1>0, <2>2 DEF Adapt, Response
    <3>2. PICK x \in {Idle} \cup Response : /\ x.at \in {"idle", "reread"}
                                           /\ responses' = [responses EXCEPT ![r] = x]
      <4>1. /\ [responses[r] EXCEPT !.at = "reread"] \in Response
            /\ [responses[r] EXCEPT !.at = "reread"].at = "reread"
        BY <3>1 DEF Response
      <4> QED
        BY <1>0, <2>2, <4>1 DEF Adapt, End
    <3>3. ResponsesTyped'
      BY <1>0, <3>2 DEF ResponsesTyped
    <3>4. /\ SetSocksAddress(responses[r].wanted) \/ AddressFails(responses[r].wanted)
          /\ UNCHANGED <<operating, delivered>>
          /\ responses[r].at = "adapt"
      BY <2>2 DEF Adapt
    <3>5. \A s \in Responses : responses'[s] = IF s = r THEN x ELSE responses[s]
      BY <1>0, <3>2
    <3> QED
      BY <3>1, <3>2, <3>3, <3>4, <3>5, AddressPreserves
  <2>3. CASE Reread(r)
    <3>1. responses[r] \in Response
      BY <1>0, <2>3 DEF Reread
    <3>2. UNCHANGED <<store, cache, address, operating, delivered>> /\ responses[r].at = "reread"
      BY <2>3 DEF Reread
    <3>3. CASE End(r)
      BY <1>0, <3>2, <3>3, ResponsePreserves DEF End
    <3>4. CASE Matches(responses[r].user) /\ Holding(r, "write")
      <4> DEFINE x == [responses[r] EXCEPT !.at = "write", !.body = cache.body]
      <4>1. cache.body \in Body
        BY <3>4 DEF Matches, SubscriptionInv, TypeOK
      <4>2. x \in Response /\ x.at = "write" /\ x.body = cache.body /\ x.user = responses[r].user
        BY <3>1, <4>1 DEF Response
      <4>3. responses' = [responses EXCEPT ![r] = x]
        BY <1>0, <3>4 DEF Holding
      <4>4. cache.body = store.body /\ responses[r].user = store.account
        BY <3>4 DEF Matches, SubscriptionInv, CacheIsDurable, Primed, EmptyCache
      <4> HIDE DEF x
      <4> QED
        BY <1>0, <3>2, <4>2, <4>3, <4>4, ResponsePreserves
    <3> QED
      BY <2>3, <3>3, <3>4 DEF Reread
  <2>4. CASE Write(r)
    <3>1. responses[r] \in Response /\ responses[r].body \in Body
      BY <1>0, <2>4 DEF Write, Response
    <3>2. UNCHANGED <<store, cache, address, operating>> /\ responses[r].at = "write"
      BY <2>4 DEF Write
    <3>3. CASE End(r) /\ UNCHANGED delivered
      BY <1>0, <3>2, <3>3, ResponsePreserves DEF End
    <3>4. CASE /\ delivered' = delivered \cup {responses[r].body}
               /\ responses' = [responses EXCEPT ![r].at = "record"]
      <4> DEFINE x == [responses[r] EXCEPT !.at = "record"]
      <4>1. x \in Response /\ x.at = "record" /\ x.body = responses[r].body
        BY <3>1 DEF Response
      <4>2. responses' = [responses EXCEPT ![r] = x]
        BY <3>4
      <4> HIDE DEF x
      <4> QED
        BY <1>0, <3>1, <3>2, <3>4, <4>1, <4>2, ResponsePreserves
    <3> QED
      BY <2>4, <3>3, <3>4 DEF Write
  <2> QED
    BY <1>4, <2>1, <2>2, <2>3, <2>4, RecordPreserves, ProvePreserves DEF Serve
<1>5. CASE Restart
  <2>1. store' = store /\ delivered' = delivered /\ cache' = Primed(store)
        /\ address' = StartAddress /\ operating' = FALSE
        /\ \A r \in Responses : responses'[r] = Idle
    BY <1>5 DEF Restart
  <2>2. ResponsesTyped'
    BY <1>5 DEF Restart, ResponsesTyped
  <2>3. /\ cache' \in [account : Users \cup {NoUser}, generation : 0 .. MaxGeneration,
                       body : Body \cup {NoBody}, fetched : Body \cup {NoProof},
                       fetching : BOOLEAN]
        /\ ~cache'.fetching
    BY <2>1, SubscriptionConstants DEF Primed, EmptyCache, SubscriptionInv, TypeOK, Aggregate
  <2>4. address' \in Listen /\ StoreIsCurrent'
    BY <2>1 DEF StartAddress, Listen, SubscriptionInv, TypeOK, StoreIsCurrent
  <2>5. TypeOK'
    BY <2>1, <2>3, <2>4 DEF SubscriptionInv, TypeOK
  <2>6. CacheIsDurable'
    BY <2>1 DEF CacheIsDurable
  <2>7. FetchingHasRecorder'
    BY <2>3 DEF FetchingHasRecorder
  <2>8. RecordedWasDelivered' /\ ProofIsExact' /\ WrittenIsNotAhead' /\ OneAccountPerGeneration'
    BY <1>0, <2>1 DEF SubscriptionInv, RecordedWasDelivered, ProofIsExact, WrittenIsNotAhead,
                      OneAccountPerGeneration
  <2> QED
    BY <2>2, <2>4, <2>5, <2>6, <2>7, <2>8 DEF SubscriptionInv
<1>6. CASE UNCHANGED vars
  BY <1>6 DEF vars, SubscriptionInv, TypeOK, ResponsesTyped, CacheIsDurable, FetchingHasRecorder,
          FetchedExact, StoreIsCurrent, RecordedWasDelivered, ProofIsExact, WrittenIsNotAhead,
          OneAccountPerGeneration
<1> QED
  BY <1>1, <1>2, <1>3, <1>4, <1>5, <1>6 DEF Next

\* The inductive invariant holds throughout every behaviour of the service.
THEOREM SubscriptionInvHolds == Spec => []SubscriptionInv
BY SubscriptionInit, SubscriptionStep, PTL DEF Spec

\* Cache and aggregate agree on a body that is rendered for the bound generation and
\* the listener's address, and the fetching flag has a recorder behind it
\* (primeCacheLocked, reconcileListenerAddress, recordActiveFetch).
THEOREM CacheInvHolds == Spec => []CacheInv
<1>1. SubscriptionInv => CacheInv
  <2> SUFFICES ASSUME SubscriptionInv PROVE BodyIsCurrent
    BY DEF SubscriptionInv, CacheInv
  <2> QED
    BY DEF SubscriptionInv, StoreIsCurrent, CacheIsDurable, Primed, EmptyCache, BodyIsCurrent
<1> QED
  BY <1>1, SubscriptionInvHolds, PTL

\* No client is sent links of another account's generation, although the account may
\* change while ServeSubscription waits for the runtime's mutex.
THEOREM ServedToItsAccountHolds == Spec => []ServedToItsAccount
<1>1. SubscriptionInv => ServedToItsAccount
  <2> SUFFICES ASSUME SubscriptionInv, NEW r \in Responses, responses[r].at = "write"
               PROVE  /\ responses[r].body.generation = cache.generation
                            => responses[r].user = cache.account
                      /\ \A s \in Responses :
                             responses[s].at = "write" /\ responses[s].user # responses[r].user
                                 => responses[s].body.generation # responses[r].body.generation
    BY DEF ServedToItsAccount
  <2>1. responses[r].body.generation \in 1 .. MaxGeneration
    BY DEF SubscriptionInv, ResponsesTyped, Idle, Response, Body
  <2>2. responses[r].body.generation = cache.generation => responses[r].user = cache.account
    BY <2>1, SubscriptionConstants
       DEF SubscriptionInv, WrittenIsNotAhead, CacheIsDurable, Primed, EmptyCache
  <2> QED
    BY <2>2 DEF SubscriptionInv, OneAccountPerGeneration
<1> QED
  BY <1>1, SubscriptionInvHolds, PTL

\* A stored proof names the stored body, and that body was delivered in full
\* (recordActiveFetch, updateLastGood).
THEOREM ProofIsExactHolds == Spec => []ProofIsExact
<1>1. SubscriptionInv => ProofIsExact
  BY DEF SubscriptionInv
<1> QED
  BY <1>1, SubscriptionInvHolds, PTL

----------------------------------------------------------------------------
(* The throttle of access tokens.                                           *)

\* The times of a client's failures are in order, and none is in the future.
InOrder(s, t) ==
    /\ \A i, j \in DOMAIN s : i <= j => s[i] <= s[j]
    /\ \A i \in DOMAIN s : s[i] <= t

\* FailuresAreBounded for one client.
Bounded(s) == \A i, j \in DOMAIN s : j = i + 2 * FailureLimit - 2 => s[i] + Window <= s[j]

\* A window may start at time t: FailureLimit - 1 failures ago a window has passed.
MayStart(s, t) == \A i \in DOMAIN s : i + FailureLimit <= Len(s) + 2 => s[i] + Window <= t

\* The open window a of a client starts with the first of its failures, which came
\* when a window could start.
OpenWindow(a, s) ==
    /\ a.failures <= Len(s) /\ a.blockedTo = 0
    /\ s[Len(s) + 1 - a.failures] + Window = a.windowEnd
    /\ \A i \in DOMAIN s :
           i + FailureLimit <= Len(s) + 2 - a.failures =>
               s[i] + Window <= s[Len(s) + 1 - a.failures]

\* A pause lasts for a window after the last failure, with nothing in flight.
Pause(a, s) ==
    /\ a.failures = 0 /\ a.blockedTo = a.windowEnd /\ ~a.inFlight
    /\ \A i \in DOMAIN s : s[i] + Window <= a.windowEnd

\* An attempt is an open window, a pause, or a first verification in flight.
AttemptFits(a, s, t) ==
    \/ a.windowEnd # 0 /\ a.failures # 0 /\ OpenWindow(a, s)
    \/ a.windowEnd # 0 /\ Pause(a, s)
    \/ a = [Fresh EXCEPT !.inFlight = TRUE] /\ MayStart(s, t)

\* The table of attempts agrees with the failures that were counted.
AttemptsFit ==
    \A c \in Clients :
        /\ InOrder(strikes[c], now) /\ Bounded(strikes[c])
        /\ c \in DOMAIN accessAttempts => AttemptFits(accessAttempts[c], strikes[c], now)
        /\ c \notin DOMAIN accessAttempts => MayStart(strikes[c], now)

\* Every verification has its reservation in the table, which no trim removes.
VerifiersReserved ==
    \A r \in Requests :
        requests[r] # NoRequest =>
            /\ requests[r].client \in DOMAIN accessAttempts
            /\ accessAttempts[requests[r].client].inFlight
            /\ requests[r].since <= now

\* A pause that is not over is in the table.
PausesKept ==
    \A c \in Clients :
        pausedTo[c] > now =>
            c \in DOMAIN accessAttempts /\ accessAttempts[c].blockedTo = pausedTo[c]

\* The inductive invariant of the throttle.
AccessInv ==
    /\ AccessTypeOK /\ IsFiniteSet(DOMAIN accessAttempts)
    /\ OneVerifierPerClient /\ PauseIsServed
    /\ AttemptsFit /\ VerifiersReserved /\ PausesKept

\* Attempts as the table holds them.
Attempts == [failures : 0 .. FailureLimit - 1, windowEnd : Times,
             blockedTo : Times, inFlight : BOOLEAN]

\* The numbers of the model.
LEMMA AccessNumbers ==
    /\ FailureLimit \in Nat /\ FailureLimit >= 2 /\ Window \in Nat /\ Window >= 1
    /\ MaxTracked \in Nat /\ MaxTime \in Nat
    /\ \A t \in 0 .. MaxTime : t \in Nat /\ t + Window \in Times /\ 0 \in Times
BY AccessConstants DEF Times

\* The fields of an attempt, as numbers.
LEMMA AttemptNumbers ==
    ASSUME NEW a \in Attempts
    PROVE  /\ a = [failures |-> a.failures, windowEnd |-> a.windowEnd,
                   blockedTo |-> a.blockedTo, inFlight |-> a.inFlight]
           /\ a.failures \in Nat /\ a.failures < FailureLimit
           /\ a.windowEnd \in Nat /\ a.blockedTo \in Nat /\ a.inFlight \in BOOLEAN
BY AccessNumbers DEF Attempts, Times

\* A first attempt has failed nowhere.
LEMMA FreshIsAttempt == Fresh \in Attempts /\ [Fresh EXCEPT !.inFlight = TRUE] \in Attempts
<1>1. 0 \in 0 .. FailureLimit - 1 /\ 0 \in Times
  BY AccessConstants DEF Times
<1> QED
  BY <1>1 DEF Fresh, Attempts

\* A list of failures and one of its members.
LEMMA StrikeNumbers ==
    ASSUME NEW s \in Seq(0 .. MaxTime)
    PROVE  /\ Len(s) \in Nat /\ DOMAIN s = 1 .. Len(s)
           /\ \A i \in DOMAIN s : i \in Nat /\ i >= 1 /\ i <= Len(s) /\ s[i] \in Nat
BY AccessNumbers

\* Time that passes keeps everything in order.
LEMMA LaterFits ==
    ASSUME NEW a, NEW s \in Seq(0 .. MaxTime), NEW t \in Nat, NEW u \in Nat, t <= u
    PROVE  /\ InOrder(s, t) => InOrder(s, u)
           /\ MayStart(s, t) => MayStart(s, u)
           /\ AttemptFits(a, s, t) => AttemptFits(a, s, u)
<1>1. InOrder(s, t) => InOrder(s, u)
  BY StrikeNumbers DEF InOrder
<1>2. MayStart(s, t) => MayStart(s, u)
  BY StrikeNumbers, AccessNumbers DEF MayStart
<1> QED
  BY <1>1, <1>2 DEF AttemptFits

\* When the window or the pause of an attempt is over, another window may start.
LEMMA OverMayStart ==
    ASSUME NEW a \in Attempts, NEW s \in Seq(0 .. MaxTime), NEW t \in Nat,
           InOrder(s, t), AttemptFits(a, s, t), a.windowEnd <= t
    PROVE  MayStart(s, t)
<1> SUFFICES ASSUME NEW i \in DOMAIN s, i + FailureLimit <= Len(s) + 2
             PROVE  s[i] + Window <= t
  BY DEF MayStart
<1>1. CASE a.failures # 0 /\ OpenWindow(a, s)
  <2> DEFINE n == Len(s)
             f == a.failures
             b == n + 1 - f
  <2>1. /\ n \in Nat /\ DOMAIN s = 1 .. n /\ i \in Nat
        /\ f \in Nat /\ f < FailureLimit /\ f # 0 /\ f <= n /\ i + FailureLimit <= n + 2
    BY <1>1, StrikeNumbers, AttemptNumbers DEF OpenWindow
  <2>2. s[b] + Window = a.windowEnd
    BY <1>1 DEF OpenWindow
  <2> HIDE DEF n, f
  <2>3. b \in 1 .. n /\ i <= b
    BY <2>1, AccessNumbers
  <2> HIDE DEF b
  <2>4. s[i] <= s[b]
    BY <2>1, <2>3 DEF InOrder
  <2>5. s[b] \in Nat /\ s[i] \in Nat /\ a.windowEnd \in Nat
    BY <2>1, <2>3, StrikeNumbers, AttemptNumbers
  <2>6. Window \in Nat
    BY AccessNumbers
  <2> QED
    BY <2>2, <2>4, <2>5, <2>6
<1>2. CASE Pause(a, s)
  BY <1>2, StrikeNumbers, AttemptNumbers, AccessNumbers DEF Pause
<1>3. CASE MayStart(s, t)
  BY <1>3 DEF MayStart
<1> QED
  BY <1>1, <1>2, <1>3 DEF AttemptFits

\* beginAccess reserves an attempt that fits.
LEMMA ReservedFits ==
    ASSUME NEW a \in Attempts, NEW s \in Seq(0 .. MaxTime), now \in Nat, InOrder(s, now),
           AttemptFits(a, s, now) \/ (a = Fresh /\ MayStart(s, now)),
           ~a.inFlight, a.blockedTo <= now
    PROVE  /\ Reserved(a) \in Attempts /\ Reserved(a).inFlight
           /\ AttemptFits(Reserved(a), s, now)
<1>1. CASE a = Fresh /\ MayStart(s, now)
  <2>1. Reserved(a) = [Fresh EXCEPT !.inFlight = TRUE]
    BY <1>1 DEF Reserved, Fresh
  <2> QED
    BY <1>1, <2>1, FreshIsAttempt DEF AttemptFits, Fresh
<1>2. CASE AttemptFits(a, s, now) /\ a.windowEnd # 0 /\ a.windowEnd <= now
  <2>1. Reserved(a) = [Fresh EXCEPT !.inFlight = TRUE]
    BY <1>2 DEF Reserved
  <2>2. MayStart(s, now)
    BY <1>2, OverMayStart
  <2> QED
    BY <2>1, <2>2, FreshIsAttempt DEF AttemptFits, Fresh
<1>3. CASE AttemptFits(a, s, now) /\ a.windowEnd # 0 /\ ~(a.windowEnd <= now)
  <2>1. a.failures # 0 /\ OpenWindow(a, s)
    BY <1>3, AttemptNumbers DEF AttemptFits, Pause, Fresh
  <2>2. Reserved(a) = [a EXCEPT !.inFlight = TRUE]
    BY <1>3 DEF Reserved
  <2>3. Reserved(a) = [failures |-> a.failures, windowEnd |-> a.windowEnd,
                       blockedTo |-> a.blockedTo, inFlight |-> TRUE]
    BY <2>2, AttemptNumbers
  <2>4. Reserved(a) \in Attempts
    BY <2>3 DEF Attempts
  <2> QED
    BY <1>3, <2>1, <2>3, <2>4 DEF AttemptFits, OpenWindow
<1>4. CASE AttemptFits(a, s, now) /\ a.windowEnd = 0
  BY <1>4 DEF AttemptFits, Fresh
<1> QED
  BY <1>1, <1>2, <1>3, <1>4

\* One more failure, now, in the list.
LEMMA AppendedStrike ==
    ASSUME NEW s \in Seq(0 .. MaxTime), now \in 0 .. MaxTime
    PROVE  /\ Append(s, now) \in Seq(0 .. MaxTime)
           /\ Len(Append(s, now)) = Len(s) + 1
           /\ DOMAIN Append(s, now) = 1 .. Len(s) + 1
           /\ \A i \in DOMAIN s : Append(s, now)[i] = s[i]
           /\ Append(s, now)[Len(s) + 1] = now
OBVIOUS

\* The list stays in order.
LEMMA StrikeInOrder ==
    ASSUME NEW s \in Seq(0 .. MaxTime), now \in 0 .. MaxTime, InOrder(s, now)
    PROVE  InOrder(Append(s, now), now)
<1> DEFINE z == Append(s, now)
<1>1. /\ DOMAIN z = 1 .. Len(s) + 1 /\ z[Len(s) + 1] = now
      /\ \A i \in 1 .. Len(s) : z[i] = s[i]
  BY AppendedStrike, StrikeNumbers
<1> HIDE DEF z
<1>2. \A i \in DOMAIN z : i \in 1 .. Len(s) \/ i = Len(s) + 1
  BY <1>1, StrikeNumbers
<1>3. \A i \in DOMAIN z : z[i] <= now
  BY <1>1, <1>2, StrikeNumbers, AccessNumbers DEF InOrder
<1>4. \A i, j \in DOMAIN z : i <= j => z[i] <= z[j]
  BY <1>1, <1>2, <1>3, StrikeNumbers, AccessNumbers DEF InOrder
<1> QED
  BY <1>3, <1>4 DEF InOrder, z

\* The index that the bound compares the new failure with.
LEMMA ComparedIndex ==
    ASSUME NEW i \in Nat, NEW m \in Nat, NEW n \in Nat, n + 1 = i + m - 2
    PROVE  i + m = n + 3
OBVIOUS

\* The list stays bounded when the failure that the bound compares with is long ago.
LEMMA StrikeBounded ==
    ASSUME NEW s \in Seq(0 .. MaxTime), now \in 0 .. MaxTime, Bounded(s),
           \A i \in DOMAIN s : i + 2 * FailureLimit = Len(s) + 3 => s[i] + Window <= now
    PROVE  Bounded(Append(s, now))
<1> DEFINE n == Len(s)
           z == Append(s, now)
<1>1. /\ n \in Nat /\ DOMAIN s = 1 .. n /\ DOMAIN z = 1 .. n + 1 /\ z[n + 1] = now
      /\ \A i \in 1 .. n : z[i] = s[i]
      /\ \A i \in 1 .. n : i + 2 * FailureLimit = n + 3 => s[i] + Window <= now
  BY AppendedStrike, StrikeNumbers
<1> HIDE DEF n, z
<1> SUFFICES ASSUME NEW i \in DOMAIN z, NEW j \in DOMAIN z, j = i + 2 * FailureLimit - 2
             PROVE  z[i] + Window <= z[j]
  BY DEF Bounded, z
<1>2. i \in Nat /\ j \in Nat /\ i \in 1 .. n /\ (j \in 1 .. n \/ j = n + 1)
  BY <1>1, AccessNumbers
<1>3. CASE j \in 1 .. n
  BY <1>1, <1>2, <1>3 DEF Bounded
<1>4. CASE j = n + 1
  <2>1. i + 2 * FailureLimit = n + 3
    <3>1. 2 * FailureLimit \in Nat /\ n \in Nat /\ i \in Nat
      BY <1>1, <1>2, AccessNumbers
    <3> QED
      BY <1>4, <3>1, ComparedIndex
  <2> QED
    BY <1>1, <1>2, <1>4, <2>1
<1> QED
  BY <1>2, <1>3, <1>4

\* A failure in finishAccess opens a window, counts in the open one or starts a pause;
\* in each case what the attempt then says agrees with the list, which stays bounded.
LEMMA StruckFits ==
    ASSUME NEW a \in Attempts, NEW s \in Seq(0 .. MaxTime), now \in 0 .. MaxTime,
           InOrder(s, now), Bounded(s), AttemptFits(a, s, now), a.inFlight
    PROVE  /\ Struck(a) \in Attempts /\ ~Struck(a).inFlight
           /\ Struck(a).blockedTo \in {0, now + Window}
           /\ AttemptFits(Struck(a), Append(s, now), now)
           /\ Bounded(Append(s, now))
<1> DEFINE n == Len(s)
           z == Append(s, now)
           f == a.failures
           b == n + 1 - f
<1>1. /\ n \in Nat /\ DOMAIN s = 1 .. n /\ DOMAIN z = 1 .. n + 1 /\ z[n + 1] = now
      /\ Len(z) = n + 1 /\ \A i \in 1 .. n : z[i] = s[i]
      /\ \A i \in 1 .. n : s[i] \in Nat /\ s[i] <= now
  BY AppendedStrike, StrikeNumbers DEF InOrder
<1>2. /\ now \in Nat /\ now + Window \in Times /\ now + Window # 0
      /\ FailureLimit \in Nat /\ FailureLimit >= 2 /\ Window \in Nat
  BY AccessNumbers
<1>3. /\ f \in Nat /\ f < FailureLimit /\ a.windowEnd \in Nat
      /\ f \in 0 .. FailureLimit - 1 /\ a.windowEnd \in Times /\ a.blockedTo \in Times
  BY AttemptNumbers DEF Attempts
<1>4. 0 \in 0 .. FailureLimit - 1 /\ 1 \in 0 .. FailureLimit - 1 /\ 0 \in Times
  BY <1>2, AccessConstants DEF Times
<1>5. a.blockedTo = 0 /\ ~Pause(a, s)
  BY DEF AttemptFits, OpenWindow, Pause, Fresh
<1>6. CASE a.windowEnd = 0 \/ a.windowEnd <= now
  <2>1. MayStart(s, now)
    BY <1>2, <1>6, OverMayStart
  <2>2. Struck(a) = [failures |-> 1, windowEnd |-> now + Window,
                     blockedTo |-> a.blockedTo, inFlight |-> FALSE]
    <3>1. ~(1 >= FailureLimit)
      BY <1>2
    <3> QED
      BY <1>6, <3>1 DEF Struck
  <2>3. Struck(a) \in Attempts
    BY <1>2, <1>3, <1>4, <2>2 DEF Attempts
  <2>4. \A i \in 1 .. n : i + FailureLimit <= n + 2 => s[i] + Window <= now
    BY <1>1, <2>1 DEF MayStart
  <2> HIDE DEF n, f, b
  <2>5. \A i \in 1 .. n + 1 : i + FailureLimit <= n + 2 => i \in 1 .. n /\ z[i] + Window <= now
    BY <1>1, <1>2, <2>4
  <2>6. OpenWindow(Struck(a), z)
    <3>1. n + 1 + 1 - 1 = n + 1 /\ n + 1 + 2 - 1 = n + 2 /\ 1 <= n + 1
      BY <1>1
    <3> HIDE DEF z
    <3> QED
      BY <1>1, <1>5, <2>2, <2>5, <3>1 DEF OpenWindow
  <2>7. \A i \in DOMAIN s : i + 2 * FailureLimit = n + 3 => s[i] + Window <= now
    BY <1>1, <1>2, <2>4
  <2>8. Bounded(z)
    BY <2>7, StrikeBounded DEF n
  <2> QED
    BY <1>2, <1>5, <2>2, <2>3, <2>6, <2>8 DEF AttemptFits
<1>7. CASE a.windowEnd # 0 /\ ~(a.windowEnd <= now)
  <2>1. f # 0 /\ OpenWindow(a, s)
    BY <1>5, <1>7 DEF AttemptFits, Fresh
  <2>2. f <= n /\ s[b] + Window = a.windowEnd
    BY <2>1 DEF OpenWindow
  <2>3. \A i \in 1 .. n : i + FailureLimit <= n + 2 - f => s[i] + Window <= s[b]
    BY <1>1, <2>1 DEF OpenWindow
  <2>4. Struck(a) = IF f + 1 >= FailureLimit
                    THEN [failures |-> 0, windowEnd |-> now + Window,
                          blockedTo |-> now + Window, inFlight |-> FALSE]
                    ELSE [failures |-> f + 1, windowEnd |-> a.windowEnd,
                          blockedTo |-> a.blockedTo, inFlight |-> FALSE]
    BY <1>7 DEF Struck
  <2> HIDE DEF n, f
  <2>5. b \in 1 .. n
    BY <1>1, <1>3, <2>1, <2>2
  <2>6. s[b] \in Nat /\ s[b] <= now
    BY <1>1, <2>5
  <2>7. Bounded(z)
    <3>1. ASSUME NEW i \in 1 .. n, i + 2 * FailureLimit = n + 3
          PROVE  s[i] + Window <= now
      <4>1. i + FailureLimit <= n + 2 - f
        BY <1>1, <1>2, <1>3, <3>1
      <4>2. s[i] + Window <= s[b]
        BY <2>3, <4>1
      <4> QED
        BY <1>1, <1>2, <2>6, <4>2
    <3> QED
      BY <1>1, <3>1, StrikeBounded DEF n
  <2>8. CASE f + 1 >= FailureLimit
    <3>1. Struck(a) = [failures |-> 0, windowEnd |-> now + Window,
                       blockedTo |-> now + Window, inFlight |-> FALSE]
      BY <2>4, <2>8
    <3>2. Struck(a) \in Attempts
      BY <1>2, <1>4, <3>1 DEF Attempts
    <3>3. \A i \in 1 .. n + 1 : z[i] + Window <= now + Window
      <4>1. \A i \in 1 .. n + 1 : i \in 1 .. n \/ i = n + 1
        BY <1>1
      <4> HIDE DEF z
      <4> QED
        BY <1>1, <1>2, <4>1
    <3>4. Pause(Struck(a), z)
      BY <1>1, <3>1, <3>3 DEF Pause
    <3> QED
      BY <1>2, <2>7, <3>1, <3>2, <3>4 DEF AttemptFits
  <2>9. CASE ~(f + 1 >= FailureLimit)
    <3>1. Struck(a) = [failures |-> f + 1, windowEnd |-> a.windowEnd,
                       blockedTo |-> a.blockedTo, inFlight |-> FALSE]
      BY <2>4, <2>9
    <3>2. f + 1 \in 0 .. FailureLimit - 1 /\ f + 1 # 0 /\ f + 1 <= n + 1
      BY <1>1, <1>2, <1>3, <2>2, <2>9
    <3>3. Struck(a) \in Attempts
      BY <1>3, <3>1, <3>2 DEF Attempts
    <3>4. n + 1 + 1 - (f + 1) = b /\ n + 1 + 2 - (f + 1) = n + 2 - f
      BY <1>1, <1>3
    <3>5. \A i \in 1 .. n + 1 : i + FailureLimit <= n + 2 - f =>
              i \in 1 .. n /\ z[i] + Window <= z[b]
      BY <1>1, <1>2, <1>3, <2>3, <2>5
    <3>6. z[b] + Window = a.windowEnd
      BY <1>1, <2>2, <2>5
    <3> HIDE DEF z, b
    <3>7. OpenWindow(Struck(a), z)
      BY <1>1, <1>5, <3>1, <3>2, <3>4, <3>5, <3>6 DEF OpenWindow
    <3> QED
      BY <1>5, <1>7, <2>7, <3>1, <3>2, <3>3, <3>7 DEF AttemptFits, z
  <2> QED
    BY <2>8, <2>9
<1> QED
  BY <1>6, <1>7

----------------------------------------------------------------------------
(* The table.                                                               *)

\* A table within its limit.
TableOK(all) ==
    /\ DOMAIN all \subseteq Clients
    /\ IsFiniteSet(DOMAIN all) /\ Cardinality(DOMAIN all) <= MaxTracked
    /\ \A c \in DOMAIN all : all[c] \in Attempts

\* AttemptsFit, for any table and lists.
TableFits(all, st) ==
    \A c \in Clients :
        /\ InOrder(st[c], now) /\ Bounded(st[c])
        /\ c \in DOMAIN all => AttemptFits(all[c], st[c], now)
        /\ c \notin DOMAIN all => MayStart(st[c], now)

\* The invariant in terms of the table.
LEMMA TableOfState ==
    /\ AccessTypeOK /\ IsFiniteSet(DOMAIN accessAttempts) <=>
         /\ now \in 0 .. MaxTime
         /\ TableOK(accessAttempts)
         /\ requests \in [Requests -> {NoRequest} \cup
                            [at : {"verify"}, client : Clients, since : 0 .. MaxTime]]
         /\ strikes \in [Clients -> Seq(0 .. MaxTime)]
         /\ pausedTo \in [Clients -> Times]
    /\ AttemptsFit <=> TableFits(accessAttempts, strikes)
BY DEF AccessTypeOK, TableOK, AttemptsFit, TableFits, Attempts

\* What a trim leaves.
LEMMA TrimKeeps ==
    ASSUME NEW all
    PROVE  /\ DOMAIN Trim(all) = {d \in DOMAIN all : ~Over(all[d])}
           /\ \A c \in DOMAIN Trim(all) : Trim(all)[c] = all[c]
BY DEF Trim

\* A trim keeps the table within its limit, true to the failures, and with every
\* verification and every pause that is not over.
LEMMA TrimmedTable ==
    ASSUME NEW all, NEW st \in [Clients -> Seq(0 .. MaxTime)], now \in 0 .. MaxTime,
           TableOK(all), TableFits(all, st)
    PROVE  /\ TableOK(Trim(all)) /\ TableFits(Trim(all), st)
           /\ \A c \in DOMAIN all :
                  all[c].inFlight \/ all[c].blockedTo > now =>
                      c \in DOMAIN Trim(all) /\ Trim(all)[c] = all[c]
<1>1. now \in Nat
  BY AccessNumbers
<1>2. TableOK(Trim(all))
  <2>1. DOMAIN Trim(all) \subseteq DOMAIN all
    BY TrimKeeps
  <2>2. /\ IsFiniteSet(DOMAIN Trim(all))
        /\ Cardinality(DOMAIN Trim(all)) <= Cardinality(DOMAIN all)
    BY <2>1, FS_Subset DEF TableOK
  <2>3. Cardinality(DOMAIN Trim(all)) \in Nat /\ Cardinality(DOMAIN all) \in Nat
    BY <2>2, FS_CardinalityType DEF TableOK
  <2>4. Cardinality(DOMAIN Trim(all)) <= MaxTracked
    BY <2>2, <2>3, AccessNumbers DEF TableOK
  <2> QED
    BY <2>1, <2>2, <2>4, TrimKeeps DEF TableOK
<1>3. ASSUME NEW c \in DOMAIN all, Over(all[c])
      PROVE  MayStart(st[c], now)
  BY <1>1, <1>3, OverMayStart DEF TableOK, TableFits, Over
<1>4. TableFits(Trim(all), st)
  BY <1>3, TrimKeeps DEF TableFits
<1>5. ASSUME NEW c \in DOMAIN all, all[c].inFlight \/ all[c].blockedTo > now
      PROVE  ~Over(all[c])
  BY <1>1, <1>5, AttemptNumbers DEF TableOK, Over
<1> QED
  BY <1>2, <1>4, <1>5, TrimKeeps

\* An attempt that fits can be put into a table that has it or has room for it.
LEMMA WithTable ==
    ASSUME NEW all, NEW st \in [Clients -> Seq(0 .. MaxTime)], NEW st2, NEW c \in Clients,
           NEW a \in Attempts,
           TableOK(all), TableFits(all, st), MayTrack(all, c),
           \A d \in Clients : d # c => st2[d] = st[d],
           InOrder(st2[c], now), Bounded(st2[c]), AttemptFits(a, st2[c], now)
    PROVE  TableOK(With(all, c, a)) /\ TableFits(With(all, c, a), st2)
<1> DEFINE w == With(all, c, a)
<1>0. /\ DOMAIN w = DOMAIN all \cup {c} /\ w[c] = a
      /\ \A d \in DOMAIN all : d # c => w[d] = all[d]
  BY DEF With
<1> HIDE DEF w
<1>1. IsFiniteSet(DOMAIN w) /\ Cardinality(DOMAIN w) <= MaxTracked
  <2>1. CASE c \in DOMAIN all
    <3>1. DOMAIN w = DOMAIN all
      BY <1>0, <2>1
    <3> QED
      BY <3>1 DEF TableOK
  <2>2. CASE c \notin DOMAIN all
    <3>1. /\ IsFiniteSet(DOMAIN all \cup {c})
          /\ Cardinality(DOMAIN all \cup {c}) = Cardinality(DOMAIN all) + 1
      BY <2>2, FS_AddElement DEF TableOK
    <3>2. Cardinality(DOMAIN all) \in Nat /\ Cardinality(DOMAIN all) < MaxTracked
      BY <2>2, FS_CardinalityType DEF TableOK, MayTrack
    <3>3. Cardinality(DOMAIN all) + 1 <= MaxTracked
      BY <3>2, AccessNumbers
    <3> QED
      BY <1>0, <3>1, <3>3
  <2> QED
    BY <2>1, <2>2
<1>2. TableOK(w)
  BY <1>0, <1>1 DEF TableOK
<1>3. TableFits(w, st2)
  BY <1>0 DEF TableFits
<1> QED
  BY <1>2, <1>3 DEF w

----------------------------------------------------------------------------
(* Steps of the throttle.                                                   *)

\* Nothing is tracked at the start.
LEMMA AccessStart == AccessInit => AccessInv
<1> SUFFICES ASSUME AccessInit PROVE AccessInv
  OBVIOUS
<1>1. DOMAIN accessAttempts = {} /\ 0 \in 0 .. MaxTime /\ 0 \in Times
  BY AccessNumbers, AccessConstants DEF AccessInit, Times
<1>2. IsFiniteSet({}) /\ Cardinality({}) = 0
  BY FS_EmptySet
<1>3. TableOK(accessAttempts)
  BY <1>1, <1>2, AccessNumbers DEF TableOK
<1>4. << >> \in Seq(0 .. MaxTime) /\ DOMAIN << >> = {}
  OBVIOUS
<1>5. TableFits(accessAttempts, strikes)
  BY <1>1, <1>4 DEF AccessInit, TableFits, InOrder, Bounded, MayStart
<1>6. /\ now \in 0 .. MaxTime /\ strikes \in [Clients -> Seq(0 .. MaxTime)]
      /\ pausedTo \in [Clients -> Times]
      /\ requests \in [Requests -> {NoRequest} \cup
                         [at : {"verify"}, client : Clients, since : 0 .. MaxTime]]
  BY <1>1, <1>4 DEF AccessInit
<1>7. OneVerifierPerClient /\ PauseIsServed /\ VerifiersReserved
  BY DEF AccessInit, OneVerifierPerClient, PauseIsServed, VerifiersReserved
<1>8. PausesKept
  BY DEF AccessInit, PausesKept
<1> QED
  BY <1>3, <1>5, <1>6, <1>7, <1>8, TableOfState DEF AccessInv

\* A request that is being verified.
LEMMA RequestShape ==
    ASSUME AccessTypeOK, NEW r \in Requests, requests[r] # NoRequest
    PROVE  /\ requests[r].client \in Clients /\ requests[r].since \in 0 .. MaxTime
           /\ requests[r].since \in Nat
BY AccessNumbers DEF AccessTypeOK

\* What the invariant says of the table after the trim that beginAccess starts with.
LEMMA AfterTrim ==
    ASSUME AccessInv
    PROVE  LET trimmed == Trim(accessAttempts)
           IN  /\ TableOK(trimmed) /\ TableFits(trimmed, strikes)
               /\ \A r \in Requests :
                      requests[r] # NoRequest =>
                          /\ requests[r].client \in DOMAIN trimmed
                          /\ trimmed[requests[r].client].inFlight
               /\ \A c \in Clients :
                      pausedTo[c] > now =>
                          c \in DOMAIN trimmed /\ trimmed[c].blockedTo = pausedTo[c]
<1>1. /\ TableOK(accessAttempts) /\ TableFits(accessAttempts, strikes)
      /\ strikes \in [Clients -> Seq(0 .. MaxTime)] /\ now \in 0 .. MaxTime
  BY TableOfState DEF AccessInv
<1> DEFINE trimmed == Trim(accessAttempts)
<1>2. /\ TableOK(trimmed) /\ TableFits(trimmed, strikes)
      /\ \A c \in DOMAIN accessAttempts :
             accessAttempts[c].inFlight \/ accessAttempts[c].blockedTo > now =>
                 c \in DOMAIN trimmed /\ trimmed[c] = accessAttempts[c]
  BY <1>1, TrimmedTable
<1> HIDE DEF trimmed
<1>3. \A r \in Requests :
         requests[r] # NoRequest =>
             /\ requests[r].client \in DOMAIN trimmed
             /\ trimmed[requests[r].client].inFlight
  BY <1>2 DEF AccessInv, VerifiersReserved
<1>4. \A c \in Clients :
         pausedTo[c] > now => c \in DOMAIN trimmed /\ trimmed[c].blockedTo = pausedTo[c]
  BY <1>2 DEF AccessInv, PausesKept
<1> QED
  BY <1>2, <1>3, <1>4 DEF trimmed

\* beginAccess.
LEMMA BeginAccessStep ==
    ASSUME AccessInv, NEW r \in Requests, NEW c \in Clients, BeginAccess(r, c)
    PROVE  AccessInv'
<1> DEFINE T == Trim(accessAttempts)
<1>1. /\ TableOK(T) /\ TableFits(T, strikes)
      /\ \A q \in Requests :
             requests[q] # NoRequest =>
                 requests[q].client \in DOMAIN T /\ T[requests[q].client].inFlight
      /\ \A d \in Clients :
             pausedTo[d] > now => d \in DOMAIN T /\ T[d].blockedTo = pausedTo[d]
  BY AfterTrim
<1>2. /\ now \in 0 .. MaxTime /\ now \in Nat /\ strikes \in [Clients -> Seq(0 .. MaxTime)]
      /\ pausedTo \in [Clients -> Times] /\ pausedTo[c] \in Nat
      /\ requests \in [Requests -> {NoRequest} \cup
                         [at : {"verify"}, client : Clients, since : 0 .. MaxTime]]
  BY AccessNumbers DEF AccessInv, AccessTypeOK, Times
<1>3. UNCHANGED <<now, strikes, pausedTo>> /\ requests[r] = NoRequest
  BY DEF BeginAccess
<1>4. CASE ~(MayTrack(T, c) /\ Admits(T, c))
  <2>1. accessAttempts' = T /\ requests' = requests
    BY <1>4 DEF BeginAccess
  <2> HIDE DEF T
  <2>2. AccessTypeOK' /\ IsFiniteSet(DOMAIN accessAttempts)' /\ AttemptsFit'
    BY <1>1, <1>2, <1>3, <2>1
       DEF AccessTypeOK, AttemptsFit, TableOK, TableFits, Attempts
  <2>3. OneVerifierPerClient' /\ PauseIsServed'
    BY <1>3, <2>1 DEF AccessInv, OneVerifierPerClient, PauseIsServed
  <2>4. VerifiersReserved' /\ PausesKept'
    BY <1>1, <1>3, <2>1 DEF AccessInv, VerifiersReserved, PausesKept
  <2> QED
    BY <2>2, <2>3, <2>4 DEF AccessInv
<1>5. CASE MayTrack(T, c) /\ Admits(T, c)
  <2> DEFINE a == Attempt(T, c)
             w == With(T, c, Reserved(a))
             x == [at |-> "verify", client |-> c, since |-> now]
  <2>1. accessAttempts' = w /\ requests' = [requests EXCEPT ![r] = x]
    BY <1>5 DEF BeginAccess
  <2>2. ~a.inFlight /\ a.blockedTo <= now
    BY <1>5 DEF Admits
  <2>3. c \in DOMAIN T => a = T[c]
    BY DEF Attempt
  <2>4. a \in Attempts /\ (AttemptFits(a, strikes[c], now) \/ (a = Fresh /\ MayStart(strikes[c], now)))
    BY <1>1, FreshIsAttempt DEF Attempt, TableOK, TableFits
  <2> HIDE DEF T, a
  <2>5. strikes[c] \in Seq(0 .. MaxTime) /\ InOrder(strikes[c], now) /\ Bounded(strikes[c])
    BY <1>1, <1>2 DEF TableFits
  <2>6. /\ Reserved(a) \in Attempts /\ Reserved(a).inFlight
        /\ AttemptFits(Reserved(a), strikes[c], now)
    BY <1>2, <2>2, <2>4, <2>5, ReservedFits
  <2>7. TableOK(w) /\ TableFits(w, strikes)
    BY <1>1, <1>2, <1>5, <2>5, <2>6, WithTable
  <2>8. /\ DOMAIN w = DOMAIN T \cup {c} /\ w[c] = Reserved(a)
        /\ \A d \in DOMAIN T : d # c => w[d] = T[d]
    BY DEF With
  <2> HIDE DEF w
  <2>9. \A q \in Requests : requests[q] # NoRequest => requests[q].client # c
    BY <1>1, <2>2, <2>3
  <2>10. pausedTo[c] <= now
    BY <1>1, <1>2, <2>2, <2>3
  <2>11. x \in [at : {"verify"}, client : Clients, since : 0 .. MaxTime] /\ x # NoRequest
         /\ x.client = c /\ x.since = now
    BY <1>2 DEF NoRequest
  <2> HIDE DEF x
  <2>12. /\ requests' \in [Requests -> {NoRequest} \cup
                         [at : {"verify"}, client : Clients, since : 0 .. MaxTime]]
         /\ requests'[r] = x /\ \A q \in Requests : q # r => requests'[q] = requests[q]
    BY <1>2, <2>1, <2>11
  <2>13. AccessTypeOK' /\ IsFiniteSet(DOMAIN accessAttempts)' /\ AttemptsFit'
    BY <1>2, <1>3, <2>1, <2>7, <2>12
       DEF AccessTypeOK, AttemptsFit, TableOK, TableFits, Attempts
  <2>14. OneVerifierPerClient'
    BY <2>9, <2>11, <2>12 DEF AccessInv, OneVerifierPerClient
  <2>15. PauseIsServed'
    BY <1>2, <1>3, <2>10, <2>11, <2>12 DEF AccessInv, PauseIsServed
  <2>16. VerifiersReserved'
    <3> SUFFICES ASSUME NEW q \in Requests, requests'[q] # NoRequest
                 PROVE  /\ requests'[q].client \in DOMAIN w /\ w[requests'[q].client].inFlight
                        /\ requests'[q].since <= now
      BY <1>3, <2>1 DEF VerifiersReserved
    <3>1. CASE q = r
      BY <1>2, <2>6, <2>8, <2>11, <2>12, <3>1
    <3>2. CASE q # r
      BY <1>1, <2>8, <2>9, <2>12, <3>2 DEF AccessInv, VerifiersReserved
    <3> QED
      BY <3>1, <3>2
  <2>17. PausesKept'
    <3>1. ASSUME NEW d \in Clients, pausedTo[d] > now
          PROVE  d \in DOMAIN w /\ w[d].blockedTo = pausedTo[d]
      <4>1. d # c
        BY <1>2, <2>10, <3>1
      <4> QED
        BY <1>1, <2>8, <3>1, <4>1
    <3> QED
      BY <1>3, <2>1, <3>1 DEF PausesKept
  <2> QED
    BY <2>13, <2>14, <2>15, <2>16, <2>17 DEF AccessInv
<1> QED
  BY <1>4, <1>5

\* finishAccess with a counted failure.
LEMMA CountedFinish ==
    ASSUME AccessInv, NEW r \in Requests, requests[r] # NoRequest,
           requests' = [requests EXCEPT ![r] = NoRequest],
           NEW c, c = requests[r].client, NEW a, a = Struck(accessAttempts[c]),
           accessAttempts' = Trim(With(accessAttempts, c, a)),
           strikes' = [strikes EXCEPT ![c] = Append(@, now)],
           pausedTo' = [pausedTo EXCEPT ![c] = IF a.blockedTo > now THEN a.blockedTo ELSE @],
           UNCHANGED now
    PROVE  AccessInv'
<1> DEFINE w == With(accessAttempts, c, a)
<1>1. /\ now \in 0 .. MaxTime /\ now \in Nat /\ strikes \in [Clients -> Seq(0 .. MaxTime)]
      /\ pausedTo \in [Clients -> Times] /\ now + Window \in Times /\ Window \in Nat
      /\ requests \in [Requests -> {NoRequest} \cup
                         [at : {"verify"}, client : Clients, since : 0 .. MaxTime]]
      /\ TableOK(accessAttempts) /\ TableFits(accessAttempts, strikes)
  BY TableOfState, AccessNumbers DEF AccessInv
<1>2. /\ c \in Clients /\ c \in DOMAIN accessAttempts /\ accessAttempts[c].inFlight
      /\ pausedTo[c] \in Nat /\ pausedTo[c] <= now
  <2>1. c \in Clients /\ requests[r].since \in Nat
    BY RequestShape DEF AccessInv
  <2>2. pausedTo[c] \in Nat
    BY <1>1, <2>1, AccessNumbers DEF Times
  <2> QED
    BY <1>1, <2>1, <2>2 DEF AccessInv, VerifiersReserved, PauseIsServed
<1>3. /\ accessAttempts[c] \in Attempts /\ AttemptFits(accessAttempts[c], strikes[c], now)
      /\ strikes[c] \in Seq(0 .. MaxTime) /\ InOrder(strikes[c], now) /\ Bounded(strikes[c])
  BY <1>1, <1>2 DEF TableOK, TableFits
<1>4. /\ a \in Attempts /\ a.blockedTo \in {0, now + Window}
      /\ AttemptFits(a, Append(strikes[c], now), now) /\ Bounded(Append(strikes[c], now))
  BY <1>1, <1>2, <1>3, StruckFits
<1>5. InOrder(Append(strikes[c], now), now) /\ Append(strikes[c], now) \in Seq(0 .. MaxTime)
  BY <1>1, <1>3, StrikeInOrder, AppendedStrike
<1>6. /\ strikes' \in [Clients -> Seq(0 .. MaxTime)] /\ strikes'[c] = Append(strikes[c], now)
      /\ \A d \in Clients : d # c => strikes'[d] = strikes[d]
  BY <1>1, <1>2, <1>5
<1>7. MayTrack(accessAttempts, c)
  BY <1>2 DEF MayTrack
<1>8. TableOK(w) /\ TableFits(w, strikes')
  BY <1>1, <1>2, <1>4, <1>5, <1>6, <1>7, WithTable
<1>9. /\ DOMAIN w = DOMAIN accessAttempts \cup {c} /\ w[c] = a
      /\ \A d \in DOMAIN accessAttempts : d # c => w[d] = accessAttempts[d]
  BY DEF With
<1> HIDE DEF w
<1>10. /\ TableOK(Trim(w)) /\ TableFits(Trim(w), strikes')
       /\ \A d \in DOMAIN w :
              w[d].inFlight \/ w[d].blockedTo > now =>
                  d \in DOMAIN Trim(w) /\ Trim(w)[d] = w[d]
  BY <1>1, <1>6, <1>8, TrimmedTable
<1>11. accessAttempts' = Trim(w)
  BY DEF w
<1>12. /\ requests' \in [Requests -> {NoRequest} \cup
                          [at : {"verify"}, client : Clients, since : 0 .. MaxTime]]
       /\ requests'[r] = NoRequest /\ \A q \in Requests : q # r => requests'[q] = requests[q]
  BY <1>1
<1>13. \A q \in Requests : requests'[q] # NoRequest =>
          q # r /\ requests[q] # NoRequest /\ requests[q].client # c
  BY <1>12 DEF AccessInv, OneVerifierPerClient
<1>14. /\ pausedTo' \in [Clients -> Times]
       /\ pausedTo'[c] = IF a.blockedTo > now THEN a.blockedTo ELSE pausedTo[c]
       /\ \A d \in Clients : d # c => pausedTo'[d] = pausedTo[d]
  <2>1. a.blockedTo \in Times
    BY <1>4 DEF Attempts
  <2> QED
    BY <1>1, <1>2, <2>1
<1>15. AccessTypeOK' /\ IsFiniteSet(DOMAIN accessAttempts)' /\ AttemptsFit'
  BY <1>1, <1>6, <1>10, <1>11, <1>12, <1>14
     DEF AccessTypeOK, AttemptsFit, TableOK, TableFits, Attempts
<1>16. OneVerifierPerClient'
  BY <1>12, <1>13 DEF AccessInv, OneVerifierPerClient
<1>17. PauseIsServed'
  <2>1. \A q \in Requests : requests'[q] # NoRequest => requests[q].client \in Clients
    BY <1>13, RequestShape DEF AccessInv
  <2> QED
    BY <1>12, <1>13, <1>14, <2>1 DEF AccessInv, PauseIsServed
<1>18. VerifiersReserved'
  BY <1>9, <1>10, <1>11, <1>12, <1>13 DEF AccessInv, VerifiersReserved
<1>19. PausesKept'
  <2> SUFFICES ASSUME NEW d \in Clients, pausedTo'[d] > now
               PROVE  d \in DOMAIN accessAttempts' /\ accessAttempts'[d].blockedTo = pausedTo'[d]
    BY DEF PausesKept
  <2>1. CASE d # c
    BY <1>9, <1>10, <1>11, <1>14, <2>1 DEF AccessInv, PausesKept
  <2>2. CASE d = c
    <3>1. a.blockedTo > now /\ pausedTo'[c] = a.blockedTo
      BY <1>1, <1>2, <1>4, <1>14, <2>2
    <3> QED
      BY <1>9, <1>10, <1>11, <2>2, <3>1
  <2> QED
    BY <2>1, <2>2
<1> QED
  BY <1>15, <1>16, <1>17, <1>18, <1>19 DEF AccessInv

\* finishAccess with a success, or a failure that does not count.
LEMMA ForgivenFinish ==
    ASSUME AccessInv, NEW r \in Requests, requests[r] # NoRequest,
           requests' = [requests EXCEPT ![r] = NoRequest],
           NEW c, c = requests[r].client,
           accessAttempts' = [d \in DOMAIN accessAttempts \ {c} |-> accessAttempts[d]],
           strikes' = [strikes EXCEPT ![c] = << >>],
           UNCHANGED <<now, pausedTo>>
    PROVE  AccessInv'
<1>1. /\ now \in 0 .. MaxTime /\ now \in Nat /\ strikes \in [Clients -> Seq(0 .. MaxTime)]
      /\ pausedTo \in [Clients -> Times]
      /\ requests \in [Requests -> {NoRequest} \cup
                         [at : {"verify"}, client : Clients, since : 0 .. MaxTime]]
      /\ TableOK(accessAttempts) /\ TableFits(accessAttempts, strikes)
  BY TableOfState, AccessNumbers DEF AccessInv
<1>2. c \in Clients /\ pausedTo[c] \in Nat /\ pausedTo[c] <= now
  <2>1. c \in Clients /\ requests[r].since \in Nat
    BY RequestShape DEF AccessInv
  <2>2. pausedTo[c] \in Nat
    BY <1>1, <2>1, AccessNumbers DEF Times
  <2> QED
    BY <1>1, <2>1, <2>2 DEF AccessInv, VerifiersReserved, PauseIsServed
<1>3. << >> \in Seq(0 .. MaxTime) /\ DOMAIN << >> = {}
  OBVIOUS
<1>4. /\ strikes' \in [Clients -> Seq(0 .. MaxTime)] /\ strikes'[c] = << >>
      /\ \A d \in Clients : d # c => strikes'[d] = strikes[d]
  BY <1>1, <1>2, <1>3
<1>5. /\ DOMAIN accessAttempts' = DOMAIN accessAttempts \ {c}
      /\ \A d \in DOMAIN accessAttempts : d # c => accessAttempts'[d] = accessAttempts[d]
  OBVIOUS
<1>6. TableOK(accessAttempts')
  <2>1. /\ IsFiniteSet(DOMAIN accessAttempts')
        /\ Cardinality(DOMAIN accessAttempts') <= Cardinality(DOMAIN accessAttempts)
    BY <1>1, <1>5, FS_Subset DEF TableOK
  <2>2. /\ Cardinality(DOMAIN accessAttempts') \in Nat
        /\ Cardinality(DOMAIN accessAttempts) \in Nat
    BY <1>1, <2>1, FS_CardinalityType DEF TableOK
  <2>3. Cardinality(DOMAIN accessAttempts') <= MaxTracked
    BY <1>1, <2>1, <2>2, AccessNumbers DEF TableOK
  <2> QED
    BY <1>1, <1>5, <2>1, <2>3 DEF TableOK
<1>7. InOrder(<< >>, now) /\ Bounded(<< >>) /\ MayStart(<< >>, now)
  BY <1>3 DEF InOrder, Bounded, MayStart
<1>8. AttemptsFit'
  BY <1>1, <1>4, <1>5, <1>7 DEF AttemptsFit, TableFits
<1>9. /\ requests' \in [Requests -> {NoRequest} \cup
                          [at : {"verify"}, client : Clients, since : 0 .. MaxTime]]
      /\ requests'[r] = NoRequest /\ \A q \in Requests : q # r => requests'[q] = requests[q]
  BY <1>1
<1>10. \A q \in Requests : requests'[q] # NoRequest =>
          q # r /\ requests[q] # NoRequest /\ requests[q].client # c
  BY <1>9 DEF AccessInv, OneVerifierPerClient
<1>11. AccessTypeOK' /\ IsFiniteSet(DOMAIN accessAttempts)'
  BY <1>1, <1>4, <1>6, <1>9 DEF AccessTypeOK, TableOK, Attempts
<1>12. OneVerifierPerClient' /\ PauseIsServed'
  BY <1>9, <1>10 DEF AccessInv, OneVerifierPerClient, PauseIsServed
<1>13. VerifiersReserved'
  BY <1>5, <1>9, <1>10 DEF AccessInv, VerifiersReserved
<1>14. PausesKept'
  BY <1>1, <1>2, <1>5 DEF AccessInv, PausesKept
<1> QED
  BY <1>8, <1>11, <1>12, <1>13, <1>14 DEF AccessInv

\* The clock.
LEMMA AccessTick ==
    ASSUME AccessInv, Tick
    PROVE  AccessInv'
<1>1. /\ UNCHANGED <<accessAttempts, requests, strikes, pausedTo>>
      /\ now \in Nat /\ now' \in Nat /\ now <= now' /\ now' \in 0 .. MaxTime
  BY AccessNumbers DEF AccessInv, AccessTypeOK, Tick
<1>2. /\ strikes \in [Clients -> Seq(0 .. MaxTime)]
      /\ \A c \in Clients : pausedTo[c] \in Nat
  BY AccessNumbers DEF AccessInv, AccessTypeOK, Times
<1>3. AccessTypeOK' /\ IsFiniteSet(DOMAIN accessAttempts)'
  BY <1>1 DEF AccessInv, AccessTypeOK
<1>4. AttemptsFit'
  BY <1>1, <1>2, LaterFits DEF AccessInv, AttemptsFit
<1>5. OneVerifierPerClient' /\ PauseIsServed'
  BY <1>1 DEF AccessInv, OneVerifierPerClient, PauseIsServed
<1>6. VerifiersReserved'
  <2>1. \A r \in Requests : requests[r] # NoRequest => requests[r].since \in Nat
    BY RequestShape DEF AccessInv
  <2> QED
    BY <1>1, <2>1 DEF AccessInv, VerifiersReserved
<1>7. PausesKept'
  BY <1>1, <1>2 DEF AccessInv, PausesKept
<1> QED
  BY <1>3, <1>4, <1>5, <1>6, <1>7 DEF AccessInv

\* AccessInv holds in every reachable state.
THEOREM AccessInvariant == AccessSpec => []AccessInv
<1>1. ASSUME AccessInv, [AccessNext]_accessVars
      PROVE  AccessInv'
  <2>1. CASE \E r \in Requests, c \in Clients : BeginAccess(r, c)
    BY <1>1, <2>1, BeginAccessStep
  <2>2. ASSUME NEW r \in Requests, NEW counted \in BOOLEAN, FinishAccess(r, counted)
        PROVE  AccessInv'
    <3>1. /\ requests[r] # NoRequest /\ requests' = [requests EXCEPT ![r] = NoRequest]
          /\ UNCHANGED now
      BY <2>2 DEF FinishAccess
    <3>2. /\ requests[r].client \in DOMAIN accessAttempts
          /\ accessAttempts[requests[r].client].inFlight
      BY <1>1, <3>1 DEF AccessInv, VerifiersReserved
    <3>3. CASE counted
      BY <1>1, <2>2, <3>1, <3>2, <3>3, CountedFinish DEF FinishAccess
    <3>4. CASE ~counted
      BY <1>1, <2>2, <3>1, <3>2, <3>4, ForgivenFinish DEF FinishAccess
    <3> QED
      BY <3>3, <3>4
  <2>3. CASE Tick
    BY <1>1, <2>3, AccessTick
  <2>4. CASE UNCHANGED accessVars
    BY <1>1, <2>4
       DEF accessVars, AccessInv, AccessTypeOK, OneVerifierPerClient, PauseIsServed,
           AttemptsFit, VerifiersReserved, PausesKept
  <2> QED
    BY <1>1, <2>1, <2>2, <2>3, <2>4 DEF AccessNext
<1> QED
  BY AccessStart, <1>1, PTL DEF AccessSpec

\* beginAccess and finishAccess verify one token of a client at a time, let a pause
\* be served although other clients' calls trim the table, and let no client fail
\* more often than two windows allow.
THEOREM AdmissionInvHolds == AccessSpec => []AdmissionInv
<1>1. AccessInv => AdmissionInv
  BY DEF AccessInv, AttemptsFit, Bounded, AdmissionInv, FailuresAreBounded
<1> QED
  BY AccessInvariant, <1>1, PTL
=============================================================================
