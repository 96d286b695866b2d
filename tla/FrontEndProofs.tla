-------------------------- MODULE FrontEndProofs --------------------------
(***************************************************************************)
(* Proofs about the SOCKS front end.  The server: the drained channel      *)
(* follows the active handlers, Shutdown leaves no handler behind, slots   *)
(* are accounted for, and the server implements the contract the           *)
(* supervisor relies on, for any number of connections and slots.  The     *)
(* selectors clients authenticate with: the published catalogue matches    *)
(* the nodes, and a withdrawn selector keeps its tombstone for the grace   *)
(* period, for any nodes, accounts and limits.                             *)
(***************************************************************************)
EXTENDS SocksServer, SelectorCatalogue, FiniteSetTheorems, TLAPS

----------------------------------------------------------------------------
(* The life of the server.                                                  *)

\* A fresh server (New) satisfies the invariant.
LEMMA InvInit == ServerInit => ServerInv
<1> SUFFICES ASSUME ServerInit PROVE ServerInv
  OBVIOUS
<1> USE DEF ServerInit
<1>1. ServerTypeOK
  BY DEF ServerTypeOK
<1>2. ActiveFollowsHandlers
  BY DEF ActiveFollowsHandlers
<1>3. AcceptedIsNew /\ ListenerKnown
  BY DEF AcceptedIsNew, ListenerKnown
<1>4. shuttingDown <=> (stopping # "idle")
  OBVIOUS
<1>5. DrainedMatchesActive /\ ForcedAreCopied
  BY DEF DrainedMatchesActive, ForcedAreCopied
<1> QED
  BY <1>1, <1>2, <1>3, <1>4, <1>5 DEF ServerInv

\* Every step of accept loop, handlers and Shutdown preserves the invariant.
LEMMA InvStep == ServerInv /\ [ServerNext]_serverVars => ServerInv'
<1> SUFFICES ASSUME ServerInv, [ServerNext]_serverVars PROVE ServerInv'
  OBVIOUS
<1> USE DEF ServerInv, ServerTypeOK, ActiveFollowsHandlers, AcceptedIsNew,
            ListenerKnown, DrainedMatchesActive, ForcedAreCopied
<1>1. CASE BeginServe
  <2>1. CASE shuttingDown \/ listener
    BY <1>1, <2>1 DEF BeginServe
  <2>2. CASE ~(shuttingDown \/ listener)
    BY <1>1, <2>2 DEF BeginServe
  <2> QED
    BY <2>1, <2>2
<1>2. CASE CloseOnCancel
  BY <1>2 DEF CloseOnCancel
<1>3. CASE AcceptFails
  BY <1>3 DEF AcceptFails
<1>4. CASE TakeSlot
  BY <1>4 DEF TakeSlot
<1>5. CASE Register
  BY <1>5 DEF Register, AddActiveHandler
<1>6. ASSUME NEW c \in Conns, Accept(c) PROVE ServerInv'
  BY <1>6 DEF Accept
<1>7. ASSUME NEW c \in Conns, HandlerEnds(c) PROVE ServerInv'
  BY <1>7 DEF HandlerEnds
<1>8. ASSUME NEW c \in Conns, RemoveActiveHandler(c) PROVE ServerInv'
  BY <1>8 DEF RemoveActiveHandler, DrainedAfter
<1>9. ASSUME NEW c \in Conns, ReleaseSlot(c) PROVE ServerInv'
  BY <1>9 DEF ReleaseSlot
<1>10. CASE BeginShutdown
  BY <1>10 DEF BeginShutdown
<1>11. CASE CloseListener
  BY <1>11 DEF CloseListener
<1>12. CASE Drain
  BY <1>12 DEF Drain
<1>13. CASE BeginForce
  BY <1>13 DEF BeginForce
<1>14. CASE ForceHandler
  BY <1>14 DEF ForceHandler
<1>15. CASE Cancel
  BY <1>15 DEF Cancel
<1>16. CASE Expire
  BY <1>16 DEF Expire
<1>17. CASE UNCHANGED serverVars
  BY <1>17 DEF serverVars
<1> QED
  BY <1>1, <1>2, <1>3, <1>4, <1>5, <1>6, <1>7, <1>8, <1>9, <1>10, <1>11, <1>12, <1>13,
     <1>14, <1>15, <1>16, <1>17 DEF ServerNext, ServerStep

\* The invariant holds throughout every behaviour of the server.
THEOREM InvHolds == ServerSpec => []ServerInv
BY InvInit, InvStep, PTL DEF ServerSpec

\* The drained channel is closed exactly while no handler is active
\* (addActiveHandler, removeActiveHandler): Shutdown neither waits in vain nor
\* returns early, and the channel is never closed twice.
THEOREM DrainedIsExact == ServerSpec => []DrainedMatchesActive
<1>1. ServerInv => DrainedMatchesActive
  BY DEF ServerInv
<1> QED
  BY <1>1, InvHolds, PTL

\* When Shutdown has returned, no handler is active or every active one has been
\* cancelled by forceActiveHandlers.
THEOREM NoHandlerLeft == ServerSpec => []ShutdownLeavesNoHandler
<1>1. ServerInv => ShutdownLeavesNoHandler
  BY DEF ServerInv, ForcedAreCopied, ShutdownLeavesNoHandler
<1> QED
  BY <1>1, InvHolds, PTL

\* A fresh server maps to the contract's initial state.
LEMMA ContractStart == ServerInit => Contract!ContractInit
BY DEF ServerInit, Contract!ContractInit

\* Every step of the server is a step of the contract or changes nothing it sees.
LEMMA ContractStep ==
    ServerInv /\ [ServerNext]_serverVars
        => [Contract!ContractNext]_(Contract!contractVars)
<1> SUFFICES ASSUME ServerInv, [ServerNext]_serverVars
             PROVE  [Contract!ContractNext]_(Contract!contractVars)
  OBVIOUS
<1> USE DEF ServerInv, ServerTypeOK, Contract!contractVars
<1>1. CASE BeginServe
  BY <1>1 DEF BeginServe, Contract!ContractNext, Contract!ServeReturns
<1>2. CASE CloseOnCancel
  BY <1>2 DEF CloseOnCancel
<1>3. CASE AcceptFails
  BY <1>3 DEF AcceptFails, ListenerKnown, Contract!ContractNext, Contract!ServeReturns
<1>4. CASE TakeSlot
  BY <1>4 DEF TakeSlot
<1>5. CASE Register
  BY <1>5 DEF Register, AddActiveHandler, AcceptedIsNew, Contract!ContractNext,
              Contract!Handlers
<1>6. ASSUME NEW c \in Conns, Accept(c) PROVE [Contract!ContractNext]_(Contract!contractVars)
  BY <1>6 DEF Accept
<1>7. ASSUME NEW c \in Conns, HandlerEnds(c)
      PROVE  [Contract!ContractNext]_(Contract!contractVars)
  BY <1>7 DEF HandlerEnds
<1>8. ASSUME NEW c \in Conns, RemoveActiveHandler(c)
      PROVE  [Contract!ContractNext]_(Contract!contractVars)
  BY <1>8 DEF RemoveActiveHandler, Contract!ContractNext, Contract!Handlers
<1>9. ASSUME NEW c \in Conns, ReleaseSlot(c)
      PROVE  [Contract!ContractNext]_(Contract!contractVars)
  BY <1>9 DEF ReleaseSlot
<1>10. CASE BeginShutdown
  BY <1>10 DEF BeginShutdown, Contract!ContractNext, Contract!ShutdownCalled
<1>11. CASE CloseListener
  BY <1>11 DEF CloseListener
<1>12. CASE Drain
  BY <1>12 DEF Drain, DrainedMatchesActive, Contract!ContractNext, Contract!ShutdownReturns
<1>13. CASE BeginForce
  BY <1>13 DEF BeginForce
<1>14. CASE ForceHandler
  BY <1>14 DEF ForceHandler, ForcedAreCopied, Contract!ContractNext,
               Contract!ShutdownReturns
<1>15. CASE Cancel
  BY <1>15 DEF Cancel, Contract!ContractNext, Contract!ContextCancelled
<1>16. CASE Expire
  BY <1>16 DEF Expire, Contract!ContractNext, Contract!DeadlineExpires
<1>17. CASE UNCHANGED serverVars
  BY <1>17 DEF serverVars
<1> QED
  BY <1>1, <1>2, <1>3, <1>4, <1>5, <1>6, <1>7, <1>8, <1>9, <1>10, <1>11, <1>12, <1>13,
     <1>14, <1>15, <1>16, <1>17 DEF ServerNext, ServerStep

\* The SOCKS server implements ServerContract, on which Supervisor is built: Serve
\* returns nil only when told to stop, no handler starts once Shutdown was called,
\* and Shutdown returns only without handlers or past its deadline.
THEOREM ServerImplementsContract == ServerSpec => ImplementsContract
BY InvHolds, ContractStart, ContractStep, PTL
   DEF ServerSpec, ImplementsContract, Contract!ContractSpec

----------------------------------------------------------------------------
(* Connection slots.                                                        *)

\* The slots in use are counted by a finite set of connections, however many
\* connections there may be.
SlotInv == ServerInv /\ IsFiniteSet(Holding) /\ SlotsAccounted

\* A fresh server has no slot in use.
LEMMA SlotInit == ServerInit => SlotInv
<1> SUFFICES ASSUME ServerInit PROVE SlotInv
  OBVIOUS
<1>1. ServerInv
  BY InvInit
<1>2. Holding = {}
  BY DEF ServerInit, Holding
<1>3. SlotsAccounted
  BY <1>2, FS_EmptySet, ServerConstants DEF SlotsAccounted, ServerInit
<1> QED
  BY <1>1, <1>2, <1>3, FS_EmptySet DEF SlotInv

\* Steps that neither take nor give back a slot and leave the handlers' slots
\* alone keep the count.
LEMMA SlotsKept ==
    ASSUME SlotInv, Holding' = Holding, slots' = slots,
           (acceptor'.at = "register") <=> (acceptor.at = "register")
    PROVE  IsFiniteSet(Holding)' /\ SlotsAccounted'
BY DEF SlotInv, SlotsAccounted

\* A slot is taken before the handler starts, passes to the handler, and is
\* given back once: by the handler's goroutine, or when Shutdown refuses it.
LEMMA SlotStep == SlotInv /\ [ServerNext]_serverVars => SlotInv'
<1> SUFFICES ASSUME SlotInv, [ServerNext]_serverVars PROVE SlotInv'
  OBVIOUS
<1>1. ServerInv'
  BY InvStep DEF SlotInv
<1>2. /\ ServerInv /\ ServerTypeOK /\ IsFiniteSet(Holding) /\ Cardinality(Holding) \in Nat
      /\ slots \in Nat /\ MaxConnections \in Nat
      /\ slots = Cardinality(Holding) + (IF acceptor.at = "register" THEN 1 ELSE 0)
      /\ slots <= MaxConnections
  BY FS_CardinalityType, ServerConstants DEF SlotInv, SlotsAccounted, ServerInv
<1> SUFFICES IsFiniteSet(Holding') /\ SlotsAccounted'
  BY <1>1 DEF SlotInv
<1>3. CASE TakeSlot
  <2>1. acceptor.conn \in Conns /\ handlers[acceptor.conn] = "none"
    BY <1>2, <1>3 DEF TakeSlot, ServerInv, AcceptedIsNew
  <2>2. Holding' = Holding
    BY <1>2, <1>3, <2>1 DEF TakeSlot, Holding, ServerTypeOK
  <2> QED
    BY <1>2, <1>3, <2>2 DEF TakeSlot, FreeSlot, SlotsAccounted
<1>4. CASE Register
  <2>1. acceptor.conn \in Conns /\ handlers[acceptor.conn] = "none"
    BY <1>2, <1>4 DEF Register, ServerInv, AcceptedIsNew
  <2>2. CASE shuttingDown
    <3>1. Holding' = Holding
      BY <1>2, <1>4, <2>1, <2>2 DEF Register, AddActiveHandler, Holding, ServerTypeOK
    <3> QED
      BY <1>2, <1>4, <2>2, <3>1 DEF Register, AddActiveHandler, SlotsAccounted
  <2>3. CASE ~shuttingDown
    <3>1. Holding' = Holding \cup {acceptor.conn} /\ acceptor.conn \notin Holding
      BY <1>2, <1>4, <2>1, <2>3 DEF Register, AddActiveHandler, Holding, ServerTypeOK
    <3>2. IsFiniteSet(Holding') /\ Cardinality(Holding') = Cardinality(Holding) + 1
      BY <1>2, <3>1, FS_AddElement
    <3> QED
      BY <1>2, <1>4, <2>3, <3>2 DEF Register, AddActiveHandler, SlotsAccounted
  <2> QED
    BY <2>2, <2>3
<1>5. ASSUME NEW c \in Conns, ReleaseSlot(c)
      PROVE  IsFiniteSet(Holding') /\ SlotsAccounted'
  <2>1. Holding' = Holding \ {c} /\ c \in Holding
    BY <1>2, <1>5 DEF ReleaseSlot, Holding, ServerTypeOK
  <2>2. IsFiniteSet(Holding') /\ Cardinality(Holding') = Cardinality(Holding) - 1
    BY <1>2, <2>1, FS_RemoveElement
  <2>3. Cardinality(Holding') \in Nat
    BY <2>2, FS_CardinalityType
  <2> QED
    BY <1>2, <1>5, <2>2, <2>3 DEF ReleaseSlot, SlotsAccounted
<1>6. ASSUME NEW c \in Conns, HandlerEnds(c) \/ RemoveActiveHandler(c)
      PROVE  IsFiniteSet(Holding') /\ SlotsAccounted'
  <2>1. Holding' = Holding
    BY <1>2, <1>6 DEF HandlerEnds, RemoveActiveHandler, Holding, ServerTypeOK
  <2> QED
    BY <1>6, <2>1, SlotsKept DEF HandlerEnds, RemoveActiveHandler
<1>7. ASSUME NEW c \in Conns, Accept(c)
      PROVE  IsFiniteSet(Holding') /\ SlotsAccounted'
  BY <1>7, SlotsKept DEF Accept, Holding
<1>8. CASE BeginServe \/ CloseOnCancel \/ AcceptFails
  BY <1>8, SlotsKept DEF BeginServe, CloseOnCancel, AcceptFails, Holding
<1>9. CASE BeginShutdown \/ CloseListener \/ Drain \/ BeginForce \/ ForceHandler
  BY <1>9, SlotsKept
     DEF BeginShutdown, CloseListener, Drain, BeginForce, ForceHandler, Holding
<1>10. CASE Cancel \/ Expire \/ UNCHANGED serverVars
  BY <1>10, SlotsKept DEF Cancel, Expire, serverVars, Holding
<1> QED
  BY <1>3, <1>4, <1>5, <1>6, <1>7, <1>8, <1>9, <1>10 DEF ServerNext, ServerStep

\* The slots in use are exactly the connection being registered and the handlers
\* that have not given theirs back, and never more than MaxConnections (s.slots).
THEOREM SlotsAreAccounted == ServerSpec => []SlotsAccounted
<1>1. SlotInv => SlotsAccounted
  BY DEF SlotInv
<1> QED
  BY <1>1, SlotInit, SlotStep, PTL DEF ServerSpec

----------------------------------------------------------------------------
(* The selector catalogue.                                                  *)

\* Between the two builds the candidate is what the first one made of the offered
\* nodes and of the catalogue that is still published.
CandidateBuilt ==
    ~Idle =>
        /\ candidate.user \in Users /\ candidate.at \in 0 .. now
        /\ candidate.offered \in NodeLists
        /\ candidate.refused = {s \in DOMAIN published.dead : candidate.at < published.dead[s]}
        /\ [nodes |-> candidate.nodes, live |-> candidate.live, dead |-> candidate.dead]
              \in BuildWithTombstones(binding.generation, candidate.offered, published,
                                      candidate.at)

CatInv == TypeOK /\ LiveSelectorsMatchNodes /\ SameAccountListsOffer /\ CandidateBuilt

\* The numbers of the model.
LEMMA CatalogueNumbers ==
    /\ Grace \in Nat /\ MaxTombstones \in Nat /\ MaxTime \in Nat /\ MaxGeneration \in Nat
    /\ MaxTime + Grace \in Nat
BY CatalogueConstants

\* An empty catalogue has no selectors.
LEMMA NothingIsEmpty ==
    /\ Nothing.nodes = {} /\ Nothing.live = {} /\ DOMAIN Nothing.dead = {}
    /\ View(Nothing)
<1>1. DOMAIN << >> = {}
  OBVIOUS
<1>2. Nothing.nodes = {} /\ Nothing.live = {} /\ Nothing.dead = << >>
  BY DEF Nothing
<1> QED
  BY <1>1, <1>2 DEF View, NodeLists

\* What trimming leaves: some of the tombstones, at most as many as allowed, and all
\* of them unless the limit is reached, in which case those that end last.
LEMMA TrimmedLeaves ==
    ASSUME NEW tombs, NEW dead \in Trimmed(tombs)
    PROVE  /\ DOMAIN dead \subseteq DOMAIN tombs
           /\ \A s \in DOMAIN dead : dead[s] = tombs[s]
           /\ Cardinality(DOMAIN dead) <= MaxTombstones
           /\ Cardinality(DOMAIN dead) < MaxTombstones => DOMAIN dead = DOMAIN tombs
           /\ \A s \in DOMAIN dead, d \in DOMAIN tombs \ DOMAIN dead : tombs[d] <= tombs[s]
<1>1. PICK k \in SUBSET DOMAIN tombs :
         /\ dead = [s \in k |-> tombs[s]]
         /\ Cardinality(k) <= MaxTombstones
         /\ Cardinality(k) < MaxTombstones => k = DOMAIN tombs
         /\ \A s \in k, d \in DOMAIN tombs \ k : tombs[d] <= tombs[s]
  BY DEF Trimmed
<1>2. DOMAIN dead = k /\ \A s \in k : dead[s] = tombs[s]
  BY <1>1
<1> QED
  BY <1>1, <1>2

\* The parts of a built view.
LEMMA BuiltParts ==
    ASSUME NEW g, NEW nodes, NEW refs, NEW t,
           NEW v \in BuildWithTombstones(g, nodes, refs, t)
    PROVE  /\ v.nodes = Active(g, nodes, refs, t)
           /\ v.live = {SelectorOf(g, n) : n \in v.nodes}
           /\ v.dead \in Trimmed(Tombstones(g, nodes, refs, t))
BY DEF BuildWithTombstones

\* One build: a well-formed view of one generation, in which no selector is both live
\* and refused.
LEMMA BuiltView ==
    ASSUME NEW g \in 1 .. MaxGeneration, NEW nodes \in NodeLists, NEW refs, View(refs),
           NEW t \in 0 .. MaxTime,
           NEW v \in BuildWithTombstones(g, nodes, refs, t)
    PROVE  /\ View(v)
           /\ Cardinality(DOMAIN v.dead) <= MaxTombstones
           /\ v.live = {SelectorOf(g, n) : n \in v.nodes}
           /\ v.live \cap DOMAIN v.dead = {}
           /\ \A s \in DOMAIN v.dead : s.generation = g
<1> DEFINE tombs == Tombstones(g, nodes, refs, t)
<1>1. /\ v.nodes = Active(g, nodes, refs, t)
      /\ v.live = {SelectorOf(g, n) : n \in v.nodes}
      /\ v.dead \in Trimmed(tombs)
  BY BuiltParts
<1>2. /\ DOMAIN tombs = Kept(g, refs, t) \cup Removed(g, nodes, refs)
      /\ \A s \in Kept(g, refs, t) : tombs[s] = refs.dead[s]
      /\ \A s \in Removed(g, nodes, refs) \ Kept(g, refs, t) : tombs[s] = t + Grace
  BY DEF Tombstones
<1> HIDE DEF tombs
<1>3. /\ DOMAIN v.dead \subseteq DOMAIN tombs
      /\ \A s \in DOMAIN v.dead : v.dead[s] = tombs[s]
      /\ Cardinality(DOMAIN v.dead) <= MaxTombstones
  BY <1>1, TrimmedLeaves
<1>4. \A s \in DOMAIN tombs : s \in Selector /\ s.generation = g /\ tombs[s] \in Untils
  <2>1. ASSUME NEW s \in Kept(g, refs, t)
        PROVE  s \in Selector /\ s.generation = g /\ tombs[s] \in Untils
    BY <1>2 DEF Kept, View
  <2>2. ASSUME NEW s \in Removed(g, nodes, refs) \ Kept(g, refs, t)
        PROVE  s \in Selector /\ s.generation = g /\ tombs[s] \in Untils
    <3>1. s \in Selector /\ s.generation = g
      BY DEF Removed, View
    <3>2. tombs[s] = t + Grace
      BY <1>2
    <3>3. t + Grace \in Untils
      BY CatalogueNumbers DEF Untils
    <3> QED
      BY <3>1, <3>2, <3>3
  <2> QED
    BY <1>2, <2>1, <2>2
<1>5. v.nodes \in NodeLists
  BY <1>1 DEF Active, NodeLists
<1>6. v.live \subseteq Selector
  BY <1>1, <1>5 DEF NodeLists, SelectorOf, Selector
<1>7. v.live \cap DOMAIN v.dead = {}
  <2> SUFFICES ASSUME NEW n \in v.nodes, SelectorOf(g, n) \in DOMAIN v.dead PROVE FALSE
    BY <1>1
  <2>1. n \in nodes /\ SelectorOf(g, n) \notin Kept(g, refs, t)
    BY <1>1 DEF Active
  <2>2. SelectorOf(g, n) \in Removed(g, nodes, refs)
    BY <1>2, <1>3, <2>1
  <2> QED
    BY <2>1, <2>2 DEF Removed
<1>8. /\ DOMAIN v.dead \subseteq Selector
      /\ \A s \in DOMAIN v.dead : v.dead[s] \in Untils /\ s.generation = g
  BY <1>3, <1>4
<1> QED
  BY <1>1, <1>3, <1>5, <1>6, <1>7, <1>8 DEF View

\* The offered nodes are a list: each id once.
LEMMA MergedIsList ==
    ASSUME NEW ios \in NodeLists, NEW windows \in NodeLists
    PROVE  MergeProfileNodes(ios, windows) \in NodeLists
BY DEF MergeProfileNodes, NodeLists

\* The process starts without a catalogue.
LEMMA CatalogueStart == Init => CatInv
<1> SUFFICES ASSUME Init PROVE CatInv
  OBVIOUS
<1>1. published = Nothing /\ candidate = Nothing /\ now = 0
      /\ binding = [account |-> NoUser, generation |-> 1]
  BY DEF Init
<1>2. Cardinality(DOMAIN published.dead) <= MaxTombstones
  BY <1>1, NothingIsEmpty, FS_EmptySet, CatalogueNumbers
<1>3. TypeOK
  BY <1>1, <1>2, NothingIsEmpty, CatalogueConstants DEF TypeOK
<1>4. LiveSelectorsMatchNodes
  BY <1>1, NothingIsEmpty DEF LiveSelectorsMatchNodes
<1> QED
  BY <1>1, <1>3, <1>4 DEF CatInv, SameAccountListsOffer, CandidateBuilt, Idle

\* The first build, and the steps beside the builds.
LEMMA CatalogueFetch ==
    ASSUME CatInv, NEW u \in Users, NEW ios \in NodeLists, NEW windows \in NodeLists,
           Fetch(u, ios, windows)
    PROVE  CatInv'
<1> DEFINE offer == MergeProfileNodes(ios, windows)
<1>1. UNCHANGED <<now, binding, published>>
  BY DEF Fetch
<1>2. PICK v \in BuildWithTombstones(binding.generation, offer, published, now) :
         candidate' = [nodes |-> v.nodes, live |-> v.live, dead |-> v.dead,
                       user |-> u, at |-> now, offered |-> offer,
                       refused |-> {s \in DOMAIN published.dead : now < published.dead[s]}]
  BY DEF Fetch
<1>3. offer \in NodeLists
  BY MergedIsList
<1>4. binding.generation \in 1 .. MaxGeneration /\ View(published) /\ now \in 0 .. MaxTime
  BY DEF CatInv, TypeOK
<1> HIDE DEF offer
<1>5. View(v)
  BY <1>3, <1>4, BuiltView
<1>6. View(candidate')
  BY <1>2, <1>5 DEF View
<1>7. TypeOK' /\ LiveSelectorsMatchNodes' /\ SameAccountListsOffer'
  BY <1>1, <1>6 DEF CatInv, TypeOK, LiveSelectorsMatchNodes, SameAccountListsOffer, View
<1>8. v = [nodes |-> v.nodes, live |-> v.live, dead |-> v.dead]
  BY DEF BuildWithTombstones
<1>9. CandidateBuilt'
  <2>1. now \in 0 .. now
    BY <1>4, CatalogueNumbers
  <2>2. /\ candidate'.user = u /\ candidate'.at = now /\ candidate'.offered = offer
        /\ candidate'.refused = {s \in DOMAIN published.dead : now < published.dead[s]}
        /\ [nodes |-> candidate'.nodes, live |-> candidate'.live, dead |-> candidate'.dead] = v
    BY <1>2, <1>8
  <2> HIDE DEF CandidateBuilt
  <2>3. /\ candidate'.user \in Users /\ candidate'.at \in 0 .. now'
        /\ candidate'.offered \in NodeLists
        /\ candidate'.refused = {s \in DOMAIN published'.dead : candidate'.at < published'.dead[s]}
        /\ [nodes |-> candidate'.nodes, live |-> candidate'.live, dead |-> candidate'.dead]
              \in BuildWithTombstones(binding'.generation, candidate'.offered, published',
                                      candidate'.at)
    BY <1>1, <1>3, <2>1, <2>2
  <2> QED
    BY <2>3 DEF CandidateBuilt
<1> QED
  BY <1>7, <1>9 DEF CatInv

\* Rollback, restart and the clock keep what was built, or drop it.
LEMMA CatalogueBeside ==
    ASSUME CatInv, Abandon \/ Restart \/ Tick \/ UNCHANGED vars
    PROVE  CatInv'
<1> USE DEF CatInv
<1>1. CASE Abandon
  BY <1>1, NothingIsEmpty
     DEF Abandon, TypeOK, View, LiveSelectorsMatchNodes, SameAccountListsOffer, CandidateBuilt, Idle
<1>2. CASE Restart
  <2>1. candidate' = Nothing /\ UNCHANGED <<now, binding>>
    BY <1>2 DEF Restart
  <2>2. CASE published' = published
    BY <2>1, <2>2, NothingIsEmpty
       DEF TypeOK, View, LiveSelectorsMatchNodes, SameAccountListsOffer, CandidateBuilt, Idle
  <2>3. CASE published' = Nothing
    <3>1. Cardinality(DOMAIN published'.dead) <= MaxTombstones
      BY <2>3, NothingIsEmpty, FS_EmptySet, CatalogueNumbers
    <3>2. TypeOK'
      BY <2>1, <2>3, <3>1, NothingIsEmpty DEF TypeOK
    <3>3. LiveSelectorsMatchNodes'
      BY <2>1, <2>3, NothingIsEmpty DEF LiveSelectorsMatchNodes
    <3> QED
      BY <2>1, <2>3, <3>2, <3>3 DEF SameAccountListsOffer, CandidateBuilt, Idle
  <2> QED
    BY <1>2, <2>2, <2>3 DEF Restart
<1>3. CASE Tick
  <2>1. now' \in 0 .. MaxTime /\ UNCHANGED <<binding, published, candidate>>
    BY <1>3, CatalogueNumbers DEF Tick, TypeOK
  <2>2. \A t \in 0 .. now : t \in 0 .. now'
    BY <1>3 DEF Tick, TypeOK
  <2>3. TypeOK' /\ LiveSelectorsMatchNodes' /\ SameAccountListsOffer'
    BY <2>1 DEF TypeOK, View, LiveSelectorsMatchNodes, SameAccountListsOffer
  <2>4. CandidateBuilt'
    BY <2>1, <2>2 DEF CandidateBuilt, Idle
  <2> QED
    BY <2>3, <2>4
<1>4. CASE UNCHANGED vars
  BY <1>4
     DEF vars, TypeOK, View, LiveSelectorsMatchNodes, SameAccountListsOffer, CandidateBuilt,
         Idle
<1> QED
  BY <1>1, <1>2, <1>3, <1>4
\* The candidate of the first build, as the second one finds it.
LEMMA CandidateView ==
    ASSUME CatInv, ~Idle
    PROVE  /\ candidate.at \in 0 .. MaxTime /\ candidate.at <= now
           /\ candidate.user \in Users /\ candidate.offered \in NodeLists
           /\ View(candidate)
           /\ candidate.nodes
                 = Active(binding.generation, candidate.offered, published, candidate.at)
           /\ candidate.live = {SelectorOf(binding.generation, n) : n \in candidate.nodes}
           /\ candidate.dead
                 \in Trimmed(Tombstones(binding.generation, candidate.offered, published,
                                        candidate.at))
           /\ candidate.live \cap DOMAIN candidate.dead = {}
           /\ \A s \in DOMAIN candidate.dead : s.generation = binding.generation
<1> DEFINE v == [nodes |-> candidate.nodes, live |-> candidate.live, dead |-> candidate.dead]
<1>1. /\ candidate.user \in Users /\ candidate.at \in 0 .. now
      /\ candidate.offered \in NodeLists
      /\ v \in BuildWithTombstones(binding.generation, candidate.offered, published,
                                   candidate.at)
  BY DEF CatInv, CandidateBuilt
<1>2. /\ now \in 0 .. MaxTime /\ binding.generation \in 1 .. MaxGeneration
      /\ View(published) /\ View(candidate)
  BY DEF CatInv, TypeOK
<1>3. candidate.at \in 0 .. MaxTime /\ candidate.at <= now
  BY <1>1, <1>2, CatalogueNumbers
<1>4. v.nodes = candidate.nodes /\ v.live = candidate.live /\ v.dead = candidate.dead
  OBVIOUS
<1> HIDE DEF v
<1>5. /\ v.nodes = Active(binding.generation, candidate.offered, published, candidate.at)
      /\ v.live = {SelectorOf(binding.generation, n) : n \in v.nodes}
      /\ v.dead \in Trimmed(Tombstones(binding.generation, candidate.offered, published,
                                       candidate.at))
  BY <1>1, BuiltParts
<1>6. /\ v.live \cap DOMAIN v.dead = {}
      /\ \A s \in DOMAIN v.dead : s.generation = binding.generation
  BY <1>1, <1>2, <1>3, BuiltView
<1> QED
  BY <1>1, <1>2, <1>3, <1>4, <1>5, <1>6

\* A login for an account that stays bound leaves out an offered node only if its
\* selector was refused at the first build.
LEMMA NothingWithheld ==
    ASSUME CatInv, ~Idle, Bind(candidate.user).generation = binding.generation,
           NEW v \in BuildWithTombstones(binding.generation, candidate.nodes, candidate, now)
    PROVE  Withheld(v.nodes) = {}
<1> DEFINE g == binding.generation
<1>1. /\ candidate.nodes = Active(g, candidate.offered, published, candidate.at)
      /\ candidate.live = {SelectorOf(g, n) : n \in candidate.nodes}
      /\ candidate.live \cap DOMAIN candidate.dead = {}
  BY CandidateView
<1>2. candidate.refused = {s \in DOMAIN published.dead : candidate.at < published.dead[s]}
  BY DEF CatInv, CandidateBuilt
<1>3. v.nodes = Active(g, candidate.nodes, candidate, now)
  BY BuiltParts
<1> SUFFICES ASSUME NEW n \in candidate.offered \ v.nodes,
                    SelectorOf(g, n) \notin candidate.refused
             PROVE  FALSE
  BY DEF Withheld
<1>4. CASE n \in candidate.nodes
  <2>1. SelectorOf(g, n) \in Kept(g, candidate, now)
    BY <1>3, <1>4 DEF Active
  <2>2. SelectorOf(g, n) \in candidate.live /\ SelectorOf(g, n) \in DOMAIN candidate.dead
    BY <1>1, <1>4, <2>1 DEF Kept
  <2> QED
    BY <1>1, <2>2
<1>5. CASE n \notin candidate.nodes
  <2>1. SelectorOf(g, n) \in Kept(g, published, candidate.at)
    BY <1>1, <1>5 DEF Active
  <2> QED
    BY <1>2, <2>1 DEF Kept, IsTombstoned
<1> QED
  BY <1>4, <1>5

\* The second build and the publication of its result.
LEMMA CatalogueInstall ==
    ASSUME CatInv, Install
    PROVE  CatInv'
<1> DEFINE g == Bind(candidate.user).generation
<1>1. /\ ~Idle /\ g <= MaxGeneration /\ binding' = Bind(candidate.user)
      /\ candidate' = Nothing /\ now' = now
  BY DEF Install
<1>2. PICK v \in BuildWithTombstones(g, candidate.nodes, candidate, now) :
         published' = [nodes |-> v.nodes, live |-> v.live, dead |-> v.dead,
                       withheld |-> Withheld(v.nodes),
                       rotated |-> binding'.generation # binding.generation]
  BY DEF Install
<1>3. candidate.user \in Users /\ View(candidate)
  BY <1>1, CandidateView
<1>4. /\ binding \in [account : Users \cup {NoUser}, generation : 1 .. MaxGeneration]
      /\ now \in 0 .. MaxTime
  BY DEF CatInv, TypeOK
<1>5. /\ binding' \in [account : Users \cup {NoUser}, generation : 1 .. MaxGeneration]
      /\ g \in 1 .. MaxGeneration /\ binding'.generation = g
  BY <1>1, <1>3, <1>4, CatalogueNumbers DEF Bind
<1> HIDE DEF g
<1>6. candidate.nodes \in NodeLists
  BY <1>3 DEF View
<1>7. /\ View(v) /\ Cardinality(DOMAIN v.dead) <= MaxTombstones
      /\ v.live = {SelectorOf(g, n) : n \in v.nodes}
      /\ v.live \cap DOMAIN v.dead = {}
      /\ \A s \in DOMAIN v.dead : s.generation = g
  BY <1>2, <1>3, <1>4, <1>5, <1>6, BuiltView
<1>8. /\ published'.nodes = v.nodes /\ published'.live = v.live /\ published'.dead = v.dead
      /\ published'.withheld = Withheld(v.nodes)
      /\ published'.rotated <=> g # binding.generation
  BY <1>2, <1>5
<1>9. TypeOK'
  BY <1>1, <1>4, <1>5, <1>7, <1>8, NothingIsEmpty DEF TypeOK, View
<1>10. LiveSelectorsMatchNodes'
  BY <1>5, <1>7, <1>8 DEF LiveSelectorsMatchNodes
<1>11. SameAccountListsOffer'
  <2>1. CASE g = binding.generation
    <3>1. Withheld(v.nodes) = {}
      BY <1>1, <1>2, <2>1, NothingWithheld DEF g
    <3> QED
      BY <1>8, <3>1 DEF SameAccountListsOffer
  <2>2. CASE g # binding.generation
    BY <1>8, <2>2 DEF SameAccountListsOffer
  <2> QED
    BY <2>1, <2>2
<1> QED
  BY <1>1, <1>9, <1>10, <1>11 DEF CatInv, CandidateBuilt, Idle

\* Every step preserves the invariant.
LEMMA CatalogueStep == CatInv /\ [Next]_vars => CatInv'
BY CatalogueFetch, CatalogueInstall, CatalogueBeside DEF Next

----------------------------------------------------------------------------
(* Tombstones.                                                              *)

\* The selectors of one generation are finitely many.
LEMMA SelectorsFinite ==
    ASSUME NEW g, NEW S \in SUBSET Selector, \A s \in S : s.generation = g
    PROVE  IsFiniteSet(S)
<1> DEFINE f == [n \in Nodes |-> SelectorOf(g, n)]
           D == {f[n] : n \in Nodes}
<1>0. f \in Surjection(Nodes, D)
  BY DEF Surjection
<1>1. IsFiniteSet(D)
  BY <1>0, CatalogueConstants, FS_Surjection
<1>2. S \subseteq D
  BY DEF Selector, SelectorOf
<1> QED
  BY <1>1, <1>2, FS_Subset

\* A tombstone of the first build that has not ended at the second is published as it
\* is, unless the limit is reached: it was trimmed by neither build, or the one that
\* trimmed it kept a full map of tombstones that end no sooner.
LEMMA TombstoneCarried ==
    ASSUME CatInv, ~Idle,
           NEW s, s \in DOMAIN Tombstones(binding.generation, candidate.offered, published,
                                          candidate.at),
           NEW until \in Nat, now < until,
           Tombstones(binding.generation, candidate.offered, published, candidate.at)[s] = until,
           NEW v \in BuildWithTombstones(binding.generation, candidate.nodes, candidate, now)
    PROVE  \/ s \in DOMAIN v.dead /\ v.dead[s] = until
           \/ Cardinality(DOMAIN v.dead) = MaxTombstones
<1> DEFINE g == binding.generation
           first == Tombstones(g, candidate.offered, published, candidate.at)
           second == Tombstones(g, candidate.nodes, candidate, now)
<1>1. /\ View(candidate) /\ candidate.dead \in Trimmed(first)
      /\ \A x \in DOMAIN candidate.dead : x.generation = g
      /\ candidate.nodes \in NodeLists
  BY CandidateView DEF View
<1>2. v.dead \in Trimmed(second)
  BY BuiltParts
<1>3. /\ DOMAIN candidate.dead \subseteq DOMAIN first
      /\ \A x \in DOMAIN candidate.dead : candidate.dead[x] = first[x]
      /\ Cardinality(DOMAIN candidate.dead) <= MaxTombstones
      /\ Cardinality(DOMAIN candidate.dead) < MaxTombstones => DOMAIN candidate.dead = DOMAIN first
      /\ \A x \in DOMAIN candidate.dead, d \in DOMAIN first \ DOMAIN candidate.dead :
            first[d] <= first[x]
  BY <1>1, TrimmedLeaves
<1>4. /\ DOMAIN v.dead \subseteq DOMAIN second
      /\ \A x \in DOMAIN v.dead : v.dead[x] = second[x]
      /\ Cardinality(DOMAIN v.dead) <= MaxTombstones
      /\ Cardinality(DOMAIN v.dead) < MaxTombstones => DOMAIN v.dead = DOMAIN second
  BY <1>2, TrimmedLeaves
<1>5. \A x \in Kept(g, candidate, now) : x \in DOMAIN second /\ second[x] = candidate.dead[x]
  BY DEF Tombstones
<1>6. /\ s \in DOMAIN first /\ first[s] = until
  OBVIOUS
<1>7. /\ now \in Nat /\ g \in 1 .. MaxGeneration /\ now \in 0 .. MaxTime /\ MaxTombstones \in Nat
  BY CatalogueNumbers DEF CatInv, TypeOK
<1>8. /\ IsFiniteSet(DOMAIN v.dead) /\ IsFiniteSet(DOMAIN candidate.dead)
  <2>1. DOMAIN v.dead \subseteq Selector /\ \A x \in DOMAIN v.dead : x.generation = g
    BY <1>1, <1>7, BuiltView DEF View
  <2>2. DOMAIN candidate.dead \subseteq Selector
    BY <1>1 DEF View
  <2> QED
    BY <1>1, <2>1, <2>2, SelectorsFinite
<1>9. /\ Cardinality(DOMAIN v.dead) \in Nat /\ Cardinality(DOMAIN candidate.dead) \in Nat
  BY <1>8, FS_CardinalityType
<1>10. \A x \in DOMAIN candidate.dead : candidate.dead[x] \in Nat
  BY <1>1, CatalogueNumbers DEF View, Untils
<1> HIDE DEF g, first, second
<1>11. SUFFICES ASSUME Cardinality(DOMAIN v.dead) < MaxTombstones
                PROVE  s \in DOMAIN v.dead /\ v.dead[s] = until
  BY <1>4, <1>7, <1>9
<1>12. DOMAIN v.dead = DOMAIN second
  BY <1>4, <1>11
<1>13. CASE s \in DOMAIN candidate.dead
  <2>1. candidate.dead[s] = until
    BY <1>3, <1>6, <1>13
  <2>2. s \in Kept(g, candidate, now)
    BY <1>1, <1>13, <2>1 DEF Kept, IsTombstoned
  <2> QED
    BY <1>4, <1>5, <1>12, <2>1, <2>2
<1>14. CASE s \notin DOMAIN candidate.dead
  <2>1. Cardinality(DOMAIN candidate.dead) = MaxTombstones
    BY <1>3, <1>6, <1>7, <1>9, <1>14
  <2>2. ASSUME NEW x \in DOMAIN candidate.dead PROVE x \in DOMAIN v.dead
    <3>1. until <= candidate.dead[x]
      BY <1>3, <1>6, <1>14
    <3>2. now < candidate.dead[x]
      BY <1>7, <1>10, <3>1
    <3>3. x \in Kept(g, candidate, now)
      BY <1>1, <3>2 DEF Kept, IsTombstoned
    <3> QED
      BY <1>5, <1>12, <3>3
  <2>3. Cardinality(DOMAIN candidate.dead) <= Cardinality(DOMAIN v.dead)
    BY <1>8, <2>2, FS_Subset
  <2> QED
    BY <1>7, <1>9, <1>11, <2>1, <2>3
<1> QED
  BY <1>13, <1>14
\* Only Install publishes another catalogue for the bound account.
LEMMA RepublishedInstalls ==
    ASSUME CatInv, [Next]_vars, Republished
    PROVE  /\ Install /\ ~Idle
           /\ \E v \in BuildWithTombstones(binding.generation, candidate.nodes, candidate, now) :
                 /\ published'.live = v.live /\ published'.dead = v.dead
                 /\ v.nodes = Active(binding.generation, candidate.nodes, candidate, now)
                 /\ v.live = {SelectorOf(binding.generation, n) : n \in v.nodes}
                 /\ v.dead \in Trimmed(Tombstones(binding.generation, candidate.nodes, candidate, now))
<1>1. Install
  BY DEF Next, vars, Fetch, Abandon, Restart, Tick, Republished
<1>2. ~Idle /\ Bind(candidate.user) = binding
  BY <1>1 DEF Install, Republished
<1>3. PICK v \in BuildWithTombstones(binding.generation, candidate.nodes, candidate, now) :
         published' = [nodes |-> v.nodes, live |-> v.live, dead |-> v.dead,
                       withheld |-> Withheld(v.nodes),
                       rotated |-> binding'.generation # binding.generation]
  BY <1>1, <1>2 DEF Install
<1>4. published'.live = v.live /\ published'.dead = v.dead
  BY <1>3
<1> QED
  BY <1>1, <1>2, <1>4, BuiltParts

\* A refused selector stays refused for as long as before.
LEMMA TombstonesHeldStep == CatInv /\ [Next]_vars => TombstonesHeld
<1> SUFFICES ASSUME CatInv, [Next]_vars, Republished,
                    NEW s \in DOMAIN published.dead, now < published.dead[s]
             PROVE  /\ s \notin published'.live
                    /\ s \in DOMAIN published'.dead => published'.dead[s] = published.dead[s]
                    /\ s \notin DOMAIN published'.dead => Full(published')
  BY DEF TombstonesHeld
<1> DEFINE g == binding.generation
           first == Tombstones(g, candidate.offered, published, candidate.at)
           second == Tombstones(g, candidate.nodes, candidate, now)
<1>1. ~Idle
  BY RepublishedInstalls
<1>2. PICK v \in BuildWithTombstones(g, candidate.nodes, candidate, now) :
         /\ published'.live = v.live /\ published'.dead = v.dead
         /\ v.nodes = Active(g, candidate.nodes, candidate, now)
         /\ v.live = {SelectorOf(g, n) : n \in v.nodes}
         /\ v.dead \in Trimmed(second)
  BY RepublishedInstalls
<1>3. /\ candidate.at <= now /\ candidate.at \in 0 .. MaxTime
      /\ candidate.nodes = Active(g, candidate.offered, published, candidate.at)
      /\ candidate.live = {SelectorOf(g, n) : n \in candidate.nodes}
      /\ candidate.dead \in Trimmed(first)
  BY <1>1, CandidateView
<1>4. /\ published.dead[s] \in Nat /\ now \in Nat /\ s.generation = g
  BY CatalogueNumbers DEF CatInv, TypeOK, View, Untils, LiveSelectorsMatchNodes
<1>5. s \in Kept(g, published, candidate.at)
  <2>1. candidate.at < published.dead[s]
    BY <1>3, <1>4, CatalogueNumbers
  <2> QED
    BY <1>4, <2>1 DEF Kept, IsTombstoned
<1>6. s \in DOMAIN first /\ first[s] = published.dead[s]
  BY <1>5 DEF Tombstones
<1>7. \A n \in candidate.nodes : s # SelectorOf(g, n)
  BY <1>3, <1>5 DEF Active
<1>8. s \notin v.live
  BY <1>2, <1>7 DEF Active
<1>9. ASSUME s \in DOMAIN v.dead PROVE v.dead[s] = published.dead[s]
  <2>1. s \in DOMAIN second /\ v.dead[s] = second[s]
    <3> HIDE DEF second
    <3> QED
      BY <1>2, <1>9, TrimmedLeaves
  <2>2. s \notin Removed(g, candidate.nodes, candidate)
    BY <1>3, <1>7 DEF Removed
  <2>3. s \in Kept(g, candidate, now) /\ second[s] = candidate.dead[s]
    BY <2>1, <2>2 DEF Tombstones
  <2>4. candidate.dead[s] = first[s]
    <3>1. s \in DOMAIN candidate.dead
      BY <2>3 DEF Kept
    <3> HIDE DEF first
    <3> QED
      BY <1>3, <3>1, TrimmedLeaves
  <2> QED
    BY <1>6, <2>1, <2>3, <2>4
<1>10. ASSUME s \notin DOMAIN v.dead PROVE Cardinality(DOMAIN v.dead) = MaxTombstones
  BY <1>1, <1>4, <1>6, <1>10, TombstoneCarried
<1> QED
  BY <1>2, <1>8, <1>9, <1>10 DEF Full

\* A selector that is no longer served is refused from the first build on.
LEMMA RemovalsTombstonedStep == CatInv /\ [Next]_vars => RemovalsTombstoned
<1> SUFFICES ASSUME CatInv, [Next]_vars, Republished,
                    NEW s \in published.live \ published'.live,
                    ~(candidate.at + Grace <= now)
             PROVE  \/ s \in DOMAIN published'.dead /\ published'.dead[s] = candidate.at + Grace
                    \/ Full(published')
  BY DEF RemovalsTombstoned
<1> DEFINE g == binding.generation
           first == Tombstones(g, candidate.offered, published, candidate.at)
<1>1. ~Idle
  BY RepublishedInstalls
<1>2. PICK v \in BuildWithTombstones(g, candidate.nodes, candidate, now) :
         /\ published'.live = v.live /\ published'.dead = v.dead
         /\ v.nodes = Active(g, candidate.nodes, candidate, now)
         /\ v.live = {SelectorOf(g, n) : n \in v.nodes}
  BY RepublishedInstalls
<1>3. /\ candidate.at \in 0 .. MaxTime
      /\ candidate.nodes = Active(g, candidate.offered, published, candidate.at)
      /\ candidate.live = {SelectorOf(g, n) : n \in candidate.nodes}
      /\ candidate.live \cap DOMAIN candidate.dead = {}
  BY <1>1, CandidateView
<1>4. /\ published.live = {SelectorOf(g, n) : n \in published.nodes}
      /\ published.live \cap DOMAIN published.dead = {}
      /\ now \in Nat
  BY CatalogueNumbers DEF CatInv, LiveSelectorsMatchNodes, TypeOK
<1>5. s.generation = g /\ s \notin DOMAIN published.dead
  BY <1>4 DEF SelectorOf
<1>6. \A n \in candidate.offered : s # SelectorOf(g, n)
  <2> SUFFICES ASSUME NEW n \in candidate.offered, s = SelectorOf(g, n) PROVE FALSE
    OBVIOUS
  <2>1. n \in candidate.nodes
    BY <1>3, <1>5 DEF Active, Kept
  <2>2. s \notin DOMAIN candidate.dead
    BY <1>3, <2>1
  <2>3. n \in v.nodes
    BY <1>2, <2>1, <2>2 DEF Active, Kept
  <2> QED
    BY <1>2, <2>3
<1>7. s \in Removed(g, candidate.offered, published) /\ s \notin Kept(g, published, candidate.at)
  BY <1>5, <1>6 DEF Removed, Kept
<1>8. s \in DOMAIN first /\ first[s] = candidate.at + Grace
  BY <1>7 DEF Tombstones
<1>9. candidate.at + Grace \in Nat /\ now < candidate.at + Grace
  BY <1>3, <1>4, CatalogueNumbers
<1>10. \/ s \in DOMAIN v.dead /\ v.dead[s] = candidate.at + Grace
       \/ Cardinality(DOMAIN v.dead) = MaxTombstones
  BY <1>1, <1>8, <1>9, TombstoneCarried
<1> QED
  BY <1>2, <1>10 DEF Full

\* Within the tombstone limit, the published list is what the provider offered and the
\* registry accepts: live selectors and nodes match, none is both live and refused, and
\* a refresh of the bound account withholds no node whose selector was not refused
\* (BuildWithTombstones, InstallGeneration).
THEOREM CatalogueInvHolds == Spec => []CatalogueInv
<1>1. CatInv => CatalogueInv
  BY DEF CatInv, CatalogueInv
<1>2. Spec => []CatInv
  BY CatalogueStart, CatalogueStep, PTL DEF Spec
<1> QED
  BY <1>1, <1>2, PTL

\* A selector that stops being served is refused for the whole grace period and is not
\* served before that ends, however often its node comes and goes; only the size limit
\* drops a tombstone early (Registry.BuildWithTombstones).
THEOREM TombstonesAlwaysHold == Spec => TombstonesHold
<1>1. Spec => []CatInv
  BY CatalogueStart, CatalogueStep, PTL DEF Spec
<1>2. CatInv /\ [Next]_vars => [TombstonesHeld /\ RemovalsTombstoned]_vars
  BY TombstonesHeldStep, RemovalsTombstonedStep
<1> QED
  BY <1>1, <1>2, PTL DEF Spec, TombstonesHold
===========================================================================
