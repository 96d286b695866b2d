------------------------- MODULE SelectorCatalogue -------------------------
(***************************************************************************)
(* Which nodes and SOCKS selectors a published snapshot carries, and how   *)
(* removed selectors stay refused.  A login or refresh builds the selector *)
(* view twice: Refresher.buildSelectors in the generation of the installed *)
(* registry, from the selectors of the current snapshot; then              *)
(* SelectorCoordinator.InstallGeneration in the generation planned for the *)
(* account, from the nodes and selectors the first build returned.  The    *)
(* clock is read by each.                                                  *)
(*                                                                         *)
(* A selector is a keyed digest of node id and endpoint: no two agree, and *)
(* the keys change with the credential generation, so it is represented by *)
(* the three.  A previous selector is therefore never live for another id. *)
(***************************************************************************)
EXTENDS Naturals, FiniteSets

CONSTANTS
    Users, NoUser,
    Nodes,          \* records [id, endpoint] the provider may list
    Grace,          \* DefaultTombstoneGrace
    MaxTombstones,  \* MaxTombstonesPerGeneration
    MaxTime, MaxGeneration  \* bounds of the model

ASSUME CatalogueConstants ==
    /\ NoUser \notin Users
    /\ IsFiniteSet(Nodes)
    /\ Grace \in Nat \ {0}
    /\ MaxTombstones \in Nat
    /\ MaxTime \in Nat /\ MaxGeneration \in Nat \ {0}

VARIABLES
    now,
    binding,    \* account and credential generation of the durable subscription
    published,  \* the catalogue of the manager's current snapshot
    candidate   \* the catalogue between the two builds, or Nothing

vars == <<now, binding, published, candidate>>

Selector == [generation : 1 .. MaxGeneration, node : Nodes]
SelectorOf(g, n) == [generation |-> g, node |-> n]

\* Node lists hold each id once.
NodeLists == {list \in SUBSET Nodes : \A m, n \in list : m.id = n.id => m = n}

Nothing == [nodes |-> {}, live |-> {}, dead |-> << >>]
Untils == 0 .. MaxTime + Grace

\* The selector map, split into live references and tombstones with their
\* TombstoneUntil.
View(v) ==
    /\ v.nodes \in NodeLists
    /\ v.live \subseteq Selector
    /\ DOMAIN v.dead \subseteq Selector
    /\ \A s \in DOMAIN v.dead : v.dead[s] \in Untils

\* The one type invariant of this module, with the size limit of the map.
TypeOK ==
    /\ now \in 0 .. MaxTime
    /\ binding \in [account : Users \cup {NoUser}, generation : 1 .. MaxGeneration]
    /\ View(published) /\ View(candidate)
    /\ Cardinality(DOMAIN published.dead) <= MaxTombstones

----------------------------------------------------------------------------
(* Registry.BuildWithTombstones.                                            *)

\* Fault: the expiry of a tombstone is not looked at.
AnyTombstone(until, t) == TRUE

\* NodeRef.IsTombstoned.
IsTombstoned(until, t) == t < until

\* Tombstones of this generation that are still active ...
Kept(want, refs, t) ==
    {s \in DOMAIN refs.dead : s.generation = want /\ IsTombstoned(refs.dead[s], t)}

\* ... and live selectors of this generation that no node has any more.
Removed(want, nodes, refs) ==
    {s \in refs.live : s.generation = want /\ \A n \in nodes : s # SelectorOf(want, n)}

\* Fault: a tombstone starts anew with every build.
TombstonesRestarted(want, nodes, refs, t) ==
    [s \in Kept(want, refs, t) \cup Removed(want, nodes, refs) |-> t + Grace]

\* Together with the time until which each is refused.
Tombstones(want, nodes, refs, t) ==
    [s \in Kept(want, refs, t) \cup Removed(want, nodes, refs) |->
        IF s \in Kept(want, refs, t) THEN refs.dead[s] ELSE t + Grace]

\* Beyond the limit the ones that end first go (ties by name, any of them).
Trimmed(tombs) ==
    {[s \in keep |-> tombs[s]] : keep \in
        {k \in SUBSET DOMAIN tombs :
            /\ Cardinality(k) <= MaxTombstones
            /\ Cardinality(k) < MaxTombstones => k = DOMAIN tombs
            /\ \A s \in k, d \in DOMAIN tombs \ k : tombs[d] <= tombs[s]}}

\* An active tombstone wins over a node that comes back.
Active(want, nodes, refs, t) ==
    {n \in nodes : SelectorOf(want, n) \notin Kept(want, refs, t)}

BuildWithTombstones(want, nodes, refs, t) ==
    {[nodes |-> Active(want, nodes, refs, t),
      live |-> {SelectorOf(want, n) : n \in Active(want, nodes, refs, t)},
      dead |-> dead] : dead \in Trimmed(Tombstones(want, nodes, refs, t))}

----------------------------------------------------------------------------
(* Login, refresh, restart.                                                 *)

Idle == candidate = Nothing

Init ==
    /\ now = 0
    /\ binding = [account |-> NoUser, generation |-> 1]
    /\ published = Nothing
    /\ candidate = Nothing

\* mergeProfileNodes: the iOS profile's node is kept when both have its id.
MergeProfileNodes(ios, windows) ==
    ios \cup {n \in windows : \A m \in ios : m.id # n.id}

\* Refresher.commit: the first build, in the generation of the installed
\* registry.  What was offered, and which selectors were refused at that
\* moment, is kept for the properties.
Fetch(user, ios, windows) ==
    /\ Idle
    /\ \E v \in BuildWithTombstones(binding.generation, MergeProfileNodes(ios, windows),
                                    published, now) :
           candidate' = [nodes |-> v.nodes, live |-> v.live, dead |-> v.dead,
                         user |-> user, at |-> now,
                         offered |-> MergeProfileNodes(ios, windows),
                         refused |-> {s \in DOMAIN published.dead : now < published.dead[s]}]
    /\ UNCHANGED <<now, binding, published>>

\* EnsureSubscriptionAccountBinding, without the keys.
Bind(user) ==
    IF binding.account \in {NoUser, user} THEN [binding EXCEPT !.account = user]
    ELSE [account |-> user, generation |-> binding.generation + 1]

\* History: the offered nodes a publication leaves out although their selector
\* in the new generation was not refused when they were fetched.
Withheld(nodes) ==
    {n \in candidate.offered \ nodes :
        SelectorOf(Bind(candidate.user).generation, n) \notin candidate.refused}

\* InstallGeneration and the publication of its result.  A snapshot without
\* an eligible node is refused.
Install ==
    /\ ~Idle
    /\ Bind(candidate.user).generation <= MaxGeneration
    /\ binding' = Bind(candidate.user)
    /\ \E v \in BuildWithTombstones(Bind(candidate.user).generation, candidate.nodes,
                                    candidate, now) :
           /\ v.nodes # {}
           /\ published' = [nodes |-> v.nodes, live |-> v.live, dead |-> v.dead,
                            withheld |-> Withheld(v.nodes),
                            rotated |-> binding'.generation # binding.generation]
    /\ candidate' = Nothing
    /\ UNCHANGED now

\* The operation failed somewhere in between and everything was rolled back.
Abandon ==
    /\ ~Idle
    /\ candidate' = Nothing
    /\ UNCHANGED <<now, binding, published>>

\* A new process takes the persisted session's catalogue, or starts without
\* one when there is no usable session.  Logout and expiry keep the catalogue.
Restart ==
    /\ candidate' = Nothing
    /\ published' \in {published, Nothing}
    /\ UNCHANGED <<now, binding>>

Tick ==
    /\ now < MaxTime
    /\ now' = now + 1
    /\ UNCHANGED <<binding, published, candidate>>

Next ==
    \/ \E u \in Users, ios, windows \in NodeLists : Fetch(u, ios, windows)
    \/ Install \/ Abandon \/ Restart \/ Tick

Spec == Init /\ [][Next]_vars

----------------------------------------------------------------------------
(* Properties.                                                              *)

\* Every published node can be reached by exactly one live selector of the
\* bound generation, every live selector has its node, and no selector is
\* both live and refused, after two builds, rotations and trimming
\* (ResolveSelector and ValidateRuntimeSnapshot rely on it).
LiveSelectorsMatchNodes ==
    /\ published.live = {SelectorOf(binding.generation, n) : n \in published.nodes}
    /\ published.live \cap DOMAIN published.dead = {}
    /\ \A s \in DOMAIN published.dead : s.generation = binding.generation

\* A login or refresh for the bound account leaves out an offered node only
\* if the node's selector was refused when the build began: removal is never
\* silent and ends with the tombstone.
SameAccountListsOffer ==
    published # Nothing /\ ~published.rotated => published.withheld = {}

\* With the tombstones within their limit, every list that is published shows
\* what the provider offered and the registry accepts, and nothing else.
CatalogueInv == TypeOK /\ LiveSelectorsMatchNodes /\ SameAccountListsOffer

\* "carries only this generation's prior selector state forward": the same,
\* also for a login that changed the account and with it the generation.  Not an
\* invariant: the first of the two builds of such a login runs in the previous
\* account's generation and applies that account's tombstones.
OnlyThisGenerationCarried == published # Nothing => published.withheld = {}

\* The step relations of the action property below: a publication for the
\* account that stays bound, in one process.
Republished ==
    /\ published # Nothing /\ published' # Nothing /\ published' # published
    /\ binding' = binding

Full(p) == Cardinality(DOMAIN p.dead) = MaxTombstones

TombstonesHeld ==
    Republished =>
        \A s \in DOMAIN published.dead : now < published.dead[s] =>
            /\ s \notin published'.live
            /\ s \in DOMAIN published'.dead => published'.dead[s] = published.dead[s]
            /\ s \notin DOMAIN published'.dead => Full(published')

RemovalsTombstoned ==
    Republished =>
        \A s \in published.live \ published'.live :
            \/ s \in DOMAIN published'.dead /\ published'.dead[s] = candidate.at + Grace
            \/ candidate.at + Grace <= now
            \/ Full(published')

\* A selector that stops being served is refused explicitly for the whole
\* grace period, counted from the first of the two builds, and is not served
\* again before its tombstone ends, however often the node comes and goes;
\* coming back does not extend the tombstone, and only the size limit drops
\* one early.
TombstonesHold == [][TombstonesHeld /\ RemovalsTombstoned]_vars
============================================================================
