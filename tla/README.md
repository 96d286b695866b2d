# A TLA+ model of kfadapter

kfadapter is a container service that signs in to a VPN provider account and
offers its nodes as local SOCKS5 endpoints, with a browser page to manage the
account and a subscription URL that lists the endpoints. This directory holds
TLA+ modules of its core logic, TLC configurations that check them on small
instances, and TLAPS proofs of the results that matter most. `PROJECT.json`
maps every definition to the lines it models and lists components, runs,
mutants, hazards, findings and theorems.

## The system

| Part | State | Operations | Interacts with |
|---|---|---|---|
| state manager (`state/manager.go`) | service state, active operation and lease, subscription generation, published snapshot | Begin/finish, Transition, InstallSubscriptionGeneration and its rollback, Commit, SignOut, MarkExpired | called by runtime and refresher; read without a common lock by SOCKS |
| runtime facade (`app/runtime.go`) | `mutations` mutex, `alive`, refresh schedule, probe slots | AccessSetup, Login, Refresh, Logout, Heartbeat, Probe, CommitControlSnapshotLocked, Stop | manager, store, selector coordinator, subscription service, event hub |
| control refresher (`kuaifan/refresh.go`) | the goroutines of one operation | provider login, refresh, fetch, commit, expiry | provider clients, runtime commit |
| provider clients (`kuaifan/client.go`, `ios_client.go`, `windows_client.go`) | two sessions at the provider | Configuration, Login, Refresh, Authority, Lines | called in parallel by the refresher, retried on transport errors |
| selectors (`selector/credentials.go`, `app/selector_coordinator.go`) | immutable registry, atomically replaced; tombstones in the snapshot | BuildWithTombstones, InstallGeneration and its rollback, AuthenticateAt | SOCKS server, runtime |
| SOCKS server (`socks/server.go`) | active handlers, `drained`, slots, listener | Serve, HandleConn, Shutdown | manager pins, registry, tunnel |
| tunnel (`kuaifan/wifiin`) | pending bytes, IV, read deadline | HandshakeReader, LazyInboundReader, Relay, UOT reader | SOCKS handler, upstream node |
| UDP association (`socks/udp.go`) | client endpoint, UDP socket | three goroutines until the first result | SOCKS handler, tunnel |
| subscription service (`subscription/service.go`) | cache, listener address, fetch proof, response slots | PrepareRuntimeCommit, CommitRuntimeSnapshot, SetSocksAddress, ServeSubscriptionAt, recordActiveFetch | store, runtime mutex |
| store (`state/store.go`) | `state.db` and its journal | LoadOrCreate, migrate, Save, Update, browser session rows | everything durable |
| browser sessions (`web/security.go`) | sessions, reservations, login attempts, access attempts | create, valid, revoke, prune, beginLogin/finishLogin, beginAccess/finishAccess | store rows, HTTP API |
| event streams (`web/api.go`, `app/events.go`) | stream slots, subscribers and their queues | events, subscribe, publish, close | browser sessions, Runtime.Stop |
| supervisor (`lifecycle/supervisor.go`, `cmd/kfadapter/main.go`) | worker results, cause, drain deadline | Run, Watchdog | the four workers and their Shutdown functions |
| not modelled | | cryptography, codecs and parsers, rendering of links, configuration, browser UI | |

What is hard here:

* a login or refresh changes the manager, the SOCKS registry, the database and
  the published snapshot one after another, each step can fail, and the process
  can be killed between any two;
* SOCKS handlers, probes and subscription responses read some of that state,
  wait for a peer without a lock, and use it later;
* finish and rollback functions can be called after a sign-out or a newer
  operation;
* the refresh schedule, the fetch proof and the browser sessions are each
  updated in several critical sections with store calls in between;
* the provider rotates tokens whose answers can be lost, for two profiles that
  must stay one account;
* the bytes of a tunnel arrive cut anywhere, under a deadline that one goroutine
  arms and another clears, and every half can end or be cancelled first;
* expiry, tombstones, throttling windows and retries depend on a clock that
  moves between those steps;
* at shutdown the workers wait for each other: HTTP for event streams, the
  streams for the event hub, the hub for the mutex of a request.

What makes each part correct: the manager never serves without authority and
never keeps secrets it should have dropped; memory, disk and SOCKS agree on one
generation and one account, in every crash; a flow opens a tunnel only with
authority that is still valid; selectors are live, tombstoned or unknown in the
right order; a session is refreshed before it ends; a subscription body is
durable, current and proven only if fetched; a successful operation stores what
the provider accepts; a tunnel passes the stream intact, tears nothing in use
down and leaves nothing behind; a revoked browser stays out and sees no event;
shutdown ends and leaves nothing behind.

## Modules

`X.tla` is the specification, `MCX.tla` extends it for TLC; the theorems are in
eight modules that extend the specifications they are about: ManagerProofs,
RuntimeProofs (Runtime, SocksFlow), FrontEndProofs (SocksServer,
SelectorCatalogue), ProviderProofs (StateStore, ProviderRefresh,
RefreshSchedule), HttpProofs (SubscriptionService, AccessAdmission),
StreamsProofs (BrowserSessions, EventStreams), TunnelProofs (WifiinStream,
SocksTunnel) and SupervisorProofs. Specifications that share one of them
have operators with different names, such as `ScheduleSpec` and `AccessSpec`. In each specification a comment before a definition names what it
models; operators introduced by "Fault:" are deliberate errors used only by the
mutants in `PROJECT.json` and never by a specification.

**Manager** — the lifecycle state machine. A finish function is a *handle* that
remembers lease and operation, a rollback function a record in `rollbacks`; both
stay callable at any later time, as Go closures do. Snapshots keep what the
methods look at: generation, account, lifetime, whether sessions are present and
whether some node is eligible. Init covers every snapshot the constructor can be
given.

**Runtime** — composes the manager (by INSTANCE) with the runtime's mutex, the
SOCKS registry and the durable aggregate. `mutation` is the operation that holds
the mutex and the step it is at; the steps are those between which another
goroutine or a crash can see a difference. Provider calls return an account's
session and a catalogue, or fail. A SQLite transaction applies or fails as one
step (StateStore justifies this). `CrashRestart` rebuilds memory from disk the
way `newAdapterAtStateDirectory` does.

**AuthorityContract** — what Runtime promises about provider sessions, without
operations, mutex, registry or lease: a session is stored together with its
account, served only after that, and never comes back once discarded; what is
served is the stored session, the one it just replaced, or one being withdrawn.
`Runtime!Authority` is the refinement mapping: a session is offered while a
candidate has not passed the store call, stored when the aggregate holds it,
served when the manager's snapshot does.

**SocksFlow** — extends Runtime with SOCKS connections: load the registry,
authenticate, pin, take the request, pin again, recheck, reply, check the
session once more. `Issue` says which credentials clients have been given.

**SelectorCatalogue** — nodes, selectors and tombstones over refreshes, account
changes, restarts and the limit on tombstones, with the two builds (refresher,
then coordinator) as separate steps and the clock free to move in between.

**RefreshSchedule** — the schedule as written by login and refresh, read by the
heartbeat, and rewritten by `scheduleRefreshRetry`, which reads the clock, then
the expiry, and writes the schedule in three separate steps.
`stored` says whether the session is still on disk: clearing it may fail, and the
next beat tries again.

**ProviderRefresh** — extends StateStore with login and refresh: the two
profiles' session calls in parallel, joined, the four authority and line requests
in parallel, the retries of each, and the commit into `state.db`. The provider is
external: it accepts the last token it issued to a profile, may rotate it on a
refresh, and an answer may be lost after it took effect. Whether the operation
may start and its publication in memory are in Manager and Runtime, where the
whole exchange is one step with an outcome.

**SubscriptionService** — cache, store, listener address and responses. Each
response is a process: match, adapt the address, read again, write, record the
fetch, store the proof. The last check of a changed address
(`validateRenderedState`) has no failing branch: it renders again, under the same
lock, what the step before has just rendered.

**BrowserSessions** — `sessionStore` with the rows in the database: reserve,
save without the lock, admit; authenticate, lock, provider login; pruning with
row deletions after the lock is released (one step that deletes any part of the
rows, as a failing store does); restart. The session TTL is the same
before and after a restart: a stored row that outlasts the TTL stops the start,
which a test of the repository asks for.

**EventStreams** — extends BrowserSessions with the events handler and the hub:
take a slot, subscribe, wait in a select for an event, the ticker, the lock of
the session, the end of the hub or of the browser, write, unsubscribe, give the
slot back. An event stands for the browsers that were entitled to it when it was
published.

**AccessAdmission** — the throttle of access token attempts per client address.
`strikes` is history: when a client's counted failures were, to state how many
can fall into a stretch of time.

**ServerContract, SocksServer** — the abstract promise of the SOCKS server to
the supervisor (Serve returns nil only when told to stop, no handler starts once
Shutdown was called, Shutdown returns without handlers or past its deadline) and
the server that implements it. The refinement mapping is in `Contract`: Serve is
running until the accept loop has returned, the server is busy while the map of
handlers is not empty, and Shutdown waits until it has drained or forced.

**WifiinStream, SocksTunnel** — one connection after its request was
revalidated: dial, handshake, and then the two pumps of `Relay` or the three
goroutines of a UDP association. WifiinStream is the receiving half: provider
bytes are named by their position (acknowledgement, IV, ciphertext), a read takes
any number of them, and the deadline, the pending bytes and the arming flags are
the fields of HandshakeReader and LazyInboundReader. Sockets have our end and the
peer's end, so a blocked read, a half-close, a reset and a local close are told
apart. SocksFlow models what comes before.

**Supervisor** — extends ServerContract with `Run`, the management server, the
heartbeat, the watchdog and `Runtime.Stop`. A select that is already waiting
takes the first event; one that is reached with several ready takes any. A
request accepted before the management server shuts down may still subscribe or
take the runtime's mutex afterwards, and is waited for.

**StateStore** — `state.db` and its rollback journal as the file system has
them, and a process that can be killed anywhere in creation, migration or
update. SQLite is external: old pages go to the journal first, deleting the
journal commits, and opening rolls a leftover journal back. Removing the files
of a failed creation may fail, in which case the error is reported and the next
start may be refused. A kill leaves the file system as it is; a machine failure
may also lose a new file whose directory was not synced yet. SQLite runs with
synchronous=FULL and syncs the directory of a new journal before it writes the
database. The deletion of a journal is taken as durable once it commits: a power
loss that brings a deleted journal back is not modelled.

## Runs

| Run | Question | Result |
|---|---|---|
| `manager` | Can any order of manager calls, with late finishes and rollbacks, leave secrets behind, serve without authority or lose the lease? | no |
| `runtime` (SocksFlow over Runtime) | Do memory, registry and disk stay coherent through failures and crashes, can the process always restart, is AuthorityContract implemented, and can a stalled SOCKS client use authority that was invalidated or belongs to another account? | coherent, restartable, implemented; no |
| `selector_catalogue` | Do nodes, live selectors and tombstones agree across builds, restarts and the limit? | yes |
| `refresh_schedule` | Is a scheduled refresh in time, are failures spaced out, is a due refresh attempted, and does an expired session leave the disk? | yes |
| `refresh_schedule_lost` | Does a served session keep a schedule? | **violated**, finding 1 |
| `provider` (ProviderRefresh over StateStore) | Is the aggregate loadable and one user's after any kill, does success leave the tokens the provider accepts, and does every operation end? | yes |
| `subscription` | Is the cached body durable, current and exactly proven, is it served only to the account it was asked for, and does every response give back its slot? | yes |
| `browser_sessions` (EventStreams over BrowserSessions) | Do revocation, limits and login throttling survive concurrency, store failures and restarts; do streams end, and show nothing published after their session? | yes |
| `access_admission` | Do the pauses hold with a full table and verifications in flight? | yes |
| `socks_server` | Are channel, slots and handlers consistent, is the contract implemented, does Shutdown end? | yes |
| `tunnel` | Does the cipher see the stream intact, is the deadline armed only for the IV and the wait for it bounded, is no relay torn down without cause, do cancelled handlers and associations end? | yes |
| `supervisor` | Is anything left when Run returns in time; does Run end after a signal; is a failure still reported when a signal follows; do event streams hold up shutdown? | no; yes; yes; no |

Most modules collect their type invariant and the invariants that belong
together in one conjunction of named parts:

| Invariant | Parts |
|---|---|
| `FlowInv` | types, `GenerationsCoherent`, `CommitNeverRefused`, `NoOrphanOperation`, `SessionsBelongToBinding` |
| `DurableInv` | `DurableMatchesMemory`, `LogoutIsDurable`, `StartupPossible` |
| `CatalogueInv` | types and the tombstone limit, `LiveSelectorsMatchNodes`, `SameAccountListsOffer` |
| `ScheduleInv` | types, `ScheduledBeforeExpiry` |
| `ProviderInv` | `StoreInv` (types, `AcknowledgedIsLoadable`, `FailedCreateIsRetryable`), `AggregateIsWhole`, `SessionCallsJoined` |
| `CacheInv` | types, `CacheIsDurable`, `FetchingHasRecorder`, `BodyIsCurrent` |
| `StreamsInv` | `SessionsInv` (types, `LiveSessionIsDurable`, `PendingHasOwner`, `ReservationIsHonoured`, `OneLoginPerSession`, `LoginStateFollowsSession`), `StreamsAccounted` |
| `AdmissionInv` | the table's limit, `OneVerifierPerClient`, `PauseIsServed`, `FailuresAreBounded` |
| `ServerInv` | the inductive invariant of the proofs |
| `TunnelInv` | types, `StreamIntegrity`, `DeadlineOnlyForIv`, `ReleasedOnReturn` |
| `SupervisorInv` | types, `NothingOutlivesRun` |

Every property of a passing run has a mutant, a plausible bug in the definition
of one mapped operation, under which TLC finds the property violated.

### Bounds

Bounds are constants named in the cfg. Two accounts are enough because every
account property compares the current account with one other; two generations
let a stale value of the first meet the second and a rollback return to it.
`MaxLease` 3 allows an operation to be superseded twice. One node suffices in
Runtime and SocksFlow, where a catalogue is empty or not; SelectorCatalogue has
two nodes that can each move to another endpoint, hence four selectors against a
limit of two tombstones. The `runtime` run has two generations of credentials
and of snapshots: a refresh, a probe or an account change over a first login,
with a third operation in flight. Clocks reach the first session's expiry, and
in the other modules run at least one window or lifetime past it. The schedule
run scales the code's durations down and keeps their order (policy minimum,
safety margin, lifetime); one restart (`MaxRestarts`) is enough, since it
forgets everything but the session, and lets the liveness property hold without
assuming that nobody kills the process for ever. The accounts of the `runtime`
run are interchangeable and reduced by symmetry; runs with liveness properties
use no symmetry. BrowserSessions has two requests, because a third only repeats
the roles of creator, user and pruner, and one more token than sessions; with
one stream slot and one place in the hub the second request is refused while the
first streams, and one queued event fills the queue.
AccessAdmission has one more client than the table tracks. SocksServer has one
more connection than slots. ProviderRefresh has two users, so that the profiles can disagree, two
attempts per call (one retry) and four tokens per profile: a login, a rotation
whose answer is lost, a retry and one more. The tunnel's acknowledgement, IV and
payload have two bytes each, the least that a read can split, so every cut across
two parts happens; two uploads are the first application byte, which arms the
deadline, and one after it. The supervisor has one request at a time that was
accepted and has not begun its work (`MaxRequests`). The counters of tokens,
leases and generations only ever grow in the code, so a bound stops a behaviour
but hides no branch except the overflow of 64-bit counters.

Deadlock is checked where the system should always have a step. It is off where
a bounded clock, bounded counters or a stopped process really end a behaviour.

### Fairness

* RefreshSchedule: the worker's steps are weakly fair, its acquisitions of the
  mutex strongly; a store that is asked again and again to clear the session does
  it at some time.
* ProviderRefresh: the operation's own steps; each call has a time limit, so it
  ends with an answer or without.
* EventStreams: a handler that can go on does: its writes have a time limit and
  its ticker keeps asking for the session. Browsers need not do anything.
* SocksTunnel: the goroutines run and an armed deadline passes. Neither the
  client nor the provider ever has to send, read or close.
* SubscriptionService: responses go on, their waits for the mutex are strongly
  fair, clients need not send requests.
* SocksServer: only a handler that was cancelled must end; the accept loop,
  Shutdown and its deadline go on.
* Supervisor: Run and the shutdown functions go on, accepted requests begin and
  requests and beats end (provider calls time out), and a stream whose channel is closed ends. SOCKS
  handlers and browsers need not do anything. The drain timer is not assumed, so
  `StreamsReleaseShutdown` cannot lean on it; `SignalStops` names it as its
  premise (`DrainTimerFires`).

## Proofs

Every invariant, action property and refinement that a passing run checks is
also a theorem, for all values of the constants that satisfy the assumptions in
the modules. TLC evaluates those assumptions in the runs; they say that counts
and times are numbers in the order the code's constants have, that the values
standing for "nothing" (`NoSnapshot`, `NoBody`, `NoProof`, `None`, `NoUser`) are
none of the things they stand beside, and that the nodes a provider offers are
finitely many (`CatalogueConstants`, for counting tombstones). None bounds a set
of accounts, requests, connections or flows. `MaxTime`, `MaxGeneration` and the
other bounds of the models are arbitrary numbers in the theorems.

Each proof is one inductive invariant, TLC-checked on the run's instance before
it was proved, with one lemma per action or group of actions; the temporal
theorems combine the lemmas with PTL. Most properties are far from inductive.
What had to be added is the actual argument:

**ManagerProofs** — types, `SecretsOnlyWhenLive`, `ServingHasAuthority`,
`ActiveOperationHasOwner`, and the action properties `GenerationsOnlyAdvance` and
`SecretsEnterByCommit`. `IInv` is the conjunction of the four state properties:
a failed refresh keeps the service degraded only because secrets are confined to
live states, and a sign-out may wipe because no serving state survives it. The
action properties rest on a lemma that summarises how a step changes the
snapshot.

**RuntimeProofs** — `FlowInv`, `DurableInv`, `AdmissionFollowsInvalidation`,
`CredentialsStayWithAccount`, and that Runtime implements AuthorityContract
(`ImplementsAuthority`). `RInv` says for every step of an operation what
manager, registry, aggregate and candidate hold: the binding is swapped in the
manager, then in the registry, then on disk, and a failure walks back in the
opposite order; the disk is ahead of memory only between its transaction and
Commit, and behind it only while a logout signs out; no session is newer than a
candidate. `FInv` adds the flows: a generation is durable with one account only,
clients present what they were issued, a pinned session is older than any
candidate, and a pin that was found stale never becomes current again. The last
is what the final check of a stalled client rests on. The refinement is proved
step by step from `RInv`; most actions stutter or take one abstract step.

**FrontEndProofs** — the SOCKS server: `ServerInv`, from it
`DrainedMatchesActive` and `ShutdownLeavesNoHandler`, the refinement
`ImplementsContract`, and `SlotsAccounted`. `ServerInv` says: the active map
holds exactly the goroutines that have not removed themselves; the connection at
hand has no handler; the listener is known while Serve runs unless Shutdown took
it; while forcing, every active handler is cancelled or still in the copied list.
The last but one is what makes a nil return of Serve imply that it was told to
stop. Slots need that the connections holding one are finitely many, which is
part of the induction. The selectors: `CatalogueInv` and the action property
`TombstonesHold`, from `CandidateBuilt`: between the two builds the candidate is
still what the first build made of the catalogue that is published, so what the
second does to a tombstone can be traced to the first.

**ProviderProofs** — `ProviderInv` and `CommittedTokensAreCurrent`. `PInv` lists
the file, its journal and what opening them would recover at every step of
creation, migration and update, so that a kill anywhere finds the acknowledged
aggregate; a branch that is done has the token the provider accepts, and what is
being written is what both branches brought. The schedule: `ScheduleInv` and the
action property `NoRetryStorm`. `RefreshInv` says that neither the schedule nor
the expiry a retry has read is ahead of the session's expiry, because expiries
only move forward; and that while a session whose refresh failed lasts, the next
attempt is spaced wherever it already is: in the schedule, in what the worker has
read and in what it is about to write.

**HttpProofs** — the subscription: `CacheInv`, `ServedToItsAccount`,
`ProofIsExact`. A body being written is not ahead of the bound generation, and no
generation is written to two accounts; a recorder has only bodies that were
delivered. The throttle of access tokens: `AdmissionInv`. `AccessInv` ties each
client's attempt to the times of its failures: an open window starts with the
first failure it counts, a pause a window after the last one; and a client that
is not tracked, or has its first verification in flight, may start a window,
since its last `FailureLimit` - 1 failures began a window ago. From that follows
that a stretch of a window's length has at most 2 * `FailureLimit` - 2 failures
(eight in the code, whose limit is 5), and that many do occur.
`AccessConstants` asks for a limit of at least 2, since with 1 the formula would
be 0.

**StreamsProofs** — `StreamsInv`, `RevokedStaysRevoked` and `EventsStayEntitled`.
`SInv` follows a token through reservation, row and session: a token being stored
is reserved and known to no browser, rows that wait for deletion belong to
sessions that cannot come back, and a login mark lasts as long as its session.
`HInv` adds that everything a subscriber has received or has queued was published
for it while its session was live.

**TunnelProofs** — `TunnelInv` and `ClosedForCause`, for any lengths of
acknowledgement, IV and payload. `Positions` says that what was consumed, what is
pending and what is left of the connection are consecutive bytes; `Stages` where
the reader, the pumps and both sockets are at each step of HandleConn;
`DeadlineKept` who armed the deadline; `CauseMet` that whoever closed a socket
under a relay met a cause and is gone.

**SupervisorProofs** — `SupervisorInv` and the action property
`FailureOutlivesSignal`. What a step of the shutdown waited for does not start
again, and past the drain the Shutdown functions, then the workers, have
returned unless the deadline cut them off.

Only model-checked: the liveness properties `DueRefreshHappens`,
`ExpiredSecretsLeaveDisk`, `SlotsAreReleased`, `StreamsEnd`, `ShutdownCompletes`,
`SignalStops`, `StreamsReleaseShutdown`, `OperationEnds`, `CancelledEnds` and
`WaitsAreBounded`, which need fairness and ENABLED and are out of the prover's
reach. The violated property of finding 1 is
a counterexample of TLC. The refinement theorems cover the safety part, which is
all the contracts state.

## Findings

1. `app/runtime.go:906`: the retry computation of a failed scheduled refresh can
   erase the schedule a concurrent login has just recorded; the new session is
   then never refreshed automatically.

More observations, stated in the modules as properties that are not invariants
and that no run lists:

* `OnlyThisGenerationCarried` (`kuaifan/refresh.go:403`): nodes tombstoned under
  the previous account are missing from the first catalogue of the next one,
  because the first of the two builds uses the signed-out account's selectors.
* `ServedAtWantedAddress` (`subscription/service.go:655`): two clients that
  reach a wildcard listener through different hosts can each receive links for
  the other's host, because the address is adapted and the cache read again in
  two critical sections.
* `CleanStop` (`lifecycle/supervisor.go:73`): a signal that arrives before Run
  waits in its select can end in "critical worker proxy stopped unexpectedly".
* `StartIsNeverRefused` (`state/store.go:264`): a kill during the very first
  start, or a failed creation whose files cannot be removed, leaves a database
  or journal that every later start refuses. Nothing
  acknowledged is lost; the state directory has to be emptied by hand.
* `StoredTokensAreCurrent` (`kuaifan/refresh.go:209`): after an operation that
  failed or was killed the store may hold a token the provider has rotated away,
  and the user has to log in again. A call that ran into its time limit is not
  retried either, because `retryable` treats it as cancelled.
* `UpstreamAlwaysReleased` (`socks/server.go:378`): a handler cancelled right
  after its dial returns before the upstream's close is deferred and leaves the
  connection to the garbage collector.

## Not modelled

Functions without state: the layout of SOCKS greetings, requests and replies
(`socks/protocol.go`), key derivation, the CFB cipher and the MACs of the tunnel,
provider envelopes and the parsing of lines, the rendering of links, the
relational encoding of the aggregate, configuration and host names. Their
results enter the models as values or as outcomes (accepted, refused). Pure I/O:
routing, headers and JSON of the management API, its read-only handlers, file
permissions, flags, listeners, the health command and the browser UI.
`Manager.Status` reads two fields under separate locks; it is display only.
Delays between retries are left out: only their number matters to the
properties.

## Plan

Done: all modules above, their runs, and a theorem for every safety property of
a passing run.

Left:

1. theorems for facts that are only lemmas so far but useful to a reader on their
   own, such as the crash safety of StateStore without ProviderRefresh;
2. the safety half of the liveness properties: what must hold in every state from
   which they could fail to make progress, such as that a waiting Shutdown always
   has a handler to wait for;
3. the widening of components that are modelled in part: the request frames of a
   UDP association, and what the management API writes beside sessions.
