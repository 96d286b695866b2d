----------------------------- MODULE SocksFlow -----------------------------
(***************************************************************************)
(* One SOCKS connection (HandleConn of internal/socks/server.go) against   *)
(* the authority life cycle of Runtime.  A flow never takes the runtime's  *)
(* mutex: it loads the registry pointer and asks the manager for a pin, in *)
(* separate atomic reads, three times, with the client and the upstream    *)
(* free to stall between them.                                             *)
(***************************************************************************)
EXTENDS Runtime

CONSTANTS Flows

VARIABLES
    flows,  \* per connection: what the handler goroutine holds
    issued  \* history: account-bound generations that were ever durable,
            \* whose credentials clients may still present

flowVars == <<vars, flows, issued>>

\* The selector/password pair of one node in one generation.  The account is
\* not part of it: it records whom the credential was issued to.
Credential(sub, node) ==
    [generation |-> sub.generation, key |-> sub.key, owner |-> sub.account,
     node |-> node]

Phases == {"closed", "hello", "loaded", "authenticated", "reloaded", "repinned",
           "dialing", "acked", "current", "finalloaded", "finalpinned", "admitted"}

Closed == [phase |-> "closed"]

\* The one type invariant of this module; the rest is Runtime's.  A flow that
\* was told it is authenticated holds a complete session.
FlowTypeOK ==
    /\ \A f \in Flows :
           \/ flows[f] = Closed
           \/ flows[f].phase = "hello" /\ flows[f].cred.key \in Keys
           \/ flows[f].phase = "loaded" /\ flows[f].clock \in 0 .. MaxTime
           \/ /\ flows[f].phase \in Phases \ {"closed", "hello", "loaded"}
              /\ flows[f].clock \in 0 .. MaxTime
              /\ flows[f].pin.sessions \in M!Sessions
    /\ issued \subseteq M!Subscriptions

----------------------------------------------------------------------------
(* What a flow reads.                                                       *)

\* Registry.AuthenticateAt: the password is derived from the registry's keys.
Authenticates(reg, cred) == reg.key = cred.key

ServingStates == {"ready", "degraded", "syncing"}

\* Fault: a selector resolves by its node alone.
ResolvesByNode(cred, generation, t) ==
    /\ state \in ServingStates
    /\ M!SessionUsable(snapshot, t)
    /\ cred.node \in snapshot.routes.nodes

\* Manager.CompactPin, with ResolveSelector: the selector exists in the
\* snapshot built with the same keys, and its node is still there.
Resolves(cred, generation, t) ==
    /\ state \in ServingStates
    /\ M!SessionUsable(snapshot, t)
    /\ snapshot.routes.generation = cred.generation
    /\ cred.node \in snapshot.routes.nodes
    /\ snapshot.routes.generation = generation

CompactPin(cred) ==
    [sessions |-> snapshot.sessions, expiresAt |-> snapshot.expiresAt,
     node |-> cred.node]

\* Fault: a re-resolved pin is taken whatever session it belongs to.
AnyPinAuthority(left, right) == left.node = right.node

\* samePinAuthority and sameCanonicalNode.
SamePinAuthority(left, right) == left = right

\* Manager.SessionCurrentPin.
SessionCurrentPin(pin, t) ==
    /\ state \in ServingStates
    /\ snapshot # NoSnapshot
    /\ snapshot.expiresAt = pin.expiresAt
    /\ M!SessionUsable(snapshot, t)
    /\ snapshot.sessions = pin.sessions

----------------------------------------------------------------------------
(* The handler.                                                             *)

Become(f, record) == flows' = [flows EXCEPT ![f] = record]
Advance(f, phase) == flows' = [flows EXCEPT ![f].phase = phase]
Phase(f, phase) == flows[f] # Closed /\ flows[f].phase = phase

\* A client connects and presents a credential it once received.
Connect(f) ==
    /\ flows[f] = Closed
    /\ \E sub \in issued, n \in Nodes :
           Become(f, [phase |-> "hello", cred |-> Credential(sub, n)])

\* Loading the registry pointer and checking the password against it; the
\* clock is read just before, and used for the pin that follows.
LoadRegistry(f, from, to) ==
    /\ Phase(f, from)
    /\ Authenticates(registry, flows[f].cred)
    /\ Become(f, [phase |-> to, cred |-> flows[f].cred, registry |-> registry,
                  clock |-> now,
                  pin |-> IF from = "hello" THEN NoSessions ELSE flows[f].pin])

\* The first pin: the client is told it is authenticated.
Authenticate(f) ==
    /\ Phase(f, "loaded")
    /\ Resolves(flows[f].cred, flows[f].registry.generation, flows[f].clock)
    /\ Become(f, [flows[f] EXCEPT !.phase = "authenticated",
                                  !.pin = CompactPin(flows[f].cred)])

\* A later pin must be the same authority and node as the one held.
Repin(f, from, to) ==
    /\ Phase(f, from)
    /\ Resolves(flows[f].cred, flows[f].registry.generation, flows[f].clock)
    /\ SamePinAuthority(flows[f].pin, CompactPin(flows[f].cred))
    /\ Become(f, [flows[f] EXCEPT !.phase = to])

\* The registry pointer is loaded once more and must not have changed.
Recheck(f, from, to) ==
    /\ Phase(f, from)
    /\ registry = flows[f].registry
    /\ Advance(f, to)

\* Upstream was dialled with the pinned session and acknowledged the header.
Acknowledged(f) ==
    /\ Phase(f, "dialing")
    /\ Become(f, [flows[f] EXCEPT !.phase = "acked", !.clock = now])

SessionCurrent(f) ==
    /\ Phase(f, "acked")
    /\ SessionCurrentPin(flows[f].pin, flows[f].clock)
    /\ Advance(f, "current")

\* The final registry load also notes, for the property below, whether the
\* session the tunnel was opened with is the one being served.
FinalLoad(f) ==
    /\ Phase(f, "current")
    /\ Authenticates(registry, flows[f].cred)
    /\ Become(f, [phase |-> "finalloaded", cred |-> flows[f].cred,
                  registry |-> registry, clock |-> flows[f].clock,
                  pin |-> flows[f].pin,
                  served |-> SessionCurrentPin(flows[f].pin, flows[f].clock)])

\* Any failed check, error or disconnect closes the connection; so does the
\* end of an established relay.
Close(f) ==
    /\ flows[f] # Closed
    /\ Become(f, Closed)

FlowStep(f) ==
    /\ \/ Connect(f)
       \/ LoadRegistry(f, "hello", "loaded")
       \/ Authenticate(f)
       \/ LoadRegistry(f, "authenticated", "reloaded")
       \/ Repin(f, "reloaded", "repinned")
       \/ Recheck(f, "repinned", "dialing")
       \/ Acknowledged(f)
       \/ SessionCurrent(f)
       \/ FinalLoad(f)
       \/ Repin(f, "finalloaded", "finalpinned")
       \/ Recheck(f, "finalpinned", "admitted")
       \/ Close(f)
    /\ UNCHANGED <<vars, issued>>

----------------------------------------------------------------------------
Issue == issued' = issued \cup {s \in {disk'.subscription} : s.account # NoUser}

FlowInit == Init /\ flows = [f \in Flows |-> Closed] /\ issued = {}

FlowNext ==
    \/ Running /\ Issue /\ UNCHANGED flows
    \/ CrashRestart /\ flows' = [f \in Flows |-> Closed] /\ UNCHANGED issued
    \/ \E f \in Flows : FlowStep(f)

FlowSpec == FlowInit /\ [][FlowNext]_flowVars

----------------------------------------------------------------------------
(* Properties.                                                              *)

\* The runtime's invariant holds with flows around it: what every failure path
\* of a commit rolls back, whatever operation holds the mutex, and a complete
\* session behind every authenticated flow.
FlowInv == RuntimeInv /\ FlowTypeOK

\* An admitted tunnel was opened with a session that was still the served one
\* when its last resolution began: no logout, expiry, renewal, account change
\* or stop that came before can be outrun by a stalled client or upstream.
AdmissionFollowsInvalidation ==
    \A f \in Flows : Phase(f, "finalpinned") \/ Phase(f, "admitted") => flows[f].served

\* A flow only ever holds the session of the account its credential was
\* issued to, although the registry, the manager's generation and the
\* snapshot are swapped in three separate steps.
CredentialsStayWithAccount ==
    \A f \in Flows :
        \/ flows[f] = Closed
        \/ flows[f].phase \in {"hello", "loaded"}
        \/ flows[f].pin.sessions.user = flows[f].cred.owner
============================================================================
