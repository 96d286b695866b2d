---------------------------- MODULE SocksServer ----------------------------
(***************************************************************************)
(* The life of the SOCKS server around its connections                     *)
(* (internal/socks/server.go): the accept loop, connection slots, the map  *)
(* of active handlers with its drained channel, and Shutdown.  What a      *)
(* handler does is the subject of SocksFlow.                               *)
(***************************************************************************)
EXTENDS Naturals, FiniteSets

CONSTANTS
    Conns,          \* client connections
    MaxConnections  \* capacity of s.slots

ASSUME ServerConstants == MaxConnections \in Nat \ {0}

VARIABLES
    acceptor,       \* where Serve is, and the connection it deals with
    socketOpen,     \* the listening socket
    listener,       \* s.listener is set
    shuttingDown,   \* s.shuttingDown
    active,         \* keys of s.active
    drained,        \* the channel s.drained is closed
    slots,          \* elements in s.slots
    handlers,       \* per connection: where its goroutine is
    cancelled,      \* connections whose handler context is cancelled
    ctxDone,        \* the context of Serve is cancelled
    stopping,       \* where Shutdown is
    toForce,        \* handlers forceActiveHandlers has still to cancel
    deadline        \* the context of Shutdown has expired

serverVars == <<acceptor, socketOpen, listener, shuttingDown, active, drained, slots,
                handlers, cancelled, ctxDone, stopping, toForce, deadline>>

Holding == {c \in Conns : handlers[c] \in {"running", "finished", "removed"}}

\* The one type invariant of this module; SlotsAccounted bounds slots.
ServerTypeOK ==
    /\ acceptor.at \in {"before", "accept", "slot", "register", "returned"}
    /\ listener \in BOOLEAN /\ shuttingDown \in BOOLEAN /\ drained \in BOOLEAN
    /\ socketOpen \in BOOLEAN /\ ctxDone \in BOOLEAN /\ deadline \in BOOLEAN
    /\ handlers \in [Conns -> {"none", "running", "finished", "removed", "gone"}]
    /\ stopping \in {"idle", "closing", "waiting", "forcing", "drained", "forced"}
    /\ cancelled \subseteq Conns /\ toForce \subseteq Conns

ServerInit ==
    /\ acceptor = [at |-> "before"]
    /\ socketOpen = TRUE
    /\ listener = FALSE
    /\ shuttingDown = FALSE
    /\ active = {}
    /\ drained = TRUE
    /\ slots = 0
    /\ handlers = [c \in Conns |-> "none"]
    /\ cancelled = {}
    /\ ctxDone = FALSE
    /\ stopping = "idle"
    /\ toForce = {}
    /\ deadline = FALSE

----------------------------------------------------------------------------
(* Serve.                                                                   *)

\* beginServe.
BeginServe ==
    /\ acceptor.at = "before"
    /\ IF shuttingDown \/ listener
       THEN acceptor' = [at |-> "returned", ok |-> FALSE] /\ listener' = listener
       ELSE acceptor' = [at |-> "accept"] /\ listener' = TRUE
    /\ UNCHANGED <<socketOpen, shuttingDown, active, drained, slots, handlers,
                   cancelled, ctxDone, stopping, toForce, deadline>>

\* The goroutine that closes the socket when the context of Serve is cancelled.
CloseOnCancel ==
    /\ ctxDone /\ socketOpen
    /\ acceptor.at \notin {"before", "returned"}
    /\ socketOpen' = FALSE
    /\ UNCHANGED <<acceptor, listener, shuttingDown, active, drained, slots, handlers,
                   cancelled, ctxDone, stopping, toForce, deadline>>

Accept(c) ==
    /\ acceptor.at = "accept" /\ socketOpen
    /\ handlers[c] = "none"
    /\ acceptor' = [at |-> "slot", conn |-> c]
    /\ UNCHANGED <<socketOpen, listener, shuttingDown, active, drained, slots, handlers,
                   cancelled, ctxDone, stopping, toForce, deadline>>

\* Accept fails because the socket was closed, or by itself.  Serve returns nil
\* when it was told to stop; endServe forgets the listener.
AcceptFails ==
    /\ acceptor.at = "accept"
    /\ acceptor' = [at |-> "returned", ok |-> ctxDone \/ shuttingDown \/ ~listener]
    /\ listener' = FALSE
    /\ UNCHANGED <<socketOpen, shuttingDown, active, drained, slots, handlers,
                   cancelled, ctxDone, stopping, toForce, deadline>>

\* Fault: the slot is taken without looking at the capacity.
SlotAlways == TRUE

FreeSlot == slots < MaxConnections

\* Without a free slot the connection is closed.
TakeSlot ==
    /\ acceptor.at = "slot"
    /\ IF FreeSlot
       THEN /\ slots' = slots + 1
            /\ acceptor' = [at |-> "register", conn |-> acceptor.conn]
            /\ handlers' = handlers
       ELSE /\ slots' = slots
            /\ acceptor' = [at |-> "accept"]
            /\ handlers' = [handlers EXCEPT ![acceptor.conn] = "gone"]
    /\ UNCHANGED <<socketOpen, listener, shuttingDown, active, drained,
                   cancelled, ctxDone, stopping, toForce, deadline>>

\* Fault: a handler is registered although the server is shutting down.
AddAlways ==
    /\ active' = active \cup {acceptor.conn}
    /\ drained' = FALSE
    /\ handlers' = [handlers EXCEPT ![acceptor.conn] = "running"]
    /\ slots' = slots

\* Fault: a refused connection keeps its slot.
AddLeaking ==
    IF shuttingDown
    THEN /\ handlers' = [handlers EXCEPT ![acceptor.conn] = "gone"]
         /\ UNCHANGED <<active, drained, slots>>
    ELSE AddAlways

\* addActiveHandler: the first handler opens a new drained channel.  A refused
\* connection is closed and its slot given back.
AddActiveHandler ==
    IF shuttingDown
    THEN /\ slots' = slots - 1
         /\ handlers' = [handlers EXCEPT ![acceptor.conn] = "gone"]
         /\ UNCHANGED <<active, drained>>
    ELSE /\ active' = active \cup {acceptor.conn}
         /\ drained' = (drained /\ active # {})
         /\ handlers' = [handlers EXCEPT ![acceptor.conn] = "running"]
         /\ slots' = slots

Register ==
    /\ acceptor.at = "register"
    /\ AddActiveHandler
    /\ acceptor' = [at |-> "accept"]
    /\ UNCHANGED <<socketOpen, listener, shuttingDown, cancelled, ctxDone, stopping,
                   toForce, deadline>>

----------------------------------------------------------------------------
(* A handler's goroutine: HandleConn returns, then the deferred calls run.  *)

HandlerEnds(c) ==
    /\ handlers[c] = "running"
    /\ handlers' = [handlers EXCEPT ![c] = "finished"]
    /\ cancelled' = cancelled \cup {c}
    /\ UNCHANGED <<acceptor, socketOpen, listener, shuttingDown, active, drained, slots,
                   ctxDone, stopping, toForce, deadline>>

\* Fault: the channel is closed only while the server is shutting down.
DrainedWhenStopping(c) == drained' = (drained \/ (active = {c} /\ shuttingDown))

DrainedAfter(c) == drained' = (drained \/ active = {c})

\* removeActiveHandler: the last handler closes the channel.
RemoveActiveHandler(c) ==
    /\ handlers[c] = "finished"
    /\ active' = active \ {c}
    /\ DrainedAfter(c)
    /\ handlers' = [handlers EXCEPT ![c] = "removed"]
    /\ UNCHANGED <<acceptor, socketOpen, listener, shuttingDown, slots, cancelled,
                   ctxDone, stopping, toForce, deadline>>

ReleaseSlot(c) ==
    /\ handlers[c] = "removed"
    /\ slots' = slots - 1
    /\ handlers' = [handlers EXCEPT ![c] = "gone"]
    /\ UNCHANGED <<acceptor, socketOpen, listener, shuttingDown, active, drained,
                   cancelled, ctxDone, stopping, toForce, deadline>>

----------------------------------------------------------------------------
(* Shutdown.                                                                *)

\* Under lifecycleMu; stopping remembers whether there is a socket to close.
BeginShutdown ==
    /\ stopping = "idle"
    /\ shuttingDown' = TRUE
    /\ listener' = FALSE
    /\ stopping' = IF listener THEN "closing" ELSE "waiting"
    /\ UNCHANGED <<acceptor, socketOpen, active, drained, slots, handlers, cancelled,
                   ctxDone, toForce, deadline>>

CloseListener ==
    /\ stopping = "closing"
    /\ socketOpen' = FALSE
    /\ stopping' = "waiting"
    /\ UNCHANGED <<acceptor, listener, shuttingDown, active, drained, slots, handlers,
                   cancelled, ctxDone, toForce, deadline>>

Drain ==
    /\ stopping = "waiting" /\ drained
    /\ stopping' = "drained"
    /\ UNCHANGED <<acceptor, socketOpen, listener, shuttingDown, active, drained, slots,
                   handlers, cancelled, ctxDone, toForce, deadline>>

\* forceActiveHandlers copies the map, then cancels outside the lock.
BeginForce ==
    /\ stopping = "waiting" /\ deadline
    /\ toForce' = active
    /\ stopping' = "forcing"
    /\ UNCHANGED <<acceptor, socketOpen, listener, shuttingDown, active, drained, slots,
                   handlers, cancelled, ctxDone, deadline>>

ForceHandler ==
    /\ stopping = "forcing"
    /\ \/ \E c \in toForce :
             /\ cancelled' = cancelled \cup {c}
             /\ toForce' = toForce \ {c}
             /\ stopping' = stopping
       \/ /\ toForce = {}
          /\ stopping' = "forced"
          /\ UNCHANGED <<cancelled, toForce>>
    /\ UNCHANGED <<acceptor, socketOpen, listener, shuttingDown, active, drained, slots,
                   handlers, ctxDone, deadline>>

\* The drain context of the supervisor expires.
Expire ==
    /\ stopping # "idle" /\ ~deadline
    /\ deadline' = TRUE
    /\ UNCHANGED <<acceptor, socketOpen, listener, shuttingDown, active, drained, slots,
                   handlers, cancelled, ctxDone, stopping, toForce>>

\* The context of Serve is cancelled.
Cancel ==
    /\ ~ctxDone
    /\ ctxDone' = TRUE
    /\ UNCHANGED <<acceptor, socketOpen, listener, shuttingDown, active, drained, slots,
                   handlers, cancelled, stopping, toForce, deadline>>

ShutdownStep == BeginShutdown \/ CloseListener \/ Drain \/ BeginForce \/ ForceHandler

ServeStep == BeginServe \/ TakeSlot \/ Register \/ (~socketOpen /\ AcceptFails)

\* What happens without Shutdown and its caller.
ServerStep ==
    \/ BeginServe \/ CloseOnCancel \/ AcceptFails \/ TakeSlot \/ Register
    \/ \E c \in Conns :
          Accept(c) \/ HandlerEnds(c) \/ RemoveActiveHandler(c) \/ ReleaseSlot(c)

ServerNext ==
    \/ ServerStep
    \/ BeginShutdown \/ CloseListener \/ Drain \/ BeginForce \/ ForceHandler
    \/ Cancel \/ Expire

ServerSpec == ServerInit /\ [][ServerNext]_serverVars

\* A cancelled handler ends: HandleConn's watcher closes the client, and dial,
\* handshake and relay end with their context, deadline or connections.  No
\* other handler has to end.
ServerFairness ==
    /\ WF_serverVars(ServeStep) /\ WF_serverVars(ShutdownStep) /\ WF_serverVars(Expire)
    /\ \A c \in Conns :
          /\ WF_serverVars(c \in cancelled /\ HandlerEnds(c))
          /\ WF_serverVars(RemoveActiveHandler(c)) /\ WF_serverVars(ReleaseSlot(c))

ServerFairSpec == ServerSpec /\ ServerFairness

----------------------------------------------------------------------------
(* Properties.                                                              *)

\* s.drained is closed exactly while no handler is active: else Shutdown would
\* wait for a channel nobody closes, return with handlers running, or
\* removeActiveHandler would close a closed channel and panic.
DrainedMatchesActive == drained <=> (active = {})

\* A connection is in the map of active handlers exactly while its goroutine has
\* not called removeActiveHandler.
ActiveFollowsHandlers ==
    active = {c \in Conns : handlers[c] \in {"running", "finished"}}

\* The connection the accept loop deals with has no handler yet.
AcceptedIsNew ==
    acceptor.at \in {"slot", "register"} =>
        acceptor.conn \in Conns /\ handlers[acceptor.conn] = "none"

\* The listener is known while Serve runs, unless Shutdown took it.
ListenerKnown ==
    acceptor.at \in {"accept", "slot", "register"} => listener \/ shuttingDown

\* Handlers forceActiveHandlers has not reached are in its copy of the map.
ForcedAreCopied ==
    /\ stopping = "forcing" => active \subseteq cancelled \cup toForce
    /\ stopping \in {"forcing", "forced"} => deadline
    /\ stopping = "forced" => active \subseteq cancelled
    /\ stopping = "drained" => active = {}

\* The inductive invariant: the drained channel, the map, the goroutines and the
\* progress of Shutdown agree in every interleaving, so that Shutdown leaves no
\* handler behind.
ServerInv ==
    /\ ServerTypeOK
    /\ ActiveFollowsHandlers
    /\ AcceptedIsNew
    /\ ListenerKnown
    /\ shuttingDown <=> (stopping # "idle")
    /\ DrainedMatchesActive
    /\ ForcedAreCopied

\* A slot is taken exactly for the connection being registered and for the
\* handlers whose goroutine has not given it back, so refused, forced and
\* crossing connections neither leak slots nor free one twice, and there are
\* never more than MaxConnections.
SlotsAccounted ==
    /\ slots = Cardinality(Holding) + (IF acceptor.at = "register" THEN 1 ELSE 0)
    /\ slots \in 0 .. MaxConnections

\* When Shutdown has returned, no handler is active, or its deadline passed and
\* every active handler is cancelled: no relay outlives it unnoticed, even for
\* a connection accepted while it started.
ShutdownLeavesNoHandler ==
    /\ stopping = "drained" => active = {}
    /\ stopping = "forced" => active \subseteq cancelled

\* The abstract view the supervisor has of this server.
Contract == INSTANCE ServerContract WITH
    serve <- IF acceptor.at # "returned" THEN "running"
             ELSE IF acceptor.ok THEN "stopped" ELSE "failed",
    busy <- active # {},
    serverStop <- IF stopping = "idle" THEN "idle"
                  ELSE IF stopping \in {"drained", "forced"} THEN "done" ELSE "waiting"

\* The server keeps the contract: Serve returns nil only when told to stop, no
\* handler starts after Shutdown was called, and Shutdown returns only with the
\* handlers gone or its deadline passed, in every interleaving of accept loop,
\* handlers and Shutdown.
ImplementsContract == Contract!ContractSpec

\* Once Shutdown is called, Serve returns, every connection is let go and all
\* slots come back.
ShutdownCompletes ==
    (stopping # "idle") ~> (/\ stopping \in {"drained", "forced"}
                            /\ acceptor.at = "returned"
                            /\ slots = 0)
=============================================================================
