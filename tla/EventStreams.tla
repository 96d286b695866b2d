---------------------------- MODULE EventStreams ----------------------------
(***************************************************************************)
(* The event streams of the management API: the events handler             *)
(* (internal/web/api.go) and the hub it subscribes to                      *)
(* (internal/app/events.go), composed with the browser sessions that       *)
(* decide who may listen.  A stream is a request that stays.               *)
(*                                                                         *)
(* An event stands for the browsers entitled to it, the ones whose session *)
(* was live when it was published; its wording is left out.  A write ends  *)
(* by the write timeout at the latest.                                     *)
(***************************************************************************)
EXTENDS BrowserSessions, Sequences

CONSTANTS
    StreamSlots,    \* capacity of a.sseSlots (SSEMaxClients)
    HubCapacity,    \* h.capacity
    Buffer          \* h.buffer, the queue of one subscriber

ASSUME StreamConstants ==
    StreamSlots \in Nat \ {0} /\ HubCapacity \in Nat \ {0} /\ Buffer \in Nat \ {0}

VARIABLES
    slots,      \* elements in a.sseSlots
    clients,    \* h.clients, by request
    queues,     \* the channel of each subscriber
    hubClosed,  \* h.closed
    left        \* requests whose browser has gone (r.Context() is done)

hubVars == <<slots, clients, queues, hubClosed, left>>
vars == <<sessionVars, hubVars>>

Streaming(r) == requests[r].at \in StreamPlaces \ {"slot"}

HubTypeOK ==
    /\ slots \in 0 .. StreamSlots
    /\ clients \subseteq Requests /\ left \subseteq Requests
    /\ hubClosed \in BOOLEAN
    /\ \A r \in Requests : queues[r] \in Seq(SUBSET Tokens) /\ Len(queues[r]) <= Buffer

Init ==
    /\ SessionsInit
    /\ slots = 0
    /\ clients = {}
    /\ queues = [r \in Requests |-> <<>>]
    /\ hubClosed = FALSE
    /\ left = {}

----------------------------------------------------------------------------
(* sessionStore.matches, asked by a stream whose session was found before.  *)

Matches(r) == sessions[requests[r].token] > now

\* A session found expired is removed and its row deleted.
IfMatches(r, then, otherwise) ==
    LET expired == {requests[r].token} \cap Expired(sessions)
    IN  /\ Goto(r, IF Matches(r) THEN then ELSE Purging(expired, otherwise))
        /\ Remove(expired)

AtStream(r, place) == [at |-> place, token |-> requests[r].token]

----------------------------------------------------------------------------
(* The events handler.                                                      *)

OpenStream(r) ==
    /\ At(r, "authenticated")
    /\ IfMatches(r, AtStream(r, "slot"), Idle)
    /\ UNCHANGED <<now, pending, rows, lastToken, cookies, revoked, hubVars>>

TakeSlot(r) ==
    /\ At(r, "slot")
    /\ IF slots < StreamSlots
       THEN slots' = slots + 1 /\ Goto(r, AtStream(r, "subscribe"))
       ELSE slots' = slots /\ Goto(r, Idle)
    /\ left' = left \ (IF slots < StreamSlots THEN {} ELSE {r})
    /\ UNCHANGED <<now, sessions, pending, attempts, rows, lastToken, cookies, revoked,
                   clients, queues, hubClosed>>

\* Runtime.Subscribe and eventHub.subscribe; a stopped runtime refuses too.
Subscribe(r) ==
    /\ At(r, "subscribe")
    /\ IF hubClosed \/ Cardinality(clients) >= HubCapacity
       THEN clients' = clients /\ Goto(r, AtStream(r, "releasing"))
       ELSE clients' = clients \cup {r} /\ Goto(r, AtStream(r, "hello"))
    /\ UNCHANGED <<now, sessions, pending, attempts, rows, lastToken, cookies, revoked,
                   slots, queues, hubClosed, left>>

\* writeSSE: a browser that has gone cannot be written to, any other may be too
\* slow for the write timeout.
WriteSSE(r) == \E ok \in {r \notin left, FALSE} :
                   Goto(r, AtStream(r, IF ok THEN "streaming" ELSE "closing"))

\* Fault: the event is written without another look at the session.
CheckedEventUnchecked(r) ==
    /\ Goto(r, [at |-> "deliver", token |-> requests[r].token, event |-> requests[r].event])
    /\ UNCHANGED <<sessions, attempts>>

\* The session is checked once more after an event was received.
CheckedEvent(r) ==
    IfMatches(r, [at |-> "deliver", token |-> requests[r].token, event |-> requests[r].event],
              AtStream(r, "closing"))

Check(r) ==
    /\ At(r, "event")
    /\ CheckedEvent(r)
    /\ UNCHANGED <<now, pending, rows, lastToken, cookies, revoked, hubVars>>

\* The retry line first, later the event; an event that cannot be encoded is
\* skipped, which looks like a write that succeeded.
Write(r) ==
    /\ requests[r].at \in {"hello", "deliver"}
    /\ WriteSSE(r)
    /\ UNCHANGED <<now, sessions, pending, attempts, rows, lastToken, cookies, revoked, hubVars>>

\* One turn of the select, whichever case is ready.
ReceiveEvent(r) ==
    /\ At(r, "streaming")
    /\ queues[r] # <<>>
    /\ Goto(r, [at |-> "event", token |-> requests[r].token, event |-> Head(queues[r])])
    /\ queues' = [queues EXCEPT ![r] = Tail(@)]
    /\ UNCHANGED <<now, sessions, pending, attempts, rows, lastToken, cookies, revoked,
                   slots, clients, hubClosed, left>>

\* The context is done, the session's done channel is closed, or the drained
\* event channel is.
StreamEnds(r) ==
    /\ At(r, "streaming")
    /\ \/ r \in left
       \/ sessions[requests[r].token] = 0
       \/ r \notin clients /\ queues[r] = <<>>
    /\ Goto(r, AtStream(r, "closing"))
    /\ UNCHANGED <<now, sessions, pending, attempts, rows, lastToken, cookies, revoked, hubVars>>

\* Fault: the stream relies on the done channel, which expiry does not close.
SessionNeverChecked(r) == FALSE /\ UNCHANGED vars

\* The ticker asks for the session again; expiry is noticed only by asking.
SessionCheck(r) ==
    /\ At(r, "streaming")
    /\ ~Matches(r)
    /\ IfMatches(r, AtStream(r, "streaming"), AtStream(r, "closing"))
    /\ UNCHANGED <<now, pending, rows, lastToken, cookies, revoked, hubVars>>

HeartbeatFails(r) ==
    /\ At(r, "streaming")
    /\ Goto(r, AtStream(r, "closing"))
    /\ UNCHANGED <<now, sessions, pending, attempts, rows, lastToken, cookies, revoked, hubVars>>

\* Fault: the handler forgets its subscription.
CancelForgotten(r) == clients' = clients

\* The cancel function of subscribe.
CancelSubscription(r) == clients' = clients \ {r}

\* The deferred calls: the subscription goes before the slot does.
CloseStream(r) ==
    /\ At(r, "closing")
    /\ CancelSubscription(r)
    /\ queues' = [queues EXCEPT ![r] = <<>>]
    /\ Goto(r, AtStream(r, "releasing"))
    /\ UNCHANGED <<now, sessions, pending, attempts, rows, lastToken, cookies, revoked,
                   slots, hubClosed, left>>

ReleaseSlot(r) ==
    /\ At(r, "releasing")
    /\ slots' = slots - 1
    /\ left' = left \ {r}
    /\ Goto(r, Idle)
    /\ UNCHANGED <<now, sessions, pending, attempts, rows, lastToken, cookies, revoked,
                   clients, queues, hubClosed>>

----------------------------------------------------------------------------
(* The hub, and the surroundings.                                           *)

BrowserLeaves(r) ==
    /\ requests[r].at \in StreamPlaces /\ r \notin left
    /\ left' = left \cup {r}
    /\ UNCHANGED <<sessionVars, slots, clients, queues, hubClosed>>

\* The goroutine subscribe starts: the end of the context ends the subscription
\* while the handler may still be at work on an event.
Watcher(r) ==
    /\ r \in left \cap clients
    /\ CancelSubscription(r)
    /\ UNCHANGED <<sessionVars, slots, queues, hubClosed, left>>

Entitled == {t \in Tokens : sessions[t] > now}

\* publish: a full queue loses the event, and nobody else does.
Publish ==
    /\ clients # {} /\ ~hubClosed
    /\ queues' = [r \in Requests |->
                     IF r \in clients /\ Len(queues[r]) < Buffer
                     THEN Append(queues[r], Entitled) ELSE queues[r]]
    /\ UNCHANGED <<sessionVars, slots, clients, hubClosed, left>>

\* close, called once by the runtime when it stops.
CloseHub ==
    /\ ~hubClosed
    /\ hubClosed' = TRUE
    /\ clients' = {}
    /\ UNCHANGED <<sessionVars, slots, queues, left>>

RestartStreams ==
    /\ Restart
    /\ slots' = 0 /\ clients' = {} /\ left' = {} /\ hubClosed' = FALSE
    /\ queues' = [r \in Requests |-> <<>>]

StreamStep(r) ==
    \/ TakeSlot(r) \/ Subscribe(r) \/ Write(r)
    \/ ReceiveEvent(r) \/ Check(r) \/ StreamEnds(r) \/ SessionCheck(r)
    \/ CloseStream(r) \/ ReleaseSlot(r)

Next ==
    \/ \E r \in Requests :
          \/ SessionStep(r) /\ UNCHANGED hubVars
          \/ OpenStream(r) \/ StreamStep(r) \/ HeartbeatFails(r)
          \/ BrowserLeaves(r) \/ Watcher(r)
    \/ Publish \/ CloseHub
    \/ RestartStreams
    \/ Tick /\ UNCHANGED hubVars

Spec == Init /\ [][Next]_vars

\* A handler that can go on does: its writes are bounded by the write timeout,
\* its ticker asks again for the session.
FairSpec ==
    /\ Spec
    /\ \A r \in Requests : WF_vars(StreamStep(r)) /\ WF_vars(Purge(r) /\ UNCHANGED hubVars)

----------------------------------------------------------------------------
(* Properties.                                                              *)

\* Slots are held exactly by the handlers that took one, only such a handler is
\* a client of the hub, a closed hub has none, and, with room for every slot in
\* the hub, a handler with a slot is never refused by it: the subscription is
\* given up before the slot.
StreamsAccounted ==
    /\ HubTypeOK
    /\ slots = Cardinality({r \in Requests :
                  \/ Streaming(r)
                  \/ At(r, "purge") /\ requests[r].then.at = "closing"})
    /\ \A r \in clients :
          \/ requests[r].at \in StreamPlaces \ {"slot", "subscribe", "releasing"}
          \/ At(r, "purge") /\ requests[r].then.at = "closing"
    /\ hubClosed => clients = {}
    /\ StreamSlots <= HubCapacity =>
          \A r \in Requests : At(r, "subscribe") => Cardinality(clients) < HubCapacity

\* Sessions, reservations and rows agree with streams around them, and places in
\* the API and in the hub are given back in the right order.
StreamsInv == SessionsInv /\ StreamsAccounted

\* A browser is shown only events that were published while its session was
\* live: one that is published after a lock request or after expiry is not
\* written, although the stream may not have learned of either yet.
EventsStayEntitled ==
    \A r \in Requests : At(r, "deliver") => requests[r].token \in requests[r].event

\* A stream whose browser left, whose session ended or whose hub closed gives
\* its slot back.
StreamsEnd ==
    \A r \in Requests :
        (Streaming(r) /\ (r \in left \/ ~Matches(r) \/ hubClosed)) ~> ~Streaming(r)
=============================================================================
