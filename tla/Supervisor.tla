----------------------------- MODULE Supervisor -----------------------------
(***************************************************************************)
(* Start to stop of the whole process: Supervisor.Run                      *)
(* (internal/lifecycle/supervisor.go) over the four workers that           *)
(* cmd/kfadapter/main.go gives it.  The proxy worker is the server of      *)
(* ServerContract, which SocksServer implements; the management server,    *)
(* the heartbeat, the watchdog and Runtime.Stop are reduced to what        *)
(* stopping them depends on.                                               *)
(***************************************************************************)
EXTENDS ServerContract

CONSTANTS
    MaxRequests,    \* requests accepted at a time
    MaxStreams,     \* open event streams
    Threshold       \* failed probes that end the watchdog

ASSUME SupervisorConstants ==
    MaxRequests \in Nat /\ MaxStreams \in Nat /\ Threshold \in Nat \ {0}

Workers == {"proxy", "management", "heartbeat", "watchdog"}

VARIABLES
    parentDone,     \* SIGTERM has cancelled the parent context
    run,            \* where Run is and the cause it kept
    delivered,      \* workers that sent their result
    first,          \* the first result in the channel, until Run has looked at it
    webStop,        \* where http.Server.Shutdown is
    arrived,        \* accepted requests that have not got to their work yet
    streams,        \* open event streams
    mutex,          \* who holds Runtime.mutations
    failures,       \* consecutive failures the watchdog counted
    stop            \* where Runtime.Stop is

stopVars == <<webStop, arrived, streams, mutex, failures, stop>>
runVars == <<parentDone, run, delivered, first>>
vars == <<contractVars, runVars, stopVars>>

NoResult == [worker |-> "none", err |-> "none"]

SupervisorTypeOK ==
    /\ ContractTypeOK
    /\ parentDone \in BOOLEAN
    /\ run.at \in {"starting", "parked", "woken", "drain", "join", "returned"}
    /\ run.cause \in {"none", "cancelled", "failed", "unexpected", "timeout", "nil"}
    /\ delivered \subseteq Workers
    /\ first \in [worker : Workers, err : {"nil", "error", "cancelled"}] \cup {NoResult}
    /\ webStop \in {"idle", "waiting", "done"}
    /\ arrived \in 0 .. MaxRequests
    /\ streams \in 0 .. MaxStreams
    /\ mutex \in {"free", "request", "heartbeat"}
    /\ failures \in 0 .. Threshold
    /\ stop \in {"idle", "lock", "close", "done"}

Alive == stop = "idle"
HubOpen == stop # "done"

Init ==
    /\ ContractInit
    /\ parentDone = FALSE
    /\ run = [at |-> "starting", cause |-> "none"]
    /\ delivered = {}
    /\ first = NoResult
    /\ webStop = "idle"
    /\ arrived = 0
    /\ streams = 0
    /\ mutex = "free"
    /\ failures = 0
    /\ stop = "idle"

serverButContext == <<serve, busy, serverStop, deadline>>

serverButDeadline == <<serve, busy, serverStop, ctxDone>>

----------------------------------------------------------------------------
(* Run.                                                                     *)

\* The parent is cancelled, and with it ctx.  A parked select takes this case.
Signal ==
    /\ ~parentDone
    /\ parentDone' = TRUE
    /\ ctxDone' = TRUE
    /\ run' = IF run.at = "parked" THEN [run EXCEPT !.at = "drain", !.cause = "cancelled"]
              ELSE run
    /\ UNCHANGED <<delivered, first, serverButContext, stopVars>>

\* A worker returns.  Its result wakes a parked select.
Deliver(w, e) ==
    LET result == [worker |-> w, err |-> e]
    IN  /\ w \notin delivered
        /\ delivered' = delivered \cup {w}
        /\ first' = IF first = NoResult /\ run.at \in {"starting", "parked"}
                    THEN result ELSE first
        /\ run' = IF run.at = "parked" THEN [run EXCEPT !.at = "woken"] ELSE run
        /\ parentDone' = parentDone

\* The select is reached: with several cases ready it takes any of them.
Select ==
    /\ run.at = "starting"
    /\ \/ /\ parentDone
          /\ run' = [run EXCEPT !.at = "drain", !.cause = "cancelled"]
          /\ first' = NoResult
       \/ /\ first # NoResult
          /\ run' = [run EXCEPT !.at = "woken"]
          /\ first' = first
       \/ /\ ~parentDone /\ first = NoResult
          /\ run' = [run EXCEPT !.at = "parked"]
          /\ first' = first
    /\ UNCHANGED <<parentDone, delivered, contractVars, stopVars>>

\* Fault: an error is taken for the end of the process even without a signal.
AlwaysCancelled(r) == "cancelled"

CauseOf(r) ==
    CASE r.err = "nil" -> "unexpected"
      [] r.err # "nil" /\ ~parentDone -> "failed"
      [] OTHER -> "cancelled"

\* The result is judged; then cancel().
Decide ==
    /\ run.at = "woken"
    /\ run' = [run EXCEPT !.at = "drain", !.cause = CauseOf(first)]
    /\ first' = NoResult
    /\ ctxDone' = TRUE
    /\ UNCHANGED <<parentDone, delivered, serverButContext, stopVars>>

ShutDown ==
    /\ serverStop = "done"
    /\ webStop = "done"
    /\ stop = "done"

\* Fault: the drain deadline is not looked at.
WaitForShutdown == ShutDown

DrainOver == ShutDown \/ deadline

\* The select on shutdownDone and the drain context.
EndDrain ==
    /\ run.at = "drain"
    /\ DrainOver
    /\ \/ ShutDown /\ run' = [run EXCEPT !.at = "join"]
       \/ /\ deadline
          /\ run' = [run EXCEPT !.at = "join",
                                !.cause = IF @ = "cancelled" THEN "timeout" ELSE @]
    /\ UNCHANGED <<parentDone, delivered, first, contractVars, stopVars>>

\* Fault: Run does not wait for its workers.
JoinNobody == TRUE

Joined == delivered = Workers \/ deadline

\* The select on workersDone, and the result of Run.
Return ==
    /\ run.at = "join"
    /\ Joined
    /\ run' = [run EXCEPT !.at = "returned",
                          !.cause = IF parentDone /\ @ = "cancelled" THEN "nil" ELSE @]
    /\ UNCHANGED <<parentDone, delivered, first, contractVars, stopVars>>

Draining == run.at \in {"drain", "join"}

DrainExpires ==
    /\ Draining /\ ~deadline
    /\ deadline' = TRUE
    /\ UNCHANGED <<serverButDeadline, runVars, stopVars>>

----------------------------------------------------------------------------
(* The workers and their Shutdown functions.                                *)

\* The SOCKS server runs; Run's goroutine calls its Shutdown.
ProxyStep ==
    /\ ServeReturns \/ Handlers \/ (Draining /\ ShutdownCalled) \/ ShutdownReturns
    /\ UNCHANGED <<runVars, stopVars>>

ProxyReturns ==
    /\ serve # "running"
    /\ Deliver("proxy", IF serve = "stopped" THEN "nil" ELSE "error")
    /\ UNCHANGED <<contractVars, stopVars>>

\* runWeb: ErrServerClosed, or an error of Serve.
WebReturns ==
    /\ Deliver("management", IF webStop # "idle" \/ ctxDone THEN "nil" ELSE "error")
    /\ UNCHANGED <<contractVars, stopVars>>

WebShutdown ==
    /\ Draining /\ webStop = "idle"
    /\ webStop' = "waiting"
    /\ UNCHANGED <<contractVars, runVars, arrived, streams, mutex, failures, stop>>

\* It waits for every request in progress, streams included.
WebDrained ==
    /\ webStop = "waiting"
    /\ (arrived = 0 /\ streams = 0 /\ mutex # "request") \/ deadline
    /\ webStop' = "done"
    /\ UNCHANGED <<contractVars, runVars, arrived, streams, mutex, failures, stop>>

\* No request is accepted once the shutdown began; one that was goes on.
Accept ==
    /\ webStop = "idle" /\ arrived < MaxRequests
    /\ arrived' = arrived + 1
    /\ UNCHANGED <<contractVars, runVars, webStop, streams, mutex, failures, stop>>

\* It is refused, or changes nothing.
Answer ==
    /\ arrived > 0
    /\ arrived' = arrived - 1
    /\ UNCHANGED <<contractVars, runVars, webStop, streams, mutex, failures, stop>>

\* It subscribes, also while the server shuts down, until the hub is closed.
OpenStream ==
    /\ arrived > 0 /\ HubOpen /\ streams < MaxStreams
    /\ arrived' = arrived - 1
    /\ streams' = streams + 1
    /\ UNCHANGED <<contractVars, runVars, webStop, mutex, failures, stop>>

\* The browser leaves.
LeaveStream ==
    /\ streams > 0
    /\ streams' = streams - 1
    /\ UNCHANGED <<contractVars, runVars, webStop, arrived, mutex, failures, stop>>

\* Fault: a stream does not notice that its channel was closed.
StreamOpen == FALSE

StreamClosed == ~HubOpen

EndStream == StreamClosed /\ LeaveStream

\* A request that changes state gets the runtime's mutex and finds it alive.
BeginRequest ==
    /\ arrived > 0 /\ Alive /\ mutex = "free"
    /\ arrived' = arrived - 1
    /\ mutex' = "request"
    /\ UNCHANGED <<contractVars, runVars, webStop, streams, failures, stop>>

EndRequest ==
    /\ mutex = "request"
    /\ mutex' = "free"
    /\ UNCHANGED <<contractVars, runVars, webStop, arrived, streams, failures, stop>>

Beat ==
    /\ "heartbeat" \notin delivered /\ Alive /\ mutex = "free"
    /\ mutex' = "heartbeat"
    /\ UNCHANGED <<contractVars, runVars, webStop, arrived, streams, failures, stop>>

EndBeat ==
    /\ mutex = "heartbeat"
    /\ mutex' = "free"
    /\ UNCHANGED <<contractVars, runVars, webStop, arrived, streams, failures, stop>>

HeartbeatReturns ==
    /\ ctxDone /\ mutex # "heartbeat"
    /\ Deliver("heartbeat", "cancelled")
    /\ UNCHANGED <<contractVars, stopVars>>

WatchdogGoesOn == failures < Threshold

\* A probe of the watchdog; after Stop it cannot succeed.
Probe ==
    /\ "watchdog" \notin delivered /\ WatchdogGoesOn
    /\ \/ failures' = failures + 1
       \/ Alive /\ failures' = 0
    /\ UNCHANGED <<contractVars, runVars, webStop, arrived, streams, mutex, stop>>

WatchdogReturns ==
    /\ \/ ~WatchdogGoesOn /\ Deliver("watchdog", "error")
       \/ WatchdogGoesOn /\ ctxDone /\ Deliver("watchdog", "cancelled")
    /\ UNCHANGED <<contractVars, stopVars>>

\* Runtime.Stop, the Shutdown of the heartbeat worker: not alive, sign out under
\* the mutex, close the event hub.
RuntimeStop ==
    /\ \/ Draining /\ stop = "idle" /\ stop' = "lock"
       \/ stop = "lock" /\ mutex = "free" /\ stop' = "close"
       \/ stop = "close" /\ stop' = "done"
    /\ UNCHANGED <<contractVars, runVars, webStop, arrived, streams, mutex, failures>>

Step ==
    \/ Signal \/ Select \/ Decide \/ EndDrain \/ Return \/ DrainExpires
    \/ ProxyStep \/ ProxyReturns
    \/ WebReturns \/ WebShutdown \/ WebDrained
    \/ Accept \/ Answer \/ OpenStream \/ LeaveStream \/ EndStream
    \/ BeginRequest \/ EndRequest
    \/ Beat \/ EndBeat \/ HeartbeatReturns \/ Probe \/ WatchdogReturns
    \/ RuntimeStop

\* When Run returns, runContext closes the store and the process ends.
Exists == run.at # "returned"

Next == Exists /\ Step

Spec == Init /\ [][Next]_vars

\* Run and the Shutdown functions go on.  Provider calls time out, so a request
\* or a beat ends and the next gets the mutex; an event stream ends when its channel is closed.  SOCKS
\* handlers, browsers and, unless a property says so, the drain timer need not
\* do anything.
FairSpec ==
    /\ Spec
    /\ WF_vars(Select) /\ WF_vars(Decide) /\ WF_vars(EndDrain) /\ WF_vars(Return)
    /\ WF_vars(Exists /\ WebShutdown) /\ WF_vars(Exists /\ WebDrained)
    /\ WF_vars(Exists /\ RuntimeStop) /\ WF_vars(Exists /\ EndRequest)
    /\ WF_vars(Exists /\ (Answer \/ OpenStream \/ BeginRequest))
    /\ WF_vars(Exists /\ EndBeat) /\ WF_vars(Exists /\ EndStream)

----------------------------------------------------------------------------
(* Properties.                                                              *)

\* A step of the action property below.
FailureKept ==
    /\ run'.at = "drain" /\ ~parentDone' => run'.cause \in {"failed", "unexpected"}
    /\ run.cause \in {"failed", "unexpected"} => run'.cause = run.cause

\* A Run that began to stop without a signal, because a critical worker ended,
\* returns an error even when SIGTERM arrives while it drains: the failure is
\* not mistaken for an orderly stop and the container is restarted.
FailureOutlivesSignal == [][FailureKept]_vars

\* Unless the drain deadline passed, nothing is left running when Run returns
\* and runContext closes the store: no worker, relay, stream or request, and the
\* session is wiped.
NothingOutlivesRun ==
    run.at = "returned" /\ ~deadline =>
        /\ delivered = Workers
        /\ ~busy
        /\ arrived = 0
        /\ streams = 0
        /\ mutex = "free"
        /\ ~HubOpen

\* With it, every variable is well formed.
SupervisorInv == SupervisorTypeOK /\ NothingOutlivesRun

\* The timer of the drain context fires when Run is still draining.
DrainTimerFires == Draining ~> (deadline \/ ~Draining)

\* After a signal Run returns, whatever SOCKS clients, relays and browsers do.
SignalStops == DrainTimerFires => (parentDone ~> (run.at = "returned"))

\* Open event streams do not hold up the management server's shutdown until the
\* deadline, which need not come: Stop runs beside it and ends them.
StreamsReleaseShutdown == (run.at = "drain") ~> (webStop = "done" \/ deadline)

\* Claimed by TestParentCancellationIsClean ("cancellation should be clean"): a
\* process whose only reason to stop is a signal, and whose workers stop in
\* time, returns nil.  Not an invariant: the select may take the result of a
\* worker that ended because of the signal.
CleanStop ==
    run.at = "returned" /\ parentDone /\ ~deadline => run.cause \in {"nil", "failed"}
=============================================================================
