-------------------------- MODULE SupervisorProofs --------------------------
(***************************************************************************)
(* Proofs about the process from start to stop: a Run that returns before  *)
(* its drain deadline leaves nothing running behind it, and a failure that *)
(* made it stop is not taken for an orderly end, for any number of         *)
(* requests and event streams and any watchdog threshold.                  *)
(***************************************************************************)
EXTENDS Supervisor, TLAPS

Runs == [at : {"starting", "parked", "woken", "drain", "join", "returned"},
         cause : {"none", "cancelled", "failed", "unexpected", "timeout", "nil"}]

\* Run has no cause before it begins to stop; without a signal a draining Run
\* has the failure of a worker as its cause.
CauseKnown ==
    /\ run \in Runs
    /\ run.at \in {"starting", "parked", "woken"} => run.cause = "none"
    /\ run.at = "drain" /\ ~parentDone => run.cause \in {"failed", "unexpected"}

\* What has ended stays ended: no handler, stream, request or beat starts after
\* the step of the shutdown that waited for it.
EndedStaysEnded ==
    /\ serverStop = "done" /\ ~deadline => ~busy
    /\ webStop = "done" /\ ~deadline => arrived = 0 /\ streams = 0 /\ mutex # "request"
    /\ "heartbeat" \in delivered => mutex # "heartbeat"

\* Past the drain, the Shutdown functions and then the workers have returned,
\* unless the deadline cut them off.
DrainedBeforeReturn ==
    /\ run.at \in {"join", "returned"} /\ ~deadline => ShutDown
    /\ run.at = "returned" /\ ~deadline => delivered = Workers

\* The inductive invariant.
SupInv ==
    /\ SupervisorTypeOK
    /\ CauseKnown
    /\ EndedStaysEnded
    /\ DrainedBeforeReturn

\* A process that starts satisfies the invariant.
LEMMA SupervisorInit == Init => SupInv
<1> SUFFICES ASSUME Init PROVE SupInv
  OBVIOUS
<1> USE DEF Init, ContractInit
<1>1. SupervisorTypeOK
  <2>1. arrived \in 0 .. MaxRequests /\ streams \in 0 .. MaxStreams /\ failures \in 0 .. Threshold
    BY SupervisorConstants
  <2> QED
    BY <2>1 DEF SupervisorTypeOK, ContractTypeOK
<1>2. CauseKnown
  BY DEF CauseKnown, Runs
<1>3. EndedStaysEnded /\ DrainedBeforeReturn
  BY DEF EndedStaysEnded, DrainedBeforeReturn
<1> QED
  BY <1>1, <1>2, <1>3 DEF SupInv

\* A worker's result reaches the channel and at most wakes a parked select.
LEMMA DeliverStep ==
    ASSUME SupInv, NEW w \in Workers, NEW e \in {"nil", "error", "cancelled"},
           Deliver(w, e), w = "heartbeat" => mutex # "heartbeat", Exists,
           UNCHANGED contractVars, UNCHANGED stopVars
    PROVE  SupInv'
<1> USE DEF SupInv, Deliver, contractVars, stopVars
<1>1. /\ run' \in Runs /\ run'.cause = run.cause
      /\ \/ run'.at = run.at
         \/ run.at = "parked" /\ run'.at = "woken"
  BY DEF CauseKnown, Runs
<1>2. /\ delivered' \subseteq Workers
      /\ first' \in [worker : Workers, err : {"nil", "error", "cancelled"}] \cup {NoResult}
  BY DEF SupervisorTypeOK
<1>3. SupervisorTypeOK'
  BY <1>1, <1>2 DEF SupervisorTypeOK, ContractTypeOK, Runs
<1>4. CauseKnown'
  BY <1>1 DEF CauseKnown
<1>5. EndedStaysEnded'
  BY DEF EndedStaysEnded
<1>6. DrainedBeforeReturn'
  BY <1>1, <1>2 DEF DrainedBeforeReturn, ShutDown, Exists
<1> QED
  BY <1>3, <1>4, <1>5, <1>6

\* The steps of Run itself.
LEMMA RunStep ==
    ASSUME SupInv, Exists,
           Signal \/ Select \/ Decide \/ EndDrain \/ Return \/ DrainExpires
    PROVE  SupInv'
<1> USE DEF SupInv
<1>0. run \in Runs
  BY DEF CauseKnown
<1>1. CASE Signal
  <2>1. /\ run' \in Runs
        /\ \/ run' = run
           \/ run.at = "parked" /\ run'.at = "drain"
    BY <1>0, <1>1 DEF Signal, Runs
  <2>2. SupervisorTypeOK' /\ CauseKnown'
    BY <1>1, <2>1 DEF Signal, SupervisorTypeOK, ContractTypeOK, Runs, CauseKnown, stopVars,
                     serverButContext
  <2> QED
    BY <1>1, <2>1, <2>2 DEF Signal, EndedStaysEnded, DrainedBeforeReturn, ShutDown, stopVars,
                            serverButContext
<1>2. CASE Select
  <2>1. /\ run.at = "starting" /\ run' \in Runs /\ first' \in {first, NoResult}
        /\ \/ parentDone /\ run'.at = "drain"
           \/ run'.at \in {"woken", "parked"} /\ run'.cause = run.cause
    BY <1>0, <1>2 DEF Select, Runs
  <2>2. UNCHANGED <<parentDone, delivered, contractVars, stopVars>>
    BY <1>2 DEF Select
  <2>3. SupervisorTypeOK' /\ CauseKnown'
    BY <2>1, <2>2 DEF SupervisorTypeOK, ContractTypeOK, Runs, CauseKnown, stopVars,
                      contractVars
  <2> QED
    BY <2>1, <2>2, <2>3 DEF EndedStaysEnded, DrainedBeforeReturn, ShutDown, stopVars,
                            contractVars
<1>3. CASE Decide
  <2>1. /\ CauseOf(first) \in {"unexpected", "failed", "cancelled"}
        /\ ~parentDone => CauseOf(first) \in {"unexpected", "failed"}
    BY Zenon DEF CauseOf
  <2>2. /\ run' \in Runs /\ run'.at = "drain"
        /\ ~parentDone => run'.cause \in {"failed", "unexpected"}
    BY <1>0, <1>3, <2>1 DEF Decide, Runs
  <2>3. /\ ctxDone' = TRUE /\ first' = NoResult
        /\ UNCHANGED <<parentDone, delivered, serverButContext, stopVars>>
    BY <1>3 DEF Decide
  <2>4. SupervisorTypeOK' /\ CauseKnown'
    BY <2>2, <2>3 DEF SupervisorTypeOK, ContractTypeOK, Runs, CauseKnown, stopVars,
                      serverButContext
  <2> QED
    BY <2>2, <2>3, <2>4 DEF EndedStaysEnded, DrainedBeforeReturn, ShutDown, stopVars,
                            serverButContext
<1>4. CASE EndDrain
  <2>1. /\ run' \in Runs /\ run'.at = "join" /\ (ShutDown \/ deadline)
        /\ UNCHANGED <<parentDone, delivered, first, contractVars, stopVars>>
    BY <1>0, <1>4 DEF EndDrain, DrainOver, Runs
  <2>2. SupervisorTypeOK' /\ CauseKnown'
    BY <2>1 DEF SupervisorTypeOK, ContractTypeOK, Runs, CauseKnown, stopVars, contractVars
  <2> QED
    BY <2>1, <2>2 DEF EndedStaysEnded, DrainedBeforeReturn, ShutDown, stopVars, contractVars
<1>5. CASE Return
  <2>1. /\ run' \in Runs /\ run'.at = "returned" /\ run.at = "join"
        /\ delivered = Workers \/ deadline
        /\ UNCHANGED <<parentDone, delivered, first, contractVars, stopVars>>
    BY <1>0, <1>5 DEF Return, Joined, Runs
  <2>2. SupervisorTypeOK' /\ CauseKnown'
    BY <2>1 DEF SupervisorTypeOK, ContractTypeOK, Runs, CauseKnown, stopVars, contractVars
  <2> QED
    BY <2>1, <2>2 DEF EndedStaysEnded, DrainedBeforeReturn, ShutDown, stopVars, contractVars
<1>6. CASE DrainExpires
  BY <1>6 DEF DrainExpires, runVars, stopVars, serverButDeadline, SupervisorTypeOK,
              ContractTypeOK, CauseKnown, EndedStaysEnded, DrainedBeforeReturn
<1> QED
  BY <1>1, <1>2, <1>3, <1>4, <1>5, <1>6

\* The server, the management server and the runtime go on or stop.
LEMMA WorkStep ==
    ASSUME SupInv, Exists, UNCHANGED runVars,
           \/ ProxyStep \/ WebShutdown \/ WebDrained \/ Accept \/ Answer \/ OpenStream
           \/ LeaveStream \/ BeginRequest \/ EndRequest \/ Beat \/ EndBeat \/ Probe \/ RuntimeStop
    PROVE  SupInv'
<1> USE DEF SupInv, runVars
<1>1. CauseKnown'
  BY DEF CauseKnown
<1>2. CASE ProxyStep
  <2>1. ServeReturns \/ Handlers \/ (Draining /\ ShutdownCalled) \/ ShutdownReturns
    BY <1>2 DEF ProxyStep
  <2>2. UNCHANGED <<webStop, arrived, streams, mutex, failures, stop>>
    BY <1>2 DEF ProxyStep, stopVars
  <2>3. ContractTypeOK' /\ deadline' = deadline /\ (serverStop = "done" => serverStop' = "done")
    BY <2>1 DEF SupervisorTypeOK, ContractTypeOK, ServeReturns, Handlers, ShutdownCalled,
                ShutdownReturns
  <2>4. SupervisorTypeOK'
    BY <2>2, <2>3 DEF SupervisorTypeOK
  <2>5. serverStop' = "done" /\ ~deadline => ~busy'
    BY <2>1 DEF EndedStaysEnded, SupervisorTypeOK, ContractTypeOK, ServeReturns, Handlers,
                ShutdownCalled, ShutdownReturns
  <2> QED
    BY <1>1, <2>2, <2>3, <2>4, <2>5 DEF EndedStaysEnded, DrainedBeforeReturn, ShutDown
<1>3. CASE WebShutdown \/ WebDrained \/ RuntimeStop
  BY <1>1, <1>3 DEF WebShutdown, WebDrained, RuntimeStop, contractVars, SupervisorTypeOK,
                    ContractTypeOK, EndedStaysEnded, DrainedBeforeReturn, ShutDown
<1>4. CASE Accept \/ Answer \/ OpenStream \/ BeginRequest
  <2>1. /\ arrived \in Nat /\ arrived <= MaxRequests /\ MaxRequests \in Nat
        /\ streams \in Nat /\ streams <= MaxStreams /\ MaxStreams \in Nat
    BY SupervisorConstants DEF SupervisorTypeOK
  <2>2. /\ arrived' \in 0 .. MaxRequests /\ streams' \in 0 .. MaxStreams
        /\ mutex' \in {mutex, "request"}
        /\ UNCHANGED <<contractVars, webStop, failures, stop>>
    BY <1>4, <2>1 DEF Accept, Answer, OpenStream, BeginRequest, SupervisorTypeOK
  <2>3. ~(webStop = "done" /\ ~deadline)
    BY <1>4 DEF Accept, Answer, OpenStream, BeginRequest, EndedStaysEnded
  <2>4. mutex' = "heartbeat" => mutex = "heartbeat"
    BY <2>2
  <2> QED
    BY <1>1, <2>2, <2>3, <2>4 DEF contractVars, SupervisorTypeOK, ContractTypeOK,
                                  EndedStaysEnded, DrainedBeforeReturn, ShutDown
<1>5. CASE LeaveStream \/ EndRequest \/ Beat \/ EndBeat
  <2>1. streams' \in 0 .. MaxStreams /\ (streams = 0 => streams' = 0)
    BY <1>5, SupervisorConstants DEF LeaveStream, EndRequest, Beat, EndBeat, SupervisorTypeOK
  <2> QED
    BY <1>1, <1>5, <2>1
       DEF LeaveStream, EndRequest, Beat, EndBeat, contractVars, SupervisorTypeOK,
           ContractTypeOK, EndedStaysEnded, DrainedBeforeReturn, ShutDown
<1>6. CASE Probe
  <2>1. failures' \in 0 .. Threshold
    BY <1>6, SupervisorConstants DEF Probe, WatchdogGoesOn, SupervisorTypeOK
  <2> QED
    BY <1>1, <1>6, <2>1 DEF Probe, contractVars, SupervisorTypeOK, ContractTypeOK,
                            EndedStaysEnded, DrainedBeforeReturn, ShutDown
<1> QED
  BY <1>2, <1>3, <1>4, <1>5, <1>6

\* Every step of the process preserves the invariant.
LEMMA SupervisorStep == SupInv /\ [Next]_vars => SupInv'
<1> SUFFICES ASSUME SupInv, [Next]_vars PROVE SupInv'
  OBVIOUS
<1>1. CASE UNCHANGED vars
  BY <1>1 DEF vars, runVars, contractVars, stopVars, SupInv, SupervisorTypeOK, ContractTypeOK,
              CauseKnown, EndedStaysEnded, DrainedBeforeReturn, ShutDown
<1>2. CASE Next
  <2>1. Exists /\ Step
    BY <1>2 DEF Next
  <2>2. CASE Signal \/ Select \/ Decide \/ EndDrain \/ Return \/ DrainExpires
    BY <2>1, <2>2, RunStep
  <2>3. CASE ProxyReturns
    <3> DEFINE e == IF serve = "stopped" THEN "nil" ELSE "error"
    <3>1. e \in {"nil", "error", "cancelled"} /\ "proxy" \in Workers
      BY DEF Workers
    <3>2. Deliver("proxy", e) /\ UNCHANGED contractVars /\ UNCHANGED stopVars
      BY <2>3 DEF ProxyReturns
    <3> HIDE DEF e
    <3> QED
      BY <2>1, <3>1, <3>2, DeliverStep
  <2>4. CASE WebReturns
    <3> DEFINE e == IF webStop # "idle" \/ ctxDone THEN "nil" ELSE "error"
    <3>1. e \in {"nil", "error", "cancelled"} /\ "management" \in Workers
      BY DEF Workers
    <3>2. Deliver("management", e) /\ UNCHANGED contractVars /\ UNCHANGED stopVars
      BY <2>4 DEF WebReturns
    <3> HIDE DEF e
    <3> QED
      BY <2>1, <3>1, <3>2, DeliverStep
  <2>5. CASE HeartbeatReturns
    <3>1. /\ "heartbeat" \in Workers /\ Deliver("heartbeat", "cancelled")
          /\ mutex # "heartbeat" /\ UNCHANGED contractVars /\ UNCHANGED stopVars
      BY <2>5 DEF HeartbeatReturns, Workers
    <3> QED
      BY <2>1, <3>1, DeliverStep
  <2>6. CASE WatchdogReturns
    <3>1. /\ "watchdog" \in Workers
          /\ Deliver("watchdog", "cancelled") \/ Deliver("watchdog", "error")
          /\ UNCHANGED contractVars /\ UNCHANGED stopVars
      BY <2>6 DEF WatchdogReturns, Workers
    <3> QED
      BY <2>1, <3>1, DeliverStep
  <2>7. CASE \/ ProxyStep \/ WebShutdown \/ WebDrained \/ Accept \/ Answer \/ OpenStream
             \/ LeaveStream \/ EndStream \/ BeginRequest \/ EndRequest \/ Beat \/ EndBeat \/ Probe \/ RuntimeStop
    <3>1. UNCHANGED runVars
      BY <2>7 DEF ProxyStep, WebShutdown, WebDrained, Accept, Answer, OpenStream, LeaveStream,
                  EndStream, BeginRequest, EndRequest, Beat, EndBeat, Probe, RuntimeStop
    <3>2. EndStream => LeaveStream
      BY DEF EndStream
    <3> QED
      BY <2>1, <2>7, <3>1, <3>2, WorkStep
  <2> QED
    BY <2>1, <2>2, <2>3, <2>4, <2>5, <2>6, <2>7 DEF Step
<1> QED
  BY <1>1, <1>2

\* The invariant holds throughout every run of the process.
THEOREM SupervisorInvariant == Spec => []SupInv
BY SupervisorInit, SupervisorStep, PTL DEF Spec

\* Unless the drain deadline passed, no worker, relay, stream or request is left
\* when Run returns and the store is closed, and the session is wiped.
THEOREM SupervisorInvHolds == Spec => []SupervisorInv
<1>1. SupInv => SupervisorInv
  <2> SUFFICES ASSUME SupInv PROVE NothingOutlivesRun
    BY DEF SupInv, SupervisorInv
  <2> SUFFICES ASSUME run.at = "returned", ~deadline
               PROVE  /\ delivered = Workers /\ ~busy /\ arrived = 0 /\ streams = 0
                      /\ mutex = "free" /\ ~HubOpen
    BY DEF NothingOutlivesRun
  <2>1. delivered = Workers /\ serverStop = "done" /\ webStop = "done" /\ stop = "done"
    BY DEF SupInv, DrainedBeforeReturn, ShutDown
  <2>2. ~busy /\ arrived = 0 /\ streams = 0 /\ mutex # "request" /\ mutex # "heartbeat"
    BY <2>1 DEF SupInv, EndedStaysEnded, Workers
  <2> QED
    BY <2>1, <2>2 DEF SupInv, SupervisorTypeOK, HubOpen
<1> QED
  BY <1>1, SupervisorInvariant, PTL

\* No step of the process replaces the failure Run stops for by another cause.
LEMMA FailureKeptStep == SupInv /\ [Next]_vars => [FailureKept]_vars
<1> SUFFICES ASSUME SupInv, Next PROVE FailureKept
  BY DEF vars
<1>0. run \in Runs /\ Step
  BY DEF Next, SupInv, CauseKnown
<1>1. CASE Signal
  BY <1>0, <1>1 DEF Signal, FailureKept, SupInv, CauseKnown, Runs
<1>2. CASE Select
  BY <1>0, <1>2 DEF Select, FailureKept, SupInv, CauseKnown, Runs
<1>3. CASE Decide
  <2>1. ~parentDone => CauseOf(first) \in {"unexpected", "failed"}
    BY Zenon DEF CauseOf
  <2>2. run.cause = "none" /\ run'.cause = CauseOf(first) /\ parentDone' = parentDone
    BY <1>0, <1>3 DEF Decide, SupInv, CauseKnown, Runs
  <2> QED
    BY <2>1, <2>2 DEF FailureKept
<1>4. CASE EndDrain \/ Return
  BY <1>0, <1>4 DEF EndDrain, Return, FailureKept, Runs
<1>5. CASE ProxyReturns \/ WebReturns \/ HeartbeatReturns \/ WatchdogReturns
  <2>1. /\ parentDone' = parentDone
        /\ run' = IF run.at = "parked" THEN [run EXCEPT !.at = "woken"] ELSE run
    BY <1>5 DEF ProxyReturns, WebReturns, HeartbeatReturns, WatchdogReturns, Deliver
  <2> QED
    BY <1>0, <2>1 DEF FailureKept, SupInv, CauseKnown, Runs
<1>6. CASE \/ DrainExpires \/ ProxyStep \/ WebShutdown \/ WebDrained \/ Accept \/ Answer
           \/ OpenStream \/ LeaveStream \/ EndStream \/ BeginRequest \/ EndRequest \/ Beat \/ EndBeat
           \/ Probe \/ RuntimeStop
  <2>1. UNCHANGED <<run, parentDone>>
    BY <1>6 DEF DrainExpires, ProxyStep, WebShutdown, WebDrained, Accept, Answer,
                OpenStream, LeaveStream, EndStream, BeginRequest, EndRequest, Beat, EndBeat, Probe, RuntimeStop, runVars
  <2> QED
    BY <2>1 DEF FailureKept, SupInv, CauseKnown
<1> QED
  BY <1>0, <1>1, <1>2, <1>3, <1>4, <1>5, <1>6 DEF Step

\* A Run that began to stop because a critical worker ended returns an error even
\* when SIGTERM arrives while it drains.
THEOREM FailureIsKept == Spec => FailureOutlivesSignal
BY SupervisorInvariant, FailureKeptStep, PTL DEF Spec, FailureOutlivesSignal
=============================================================================
