---------------------------- MODULE SocksTunnel ----------------------------
(***************************************************************************)
(* One SOCKS connection from the moment its request has been re-validated  *)
(* (internal/socks/server.go, HandleConn): dialling the node, the WIFIIN   *)
(* handshake, and then either the two pumps of wifiin.Relay or the three   *)
(* goroutines of a UDP association (internal/socks/udp.go).  SocksFlow     *)
(* models what comes before and what admission decides.                    *)
(***************************************************************************)
EXTENDS WifiinStream

CONSTANTS
    Ports,         \* UDP ports of the client
    MaxUploads     \* bound: client reads that carry data

ASSUME TunnelConstants == MaxUploads \in Nat

VARIABLES
    command,       \* "connect" or "udp"
    main,          \* where HandleConn is
    cancelled,     \* the context of the handler
    client,        \* our end of the client connection: "open" or "closed"
    clientPeer,    \* the client's end: "open", "eof" or "reset"
    udp,           \* association.conn: "none", "open" or "closed"
    endpoint,      \* association.endpoint: a port, or 0 for nil
    out,           \* the goroutine from client to provider
    in,            \* the goroutine from provider to client
    control,       \* watchUDPControl
    frame,         \* which part of a UOT frame is read next
    uploads        \* client reads so far

clientVars == <<client, clientPeer, udp, endpoint>>
pumpVars == <<out, in, control, frame>>
vars == <<streamVars, command, main, cancelled, clientVars, pumpVars, uploads>>

TunnelTypeOK ==
    /\ StreamTypeOK
    /\ command \in {"connect", "udp"}
    /\ main \in {"bind", "dial", "dialled", "header", "ack", "clear", "admit", "reply",
                 "relay", "associated", "abandoned", "returned"}
    /\ cancelled \in BOOLEAN
    /\ client \in {"open", "closed"} /\ clientPeer \in {"open", "eof", "reset"}
    /\ udp \in {"none", "open", "closed"} /\ endpoint \in {0} \cup Ports
    /\ out \in {"off", "read", "arm", "write", "closeWrite", "done"}
    /\ in \in {"off", "read", "write", "closeWrite", "done"}
    /\ control \in {"off", "read", "done"}
    /\ frame \in {"length", "body"}
    /\ uploads \in 0..MaxUploads

Init ==
    /\ StreamInit
    /\ command \in {"connect", "udp"}
    /\ main = IF command = "udp" THEN "bind" ELSE "dial"
    /\ cancelled = FALSE
    /\ client = "open" /\ clientPeer = "open"
    /\ udp = "none" /\ endpoint = 0
    /\ out = "off" /\ in = "off" /\ control = "off"
    /\ frame = "length"
    /\ uploads = 0

Shut(end) == IF end = "open" THEN "closed" ELSE end

----------------------------------------------------------------------------
(* The surroundings.                                                        *)

\* Shutdown cancels the handler.
Cancel ==
    /\ ~cancelled /\ main \notin {"returned", "abandoned"}
    /\ cancelled' = TRUE
    /\ UNCHANGED <<streamVars, command, main, clientVars, pumpVars, uploads>>

\* The client half-closes or resets.
ClientEnds ==
    /\ client = "open" /\ clientPeer # "reset"
    /\ clientPeer' \in {"eof", "reset"} \ {clientPeer}
    /\ UNCHANGED <<streamVars, command, main, cancelled, client, udp, endpoint, pumpVars, uploads>>

Provider ==
    /\ ProviderSends \/ ProviderEnds
    /\ UNCHANGED <<command, main, cancelled, clientVars, pumpVars, uploads>>

Timer ==
    /\ DeadlinePasses
    /\ UNCHANGED <<command, main, cancelled, clientVars, pumpVars, uploads>>

\* The goroutine HandleConn starts first.
ClientWatcher ==
    /\ cancelled /\ main \notin {"returned", "abandoned"} /\ client = "open"
    /\ client' = "closed"
    /\ UNCHANGED <<streamVars, command, main, cancelled, clientPeer, udp, endpoint, pumpVars, uploads>>

----------------------------------------------------------------------------
(* HandleConn.                                                              *)

\* The deferred calls run: the association, the upstream, the client.
Return ==
    /\ main' = "returned"
    /\ conn' = Shut(conn)
    /\ udp' = Shut(udp)
    /\ client' = "closed"
    /\ UNCHANGED <<command, cancelled, clientPeer, endpoint, uploads>>

ReturnKeepingRest ==
    /\ Return
    /\ UNCHANGED <<deadline, peerVars, readVars, armVars, pumpVars>>

\* newUDPAssociation: it refuses an address that is not the client's or cannot
\* bind; a requested port fixes the endpoint.
Associate ==
    /\ main = "bind"
    /\ \/ ReturnKeepingRest
       \/ /\ main' = "dial"
          /\ udp' = "open"
          /\ endpoint' \in {0} \cup Ports
          /\ UNCHANGED <<streamVars, command, cancelled, client, clientPeer, pumpVars, uploads>>

\* A failed dial answers the client, unless the context is done; either way
\* HandleConn returns.
DialFails == main = "dial" /\ ReturnKeepingRest

DialSucceeds ==
    /\ main = "dial" /\ ~cancelled
    /\ main' = "dialled"
    /\ conn' = "open"
    /\ UNCHANGED <<deadline, peerVars, readVars, armVars, command, cancelled, clientVars,
                   pumpVars, uploads>>

\* The context is looked at before the deferred close of the upstream is in
\* place: a handler cancelled at this moment leaves the upstream open.
AfterDial ==
    /\ main = "dialled"
    /\ IF cancelled
       THEN /\ main' = "abandoned"
            /\ client' = "closed" /\ udp' = Shut(udp)
            /\ UNCHANGED deadline
       ELSE /\ main' = "header"
            /\ deadline' = "armed"
            /\ UNCHANGED <<client, udp>>
    /\ UNCHANGED <<conn, peerVars, readVars, armVars, command, cancelled, clientPeer,
                   endpoint, pumpVars, uploads>>

\* NewOutboundHeader or NewUOTOutboundHeader, and the write of its packet.
WriteHeader ==
    /\ main = "header"
    /\ \/ ReturnKeepingRest
       \/ /\ peer # "reset" /\ deadline # "expired"
          /\ main' = "ack"
          /\ reader' = "ack"
          /\ UNCHANGED <<conn, deadline, peerVars, taken, pending, iv, plain, ivReady, armVars,
                         command, cancelled, clientVars, pumpVars, uploads>>

ReadACK ==
    /\ main = "ack"
    /\ \/ Fill /\ UNCHANGED main
       \/ AckAccepted /\ main' = "clear"
    /\ UNCHANGED <<command, cancelled, clientVars, pumpVars, uploads>>

HandshakeFails == main = "ack" /\ (AckFails \/ AckRejected) /\ ReturnKeepingRest

HandshakeDeadlineCleared == deadline' = "none"

ClearHandshakeDeadline ==
    /\ main = "clear"
    /\ HandshakeDeadlineCleared
    /\ main' = "admit"
    /\ UNCHANGED <<conn, peerVars, readVars, armVars, command, cancelled, clientVars, pumpVars, uploads>>

\* The final admission, whose verdict is modelled in SocksFlow.
Admit ==
    /\ main = "admit"
    /\ \/ ReturnKeepingRest
       \/ /\ main' = "reply"
          /\ UNCHANGED <<streamVars, command, cancelled, clientVars, pumpVars, uploads>>

\* The success reply, and the goroutines of the relay or the association.
Reply ==
    /\ main = "reply"
    /\ \/ ReturnKeepingRest
       \/ /\ client = "open" /\ clientPeer # "reset"
          /\ main' = IF command = "udp" THEN "associated" ELSE "relay"
          /\ out' = "read" /\ in' = "read"
          /\ control' = IF command = "udp" THEN "read" ELSE "off"
          /\ UNCHANGED <<streamVars, command, cancelled, clientVars, frame, uploads>>

----------------------------------------------------------------------------
(* wifiin.Relay.                                                            *)

\* Fault: only the upstream is closed.
CloseBothUpstreamOnly == conn' = "closed" /\ client' = client

CloseBoth == conn' = "closed" /\ client' = "closed"

\* Fault: the goroutine waits for nothing.
RelayWatcherAbsent == FALSE /\ UNCHANGED vars

\* The goroutine of Relay that waits for the context.
RelayWatcher ==
    /\ main = "relay" /\ cancelled
    /\ conn # "closed" \/ client # "closed"
    /\ CloseBoth
    /\ UNCHANGED <<deadline, peerVars, readVars, armVars, command, main, cancelled,
                   clientPeer, udp, endpoint, pumpVars, uploads>>

\* How a goroutine ends: in Relay an error that does not come from a closed
\* connection closes both ends; in an association the first result does
\* (FirstResult).
PumpEnds(err) ==
    /\ IF command = "connect" /\ err \notin {"nil", "closed"}
       THEN CloseBoth
       ELSE UNCHANGED <<conn, client>>
    /\ UNCHANGED <<command, main, cancelled, clientPeer, udp, endpoint, uploads>>

OutEnds(err) ==
    /\ PumpEnds(err) /\ out' = "done"
    /\ UNCHANGED <<in, control, frame, deadline, peerVars, readVars>>

InEnds(err) ==
    /\ PumpEnds(err) /\ in' = "done"
    /\ UNCHANGED <<out, control, frame, deadline, peerVars, readVars, armVars>>

\* Both results are in and HandleConn returns.
RelayReturns ==
    /\ main = "relay" /\ out = "done" /\ in = "done"
    /\ ReturnKeepingRest

\* The outbound pump reads from the client.
OutReads ==
    /\ command = "connect" /\ out = "read"
    /\ client = "open" /\ clientPeer = "open" /\ uploads < MaxUploads
    /\ out' = "arm"
    /\ uploads' = uploads + 1
    /\ UNCHANGED <<streamVars, command, main, cancelled, clientVars, in, control, frame>>

OutReadEnds ==
    /\ command = "connect" /\ out = "read"
    /\ \/ client = "closed" /\ OutEnds("closed")
       \/ client = "open" /\ clientPeer = "reset" /\ OutEnds("reset")
       \/ /\ client = "open" /\ clientPeer = "eof"
          /\ out' = "closeWrite"
          /\ UNCHANGED <<conn, client, deadline, peerVars, readVars, command, main, cancelled,
                         clientPeer, udp, endpoint, in, control, frame, uploads>>
    /\ UNCHANGED armVars

\* outboundCFBWriter.Write: arming comes before the write.
OutArms ==
    /\ out = "arm"
    /\ ArmForOutbound
    /\ IF ArmFails
       THEN PumpEnds("closed") /\ out' = "done"
       ELSE /\ out' = "write"
            /\ UNCHANGED <<conn, client, command, main, cancelled, clientPeer, udp, endpoint, uploads>>
    /\ UNCHANGED <<peerVars, readVars, in, control, frame>>

OutWrites ==
    /\ out = "write"
    /\ conn = "open" /\ peer # "reset"
    /\ out' = "read"
    /\ UNCHANGED <<streamVars, command, main, cancelled, clientVars, in, control, frame, uploads>>

OutWriteFails ==
    /\ out = "write"
    /\ \/ conn = "closed" /\ OutEnds("closed")
       \/ conn = "open" /\ peer = "reset" /\ OutEnds("reset")
    /\ UNCHANGED armVars

\* outboundCFBWriter.CloseWrite: an idle upstream is closed altogether, since
\* the provider would never send its IV.
CloseWriteUpstream ==
    IF outboundStarted
    THEN OutEnds("nil")
    ELSE /\ conn' = "closed" /\ out' = "done"
         /\ UNCHANGED <<client, deadline, peerVars, readVars, command, main, cancelled,
                        clientPeer, udp, endpoint, in, control, frame, uploads>>

\* The half-close fails when the connection is closed or was reset.
OutHalfCloses ==
    /\ out = "closeWrite"
    /\ \/ conn = "open" /\ CloseWriteUpstream
       \/ conn = "closed" /\ OutEnds("closed")
       \/ conn = "open" /\ outboundStarted /\ peer = "reset" /\ OutEnds("notConnected")
    /\ UNCHANGED armVars

\* The inbound pump: LazyInboundReader.Read initializes, then decrypts.
InInitializes ==
    /\ in = "read"
    /\ ReadServerIV \/ IvComplete \/ ClearDeadline
    /\ UNCHANGED <<command, main, cancelled, clientVars, pumpVars, uploads>>

\* An end of stream inside the IV is an error of its own, not an end of stream.
InInitializeFails ==
    /\ in = "read"
    /\ \E err \in {"closed", "timeout", "reset"} : IvFails(err) /\ InEnds(err)

InInitializeEnds == in = "read" /\ IvFails("eof") /\ InEnds("truncatedIv")

InReads ==
    /\ command = "connect" /\ in = "read"
    /\ StreamRead(sent)
    /\ in' = "write"
    /\ UNCHANGED <<command, main, cancelled, clientVars, out, control, frame, uploads>>

\* Fault: the end of the provider's stream tears the tunnel down.
ProviderEofCloses == InEnds("eof")

ProviderEof ==
    /\ in' = "closeWrite"
    /\ UNCHANGED <<conn, client, deadline, peerVars, readVars, armVars, command, main, cancelled,
                   clientPeer, udp, endpoint, out, control, frame, uploads>>

InReadEnds ==
    /\ command = "connect" /\ in = "read"
    /\ \/ StreamFails("eof") /\ ProviderEof
       \/ \E err \in {"closed", "timeout", "reset"} : StreamFails(err) /\ InEnds(err)

InWrites ==
    /\ command = "connect" /\ in = "write"
    /\ client = "open" /\ clientPeer # "reset"
    /\ in' = "read"
    /\ UNCHANGED <<streamVars, command, main, cancelled, clientVars, out, control, frame, uploads>>

InWriteFails ==
    /\ command = "connect" /\ in = "write"
    /\ \/ client = "closed" /\ InEnds("closed")
       \/ client = "open" /\ clientPeer = "reset" /\ InEnds("reset")

\* The client's end is half-closed, and the outbound pump goes on.
InHalfCloses ==
    /\ in = "closeWrite"
    /\ \/ client = "open" /\ InEnds("nil")
       \/ client = "closed" /\ InEnds("closed")
       \/ client = "open" /\ clientPeer = "reset" /\ InEnds("notConnected")

----------------------------------------------------------------------------
(* The UDP association.                                                     *)

\* acceptSource for an address of the client; other addresses are ignored.
AcceptSource(port) == endpoint \in {0, port}

\* clientToUOT: a datagram from the client.  One that WriteSOCKSDatagram
\* refuses (fragmented, malformed, not IPv4) has fixed the endpoint already.
DatagramArrives(port) ==
    /\ command = "udp" /\ out = "read" /\ udp = "open"
    /\ AcceptSource(port)
    /\ endpoint' = port
    /\ \/ out' = "read" /\ uploads' = uploads
       \/ uploads < MaxUploads /\ out' = "arm" /\ uploads' = uploads + 1
    /\ UNCHANGED <<streamVars, command, main, cancelled, client, clientPeer, udp,
                   in, control, frame>>

DatagramReadEnds ==
    /\ command = "udp" /\ out = "read" /\ udp = "closed"
    /\ OutEnds("closed") /\ UNCHANGED armVars

\* ReadMsgUDP may fail on an open socket too.
DatagramReadFails ==
    /\ command = "udp" /\ out = "read" /\ udp = "open"
    /\ OutEnds("failed") /\ UNCHANGED armVars

\* uotToClient, one part of a frame at a time: a length (zero is a keepalive),
\* then the body.  A body for another flow, or before any endpoint is known, is
\* skipped; an invalid one ends the goroutine.
FrameReads ==
    /\ command = "udp" /\ in = "read"
    /\ StreamRead(1)
    /\ \/ frame = "length" /\ frame' \in {"length", "body"} /\ UNCHANGED in
       \/ /\ frame = "body" /\ frame' = "length"
          /\ in' \in {"read", "done"} \cup {w \in {"write"} : endpoint # 0}
    /\ UNCHANGED <<command, main, cancelled, clientVars, out, control, uploads>>

FrameReadEnds ==
    /\ command = "udp" /\ in = "read"
    /\ \E err \in {"closed", "timeout", "eof", "reset"} : StreamFails(err) /\ InEnds(err)

\* WriteToUDP fails on a closed socket, and may fail on an open one.
DatagramWrites ==
    /\ command = "udp" /\ in = "write"
    /\ \/ /\ udp = "open" /\ in' = "read"
          /\ UNCHANGED <<streamVars, command, main, cancelled, clientVars, out, control,
                         frame, uploads>>
       \/ InEnds("failed")

\* watchUDPControl: the association lives as long as its TCP connection.
ControlEnds ==
    /\ control = "read"
    /\ client = "closed" \/ clientPeer # "open"
    /\ control' = "done"
    /\ UNCHANGED <<streamVars, command, main, cancelled, clientVars, out, in, frame, uploads>>

ResultsFirst == control = "done" \/ out = "done" \/ in = "done"

\* The first of the three results ends the association; the two other
\* goroutines find their connections closed.
FirstResult ==
    /\ main = "associated" /\ ResultsFirst
    /\ ReturnKeepingRest

----------------------------------------------------------------------------

Setup ==
    \/ Associate \/ DialFails \/ DialSucceeds \/ AfterDial \/ WriteHeader \/ ReadACK
    \/ HandshakeFails \/ ClearHandshakeDeadline \/ Admit \/ Reply

OutPump ==
    \/ OutReads \/ OutReadEnds \/ OutArms \/ OutWrites \/ OutWriteFails \/ OutHalfCloses
    \/ DatagramReadEnds \/ DatagramReadFails \/ \E port \in Ports : DatagramArrives(port)

InPump ==
    \/ InInitializes \/ InInitializeFails \/ InInitializeEnds
    \/ InReads \/ InReadEnds \/ InWrites \/ InWriteFails \/ InHalfCloses
    \/ FrameReads \/ FrameReadEnds \/ DatagramWrites

Environment == Cancel \/ ClientEnds \/ Provider \/ Timer

Next ==
    \/ Environment \/ ClientWatcher \/ Setup
    \/ RelayWatcher \/ RelayReturns \/ OutPump \/ InPump \/ ControlEnds \/ FirstResult

Spec == Init /\ [][Next]_vars

\* The steps a goroutine takes without waiting for anybody: a write may wait
\* for the other side, and a read for data, but not for an error.
OutSteps == OutReadEnds \/ OutArms \/ OutWriteFails \/ OutHalfCloses \/ DatagramReadEnds

InSteps ==
    \/ InInitializes \/ InInitializeFails \/ InInitializeEnds
    \/ InReads \/ InReadEnds \/ InWriteFails \/ InHalfCloses
    \/ FrameReads \/ FrameReadEnds \/ DatagramWrites

\* Every goroutine that can go on does; a dial ends by its timeout and an armed
\* deadline passes.
Fairness ==
    /\ WF_vars(Timer)
    /\ WF_vars(ClientWatcher) /\ WF_vars(Setup)
    /\ WF_vars(RelayWatcher) /\ WF_vars(RelayReturns)
    /\ WF_vars(ControlEnds) /\ WF_vars(FirstResult)
    /\ WF_vars(OutSteps) /\ WF_vars(InSteps)

FairSpec == Spec /\ Fairness

----------------------------------------------------------------------------
(* Properties.                                                              *)

Established == main \in {"relay", "associated"}

\* The deadline of the IV is off while no application byte was written (an
\* idle tunnel may wait for ever) and once the stream is running: left armed,
\* it would cut a quiet tunnel.
DeadlineOnlyForIv ==
    (Established /\ conn = "open" /\ deadline # "none") => (outboundStarted /\ reader # "stream")

\* When HandleConn has returned, nothing it opened is open, but for the one
\* handler that was cancelled between the dial and its check of the context.
ReleasedOnReturn ==
    /\ main = "returned" => (client = "closed" /\ conn # "open" /\ udp # "open")
    /\ main = "abandoned" => (cancelled /\ client = "closed" /\ udp # "open" /\ reader = "off")

\* HandleConn, Relay and the association: types, the stream the cipher sees,
\* the deadline, and the release of the sockets.
TunnelInv ==
    /\ TunnelTypeOK
    /\ StreamIntegrity
    /\ DeadlineOnlyForIv
    /\ ReleasedOnReturn

\* The ways an established tunnel may lose its upstream or its client before
\* HandleConn returns: a reset, cancellation, a provider that ends or stays
\* silent before its IV, and the half-close of a client that never wrote.
Cause ==
    \/ cancelled
    \/ clientPeer = "reset" \/ peer = "reset"
    \/ peer = "eof" /\ ~ivReady
    \/ deadline = "expired" /\ outboundStarted /\ ~ivReady

\* Relay never tears down a tunnel that either side still uses: an orderly end
\* of one direction leaves the other to drain (relay.go), and a slow provider is
\* waited for once its IV is in.
ClosedForCause ==
    (main = "relay" /\ "closed" \in {conn, client})
       => (Cause \/ (client = "open" /\ clientPeer = "eof" /\ ~outboundStarted))

GoroutinesGone ==
    out \in {"off", "done"} /\ in \in {"off", "done"} /\ control \in {"off", "done"}

\* Shutdown's promise rests on this: a cancelled handler returns and its
\* goroutines end, whatever they are blocked on.
CancelledEnds == cancelled ~> (main \in {"returned", "abandoned"} /\ GoroutinesGone)

\* An association does not outlive its control connection, nor its goroutines
\* the association.
AssociationEnds ==
    (main = "associated" /\ clientPeer # "open") ~> (main = "returned" /\ GoroutinesGone)

\* After the first application byte the wait for the IV is bounded (lazy.go).  A
\* client that half-closes without having written does not leave the reader of
\* the IV behind, and a tunnel whose upstream is closed ends: neither pump stays
\* blocked on the end that is still open.  (Bytes on their way to a client that
\* does not read them are waited for.)  An association ends with its control
\* connection (udp.go).
WaitsAreBounded ==
    /\ outboundStarted ~> (ivReady \/ in = "done")
    /\ (main = "relay" /\ (conn = "closed" \/ (clientPeer = "eof" /\ ~outboundStarted)))
          ~> \/ main = "returned"
             \/ outboundStarted /\ conn = "open"
             \/ in = "write" /\ client = "open"
    /\ AssociationEnds

\* Not an invariant: a handler cancelled right after its dial abandons the
\* upstream connection.
UpstreamAlwaysReleased == main = "abandoned" => conn # "open"
=============================================================================
