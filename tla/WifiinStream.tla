---------------------------- MODULE WifiinStream ----------------------------
(***************************************************************************)
(* The receiving half of one WIFIIN tunnel (internal/kuaifan/wifiin): the  *)
(* upstream connection, the HandshakeReader over it (tcp.go) and the       *)
(* LazyInboundReader over that (lazy.go).                                  *)
(*                                                                         *)
(* The provider's bytes are named by their position in what it sends: the  *)
(* acknowledgement, then the server IV, then the ciphertext.  How they are *)
(* cut into reads is arbitrary.  HandshakeReader.readErr is left out: a    *)
(* net.Conn returns an error only without bytes, so it is never set.       *)
(***************************************************************************)
EXTENDS Naturals, Sequences

CONSTANTS
    AckLen,        \* bytes of the acknowledgement (3)
    IvLen,         \* bytes of the server IV (IVSize, 16)
    PayloadLen     \* ciphertext bytes the provider sends at most

ASSUME StreamConstants ==
    AckLen \in Nat \ {0} /\ IvLen \in Nat \ {0} /\ PayloadLen \in Nat

VARIABLES
    conn,            \* our end of the connection: "none", "open" or "closed"
    peer,            \* the provider's end: "open", "eof" or "reset"
    sent,            \* bytes the provider has sent
    ackGood,         \* its acknowledgement is all zero
    deadline,        \* read deadline: "none", "armed" or "expired"
    reader,          \* the stage of reading: "off", "ack", "iv", "clear", "stream"
    taken,           \* bytes read from the connection
    pending,         \* HandshakeReader.pending
    iv,              \* bytes ReadServerIV has collected
    plain,           \* ciphertext bytes handed to the receive cipher
    ivReady,         \* LazyInboundReader.ivReady
    outboundStarted, \* LazyInboundReader.outboundStarted
    deadlineArmed    \* LazyInboundReader.deadlineArmed

peerVars == <<peer, sent, ackGood>>
readVars == <<reader, taken, pending, iv, plain, ivReady>>
armVars == <<outboundStarted, deadlineArmed>>
streamVars == <<conn, deadline, peerVars, readVars, armVars>>

Smaller(a, b) == IF a < b THEN a ELSE b

\* The byte positions from a to b.
Bytes(a, b) == [i \in 1..(b + 1 - a) |-> a + i - 1]

StreamTypeOK ==
    /\ conn \in {"none", "open", "closed"}
    /\ peer \in {"open", "eof", "reset"}
    /\ sent \in 0..(AckLen + IvLen + PayloadLen)
    /\ taken \in 0..sent
    /\ ackGood \in BOOLEAN
    /\ deadline \in {"none", "armed", "expired"}
    /\ reader \in {"off", "ack", "iv", "clear", "stream"}
    /\ ivReady \in BOOLEAN /\ outboundStarted \in BOOLEAN /\ deadlineArmed \in BOOLEAN

StreamInit ==
    /\ conn = "none" /\ peer = "open" /\ sent = 0
    /\ ackGood \in BOOLEAN
    /\ deadline = "none"
    /\ reader = "off" /\ taken = 0
    /\ pending = <<>> /\ iv = <<>> /\ plain = <<>>
    /\ ivReady = FALSE /\ outboundStarted = FALSE /\ deadlineArmed = FALSE

----------------------------------------------------------------------------
(* The connection.                                                          *)

\* The provider sends its next byte, ends its stream, or resets.
ProviderSends ==
    /\ conn = "open" /\ peer = "open"
    /\ sent < AckLen + IvLen + PayloadLen
    /\ sent' = sent + 1
    /\ UNCHANGED <<conn, deadline, peer, ackGood, readVars, armVars>>

ProviderEnds ==
    /\ conn = "open" /\ peer # "reset"
    /\ peer' \in {"eof", "reset"} \ {peer}
    /\ UNCHANGED <<conn, deadline, sent, ackGood, readVars, armVars>>

DeadlinePasses ==
    /\ conn = "open" /\ deadline = "armed"
    /\ deadline' = "expired"
    /\ UNCHANGED <<conn, peerVars, readVars, armVars>>

\* The sizes a read into a buffer of the given room can return now.
ConnReads(room) ==
    IF conn = "open" /\ deadline # "expired" THEN 1..Smaller(room, sent - taken) ELSE {}

\* The errors it can return now.
ConnFails(err) ==
    \/ err = "closed" /\ conn = "closed"
    \/ err = "timeout" /\ conn = "open" /\ deadline = "expired"
    \/ err = "eof" /\ conn = "open" /\ deadline # "expired" /\ peer = "eof" /\ taken = sent
    \/ err = "reset" /\ conn = "open" /\ deadline # "expired" /\ peer = "reset"

----------------------------------------------------------------------------
(* HandshakeReader.                                                         *)

\* fill, called by ReadACK: the buffer takes whatever has arrived.
Fill ==
    /\ reader = "ack" /\ Len(pending) < AckLen
    /\ \E n \in ConnReads(sent) :
          /\ taken' = taken + n
          /\ pending' = pending \o Bytes(taken + 1, taken + n)
    /\ UNCHANGED <<conn, deadline, peerVars, reader, iv, plain, ivReady, armVars>>

AckFails == reader = "ack" /\ Len(pending) < AckLen /\ \E err \in {"timeout", "eof", "reset"} : ConnFails(err)

AfterAck == SubSeq(pending, AckLen + 1, Len(pending))

\* The end of ReadACK.
AckAccepted ==
    /\ reader = "ack" /\ Len(pending) >= AckLen /\ ackGood
    /\ pending' = AfterAck
    /\ reader' = "iv"
    /\ UNCHANGED <<conn, deadline, peerVars, taken, iv, plain, ivReady, armVars>>

AckRejected == reader = "ack" /\ Len(pending) >= AckLen /\ ~ackGood

\* What HandshakeReader.Read can return: bytes kept from the acknowledgement
\* first, then what the connection gives.
SourceReads(room) ==
    IF pending # <<>>
    THEN LET n == Smaller(room, Len(pending))
         IN {[got |-> SubSeq(pending, 1, n), left |-> SubSeq(pending, n + 1, Len(pending)), raw |-> 0]}
    ELSE {[got |-> Bytes(taken + 1, taken + n), left |-> <<>>, raw |-> n] : n \in ConnReads(room)}

SourceFails(err) == pending = <<>> /\ ConnFails(err)

----------------------------------------------------------------------------
(* LazyInboundReader.                                                       *)

\* One read of the io.ReadFull in ReadServerIV.
ReadServerIV ==
    /\ reader = "iv" /\ Len(iv) < IvLen
    /\ \E r \in SourceReads(IvLen - Len(iv)) :
          /\ iv' = iv \o r.got
          /\ pending' = r.left
          /\ taken' = taken + r.raw
    /\ UNCHANGED <<conn, deadline, peerVars, reader, plain, ivReady, armVars>>

IvFails(err) == reader = "iv" /\ Len(iv) < IvLen /\ SourceFails(err)

\* Fault: the deadline of the IV stays on the connection.
MarkReadyKeepsDeadline == reader' = "stream"

\* Whether there is a deadline to clear is decided inside the critical section.
MarkReady == reader' = IF deadlineArmed THEN "clear" ELSE "stream"

\* The critical section of initialize.
IvComplete ==
    /\ reader = "iv" /\ Len(iv) = IvLen
    /\ ivReady' = TRUE
    /\ MarkReady
    /\ UNCHANGED <<conn, deadline, peerVars, taken, pending, iv, plain, armVars>>

\* initialize takes the deadline off again, outside the critical section; a
\* connection that was closed meanwhile is no error.
ClearDeadline ==
    /\ reader = "clear"
    /\ deadline' = IF conn = "open" THEN "none" ELSE deadline
    /\ reader' = "stream"
    /\ UNCHANGED <<conn, peerVars, taken, pending, iv, plain, ivReady, armVars>>

\* The cipher.StreamReader reads and decrypts.
StreamRead(room) ==
    /\ reader = "stream"
    /\ \E r \in SourceReads(room) :
          /\ plain' = plain \o r.got
          /\ pending' = r.left
          /\ taken' = taken + r.raw
    /\ UNCHANGED <<conn, deadline, peerVars, reader, iv, ivReady, armVars>>

StreamFails(err) == reader = "stream" /\ SourceFails(err)

NeedsArming == ~ivReady /\ ~deadlineArmed

\* ArmForOutbound, one critical section; SetReadDeadline fails on a closed
\* connection.
ArmForOutbound ==
    /\ outboundStarted' = TRUE
    /\ deadline' = IF NeedsArming /\ conn = "open" THEN "armed" ELSE deadline
    /\ deadlineArmed' = (deadlineArmed \/ (NeedsArming /\ conn = "open"))

ArmFails == NeedsArming /\ conn = "closed"

----------------------------------------------------------------------------
(* What the receive cipher is given.                                        *)

\* The IV is cut out of the stream at the right place, and the cipher sees
\* every later byte once and in order, wherever the reads were cut: a byte
\* lost between the acknowledgement and the relay, or read twice, garbles
\* the rest of the tunnel.
StreamIntegrity ==
    /\ iv = Bytes(AckLen + 1, AckLen + Len(iv))
    /\ plain = Bytes(AckLen + IvLen + 1, AckLen + IvLen + Len(plain))
    /\ plain # <<>> => Len(iv) = IvLen
    /\ reader \notin {"off", "ack"} => taken = AckLen + Len(iv) + Len(plain) + Len(pending)
=============================================================================
