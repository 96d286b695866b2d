---------------------------- MODULE TunnelProofs ----------------------------
(***************************************************************************)
(* Proofs about one SOCKS connection over a WIFIIN tunnel: however the     *)
(* provider's bytes are cut into reads, the cipher sees each of them once  *)
(* and in order; the deadline of the IV is never left on a running stream; *)
(* and Relay closes a tunnel only for a cause, for any lengths of          *)
(* acknowledgement, IV and payload.                                        *)
(***************************************************************************)
EXTENDS SocksTunnel, SequenceTheorems, TLAPS

----------------------------------------------------------------------------
(* The inductive invariant.                                                 *)

\* Acknowledgement, IV, ciphertext and what is pending follow each other in what
\* was read from the connection.
Positions ==
    /\ pending \in Seq(Nat) /\ iv \in Seq(Nat) /\ plain \in Seq(Nat)
    /\ Len(iv) <= IvLen
    /\ iv = Bytes(AckLen + 1, AckLen + Len(iv))
    /\ plain = Bytes(AckLen + IvLen + 1, AckLen + IvLen + Len(plain))
    /\ reader = "off" => taken = 0 /\ pending = <<>>
    /\ reader = "ack" => pending = Bytes(1, taken)
    /\ reader \in {"off", "ack"} => iv = <<>>
    /\ reader \in {"off", "ack", "iv"} => plain = <<>>
    /\ reader \in {"clear", "stream"} => Len(iv) = IvLen
    /\ reader \notin {"off", "ack"} =>
           /\ taken = AckLen + Len(iv) + Len(plain) + Len(pending)
           /\ pending = Bytes(AckLen + Len(iv) + Len(plain) + 1, taken)

Opening == {"dialled", "header", "ack", "clear", "admit", "reply"}

\* Where the reader, the pumps and the upstream are at each step of HandleConn.
Stages ==
    /\ main \in {"bind", "dial"} => conn = "none"
    /\ main \in Opening => conn = "open"
    /\ main \in {"bind", "dial", "dialled", "header", "abandoned"} => reader = "off"
    /\ main = "ack" => reader = "ack"
    /\ main \in {"clear", "admit", "reply"} => reader = "iv"
    /\ Established => reader \in {"iv", "clear", "stream"}
    /\ main \in Opening \cup {"bind", "dial", "abandoned"} =>
           out = "off" /\ in = "off" /\ control = "off"
    /\ main \in {"admit", "reply"} => deadline = "none"
    /\ main = "relay" => command = "connect"
    /\ ivReady <=> reader \in {"clear", "stream"}
    /\ out = "closeWrite" => clientPeer # "open"

\* A deadline on an established tunnel was armed by the first outbound byte and
\* is gone before the stream runs.
DeadlineKept ==
    /\ deadlineArmed => outboundStarted
    /\ Established /\ conn = "open" =>
           /\ deadline # "none" => deadlineArmed
           /\ reader = "stream" => deadline = "none"

\* Cause and the exception of ClosedForCause, with the pump that met it gone.
Met ==
    \/ cancelled
    \/ clientPeer = "reset" \/ peer = "reset"
    \/ peer = "eof" /\ ~ivReady /\ in = "done"
    \/ deadline = "expired" /\ conn = "closed" /\ outboundStarted /\ ~ivReady /\ in = "done"
    \/ client = "open" /\ clientPeer = "eof" /\ ~outboundStarted /\ out = "done"

CauseMet == main = "relay" /\ (conn = "closed" \/ client = "closed") => Met

Control == Stages /\ DeadlineKept /\ ReleasedOnReturn /\ CauseMet

\* The inductive invariant.
TInv == TunnelTypeOK /\ Positions /\ Control
----------------------------------------------------------------------------
(* Byte positions.                                                          *)

\* Bytes(a, b) is the sequence a, a + 1, ..., b.
LEMMA BytesSeq ==
    ASSUME NEW a \in Nat, NEW b \in Nat, a <= b + 1
    PROVE  /\ Bytes(a, b) \in Seq(Nat)
           /\ Len(Bytes(a, b)) = b + 1 - a
           /\ \A i \in 1 .. b + 1 - a : Bytes(a, b)[i] = a + i - 1
<1> DEFINE n == b + 1 - a
<1>1. n \in Nat
  OBVIOUS
<1>2. Bytes(a, b) \in [1 .. n -> Nat]
  BY DEF Bytes
<1>3. Bytes(a, b) \in Seq(Nat)
  BY <1>1, <1>2, SeqDef
<1>4. DOMAIN Bytes(a, b) = 1 .. n
  BY <1>2
<1>5. Len(Bytes(a, b)) \in Nat /\ DOMAIN Bytes(a, b) = 1 .. Len(Bytes(a, b))
  BY <1>3, LenProperties
<1>6. Len(Bytes(a, b)) = n
  BY <1>1, <1>4, <1>5
<1>7. \A i \in 1 .. n : Bytes(a, b)[i] = a + i - 1
  BY DEF Bytes
<1> QED
  BY <1>3, <1>6, <1>7

\* No positions: what was not read yet.
LEMMA BytesNone ==
    ASSUME NEW a \in Nat, NEW b \in Nat, a = b + 1
    PROVE  Bytes(a, b) = <<>>
<1>1. Bytes(a, b) \in Seq(Nat) /\ Len(Bytes(a, b)) = 0
  BY BytesSeq
<1> QED
  BY <1>1, EmptySeq

\* A read that goes on where the last one stopped.
LEMMA BytesJoin ==
    ASSUME NEW a \in Nat, NEW b \in Nat, NEW c \in Nat, a <= b + 1, b <= c
    PROVE  Bytes(a, b) \o Bytes(b + 1, c) = Bytes(a, c)
<1> DEFINE s == Bytes(a, b)
           t == Bytes(b + 1, c)
           u == Bytes(a, c)
<1>1. /\ s \in Seq(Nat) /\ Len(s) = b + 1 - a
      /\ \A i \in 1 .. b + 1 - a : s[i] = a + i - 1
  BY BytesSeq
<1>2. /\ t \in Seq(Nat) /\ Len(t) = c - b
      /\ \A i \in 1 .. c - b : t[i] = b + i
  <2>1. b + 1 \in Nat /\ b + 1 <= c + 1 /\ c + 1 - (b + 1) = c - b
    OBVIOUS
  <2>2. /\ t \in Seq(Nat) /\ Len(t) = c + 1 - (b + 1)
        /\ \A i \in 1 .. c + 1 - (b + 1) : t[i] = b + 1 + i - 1
    BY <2>1, BytesSeq
  <2> QED
    BY <2>1, <2>2
<1>3. /\ u \in Seq(Nat) /\ Len(u) = c + 1 - a
      /\ \A i \in 1 .. c + 1 - a : u[i] = a + i - 1
  <2>1. a <= c + 1
    OBVIOUS
  <2> QED
    BY <2>1, BytesSeq
<1> HIDE DEF s, t, u
<1>4. /\ s \o t \in Seq(Nat) /\ Len(s \o t) = Len(s) + Len(t)
      /\ \A i \in 1 .. Len(s) + Len(t) :
            (s \o t)[i] = IF i <= Len(s) THEN s[i] ELSE t[i - Len(s)]
  BY <1>1, <1>2, ConcatProperties
<1>5. Len(s \o t) = Len(u)
  BY <1>1, <1>2, <1>3, <1>4
<1>6. ASSUME NEW i \in 1 .. Len(s \o t) PROVE (s \o t)[i] = u[i]
  <2>1. i \in 1 .. c + 1 - a /\ u[i] = a + i - 1
    BY <1>3, <1>5
  <2>2. (s \o t)[i] = IF i <= Len(s) THEN s[i] ELSE t[i - Len(s)]
    BY <1>4
  <2>3. CASE i <= Len(s)
    BY <1>1, <2>1, <2>2, <2>3
  <2>4. CASE ~(i <= Len(s))
    <3>1. i - Len(s) \in 1 .. c - b /\ b + (i - Len(s)) = a + i - 1
      BY <1>1, <2>1, <2>4
    <3> QED
      BY <1>2, <2>1, <2>2, <2>4, <3>1
  <2> QED
    BY <2>3, <2>4
<1>7. s \o t = u
  BY <1>3, <1>4, <1>5, <1>6, SeqEqual
<1> QED
  BY <1>7 DEF s, t, u

\* The n positions after p.
LEMMA BytesAfter ==
    ASSUME NEW p \in Nat, NEW n \in Nat, NEW b, b = p + n
    PROVE  Bytes(p + 1, b) \in Seq(Nat) /\ Len(Bytes(p + 1, b)) = n
<1> DEFINE a == p + 1
<1>1. a \in Nat /\ b \in Nat /\ a <= b + 1 /\ b + 1 - a = n
  OBVIOUS
<1> HIDE DEF a
<1>2. Bytes(a, b) \in Seq(Nat) /\ Len(Bytes(a, b)) = b + 1 - a
  BY <1>1, BytesSeq
<1>3. Bytes(a, b) \in Seq(Nat) /\ Len(Bytes(a, b)) = n
  BY <1>1, <1>2
<1> QED
  BY <1>3 DEF a

\* The first n of the k positions after p.
LEMMA BytesHead ==
    ASSUME NEW p \in Nat, NEW k \in Nat, NEW n \in 0 .. k
    PROVE  SubSeq(Bytes(p + 1, p + k), 1, n) = Bytes(p + 1, p + n)
<1> DEFINE a == p + 1
           b == p + k
           d == p + 1
           e == p + n
           s == Bytes(a, b)
           u == Bytes(d, e)
           t == SubSeq(s, 1, n)
<1>1. /\ a \in Nat /\ b \in Nat /\ a <= b + 1 /\ b + 1 - a = k
      /\ d \in Nat /\ e \in Nat /\ d <= e + 1 /\ e + 1 - d = n
      /\ \A i \in 1 .. n : 1 + i - 1 \in 1 .. k /\ d + i - 1 = a + (1 + i - 1) - 1
      /\ n \in Nat /\ n - (1) + 1 = n /\ 1 \in Int /\ n \in Int
  OBVIOUS
<1> HIDE DEF a, b, d, e
<1>2. /\ s \in Seq(Nat) /\ Len(s) = k
      /\ \A i \in 1 .. k : s[i] = a + i - 1
  <2>1. /\ s \in Seq(Nat) /\ Len(s) = b + 1 - a
        /\ \A i \in 1 .. b + 1 - a : s[i] = a + i - 1
    BY <1>1, BytesSeq
  <2> QED
    BY <1>1, <2>1
<1>3. /\ u \in Seq(Nat) /\ Len(u) = n
      /\ \A i \in 1 .. n : u[i] = d + i - 1
  <2>1. /\ u \in Seq(Nat) /\ Len(u) = e + 1 - d
        /\ \A i \in 1 .. e + 1 - d : u[i] = d + i - 1
    BY <1>1, BytesSeq
  <2> QED
    BY <1>1, <2>1
<1> HIDE DEF s, u
<1>4. /\ t \in Seq(Nat) /\ Len(t) = n
      /\ \A i \in 1 .. n : t[i] = s[1 + i - 1]
  <2>1. \A i \in 1 .. n : s[i] \in Nat
    BY <1>1, <1>2
  <2>2. /\ t \in Seq(Nat)
        /\ Len(t) = IF 1 <= n THEN n - (1) + 1 ELSE 0
        /\ \A i \in 1 .. n - (1) + 1 : t[i] = s[1 + i - 1]
    BY <1>1, <2>1, SubSeqProperties
  <2> QED
    BY <1>1, <2>2
<1> HIDE DEF t
<1>5. \A i \in 1 .. Len(t) : t[i] = u[i]
  BY <1>1, <1>2, <1>3, <1>4
<1>6. t = u
  BY <1>3, <1>4, <1>5, SeqEqual
<1> QED
  BY <1>6 DEF t, s, u, a, b, d, e

\* The k positions after p without the first n.
LEMMA BytesTail ==
    ASSUME NEW p \in Nat, NEW k \in Nat, NEW n \in 0 .. k
    PROVE  SubSeq(Bytes(p + 1, p + k), n + 1, k) = Bytes(p + n + 1, p + k)
<1> DEFINE a == p + 1
           b == p + k
           d == p + n + 1
           e == p + k
           s == Bytes(a, b)
           u == Bytes(d, e)
           t == SubSeq(s, n + 1, k)
<1>1. /\ a \in Nat /\ b \in Nat /\ a <= b + 1 /\ b + 1 - a = k
      /\ d \in Nat /\ e \in Nat /\ d <= e + 1 /\ e + 1 - d = k - n
      /\ \A i \in 1 .. k - n : n + 1 + i - 1 \in 1 .. k /\ d + i - 1 = a + (n + 1 + i - 1) - 1
      /\ k - n \in Nat /\ k - (n + 1) + 1 = k - n /\ n + 1 \in Int /\ k \in Int
  OBVIOUS
<1> HIDE DEF a, b, d, e
<1>2. /\ s \in Seq(Nat) /\ Len(s) = k
      /\ \A i \in 1 .. k : s[i] = a + i - 1
  <2>1. /\ s \in Seq(Nat) /\ Len(s) = b + 1 - a
        /\ \A i \in 1 .. b + 1 - a : s[i] = a + i - 1
    BY <1>1, BytesSeq
  <2> QED
    BY <1>1, <2>1
<1>3. /\ u \in Seq(Nat) /\ Len(u) = k - n
      /\ \A i \in 1 .. k - n : u[i] = d + i - 1
  <2>1. /\ u \in Seq(Nat) /\ Len(u) = e + 1 - d
        /\ \A i \in 1 .. e + 1 - d : u[i] = d + i - 1
    BY <1>1, BytesSeq
  <2> QED
    BY <1>1, <2>1
<1> HIDE DEF s, u
<1>4. /\ t \in Seq(Nat) /\ Len(t) = k - n
      /\ \A i \in 1 .. k - n : t[i] = s[n + 1 + i - 1]
  <2>1. \A i \in n + 1 .. k : s[i] \in Nat
    BY <1>1, <1>2
  <2>2. /\ t \in Seq(Nat)
        /\ Len(t) = IF n + 1 <= k THEN k - (n + 1) + 1 ELSE 0
        /\ \A i \in 1 .. k - (n + 1) + 1 : t[i] = s[n + 1 + i - 1]
    BY <1>1, <2>1, SubSeqProperties
  <2> QED
    BY <1>1, <2>2
<1> HIDE DEF t
<1>5. \A i \in 1 .. Len(t) : t[i] = u[i]
  BY <1>1, <1>2, <1>3, <1>4
<1>6. t = u
  BY <1>3, <1>4, <1>5, SeqEqual
<1> QED
  BY <1>6 DEF t, s, u, a, b, d, e

----------------------------------------------------------------------------
(* The readers.                                                             *)

\* Positions depends on the reader's variables only.
LEMMA PositionsKept ==
    ASSUME Positions, UNCHANGED <<reader, taken, pending, iv, plain>>
    PROVE  Positions'
BY DEF Positions

\* A fresh connection has read nothing.
LEMMA PositionsInit == StreamInit => Positions
<1> SUFFICES ASSUME StreamInit PROVE Positions
  OBVIOUS
<1>1. /\ AckLen \in Nat /\ IvLen \in Nat
      /\ AckLen + 1 \in Nat /\ AckLen + IvLen \in Nat /\ AckLen + IvLen + 1 \in Nat
  BY StreamConstants
<1>2. Len(<<>>) = 0 /\ <<>> \in Seq(Nat)
  BY EmptySeq
<1>3. Bytes(AckLen + 1, AckLen) = <<>> /\ Bytes(AckLen + IvLen + 1, AckLen + IvLen) = <<>>
  BY <1>1, BytesNone
<1>4. AckLen + 0 = AckLen /\ AckLen + IvLen + 0 = AckLen + IvLen
  BY <1>1
<1> QED
  BY <1>1, <1>2, <1>3, <1>4 DEF StreamInit, Positions

\* What the connection can return fits into what was sent.
LEMMA ConnReadsFit ==
    ASSUME NEW room \in Nat, sent \in Nat, taken \in 0 .. sent, NEW n \in ConnReads(room)
    PROVE  n \in 1 .. room /\ taken + n \in 0 .. sent
BY DEF ConnReads, Smaller

\* HandshakeReader.Read returns the next positions, whether they were kept from the
\* acknowledgement or come from the connection, and keeps the ones after them.
LEMMA SourceReadsNext ==
    ASSUME NEW p \in Nat, NEW room \in Nat, sent \in Nat, taken \in 0 .. sent,
           pending \in Seq(Nat), taken = p + Len(pending), pending = Bytes(p + 1, taken),
           NEW r \in SourceReads(room)
    PROVE  \E n \in 0 .. room :
              /\ r.got = Bytes(p + 1, p + n) /\ r.got \in Seq(Nat) /\ Len(r.got) = n
              /\ r.left = Bytes(p + n + 1, taken + r.raw)
              /\ r.left \in Seq(Nat) /\ taken + r.raw = p + n + Len(r.left)
              /\ taken + r.raw \in 0 .. sent
<1>1. CASE pending # <<>>
  <2> DEFINE n == Smaller(room, Len(pending))
  <2>1. Len(pending) \in Nat
    BY LenProperties
  <2>2. n \in 0 .. room /\ n \in 0 .. Len(pending)
    BY <2>1 DEF Smaller
  <2>3. /\ r.got = SubSeq(pending, 1, n) /\ r.left = SubSeq(pending, n + 1, Len(pending))
        /\ r.raw = 0
    BY <1>1 DEF SourceReads
  <2> HIDE DEF n
  <2>4. /\ SubSeq(Bytes(p + 1, p + Len(pending)), 1, n) = Bytes(p + 1, p + n)
        /\ SubSeq(Bytes(p + 1, p + Len(pending)), n + 1, Len(pending))
              = Bytes(p + n + 1, p + Len(pending))
    BY <2>1, <2>2, BytesHead, BytesTail
  <2>5. taken + r.raw = taken
    BY <2>3
  <2>6. r.got = Bytes(p + 1, p + n) /\ r.left = Bytes(p + n + 1, taken)
    BY <2>3, <2>4
  <2>7. Bytes(p + 1, p + n) \in Seq(Nat) /\ Len(Bytes(p + 1, p + n)) = n
    BY <2>2, BytesAfter
  <2>8. Bytes(p + n + 1, taken) \in Seq(Nat) /\ taken = p + n + Len(Bytes(p + n + 1, taken))
    <3> DEFINE q == p + n
               k == Len(pending) - n
    <3>1. q \in Nat /\ k \in Nat /\ q + k = taken
      BY <2>1, <2>2
    <3> HIDE DEF q, k
    <3>2. Bytes(q + 1, taken) \in Seq(Nat) /\ Len(Bytes(q + 1, taken)) = k
      BY <3>1, BytesAfter
    <3>3. Bytes(q + 1, taken) \in Seq(Nat) /\ taken = q + Len(Bytes(q + 1, taken))
      BY <3>1, <3>2
    <3> QED
      BY <3>3 DEF q
  <2> QED
    BY <2>2, <2>5, <2>6, <2>7, <2>8
<1>2. CASE pending = <<>>
  <2>1. taken = p
    <3>1. Len(pending) = 0
      BY <1>2, EmptySeq
    <3> QED
      BY <3>1
  <2>2. PICK n \in ConnReads(room) :
           r = [got |-> Bytes(taken + 1, taken + n), left |-> <<>>, raw |-> n]
    BY <1>2 DEF SourceReads
  <2>3. n \in 0 .. room /\ taken + n \in 0 .. sent
    BY ConnReadsFit
  <2>4. r.got = Bytes(p + 1, p + n) /\ r.left = <<>> /\ r.raw = n
    BY <2>1, <2>2
  <2>5. Bytes(p + 1, p + n) \in Seq(Nat) /\ Len(Bytes(p + 1, p + n)) = n
    BY <2>3, BytesAfter
  <2>6. Bytes(p + n + 1, taken + n) = <<>>
    <3> DEFINE a == p + n + 1
               b == taken + n
    <3>1. a \in Nat /\ b \in Nat /\ a = b + 1
      BY <2>1, <2>3
    <3> HIDE DEF a, b
    <3>2. Bytes(a, b) = <<>>
      BY <3>1, BytesNone
    <3> QED
      BY <3>2 DEF a, b
  <2>7. Len(<<>>) = 0 /\ <<>> \in Seq(Nat)
    BY EmptySeq
  <2>8. /\ r.got \in Seq(Nat) /\ Len(r.got) = n /\ r.left = Bytes(p + n + 1, taken + r.raw)
        /\ r.left \in Seq(Nat) /\ Len(r.left) = 0
    BY <2>4, <2>5, <2>6, <2>7
  <2>9. taken + r.raw \in 0 .. sent
    BY <2>3, <2>4
  <2>10. taken + r.raw = p + n + Len(r.left)
    <3>1. p + n + 0 = p + n
      BY <2>3
    <3> QED
      BY <2>1, <2>4, <2>8, <3>1
  <2> QED
    BY <2>3, <2>4, <2>8, <2>9, <2>10
<1> QED
  BY <1>1, <1>2

\* What the readers rely on: numbers and sequences.
LEMMA ReaderTypes ==
    ASSUME StreamTypeOK, Positions
    PROVE  /\ AckLen \in Nat /\ AckLen > 0 /\ IvLen \in Nat /\ IvLen > 0
           /\ sent \in Nat /\ taken \in 0 .. sent /\ taken \in Nat
           /\ Len(iv) \in Nat /\ Len(plain) \in Nat /\ Len(pending) \in Nat
<1>1. AckLen + IvLen + PayloadLen \in Nat
  BY StreamConstants
<1>2. sent \in Nat /\ taken \in 0 .. sent /\ taken \in Nat
  BY <1>1 DEF StreamTypeOK
<1>3. Len(iv) \in Nat /\ Len(plain) \in Nat /\ Len(pending) \in Nat
  BY LenProperties DEF Positions
<1> QED
  BY <1>2, <1>3, StreamConstants

\* fill appends what the connection gave.
LEMMA FillReads ==
    ASSUME StreamTypeOK, Positions, Fill
    PROVE  Positions' /\ taken' \in 0 .. sent
<1>0. /\ sent \in Nat /\ taken \in 0 .. sent /\ taken \in Nat
  BY ReaderTypes
<1>1. PICK n \in ConnReads(sent) :
         taken' = taken + n /\ pending' = pending \o Bytes(taken + 1, taken + n)
  BY DEF Fill
<1>2. n \in Nat /\ taken + n \in 0 .. sent
  <2>1. n \in 1 .. sent /\ taken + n \in 0 .. sent
    BY <1>0, ConnReadsFit
  <2> QED
    BY <1>0, <2>1
<1>3. pending = Bytes(1, taken)
  BY DEF Positions, Fill
<1>4. pending' = Bytes(1, taken')
  <2> DEFINE c == taken + n
  <2>1. c \in Nat /\ taken <= c /\ 1 <= taken + 1 /\ 1 \in Nat
    BY <1>0, <1>2
  <2> HIDE DEF c
  <2>2. Bytes(1, taken) \o Bytes(taken + 1, c) = Bytes(1, c)
    BY <1>0, <2>1, BytesJoin
  <2> QED
    BY <1>1, <1>3, <2>2 DEF c
<1>5. taken' \in Nat /\ 1 <= taken' + 1 /\ 1 \in Nat
  BY <1>0, <1>1, <1>2
<1>6. Bytes(1, taken') \in Seq(Nat)
  BY <1>5, BytesSeq
<1>7. reader = "ack" /\ reader' = "ack" /\ iv' = iv /\ plain' = plain
  BY DEF Fill
<1> QED
  BY <1>1, <1>2, <1>4, <1>6, <1>7 DEF Positions

\* The end of ReadACK keeps what was read beyond the acknowledgement.
LEMMA AckReads ==
    ASSUME StreamTypeOK, Positions, AckAccepted
    PROVE  Positions'
<1>0. /\ AckLen \in Nat /\ sent \in Nat /\ taken \in Nat /\ Len(pending) \in Nat
  BY ReaderTypes
<1>1. /\ reader = "ack" /\ reader' = "iv" /\ iv' = iv /\ plain' = plain /\ taken' = taken
      /\ pending' = SubSeq(pending, AckLen + 1, Len(pending)) /\ AckLen <= Len(pending)
      /\ pending = Bytes(1, taken)
      /\ iv = <<>> /\ plain = <<>>
  BY <1>0 DEF AckAccepted, AfterAck, Positions
<1>2. Len(pending) = taken
  <2>1. taken \in Nat /\ 1 \in Nat /\ 1 <= taken + 1
    BY <1>0
  <2>2. Len(Bytes(1, taken)) = taken + 1 - 1
    BY <2>1, BytesSeq
  <2>3. taken + 1 - 1 = taken
    BY <2>1
  <2> QED
    BY <1>1, <2>2, <2>3
<1>3. SubSeq(Bytes(0 + 1, 0 + taken), AckLen + 1, taken) = Bytes(0 + AckLen + 1, 0 + taken)
  <2>1. 0 \in Nat /\ AckLen \in 0 .. taken
    BY <1>0, <1>1, <1>2
  <2> QED
    BY <1>0, <2>1, BytesTail
<1>4. 0 + 1 = 1 /\ 0 + taken = taken /\ 0 + AckLen + 1 = AckLen + 1
  BY <1>0
<1>5. pending' = Bytes(AckLen + 1, taken)
  BY <1>1, <1>2, <1>3, <1>4
<1>6. AckLen + 1 \in Nat /\ AckLen + 1 <= taken + 1
  BY <1>0, <1>1, <1>2
<1>7. Bytes(AckLen + 1, taken) \in Seq(Nat) /\ Len(Bytes(AckLen + 1, taken)) = taken + 1 - (AckLen + 1)
  BY <1>0, <1>6, BytesSeq
<1>8. Len(iv) = 0 /\ Len(plain) = 0
  BY <1>1, EmptySeq
<1>9. /\ AckLen + Len(iv) + Len(plain) + 1 = AckLen + 1
      /\ taken = AckLen + Len(iv) + Len(plain) + Len(pending')
  BY <1>0, <1>1, <1>2, <1>5, <1>7, <1>8
<1> QED
  BY <1>1, <1>5, <1>7, <1>9 DEF Positions

\* ReadServerIV collects the bytes after the acknowledgement.
LEMMA IvReads ==
    ASSUME StreamTypeOK, Positions, ReadServerIV
    PROVE  Positions' /\ taken' \in 0 .. sent
<1> DEFINE p == AckLen + Len(iv)
<1>0. /\ AckLen \in Nat /\ IvLen \in Nat /\ sent \in Nat /\ taken \in 0 .. sent /\ taken \in Nat
      /\ Len(iv) \in Nat /\ Len(plain) \in Nat /\ Len(pending) \in Nat
  BY ReaderTypes
<1>1. /\ reader = "iv" /\ reader' = "iv" /\ plain' = plain /\ plain = <<>>
      /\ Len(iv) < IvLen /\ iv = Bytes(AckLen + 1, AckLen + Len(iv))
      /\ iv \in Seq(Nat) /\ pending \in Seq(Nat)
      /\ taken = AckLen + Len(iv) + Len(plain) + Len(pending)
      /\ pending = Bytes(AckLen + Len(iv) + Len(plain) + 1, taken)
  BY DEF ReadServerIV, Positions
<1>2. Len(plain) = 0
  BY <1>1, EmptySeq
<1>3. p \in Nat /\ taken = p + Len(pending) /\ AckLen + Len(iv) + Len(plain) = p
  BY <1>0, <1>1, <1>2
<1>4. pending = Bytes(p + 1, taken)
  BY <1>1, <1>3
<1>5. PICK r \in SourceReads(IvLen - Len(iv)) :
         iv' = iv \o r.got /\ pending' = r.left /\ taken' = taken + r.raw
  BY DEF ReadServerIV
<1>6. IvLen - Len(iv) \in Nat
  BY <1>0, <1>1
<1> HIDE DEF p
<1>7. PICK n \in 0 .. IvLen - Len(iv) :
         /\ r.got = Bytes(p + 1, p + n) /\ r.got \in Seq(Nat) /\ Len(r.got) = n
         /\ r.left = Bytes(p + n + 1, taken + r.raw)
         /\ r.left \in Seq(Nat) /\ taken + r.raw = p + n + Len(r.left)
         /\ taken + r.raw \in 0 .. sent
  BY <1>0, <1>1, <1>3, <1>4, <1>6, SourceReadsNext
<1>8. iv' \in Seq(Nat) /\ Len(iv') = Len(iv) + n
  BY <1>1, <1>5, <1>7, ConcatProperties
<1>9. iv' = Bytes(AckLen + 1, AckLen + Len(iv'))
  <2> DEFINE a == AckLen + 1
             c == p + n
  <2>1. a \in Nat /\ c \in Nat /\ a <= p + 1 /\ p <= c
    BY <1>0, <1>3, <1>7 DEF p
  <2>2. AckLen + Len(iv) = p /\ AckLen + Len(iv') = c
    BY <1>0, <1>7, <1>8 DEF p
  <2> HIDE DEF a, c
  <2>3. Bytes(a, p) \o Bytes(p + 1, c) = Bytes(a, c)
    BY <1>3, <2>1, BytesJoin
  <2> QED
    BY <1>1, <1>5, <1>7, <2>2, <2>3 DEF a, c
<1>10. /\ Len(iv') <= IvLen /\ Len(iv') \in Nat
       /\ taken' = AckLen + Len(iv') + Len(plain) + Len(pending')
       /\ AckLen + Len(iv') + Len(plain) + 1 = p + n + 1
  <2>1. Len(pending') \in Nat
    BY <1>5, <1>7, LenProperties
  <2>2. taken' = p + n + Len(pending')
    BY <1>5, <1>7
  <2>3. n \in Nat /\ n <= IvLen - Len(iv)
    BY <1>0, <1>6
  <2>4. p = AckLen + Len(iv)
    BY DEF p
  <2> QED
    BY <1>0, <1>2, <1>8, <2>1, <2>2, <2>3, <2>4
<1>11. pending' = Bytes(AckLen + Len(iv') + Len(plain) + 1, taken')
  BY <1>5, <1>7, <1>10
<1>12. taken' \in 0 .. sent /\ pending' \in Seq(Nat)
  BY <1>5, <1>7
<1>13. plain' = Bytes(AckLen + IvLen + 1, AckLen + IvLen + Len(plain')) /\ plain' \in Seq(Nat)
  BY <1>1 DEF Positions
<1> QED
  BY <1>1, <1>8, <1>9, <1>10, <1>11, <1>12, <1>13 DEF Positions

\* The decrypting reader takes the bytes after the IV.
LEMMA StreamReads ==
    ASSUME StreamTypeOK, Positions, NEW room \in Nat, StreamRead(room)
    PROVE  Positions' /\ taken' \in 0 .. sent
<1> DEFINE p == AckLen + IvLen + Len(plain)
<1>0. /\ AckLen \in Nat /\ IvLen \in Nat /\ sent \in Nat /\ taken \in 0 .. sent /\ taken \in Nat
      /\ Len(iv) \in Nat /\ Len(plain) \in Nat /\ Len(pending) \in Nat
  BY ReaderTypes
<1>1. /\ reader = "stream" /\ reader' = "stream" /\ iv' = iv /\ Len(iv) = IvLen
      /\ plain = Bytes(AckLen + IvLen + 1, AckLen + IvLen + Len(plain))
      /\ plain \in Seq(Nat) /\ pending \in Seq(Nat)
      /\ taken = AckLen + Len(iv) + Len(plain) + Len(pending)
      /\ pending = Bytes(AckLen + Len(iv) + Len(plain) + 1, taken)
  BY DEF StreamRead, Positions
<1>2. p \in Nat /\ taken = p + Len(pending) /\ AckLen + Len(iv) + Len(plain) = p
  BY <1>0, <1>1
<1>3. pending = Bytes(p + 1, taken)
  BY <1>1, <1>2
<1>4. PICK r \in SourceReads(room) :
         plain' = plain \o r.got /\ pending' = r.left /\ taken' = taken + r.raw
  BY DEF StreamRead
<1> HIDE DEF p
<1>5. PICK n \in 0 .. room :
         /\ r.got = Bytes(p + 1, p + n) /\ r.got \in Seq(Nat) /\ Len(r.got) = n
         /\ r.left = Bytes(p + n + 1, taken + r.raw)
         /\ r.left \in Seq(Nat) /\ taken + r.raw = p + n + Len(r.left)
         /\ taken + r.raw \in 0 .. sent
  BY <1>0, <1>1, <1>2, <1>3, SourceReadsNext
<1>6. plain' \in Seq(Nat) /\ Len(plain') = Len(plain) + n
  BY <1>1, <1>4, <1>5, ConcatProperties
<1>7. plain' = Bytes(AckLen + IvLen + 1, AckLen + IvLen + Len(plain'))
  <2> DEFINE a == AckLen + IvLen + 1
             c == p + n
  <2>1. a \in Nat /\ c \in Nat /\ a <= p + 1 /\ p <= c
    BY <1>0, <1>2, <1>5 DEF p
  <2>2. AckLen + IvLen + Len(plain) = p /\ AckLen + IvLen + Len(plain') = c
    BY <1>0, <1>5, <1>6 DEF p
  <2> HIDE DEF a, c
  <2>3. Bytes(a, p) \o Bytes(p + 1, c) = Bytes(a, c)
    BY <1>2, <2>1, BytesJoin
  <2> QED
    BY <1>1, <1>4, <1>5, <2>2, <2>3 DEF a, c
<1>8. /\ taken' = AckLen + Len(iv) + Len(plain') + Len(pending')
      /\ AckLen + Len(iv) + Len(plain') + 1 = p + n + 1
  <2>1. Len(pending') \in Nat
    BY <1>4, <1>5, LenProperties
  <2>2. taken' = p + n + Len(pending')
    BY <1>4, <1>5
  <2>3. n \in Nat
    OBVIOUS
  <2>4. p = AckLen + IvLen + Len(plain)
    BY DEF p
  <2> QED
    BY <1>0, <1>1, <1>6, <2>1, <2>2, <2>3, <2>4
<1>9. pending' = Bytes(AckLen + Len(iv) + Len(plain') + 1, taken')
  BY <1>4, <1>5, <1>8
<1>10. taken' \in 0 .. sent /\ pending' \in Seq(Nat)
  BY <1>4, <1>5
<1>11. iv' = Bytes(AckLen + 1, AckLen + Len(iv')) /\ iv' \in Seq(Nat) /\ Len(iv') <= IvLen
  BY <1>1 DEF Positions
<1> QED
  BY <1>1, <1>6, <1>7, <1>8, <1>9, <1>10, <1>11 DEF Positions

\* The stages of initialize move no byte.
LEMMA ReaderMoves ==
    ASSUME StreamTypeOK, Positions, IvComplete \/ ClearDeadline
    PROVE  Positions'
BY DEF Positions, IvComplete, MarkReady, ClearDeadline

\* The handshake begins with nothing read.
LEMMA HandshakeBegins ==
    ASSUME StreamTypeOK, Positions, reader = "off", reader' = "ack",
           UNCHANGED <<taken, pending, iv, plain>>
    PROVE  Positions'
<1>1. Bytes(1, 0) = <<>>
  BY BytesNone
<1> QED
  BY <1>1 DEF Positions
----------------------------------------------------------------------------
(* The surroundings and HandleConn.                                         *)

\* A request that was re-validated satisfies the invariant.
LEMMA TunnelInit == Init => TInv
<1> SUFFICES ASSUME Init PROVE TInv
  OBVIOUS
<1>1. Positions
  BY PositionsInit DEF Init
<1>2. TunnelTypeOK
  <2>1. sent \in 0 .. (AckLen + IvLen + PayloadLen) /\ taken \in 0 .. sent
    BY StreamConstants DEF Init, StreamInit
  <2>2. uploads \in 0 .. MaxUploads
    BY TunnelConstants DEF Init
  <2>3. StreamTypeOK
    BY <2>1 DEF Init, StreamInit, StreamTypeOK
  <2>4. main \in {"bind", "dial"}
    BY DEF Init
  <2> QED
    BY <2>2, <2>3, <2>4 DEF Init, TunnelTypeOK
<1>3. Control
  BY DEF Init, StreamInit, Control, Stages, DeadlineKept, ReleasedOnReturn, CauseMet, Met,
         Established, Opening
<1> QED
  BY <1>1, <1>2, <1>3 DEF TInv

\* Cancellation, the client, the provider, the timer and the client's watcher may act
\* at any time.
LEMMA SurroundingSteps ==
    ASSUME TInv, Environment \/ ClientWatcher
    PROVE  TInv'
<1> USE DEF TInv
<1>1. Positions'
  BY PositionsKept
     DEF Environment, Cancel, ClientEnds, Provider, ProviderSends, ProviderEnds, Timer,
         DeadlinePasses, ClientWatcher, streamVars, readVars
<1>2. TunnelTypeOK'
  <2>1. CASE Cancel
    BY <2>1 DEF Cancel, TunnelTypeOK, StreamTypeOK, streamVars, peerVars, readVars, armVars,
                clientVars, pumpVars
  <2>2. CASE ClientEnds
    BY <2>2 DEF ClientEnds, TunnelTypeOK, StreamTypeOK, streamVars, peerVars, readVars, armVars,
                clientVars, pumpVars
  <2>3. CASE Provider
    BY <2>3, StreamConstants DEF Provider, ProviderSends, ProviderEnds, TunnelTypeOK, StreamTypeOK,
                streamVars, peerVars, readVars, armVars, clientVars, pumpVars
  <2>4. CASE Timer
    BY <2>4 DEF Timer, DeadlinePasses, TunnelTypeOK, StreamTypeOK, streamVars, peerVars, readVars,
                armVars, clientVars, pumpVars
  <2>5. CASE ClientWatcher
    BY <2>5 DEF ClientWatcher, TunnelTypeOK, StreamTypeOK, streamVars, peerVars, readVars, armVars,
                clientVars, pumpVars
  <2> QED
    BY <2>1, <2>2, <2>3, <2>4, <2>5 DEF Environment
<1>3. Control'
  <2> USE DEF Control, Stages, DeadlineKept, ReleasedOnReturn, CauseMet, Met, Established, Opening,
              streamVars, peerVars, readVars, armVars, clientVars, pumpVars
  <2>1. CASE Cancel
    BY <2>1 DEF Cancel
  <2>2. CASE ClientEnds
    BY <2>2 DEF ClientEnds, TunnelTypeOK
  <2>3. CASE Provider
    BY <2>3 DEF Provider, ProviderSends, ProviderEnds, TunnelTypeOK, StreamTypeOK
  <2>4. CASE Timer
    BY <2>4 DEF Timer, DeadlinePasses, TunnelTypeOK, StreamTypeOK
  <2>5. CASE ClientWatcher
    BY <2>5 DEF ClientWatcher
  <2> QED
    BY <2>1, <2>2, <2>3, <2>4, <2>5 DEF Environment
<1> QED
  BY <1>1, <1>2, <1>3

\* The deferred calls of HandleConn release what it opened, wherever it returns.
LEMMA ReturnStep ==
    ASSUME TInv, ReturnKeepingRest, main \notin {"returned", "abandoned"}
    PROVE  TInv'
<1> USE DEF TInv
<1>0. /\ main' = "returned" /\ conn' = Shut(conn) /\ udp' = Shut(udp) /\ client' = "closed"
      /\ UNCHANGED <<command, cancelled, clientPeer, endpoint, uploads, deadline, peer, sent,
                     ackGood, reader, taken, pending, iv, plain, ivReady, outboundStarted,
                     deadlineArmed, out, in, control, frame>>
  BY DEF ReturnKeepingRest, Return, peerVars, readVars, armVars, pumpVars
<1>1. Positions'
  BY <1>0, PositionsKept
<1>2. TunnelTypeOK'
  BY <1>0 DEF TunnelTypeOK, StreamTypeOK, Shut
<1>3. Control'
  BY <1>0 DEF Control, Stages, DeadlineKept, ReleasedOnReturn, CauseMet, Established, Opening,
              TunnelTypeOK, StreamTypeOK, Shut
<1> QED
  BY <1>1, <1>2, <1>3
\* Binding, dialling and the check of the context after it.
LEMMA DialSteps ==
    ASSUME TInv, Associate \/ DialFails \/ DialSucceeds \/ AfterDial
    PROVE  TInv'
<1>1. CASE ReturnKeepingRest /\ main \in {"bind", "dial"}
  BY <1>1, ReturnStep
<1>2. CASE Associate /\ ~ReturnKeepingRest
  <2>0. /\ main = "bind" /\ main' = "dial" /\ udp' = "open" /\ endpoint' \in {0} \cup Ports
        /\ UNCHANGED <<streamVars, command, cancelled, client, clientPeer, pumpVars, uploads>>
    BY <1>2 DEF Associate
  <2>1. Positions'
    BY <2>0, PositionsKept DEF TInv, streamVars, readVars
  <2>2. TunnelTypeOK'
    BY <2>0 DEF TInv, TunnelTypeOK, StreamTypeOK, streamVars, peerVars, readVars, armVars, pumpVars
  <2>3. Control'
    BY <2>0 DEF TInv, Control, Stages, DeadlineKept, ReleasedOnReturn, CauseMet, Established,
                Opening, streamVars, peerVars, readVars, armVars, pumpVars
  <2> QED
    BY <2>1, <2>2, <2>3 DEF TInv
<1>3. CASE DialSucceeds
  <2>1. Positions'
    BY <1>3, PositionsKept DEF TInv, DialSucceeds, readVars
  <2>2. TunnelTypeOK'
    BY <1>3 DEF DialSucceeds, TInv, TunnelTypeOK, StreamTypeOK, peerVars, readVars, armVars,
                clientVars, pumpVars
  <2>3. Control'
    BY <1>3 DEF DialSucceeds, TInv, Control, Stages, DeadlineKept, ReleasedOnReturn, CauseMet,
                Established, Opening, peerVars, readVars, armVars, clientVars, pumpVars
  <2> QED
    BY <2>1, <2>2, <2>3 DEF TInv
<1>4. CASE AfterDial
  <2>1. Positions'
    BY <1>4, PositionsKept DEF TInv, AfterDial, readVars
  <2>2. TunnelTypeOK'
    BY <1>4 DEF AfterDial, Shut, TInv, TunnelTypeOK, StreamTypeOK, peerVars, readVars, armVars,
                pumpVars
  <2>3. Control'
    BY <1>4 DEF AfterDial, Shut, TInv, Control, Stages, DeadlineKept, ReleasedOnReturn, CauseMet,
                Established, Opening, peerVars, readVars, armVars, pumpVars, TunnelTypeOK
  <2> QED
    BY <2>1, <2>2, <2>3 DEF TInv
<1> QED
  BY <1>1, <1>2, <1>3, <1>4 DEF Associate, DialFails

\* The handshake: the header, the acknowledgement, its failures.
LEMMA HandshakeSteps ==
    ASSUME TInv, WriteHeader \/ ReadACK \/ HandshakeFails
    PROVE  TInv'
<1>1. CASE ReturnKeepingRest /\ main \in {"header", "ack"}
  BY <1>1, ReturnStep
<1>2. CASE WriteHeader /\ ~ReturnKeepingRest
  <2>0. /\ main = "header" /\ main' = "ack" /\ reader' = "ack"
        /\ UNCHANGED <<conn, deadline, peerVars, taken, pending, iv, plain, ivReady, armVars,
                       command, cancelled, clientVars, pumpVars, uploads>>
    BY <1>2 DEF WriteHeader
  <2>1. reader = "off"
    BY <2>0 DEF TInv, Control, Stages
  <2>2. Positions'
    BY <2>0, <2>1, HandshakeBegins DEF TInv, TunnelTypeOK
  <2>3. TunnelTypeOK'
    BY <2>0 DEF TInv, TunnelTypeOK, StreamTypeOK, peerVars, armVars, clientVars, pumpVars
  <2>4. Control'
    BY <2>0, <2>1 DEF TInv, Control, Stages, DeadlineKept, ReleasedOnReturn, CauseMet,
                Established, Opening, peerVars, armVars, clientVars, pumpVars
  <2> QED
    BY <2>2, <2>3, <2>4 DEF TInv
<1>3. CASE ReadACK /\ Fill
  <2>0. /\ main = "ack" /\ main' = main /\ reader' = reader
        /\ UNCHANGED <<conn, deadline, peerVars, iv, plain, ivReady, armVars>>
        /\ UNCHANGED <<command, cancelled, clientVars, pumpVars, uploads>>
    BY <1>3 DEF ReadACK, Fill, AckAccepted, Control, TInv, Stages
  <2>1. Positions' /\ taken' \in 0 .. sent
    BY <1>3, FillReads DEF TInv, TunnelTypeOK
  <2>2. TunnelTypeOK'
    BY <2>0, <2>1 DEF TInv, TunnelTypeOK, StreamTypeOK, peerVars, armVars, clientVars, pumpVars
  <2>3. Control'
    BY <2>0 DEF TInv, Control, Stages, DeadlineKept, ReleasedOnReturn, CauseMet,
                Established, Opening, peerVars, armVars, clientVars, pumpVars
  <2> QED
    BY <2>1, <2>2, <2>3 DEF TInv
<1>4. CASE ReadACK /\ AckAccepted
  <2>0. /\ main = "ack" /\ main' = "clear" /\ reader = "ack" /\ reader' = "iv"
        /\ UNCHANGED <<conn, deadline, peerVars, taken, iv, plain, ivReady, armVars>>
        /\ UNCHANGED <<command, cancelled, clientVars, pumpVars, uploads>>
    BY <1>4 DEF ReadACK, Fill, AckAccepted
  <2>1. Positions'
    BY <1>4, AckReads DEF TInv, TunnelTypeOK
  <2>2. TunnelTypeOK'
    BY <2>0 DEF TInv, TunnelTypeOK, StreamTypeOK, peerVars, armVars, clientVars, pumpVars
  <2>3. Control'
    BY <2>0 DEF TInv, Control, Stages, DeadlineKept, ReleasedOnReturn, CauseMet,
                Established, Opening, peerVars, armVars, clientVars, pumpVars
  <2> QED
    BY <2>1, <2>2, <2>3 DEF TInv
<1> QED
  BY <1>1, <1>2, <1>3, <1>4 DEF WriteHeader, ReadACK, HandshakeFails

\* From the accepted acknowledgement to the relay or the association.
LEMMA AdmissionSteps ==
    ASSUME TInv, ClearHandshakeDeadline \/ Admit \/ Reply
    PROVE  TInv'
<1>1. CASE ReturnKeepingRest /\ main \in {"admit", "reply"}
  BY <1>1, ReturnStep
<1>2. CASE ClearHandshakeDeadline
  <2>1. Positions'
    BY <1>2, PositionsKept DEF TInv, ClearHandshakeDeadline, readVars
  <2>2. TunnelTypeOK'
    BY <1>2 DEF ClearHandshakeDeadline, HandshakeDeadlineCleared, TInv, TunnelTypeOK, StreamTypeOK,
                peerVars, readVars, armVars, clientVars, pumpVars
  <2>3. Control'
    BY <1>2 DEF ClearHandshakeDeadline, HandshakeDeadlineCleared, TInv, Control, Stages,
                DeadlineKept, ReleasedOnReturn, CauseMet, Established, Opening,
                peerVars, readVars, armVars, clientVars, pumpVars
  <2> QED
    BY <2>1, <2>2, <2>3 DEF TInv
<1>3. CASE Admit /\ ~ReturnKeepingRest
  <2>0. /\ main = "admit" /\ main' = "reply"
        /\ UNCHANGED <<streamVars, command, cancelled, clientVars, pumpVars, uploads>>
    BY <1>3 DEF Admit
  <2>1. Positions'
    BY <2>0, PositionsKept DEF TInv, streamVars, readVars
  <2>2. TunnelTypeOK'
    BY <2>0 DEF TInv, TunnelTypeOK, StreamTypeOK, streamVars, peerVars, readVars, armVars,
                clientVars, pumpVars
  <2>3. Control'
    BY <2>0 DEF TInv, Control, Stages, DeadlineKept, ReleasedOnReturn, CauseMet, Established,
                Opening, streamVars, peerVars, readVars, armVars, clientVars, pumpVars
  <2> QED
    BY <2>1, <2>2, <2>3 DEF TInv
<1>4. CASE Reply /\ ~ReturnKeepingRest
  <2>0. /\ main = "reply" /\ client = "open"
        /\ main' = IF command = "udp" THEN "associated" ELSE "relay"
        /\ out' = "read" /\ in' = "read"
        /\ control' = IF command = "udp" THEN "read" ELSE "off"
        /\ UNCHANGED <<streamVars, command, cancelled, clientVars, frame, uploads>>
    BY <1>4 DEF Reply
  <2>1. Positions'
    BY <2>0, PositionsKept DEF TInv, streamVars, readVars
  <2>2. TunnelTypeOK'
    BY <2>0 DEF TInv, TunnelTypeOK, StreamTypeOK, streamVars, peerVars, readVars, armVars,
                clientVars
  <2>3. Control'
    BY <2>0 DEF TInv, Control, Stages, DeadlineKept, ReleasedOnReturn, CauseMet, Established,
                Opening, streamVars, peerVars, readVars, armVars, clientVars, TunnelTypeOK
  <2> QED
    BY <2>1, <2>2, <2>3 DEF TInv
<1> QED
  BY <1>1, <1>2, <1>3, <1>4 DEF Admit, Reply
----------------------------------------------------------------------------
(* Relay and the association.                                               *)

\* The goroutine that waits for the context, the end of the relay and of the
\* association, and the watcher of its control connection.
LEMMA EndingSteps ==
    ASSUME TInv, RelayWatcher \/ RelayReturns \/ ControlEnds \/ FirstResult
    PROVE  TInv'
<1>1. CASE RelayWatcher
  <2>1. Positions'
    BY <1>1, PositionsKept
       DEF TInv, RelayWatcher, CloseBoth, streamVars, readVars
  <2>2. TunnelTypeOK'
    BY <1>1
       DEF RelayWatcher, CloseBoth, TInv, TunnelTypeOK, StreamTypeOK, streamVars, peerVars,
           readVars, armVars, clientVars, pumpVars
  <2>3. Control'
    BY <1>1
       DEF RelayWatcher, CloseBoth, TInv, TunnelTypeOK, StreamTypeOK, Control, Stages,
           DeadlineKept, ReleasedOnReturn, CauseMet, Met, Established, Opening, streamVars,
           peerVars, readVars, armVars, clientVars, pumpVars
  <2> QED
    BY <2>1, <2>2, <2>3 DEF TInv
<1>2. CASE RelayReturns
  BY <1>2, ReturnStep DEF RelayReturns
<1>3. CASE ControlEnds
  <2>1. Positions'
    BY <1>3, PositionsKept
       DEF TInv, ControlEnds, streamVars, readVars
  <2>2. TunnelTypeOK'
    BY <1>3
       DEF ControlEnds, TInv, TunnelTypeOK, StreamTypeOK, streamVars, peerVars, readVars,
           armVars, clientVars, pumpVars
  <2>3. Control'
    BY <1>3
       DEF ControlEnds, TInv, TunnelTypeOK, StreamTypeOK, Control, Stages, DeadlineKept,
           ReleasedOnReturn, CauseMet, Met, Established, Opening, streamVars, peerVars,
           readVars, armVars, clientVars, pumpVars
  <2> QED
    BY <2>1, <2>2, <2>3 DEF TInv
<1>4. CASE FirstResult
  BY <1>4, ReturnStep DEF FirstResult
<1> QED
  BY <1>1, <1>2, <1>3, <1>4

\* The pump from the client: reads, arming, writes and the half-close.
LEMMA OutPumpSteps ==
    ASSUME TInv, OutPump
    PROVE  TInv'
<1>1. CASE OutReads
  <2>1. Positions'
    BY <1>1, PositionsKept
       DEF TInv, OutReads, streamVars, readVars
  <2>2. TunnelTypeOK'
    BY <1>1, TunnelConstants
       DEF OutReads, TInv, TunnelTypeOK, StreamTypeOK, streamVars, peerVars, readVars, armVars,
           clientVars, pumpVars
  <2>3. Control'
    BY <1>1
       DEF OutReads, TInv, TunnelTypeOK, StreamTypeOK, Control, Stages, DeadlineKept,
           ReleasedOnReturn, CauseMet, Met, Established, Opening, streamVars, peerVars,
           readVars, armVars, clientVars, pumpVars
  <2> QED
    BY <2>1, <2>2, <2>3 DEF TInv
<1>2. CASE OutReadEnds
  <2>1. Positions'
    BY <1>2, PositionsKept
       DEF TInv, OutReadEnds, OutEnds, PumpEnds, CloseBoth, streamVars, readVars
  <2>2. TunnelTypeOK'
    BY <1>2
       DEF OutReadEnds, OutEnds, PumpEnds, CloseBoth, TInv, TunnelTypeOK, StreamTypeOK,
           streamVars, peerVars, readVars, armVars, clientVars, pumpVars
  <2>3. Control'
    BY <1>2
       DEF OutReadEnds, OutEnds, PumpEnds, CloseBoth, TInv, TunnelTypeOK, StreamTypeOK,
           Control, Stages, DeadlineKept, ReleasedOnReturn, CauseMet, Met, Established,
           Opening, streamVars, peerVars, readVars, armVars, clientVars, pumpVars
  <2> QED
    BY <2>1, <2>2, <2>3 DEF TInv
<1>3. CASE OutArms
  <2>1. Positions'
    BY <1>3, PositionsKept
       DEF TInv, OutArms, ArmForOutbound, ArmFails, NeedsArming, PumpEnds, streamVars, readVars
  <2>2. TunnelTypeOK'
    BY <1>3
       DEF OutArms, ArmForOutbound, ArmFails, NeedsArming, PumpEnds, TInv, TunnelTypeOK,
           StreamTypeOK, streamVars, peerVars, readVars, armVars, clientVars, pumpVars
  <2>3. Control'
    BY <1>3
       DEF OutArms, ArmForOutbound, ArmFails, NeedsArming, PumpEnds, TInv, TunnelTypeOK,
           StreamTypeOK, Control, Stages, DeadlineKept, ReleasedOnReturn, CauseMet, Met,
           Established, Opening, streamVars, peerVars, readVars, armVars, clientVars, pumpVars
  <2> QED
    BY <2>1, <2>2, <2>3 DEF TInv
<1>4. CASE OutWrites
  <2>1. Positions'
    BY <1>4, PositionsKept
       DEF TInv, OutWrites, streamVars, readVars
  <2>2. TunnelTypeOK'
    BY <1>4
       DEF OutWrites, TInv, TunnelTypeOK, StreamTypeOK, streamVars, peerVars, readVars,
           armVars, clientVars, pumpVars
  <2>3. Control'
    BY <1>4
       DEF OutWrites, TInv, TunnelTypeOK, StreamTypeOK, Control, Stages, DeadlineKept,
           ReleasedOnReturn, CauseMet, Met, Established, Opening, streamVars, peerVars,
           readVars, armVars, clientVars, pumpVars
  <2> QED
    BY <2>1, <2>2, <2>3 DEF TInv
<1>5. CASE OutWriteFails
  <2>1. Positions'
    BY <1>5, PositionsKept
       DEF TInv, OutWriteFails, OutEnds, PumpEnds, CloseBoth, streamVars, readVars
  <2>2. TunnelTypeOK'
    BY <1>5
       DEF OutWriteFails, OutEnds, PumpEnds, CloseBoth, TInv, TunnelTypeOK, StreamTypeOK,
           streamVars, peerVars, readVars, armVars, clientVars, pumpVars
  <2>3. Control'
    BY <1>5
       DEF OutWriteFails, OutEnds, PumpEnds, CloseBoth, TInv, TunnelTypeOK, StreamTypeOK,
           Control, Stages, DeadlineKept, ReleasedOnReturn, CauseMet, Met, Established,
           Opening, streamVars, peerVars, readVars, armVars, clientVars, pumpVars
  <2> QED
    BY <2>1, <2>2, <2>3 DEF TInv
<1>6. CASE OutHalfCloses
  <2>1. Positions'
    BY <1>6, PositionsKept
       DEF TInv, OutHalfCloses, CloseWriteUpstream, OutEnds, PumpEnds, CloseBoth, streamVars,
           readVars
  <2>2. TunnelTypeOK'
    BY <1>6
       DEF OutHalfCloses, CloseWriteUpstream, OutEnds, PumpEnds, CloseBoth, TInv, TunnelTypeOK,
           StreamTypeOK, streamVars, peerVars, readVars, armVars, clientVars, pumpVars
  <2>3. Control'
    BY <1>6
       DEF OutHalfCloses, CloseWriteUpstream, OutEnds, PumpEnds, CloseBoth, TInv, TunnelTypeOK,
           StreamTypeOK, Control, Stages, DeadlineKept, ReleasedOnReturn, CauseMet, Met,
           Established, Opening, streamVars, peerVars, readVars, armVars, clientVars, pumpVars
  <2> QED
    BY <2>1, <2>2, <2>3 DEF TInv
<1>7. CASE DatagramReadEnds \/ DatagramReadFails
  <2>1. Positions'
    BY <1>7, PositionsKept
       DEF TInv, DatagramReadEnds, DatagramReadFails, OutEnds, PumpEnds, CloseBoth,
           streamVars, readVars
  <2>2. TunnelTypeOK'
    BY <1>7
       DEF DatagramReadEnds, DatagramReadFails, OutEnds, PumpEnds, CloseBoth, TInv,
           TunnelTypeOK, StreamTypeOK,
           streamVars, peerVars, readVars, armVars, clientVars, pumpVars
  <2>3. Control'
    BY <1>7
       DEF DatagramReadEnds, DatagramReadFails, OutEnds, PumpEnds, CloseBoth, TInv,
           TunnelTypeOK, StreamTypeOK,
           Control, Stages, DeadlineKept, ReleasedOnReturn, CauseMet, Met, Established,
           Opening, streamVars, peerVars, readVars, armVars, clientVars, pumpVars
  <2> QED
    BY <2>1, <2>2, <2>3 DEF TInv
<1>8. CASE \E port \in Ports : DatagramArrives(port)
  <2>1. Positions'
    BY <1>8, PositionsKept
       DEF TInv, DatagramArrives, AcceptSource, streamVars, readVars
  <2>2. TunnelTypeOK'
    BY <1>8, TunnelConstants
       DEF DatagramArrives, AcceptSource, TInv, TunnelTypeOK, StreamTypeOK, streamVars,
           peerVars, readVars, armVars, clientVars, pumpVars
  <2>3. Control'
    BY <1>8
       DEF DatagramArrives, AcceptSource, TInv, TunnelTypeOK, StreamTypeOK, Control, Stages,
           DeadlineKept, ReleasedOnReturn, CauseMet, Met, Established, Opening, streamVars,
           peerVars, readVars, armVars, clientVars, pumpVars
  <2> QED
    BY <2>1, <2>2, <2>3 DEF TInv
<1> QED
  BY <1>1, <1>2, <1>3, <1>4, <1>5, <1>6, <1>7, <1>8
     DEF OutPump

\* Initialization reads the IV and takes its deadline off.
LEMMA InitializeSteps ==
    ASSUME TInv, InInitializes \/ InInitializeFails \/ InInitializeEnds
    PROVE  TInv'
<1>1. CASE InInitializes /\ ReadServerIV
  <2>1. Positions' /\ taken' \in 0 .. sent
    BY <1>1, IvReads
       DEF TInv, TunnelTypeOK, InInitializes
  <2>2. TunnelTypeOK'
    BY <1>1, <2>1
       DEF InInitializes, ReadServerIV, TInv, TunnelTypeOK, StreamTypeOK, streamVars, peerVars,
           readVars, armVars, clientVars, pumpVars
  <2>3. Control'
    BY <1>1
       DEF InInitializes, ReadServerIV, TInv, TunnelTypeOK, StreamTypeOK, Control, Stages,
           DeadlineKept, ReleasedOnReturn, CauseMet, Met, Established, Opening, streamVars,
           peerVars, readVars, armVars, clientVars, pumpVars
  <2> QED
    BY <2>1, <2>2, <2>3 DEF TInv
<1>2. CASE InInitializes /\ IvComplete
  <2>1. Positions' /\ taken' \in 0 .. sent
    BY <1>2, ReaderMoves
       DEF TInv, TunnelTypeOK, StreamTypeOK, IvComplete
  <2>2. TunnelTypeOK'
    BY <1>2, <2>1
       DEF InInitializes, IvComplete, MarkReady, TInv, TunnelTypeOK, StreamTypeOK, streamVars,
           peerVars, readVars, armVars, clientVars, pumpVars
  <2>3. Control'
    BY <1>2
       DEF InInitializes, IvComplete, MarkReady, TInv, TunnelTypeOK, StreamTypeOK, Control,
           Stages, DeadlineKept, ReleasedOnReturn, CauseMet, Met, Established, Opening,
           streamVars, peerVars, readVars, armVars, clientVars, pumpVars
  <2> QED
    BY <2>1, <2>2, <2>3 DEF TInv
<1>3. CASE InInitializes /\ ClearDeadline
  <2>1. Positions' /\ taken' \in 0 .. sent
    BY <1>3, ReaderMoves
       DEF TInv, TunnelTypeOK, StreamTypeOK, ClearDeadline
  <2>2. TunnelTypeOK'
    BY <1>3, <2>1
       DEF InInitializes, ClearDeadline, TInv, TunnelTypeOK, StreamTypeOK, streamVars,
           peerVars, readVars, armVars, clientVars, pumpVars
  <2>3. Control'
    BY <1>3
       DEF InInitializes, ClearDeadline, TInv, TunnelTypeOK, StreamTypeOK, Control, Stages,
           DeadlineKept, ReleasedOnReturn, CauseMet, Met, Established, Opening, streamVars,
           peerVars, readVars, armVars, clientVars, pumpVars
  <2> QED
    BY <2>1, <2>2, <2>3 DEF TInv
<1>4. CASE InInitializeFails
  <2>1. Positions'
    BY <1>4, PositionsKept
       DEF TInv, InInitializeFails, IvFails, SourceFails, ConnFails, InEnds, PumpEnds,
           CloseBoth, streamVars, readVars
  <2>2. TunnelTypeOK'
    BY <1>4
       DEF InInitializeFails, IvFails, SourceFails, ConnFails, InEnds, PumpEnds, CloseBoth,
           TInv, TunnelTypeOK, StreamTypeOK, streamVars, peerVars, readVars, armVars,
           clientVars, pumpVars
  <2>3. Control'
    BY <1>4
       DEF InInitializeFails, IvFails, SourceFails, ConnFails, InEnds, PumpEnds, CloseBoth,
           TInv, TunnelTypeOK, StreamTypeOK, Control, Stages, DeadlineKept, ReleasedOnReturn,
           CauseMet, Met, Established, Opening, streamVars, peerVars, readVars, armVars,
           clientVars, pumpVars
  <2> QED
    BY <2>1, <2>2, <2>3 DEF TInv
<1>5. CASE InInitializeEnds
  <2>1. Positions'
    BY <1>5, PositionsKept
       DEF TInv, InInitializeEnds, IvFails, SourceFails, ConnFails, InEnds, PumpEnds,
           CloseBoth, streamVars, readVars
  <2>2. TunnelTypeOK'
    BY <1>5
       DEF InInitializeEnds, IvFails, SourceFails, ConnFails, InEnds, PumpEnds, CloseBoth,
           TInv, TunnelTypeOK, StreamTypeOK, streamVars, peerVars, readVars, armVars,
           clientVars, pumpVars
  <2>3. Control'
    BY <1>5
       DEF InInitializeEnds, IvFails, SourceFails, ConnFails, InEnds, PumpEnds, CloseBoth,
           TInv, TunnelTypeOK, StreamTypeOK, Control, Stages, DeadlineKept, ReleasedOnReturn,
           CauseMet, Met, Established, Opening, streamVars, peerVars, readVars, armVars,
           clientVars, pumpVars
  <2> QED
    BY <2>1, <2>2, <2>3 DEF TInv
<1> QED
  BY <1>1, <1>2, <1>3, <1>4, <1>5
     DEF InInitializes

\* The pump to the client: reads, the end of the provider's stream, writes.
LEMMA InPumpSteps ==
    ASSUME TInv, InReads \/ InReadEnds \/ InWrites \/ InWriteFails \/ InHalfCloses
    PROVE  TInv'
<1>1. CASE InReads
  <2>1. Positions' /\ taken' \in 0 .. sent
    BY <1>1, ReaderTypes, StreamReads
       DEF TInv, TunnelTypeOK, InReads
  <2>2. TunnelTypeOK'
    BY <1>1, <2>1
       DEF InReads, StreamRead, TInv, TunnelTypeOK, StreamTypeOK, streamVars, peerVars,
           readVars, armVars, clientVars, pumpVars
  <2>3. Control'
    BY <1>1
       DEF InReads, StreamRead, TInv, TunnelTypeOK, StreamTypeOK, Control, Stages,
           DeadlineKept, ReleasedOnReturn, CauseMet, Met, Established, Opening, streamVars,
           peerVars, readVars, armVars, clientVars, pumpVars
  <2> QED
    BY <2>1, <2>2, <2>3 DEF TInv
<1>2. CASE InReadEnds
  <2>1. Positions'
    BY <1>2, PositionsKept
       DEF TInv, InReadEnds, ProviderEof, StreamFails, SourceFails, ConnFails, InEnds,
           PumpEnds, CloseBoth, streamVars, readVars
  <2>2. TunnelTypeOK'
    BY <1>2
       DEF InReadEnds, ProviderEof, StreamFails, SourceFails, ConnFails, InEnds, PumpEnds,
           CloseBoth, TInv, TunnelTypeOK, StreamTypeOK, streamVars, peerVars, readVars,
           armVars, clientVars, pumpVars
  <2>3. Control'
    BY <1>2
       DEF InReadEnds, ProviderEof, StreamFails, SourceFails, ConnFails, InEnds, PumpEnds,
           CloseBoth, TInv, TunnelTypeOK, StreamTypeOK, Control, Stages, DeadlineKept,
           ReleasedOnReturn, CauseMet, Met, Established, Opening, streamVars, peerVars,
           readVars, armVars, clientVars, pumpVars
  <2> QED
    BY <2>1, <2>2, <2>3 DEF TInv
<1>3. CASE InWrites
  <2>1. Positions'
    BY <1>3, PositionsKept
       DEF TInv, InWrites, streamVars, readVars
  <2>2. TunnelTypeOK'
    BY <1>3
       DEF InWrites, TInv, TunnelTypeOK, StreamTypeOK, streamVars, peerVars, readVars, armVars,
           clientVars, pumpVars
  <2>3. Control'
    BY <1>3
       DEF InWrites, TInv, TunnelTypeOK, StreamTypeOK, Control, Stages, DeadlineKept,
           ReleasedOnReturn, CauseMet, Met, Established, Opening, streamVars, peerVars,
           readVars, armVars, clientVars, pumpVars
  <2> QED
    BY <2>1, <2>2, <2>3 DEF TInv
<1>4. CASE InWriteFails
  <2>1. Positions'
    BY <1>4, PositionsKept
       DEF TInv, InWriteFails, InEnds, PumpEnds, CloseBoth, streamVars, readVars
  <2>2. TunnelTypeOK'
    BY <1>4
       DEF InWriteFails, InEnds, PumpEnds, CloseBoth, TInv, TunnelTypeOK, StreamTypeOK,
           streamVars, peerVars, readVars, armVars, clientVars, pumpVars
  <2>3. Control'
    BY <1>4
       DEF InWriteFails, InEnds, PumpEnds, CloseBoth, TInv, TunnelTypeOK, StreamTypeOK,
           Control, Stages, DeadlineKept, ReleasedOnReturn, CauseMet, Met, Established,
           Opening, streamVars, peerVars, readVars, armVars, clientVars, pumpVars
  <2> QED
    BY <2>1, <2>2, <2>3 DEF TInv
<1>5. CASE InHalfCloses
  <2>1. Positions'
    BY <1>5, PositionsKept
       DEF TInv, InHalfCloses, InEnds, PumpEnds, CloseBoth, streamVars, readVars
  <2>2. TunnelTypeOK'
    BY <1>5
       DEF InHalfCloses, InEnds, PumpEnds, CloseBoth, TInv, TunnelTypeOK, StreamTypeOK,
           streamVars, peerVars, readVars, armVars, clientVars, pumpVars
  <2>3. Control'
    BY <1>5
       DEF InHalfCloses, InEnds, PumpEnds, CloseBoth, TInv, TunnelTypeOK, StreamTypeOK,
           Control, Stages, DeadlineKept, ReleasedOnReturn, CauseMet, Met, Established,
           Opening, streamVars, peerVars, readVars, armVars, clientVars, pumpVars
  <2> QED
    BY <2>1, <2>2, <2>3 DEF TInv
<1> QED
  BY <1>1, <1>2, <1>3, <1>4, <1>5

\* Frames for the client of an association.
LEMMA FrameSteps ==
    ASSUME TInv, FrameReads \/ FrameReadEnds \/ DatagramWrites
    PROVE  TInv'
<1>1. CASE FrameReads
  <2>1. Positions' /\ taken' \in 0 .. sent
    BY <1>1, StreamReads
       DEF TInv, TunnelTypeOK, FrameReads
  <2>2. TunnelTypeOK'
    BY <1>1, <2>1
       DEF FrameReads, StreamRead, TInv, TunnelTypeOK, StreamTypeOK, streamVars, peerVars,
           readVars, armVars, clientVars, pumpVars
  <2>3. Control'
    BY <1>1
       DEF FrameReads, StreamRead, TInv, TunnelTypeOK, StreamTypeOK, Control, Stages,
           DeadlineKept, ReleasedOnReturn, CauseMet, Met, Established, Opening, streamVars,
           peerVars, readVars, armVars, clientVars, pumpVars
  <2> QED
    BY <2>1, <2>2, <2>3 DEF TInv
<1>2. CASE FrameReadEnds
  <2>1. Positions'
    BY <1>2, PositionsKept
       DEF TInv, FrameReadEnds, StreamFails, SourceFails, ConnFails, InEnds, PumpEnds,
           CloseBoth, streamVars, readVars
  <2>2. TunnelTypeOK'
    BY <1>2
       DEF FrameReadEnds, StreamFails, SourceFails, ConnFails, InEnds, PumpEnds, CloseBoth,
           TInv, TunnelTypeOK, StreamTypeOK, streamVars, peerVars, readVars, armVars,
           clientVars, pumpVars
  <2>3. Control'
    BY <1>2
       DEF FrameReadEnds, StreamFails, SourceFails, ConnFails, InEnds, PumpEnds, CloseBoth,
           TInv, TunnelTypeOK, StreamTypeOK, Control, Stages, DeadlineKept, ReleasedOnReturn,
           CauseMet, Met, Established, Opening, streamVars, peerVars, readVars, armVars,
           clientVars, pumpVars
  <2> QED
    BY <2>1, <2>2, <2>3 DEF TInv
<1>3. CASE DatagramWrites
  <2>1. Positions'
    BY <1>3, PositionsKept
       DEF TInv, DatagramWrites, InEnds, PumpEnds, CloseBoth, streamVars, readVars
  <2>2. TunnelTypeOK'
    BY <1>3
       DEF DatagramWrites, InEnds, PumpEnds, CloseBoth, TInv, TunnelTypeOK, StreamTypeOK,
           streamVars, peerVars, readVars, armVars, clientVars, pumpVars
  <2>3. Control'
    BY <1>3
       DEF DatagramWrites, InEnds, PumpEnds, CloseBoth, TInv, TunnelTypeOK, StreamTypeOK,
           Control, Stages, DeadlineKept, ReleasedOnReturn, CauseMet, Met, Established,
           Opening, streamVars, peerVars, readVars, armVars, clientVars, pumpVars
  <2> QED
    BY <2>1, <2>2, <2>3 DEF TInv
<1> QED
  BY <1>1, <1>2, <1>3
\* Every step of the connection preserves the invariant.
LEMMA TunnelStep == TInv /\ [Next]_vars => TInv'
<1> SUFFICES ASSUME TInv, [Next]_vars PROVE TInv'
  OBVIOUS
<1>1. CASE Setup
  BY <1>1, DialSteps, HandshakeSteps, AdmissionSteps DEF Setup
<1>2. CASE InPump
  BY <1>2, InitializeSteps, InPumpSteps, FrameSteps DEF InPump
<1>3. CASE UNCHANGED vars
  <2>1. Positions'
    BY <1>3, PositionsKept DEF TInv, vars, streamVars, readVars
  <2>2. TunnelTypeOK'
    BY <1>3 DEF TInv, TunnelTypeOK, StreamTypeOK, vars, streamVars, peerVars, readVars, armVars,
                clientVars, pumpVars
  <2>3. Control'
    BY <1>3 DEF TInv, Control, Stages, DeadlineKept, ReleasedOnReturn, CauseMet, Met, Established,
                vars, streamVars, peerVars, readVars, armVars, clientVars, pumpVars
  <2> QED
    BY <2>1, <2>2, <2>3 DEF TInv
<1> QED
  BY <1>1, <1>2, <1>3, SurroundingSteps, EndingSteps, OutPumpSteps DEF Next

----------------------------------------------------------------------------
(* Theorems.                                                                *)

\* The inductive invariant holds throughout every connection.
THEOREM TunnelInvariant == Spec => []TInv
BY TunnelInit, TunnelStep, PTL DEF Spec

\* Wherever the reads are cut, the IV is cut out at its place and the cipher sees every
\* later byte once and in order (tcp.go, lazy.go); the IV's deadline is on the
\* connection neither before the first outbound byte nor once the stream runs; and
\* what HandleConn opened is closed when it returns, but for the upstream of a
\* handler cancelled right after its dial.
THEOREM TunnelInvHolds == Spec => []TunnelInv
<1>1. TInv => TunnelInv
  <2> SUFFICES ASSUME TInv PROVE TunnelInv
    OBVIOUS
  <2>1. StreamIntegrity
    BY DEF TInv, Positions, StreamIntegrity, TunnelTypeOK, StreamTypeOK
  <2>2. DeadlineOnlyForIv
    BY DEF TInv, Control, DeadlineKept, DeadlineOnlyForIv
  <2> QED
    BY <2>1, <2>2 DEF TInv, Control, TunnelInv
<1> QED
  BY <1>1, TunnelInvariant, PTL

\* Relay tears down a tunnel only for a reset, a cancellation, a provider that ended or
\* stayed silent before its IV, or a client that half-closed without having written.
THEOREM ClosedForCauseHolds == Spec => []ClosedForCause
<1>1. TInv => ClosedForCause
  BY DEF TInv, Control, CauseMet, Met, ClosedForCause, Cause
<1> QED
  BY <1>1, TunnelInvariant, PTL
=============================================================================
