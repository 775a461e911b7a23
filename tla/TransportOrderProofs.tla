------------------------ MODULE TransportOrderProofs ------------------------
(***************************************************************************)
(* The data phase delivers in order, loses nothing and implements a pair   *)
(* of FIFO channels, for any ring, number space, nonce space and number of *)
(* packets, as long as the packet numbers last: NumbersLast says that the  *)
(* messages written stay a ring below the end of the number space.  Beyond *)
(* it a packet of the last round of numbers could pass for a new one, and  *)
(* only the nonce window stands against that.                              *)
(*                                                                         *)
(* As numbers do not wrap, the invariant speaks of them as counts.  A peer *)
(* acknowledges only what it delivered and reports as received only what   *)
(* it delivered or has in its receive array: both only grow, so a packet   *)
(* that arrives late never makes the sender free too much.                 *)
(***************************************************************************)
EXTENDS TransportLemmas

NumbersLast == \A p \in Peer : MaxWritten[p] + CRYPTO_PACKET_BUFFER_SIZE < U32

\* Peer p has message n of the other peer, unless its connection is gone.
Has(p, n) ==
    Live(p) => \/ n < Len(delivered[p])
               \/ n < recv_array[p].end /\ At(recv_array[p], n) = n

\* The send array ends with the newest message and holds each at its number.
Queued(p) ==
    /\ written[p] <= MaxWritten[p]
    /\ send_array[p].end = written[p]
    /\ send_array[p].start <= written[p]
    /\ \A n \in send_array[p].start .. (written[p] - 1) :
           At(send_array[p], n) # Empty => At(send_array[p], n).data = n

\* What p no longer keeps the other peer has.
Covered(p) ==
    /\ Live(p) => send_array[p].start <= Len(delivered[Other(p)])
    /\ \A n \in send_array[p].start .. (written[p] - 1) :
           At(send_array[p], n) = Empty => Has(Other(p), n)

\* The receive array begins after what was delivered, which is a prefix of what
\* the other peer wrote, and holds each message at its number.
Arrived(p) ==
    /\ \A i \in 1 .. Len(delivered[p]) : delivered[p][i] = i - 1
    /\ Len(delivered[p]) <= written[Other(p)]
    /\ recv_array[p].start <= recv_array[p].end
    /\ recv_array[p].end <= written[Other(p)]
    /\ Live(p) => Len(delivered[p]) = recv_array[p].start
    /\ \A n \in recv_array[p].start .. (recv_array[p].end - 1) :
           At(recv_array[p], n) # Empty => At(recv_array[p], n) = n

\* What packet m says of its sender holds from then on.
Claims(m) ==
    LET p == Other(m.to)
    IN  /\ m.start <= Len(delivered[p])
        /\ m.num <= written[p]
        /\ m.body.kind = "lossless" => m.num < written[p] /\ m.body.data = m.num
        /\ m.body.kind = "request" => \A n \in m.body.report.received : Has(p, n)

OInv ==
    /\ \A p \in Peer : Queued(p) /\ Covered(p) /\ Arrived(p)
    /\ \A m \in net : Claims(m)

----------------------------------------------------------------------------
\* A step of p leaves the other peer alone.
Alone(p) ==
    LET q == Other(p)
    IN  /\ status'[q] = status[q]
        /\ send_array'[q] = send_array[q]
        /\ recv_array'[q] = recv_array[q]
        /\ written'[q] = written[q]
        /\ delivered'[q] = delivered[q]

\* What p wrote, delivered and has only grows.
Grows(p) ==
    /\ written[p] <= written'[p]
    /\ Len(delivered[p]) <= Len(delivered'[p])
    /\ \A n \in Number : Has(p, n) => Has(p, n)'

LEMMA NumberNat == \A n \in Number : n \in Nat
  BY PacketsArrayAssumption DEF Number

LEMMA LengthType ==
    ASSUME IInv, NEW p \in Peer
    PROVE  delivered[p] \in Seq(Nat) /\ Len(delivered[p]) \in Nat
  <1>1. delivered[p] \in Seq(Nat)
    BY Zenon DEF IInv, TypeOK
  <1> QED BY <1>1

LEMMA OrderStep ==
    ASSUME IInv, IInv', OInv, NEW p \in Peer, Alone(p), Grows(p),
           Queued(p)', Covered(p)', Arrived(p)',
           \A m \in net' \ net : m.to = Other(p) /\ Claims(m)'
    PROVE  OInv'
  <1> DEFINE q == Other(p)
  <1>1. q \in Peer /\ Other(q) = p /\ \A r \in Peer : r = p \/ r = q
    BY OtherOther, Zenon
  <1>2. /\ status'[q] = status[q]
        /\ send_array'[q] = send_array[q]
        /\ recv_array'[q] = recv_array[q]
        /\ written'[q] = written[q]
        /\ delivered'[q] = delivered[q]
    BY Zenon DEF Alone
  <1> HIDE DEF q
  <1>3. ASSUME NEW n PROVE Has(q, n)' <=> Has(q, n)
    BY <1>2, Zenon DEF Has, Live
  <1>4. Queued(q)'
    BY <1>1, <1>2 DEF Queued, OInv
  <1>5. Covered(q)'
    <2>1. /\ Live(q) => send_array[q].start <= Len(delivered[p])
          /\ \A n \in send_array[q].start .. (written[q] - 1) : At(send_array[q], n) = Empty => Has(p, n)
      BY <1>1, Zenon DEF OInv, Covered
    <2>2. \A n \in send_array[q].start .. (written[q] - 1) : n \in Number
      <3>1. send_array[q].start \in Number /\ send_array[q].end = written[q] /\ send_array[q].end \in Number
        BY <1>1, PeerParts, Zenon DEF OInv, Queued
      <3> QED BY <3>1, PacketsArrayAssumption DEF Number
    <2>3. \A n \in send_array[q].start .. (written[q] - 1) : At(send_array[q], n) = Empty => Has(p, n)'
      BY <2>1, <2>2, Zenon DEF Grows
    <2>4. Live(q) => send_array[q].start <= Len(delivered'[p])
      <3>1. send_array[q].start \in Nat /\ Len(delivered[p]) \in Nat /\ Len(delivered'[p]) \in Nat
        <4>1. send_array[q].start \in Nat
          BY <1>1, PeerParts, NumberNat, Zenon
        <4>2. delivered'[p] \in Seq(Nat)
          BY Zenon DEF IInv, TypeOK
        <4> QED BY <4>1, <4>2, LengthType
      <3> QED BY <2>1, <3>1 DEF Grows
    <2> QED BY <1>1, <1>2, <2>3, <2>4, Zenon DEF Covered, Live
  <1>6. Arrived(q)'
    <2>1. written[p] \in Nat /\ written'[p] \in Nat
      BY Zenon DEF IInv, TypeOK
    <2>2. Arrived(q) /\ Other(q) = p
      BY <1>1, Zenon DEF OInv
    <2>3. recv_array[q].end \in Nat /\ Len(delivered[q]) \in Nat
      BY <1>1, LengthType, ArrayParts DEF IInv, TypeOK, Number
    <2> QED BY <1>2, <2>1, <2>2, <2>3 DEF Arrived, Grows, Live
  <1>7. ASSUME NEW m \in net' PROVE Claims(m)'
    <2>1. CASE m \notin net
      BY <2>1, Zenon
    <2>2. CASE m \in net /\ m.to = p
      <3>1. Claims(m) /\ Other(m.to) = q
        BY <2>2, Zenon DEF OInv, q
      <3> QED BY <1>2, <1>3, <3>1, Zenon DEF Claims
    <2>3. CASE m \in net /\ m.to = q
      <3>1. Claims(m) /\ Other(m.to) = p
        BY <1>1, <2>3, Zenon DEF OInv
      <3>2. m \in Packet
        BY <2>3, Zenon DEF IInv, TypeOK
      <3>3. /\ m.start \in Nat /\ m.num \in Nat /\ Len(delivered[p]) \in Nat /\ Len(delivered'[p]) \in Nat
            /\ written[p] \in Nat /\ written'[p] \in Nat
        BY <3>2, BodyOf, LengthType DEF Number, IInv, TypeOK
      <3>4. m.body.kind = "request" => \A n \in m.body.report.received : n \in Number
        BY <3>2, BodyOf, Zenon DEF Request
      <3> QED BY <3>1, <3>3, <3>4 DEF Claims, Grows
    <2>4. m \in net => m.to \in Peer
      BY Zenon DEF IInv, TypeOK, Packet
    <2> QED BY <1>1, <2>1, <2>2, <2>3, <2>4, Zenon
  <1>8. \A r \in Peer : Queued(r)' /\ Covered(r)' /\ Arrived(r)'
    BY <1>1, <1>4, <1>5, <1>6, Zenon
  <1> QED BY <1>7, <1>8, Zenon DEF OInv

----------------------------------------------------------------------------
\* What is known of a peer: no number of its arrays is near the last.
LEMMA PeerFlat ==
    ASSUME IInv, OInv, NumbersLast, NEW p \in Peer
    PROVE  /\ send_array[p] \in ArrayOf(SendPacket) /\ WellFormed(send_array[p]) /\ Flat(send_array[p])
           /\ recv_array[p] \in ArrayOf(Nat) /\ WellFormed(recv_array[p]) /\ Flat(recv_array[p])
           /\ written[p] \in Nat /\ written[p] + CRYPTO_PACKET_BUFFER_SIZE < U32
           /\ Len(delivered[p]) \in Nat
           /\ Queued(p) /\ Covered(p) /\ Arrived(p)
  <1>1. Queued(p) /\ Covered(p) /\ Arrived(p)
    BY Zenon DEF OInv
  <1>2. \A r \in Peer : written[r] \in Nat /\ written[r] + CRYPTO_PACKET_BUFFER_SIZE < U32
    <2> SUFFICES ASSUME NEW r \in Peer
                 PROVE  written[r] \in Nat /\ written[r] + CRYPTO_PACKET_BUFFER_SIZE < U32
      BY Zenon
    <2>1. written[r] \in Nat /\ MaxWritten[r] \in Nat
      BY CryptoTransportAssumption, Zenon DEF IInv, TypeOK
    <2>2. written[r] <= MaxWritten[r]
      BY Zenon DEF OInv, Queued
    <2> QED BY <2>1, <2>2, PacketsArrayAssumption DEF NumbersLast
  <1>3. /\ send_array[p] \in ArrayOf(SendPacket) /\ WellFormed(send_array[p])
        /\ recv_array[p] \in ArrayOf(Nat) /\ WellFormed(recv_array[p])
    BY PeerParts, Zenon
  <1>4. Flat(send_array[p])
    BY <1>1, <1>2, Zenon DEF Queued, Flat
  <1>5. Flat(recv_array[p])
    <2>1. Other(p) \in Peer /\ recv_array[p].end \in Nat
      BY <1>3, OtherOther, ArrayParts, NumberNat, Zenon
    <2> QED BY <1>1, <1>2, <2>1, PacketsArrayAssumption, SMTT(30) DEF Arrived, Flat
  <1> QED BY <1>1, <1>2, <1>3, <1>4, <1>5, LengthType, Zenon

\* The receiving side of p does not change.
LEMMA ReceivingSame ==
    ASSUME IInv, OInv, NEW p \in Peer, Alone(p), status'[p] = status[p],
           recv_array'[p] = recv_array[p], delivered'[p] = delivered[p],
           written[p] <= written'[p]
    PROVE  Arrived(p)' /\ Grows(p)
  <1>1. written'[Other(p)] = written[Other(p)]
    BY Zenon DEF Alone
  <1>2. Arrived(p)
    BY Zenon DEF OInv
  <1>3. Arrived(p)'
    BY <1>1, <1>2, Zenon DEF Arrived, Live
  <1>4. ASSUME NEW n \in Number, Has(p, n) PROVE Has(p, n)'
    BY <1>4, Zenon DEF Has, Live
  <1> QED BY <1>3, <1>4, LengthType DEF Grows

\* The send array of p forgets packets the other peer has, from the start or
\* anywhere, and keeps the messages of the others.
LEMMA SendingShrinks ==
    ASSUME IInv, OInv, NumbersLast, NEW p \in Peer, Alone(p), written'[p] = written[p],
           NEW b, send_array'[p] = b,
           b.start \in Nat, send_array[p].start <= b.start, b.start <= send_array[p].end,
           b.end = send_array[p].end,
           Live(p)' => b.start <= Len(delivered[Other(p)]),
           \A n \in b.start .. (written[p] - 1) :
               IF At(b, n) = Empty
               THEN At(send_array[p], n) = Empty \/ Has(Other(p), n)
               ELSE At(send_array[p], n) # Empty /\ At(b, n).data = At(send_array[p], n).data
    PROVE  Queued(p)' /\ Covered(p)'
  <1>1. Queued(p) /\ Covered(p) /\ written[p] \in Nat
    BY PeerFlat, Zenon
  <1>2. send_array[p].start \in Nat
    BY PeerParts, NumberNat, Zenon
  <1>3. \A n \in b.start .. (written[p] - 1) : n \in send_array[p].start .. (written[p] - 1)
    BY <1>1, <1>2
  <1>4. ASSUME NEW n, Has(Other(p), n) PROVE Has(Other(p), n)'
    BY <1>4, Zenon DEF Has, Live, Alone
  <1>5. Len(delivered'[Other(p)]) = Len(delivered[Other(p)])
    BY Zenon DEF Alone
  <1>6. Queued(p)'
    BY <1>1, <1>3, Zenon DEF Queued
  <1>7. Covered(p)'
    BY <1>1, <1>3, <1>4, <1>5, Zenon DEF Covered
  <1> QED BY <1>6, <1>7, Zenon

\* The send array of p does not change.
LEMMA SendingSame ==
    ASSUME IInv, OInv, NEW p \in Peer, Alone(p), written'[p] = written[p],
           send_array'[p] = send_array[p], status'[p] = status[p]
    PROVE  Queued(p)' /\ Covered(p)'
  <1>1. Queued(p) /\ Covered(p)
    BY Zenon DEF OInv
  <1>2. ASSUME NEW n, Has(Other(p), n) PROVE Has(Other(p), n)'
    BY <1>2, Zenon DEF Has, Live, Alone
  <1>3. Len(delivered'[Other(p)]) = Len(delivered[Other(p)])
    BY Zenon DEF Alone
  <1>4. Queued(p)'
    BY <1>1, Zenon DEF Queued
  <1>5. Covered(p)'
    BY <1>1, <1>2, <1>3, Zenon DEF Covered, Live
  <1> QED BY <1>4, <1>5, Zenon

\* Marking a packet as sent or unsent keeps its message.
LEMMA MarkedAt ==
    ASSUME NEW a \in ArrayOf(SendPacket), NEW N \in SUBSET Number, NEW v \in BOOLEAN,
           \A n \in N : At(a, n) # Empty, NEW i \in Number
    PROVE  /\ At(Marked(a, N, v), i) = Empty <=> At(a, i) = Empty
           /\ At(a, i) # Empty => At(Marked(a, N, v), i).data = At(a, i).data
  <1> DEFINE s == SlotOf(i)
  <1>1. s \in Slot
    BY SlotType, Zenon
  <1>2. Marked(a, N, v).buffer[s] = IF \E n \in N : SlotOf(n) = s
                                    THEN [a.buffer[s] EXCEPT !.sent = v] ELSE a.buffer[s]
    BY <1>1, Zenon DEF Marked, ArrayOf
  <1>3. CASE \E n \in N : SlotOf(n) = s
    <2>1. a.buffer[s] # Empty
      BY <1>3, Zenon DEF At
    <2>2. a.buffer[s] \in SendPacket
      BY <1>1, <2>1, ArrayParts
    <2>3. [a.buffer[s] EXCEPT !.sent = v] \in SendPacket /\ [a.buffer[s] EXCEPT !.sent = v].data = a.buffer[s].data
      BY <2>2, Zenon DEF SendPacket
    <2>4. Empty \notin SendPacket
      BY CryptoTransportAssumption, Zenon DEF SendPacket
    <2> QED BY <1>2, <1>3, <2>1, <2>3, <2>4, Zenon DEF At
  <1>4. CASE ~\E n \in N : SlotOf(n) = s
    BY <1>2, <1>4, Zenon DEF At
  <1> QED BY <1>3, <1>4, Zenon

\* An acknowledgement frees only what the other peer delivered.
LEMMA AckedFlat ==
    ASSUME IInv, OInv, NumbersLast, NEW p \in Peer, NEW m, Arrives(p, m), AckValid(p, m)
    PROVE  LET a == send_array[p]
               b == Acked(p, m)
           IN  /\ a.start <= b.start /\ b.start <= a.end
               /\ b.end = a.end
               /\ b.start <= Len(delivered[Other(p)])
               /\ \A n \in b.start .. (a.end - 1) : At(b, n) = At(a, n)
  <1> DEFINE a == send_array[p]
             b == Acked(p, m)
  <1>1. /\ a \in ArrayOf(SendPacket) /\ WellFormed(a) /\ Flat(a) /\ Covered(p)
        /\ a.start \in Nat /\ a.end \in Nat
    BY PeerFlat, PeerParts, NumberNat, Zenon
  <1>2. m \in net /\ m.to = p /\ Live(p)
    BY Zenon DEF Arrives
  <1>3. Claims(m) /\ m.start \in Number
    BY <1>2, BodyOf, Zenon DEF OInv, IInv, TypeOK
  <1>4. CASE m.start = a.start
    <2>1. b = a
      BY <1>4, Zenon DEF Acked
    <2>2. a.start <= Len(delivered[Other(p)])
      BY <1>1, <1>2, Zenon DEF Covered
    <2> QED BY <1>1, <2>1, <2>2 DEF Flat
  <1>5. CASE m.start # a.start
    <2>1. CanClearUntil(a, m.start) /\ b = clear_buffer_until(a, m.start)
      BY <1>5, Zenon DEF AckValid, Acked
    <2> DEFINE n == m.start
    <2>2. n <= Len(delivered[Other(p)])
      BY <1>2, <1>3, Zenon DEF Claims
    <2> HIDE DEF a, b, n
    <2>3. /\ a.start <= n /\ n <= a.end
          /\ b.start = n
          /\ b.end = a.end
          /\ \A i \in n .. (a.end - 1) : At(b, i) = At(a, i)
      BY <1>1, <1>3, <2>1, FlatClearUntil, Zenon DEF n
    <2> QED BY <2>2, <2>3, Zenon DEF a, b
  <1> QED BY <1>4, <1>5, Zenon

\* The window of p is extended to a number the other peer has reached.
LEMMA ReceivingExtends ==
    ASSUME IInv, OInv, NumbersLast, NEW p \in Peer, Alone(p), Live(p), written[p] <= written'[p],
           NEW n \in Number, n <= written[Other(p)],
           recv_array'[p] = set_buffer_end(recv_array[p], n), delivered'[p] = delivered[p]
    PROVE  Arrived(p)' /\ Grows(p)
  <1> DEFINE a == recv_array[p]
             b == set_buffer_end(a, n)
  <1>1. a \in ArrayOf(Nat) /\ WellFormed(a) /\ Flat(a) /\ Arrived(p)
    BY PeerFlat, Zenon
  <1>2. a.start \in Nat /\ a.end \in Nat /\ a.start <= a.end /\ a.end <= written[Other(p)]
    BY <1>1, ArrayParts, NumberNat, Zenon DEF Arrived
  <1> HIDE DEF a, b
  <1>3. /\ b.start = a.start
        /\ b.end \in {a.end, n} /\ a.end <= b.end
        /\ b.buffer = a.buffer
        /\ \A i \in a.end .. (b.end - 1) : At(b, i) = Empty
    BY <1>1, FlatSetEnd, Zenon DEF b
  <1>4. b.end \in Nat /\ b.end <= written[Other(p)]
    BY <1>2, <1>3, NumberNat, Zenon
  <1>5. \A i \in b.start .. (b.end - 1) : At(b, i) # Empty => At(b, i) = i
    <2> SUFFICES ASSUME NEW i \in b.start .. (b.end - 1), At(b, i) # Empty PROVE At(b, i) = i
      BY Zenon
    <2>1. i \in a.start .. (a.end - 1)
      BY <1>2, <1>3, <1>4
    <2>2. At(b, i) = At(a, i)
      BY <1>3, Zenon DEF At
    <2> QED BY <1>1, <2>1, <2>2, Zenon DEF Arrived, a
  <1>6. recv_array'[p] = b /\ written'[Other(p)] = written[Other(p)]
    BY Zenon DEF a, b, Alone
  <1>7. Arrived(p)'
    <2>1. Len(delivered[p]) = b.start
      BY <1>1, <1>3, Zenon DEF Arrived, a
    <2> QED BY <1>1, <1>2, <1>3, <1>4, <1>5, <1>6, <2>1 DEF Arrived
  <1>8. ASSUME NEW i \in Number, Has(p, i) PROVE Has(p, i)'
    <2>1. i < Len(delivered[p]) \/ (i < a.end /\ At(a, i) = i)
      BY <1>8, Zenon DEF Has, a
    <2>2. i \in Nat /\ (i < a.end => i < b.end) /\ At(b, i) = At(a, i)
      BY <1>2, <1>3, <1>4, NumberNat DEF At
    <2> QED BY <1>6, <2>1, <2>2, Zenon DEF Has
  <1> QED BY <1>7, <1>8, LengthType DEF Grows

\* A killed connection claims nothing.
LEMMA KilledFlat ==
    ASSUME IInv, OInv, NumbersLast, NEW p \in Peer, Alone(p), written'[p] = written[p],
           NEW sa \in ArrayOf(SendPacket), sa.end = send_array[p].end,
           NEW ra \in ArrayOf(Nat), ra.end <= written[Other(p)],
           status'[p] = FREE, send_array'[p] = clear_buffer(sa), recv_array'[p] = clear_buffer(ra),
           NEW s \in Seq(Nat), delivered'[p] = s, Len(delivered[p]) <= Len(s),
           \A i \in 1 .. Len(s) : s[i] = i - 1, Len(s) <= written[Other(p)]
    PROVE  Queued(p)' /\ Covered(p)' /\ Arrived(p)' /\ Grows(p)
  <1>1. /\ clear_buffer(sa).start = sa.end /\ clear_buffer(sa).end = sa.end
        /\ clear_buffer(ra).start = ra.end /\ clear_buffer(ra).end = ra.end
        /\ sa.end \in Nat /\ ra.end \in Nat
    <2>1. sa.end \in Nat /\ ra.end \in Nat
      BY ArrayParts, NumberNat, Zenon
    <2> QED BY <2>1, Zenon DEF clear_buffer, ArrayOf
  <1>2. Queued(p) /\ written[p] \in Nat
    BY PeerFlat, Zenon
  <1>3. ~Live(p)' /\ written'[Other(p)] = written[Other(p)]
    BY Zenon DEF Live, Alone
  <1>4. sa.end = written[p]
    BY <1>2, Zenon DEF Queued
  <1>5. Queued(p)'
    BY <1>1, <1>2, <1>4 DEF Queued
  <1>6. Covered(p)'
    BY <1>1, <1>2, <1>3, <1>4 DEF Covered
  <1>7. Arrived(p)'
    BY <1>1, <1>3 DEF Arrived
  <1>8. Grows(p)
    BY <1>2, <1>3 DEF Grows, Has
  <1> QED BY <1>5, <1>6, <1>7, <1>8, Zenon

\* A new packet in the receive array of p.
LEMMA AddedFlat ==
    ASSUME IInv, OInv, NumbersLast, NEW p \in Peer, Live(p),
           NEW n \in Number, n < written[Other(p)], CanAdd(recv_array[p], n)
    PROVE  LET a == recv_array[p]
               b == add_data_to_buffer(a, n, n)
           IN  /\ b \in ArrayOf(Nat) /\ WellFormed(b) /\ Flat(b)
               /\ b.start = Len(delivered[p])
               /\ b.end <= written[Other(p)]
               /\ \A i \in b.start .. (b.end - 1) : At(b, i) # Empty => At(b, i) = i
               /\ \A i \in b.start .. (a.end - 1) : At(a, i) = i => i < b.end /\ At(b, i) = i
  <1> DEFINE a == recv_array[p]
             b == add_data_to_buffer(a, n, n)
  <1>1. a \in ArrayOf(Nat) /\ WellFormed(a) /\ Flat(a) /\ Arrived(p)
    BY PeerFlat, Zenon
  <1>2. a.start \in Nat /\ a.end \in Nat /\ a.start <= a.end /\ a.end <= written[Other(p)] /\ n \in Nat
    BY <1>1, ArrayParts, NumberNat, Zenon DEF Arrived
  <1>3. written[Other(p)] \in Nat /\ written[Other(p)] + CRYPTO_PACKET_BUFFER_SIZE < U32
    BY OtherOther, PeerFlat, Zenon
  <1>4. /\ \A i \in a.start .. (a.end - 1) : At(a, i) # Empty => At(a, i) = i
        /\ Len(delivered[p]) = a.start
        /\ At(a, n) = Empty
    BY <1>1, Zenon DEF Arrived, CanAdd
  <1> HIDE DEF a, b
  <1>5. CanAdd(a, n) /\ n \in Nat
    BY <1>2, Zenon DEF a
  <1>6. b \in ArrayOf(Nat) /\ WellFormed(b)
    BY <1>1, <1>5, AddWellFormed, Zenon DEF b
  <1>7. /\ a.start <= n /\ n < a.start + CRYPTO_PACKET_BUFFER_SIZE
        /\ b.start = a.start
        /\ b.end = IF n < a.end THEN a.end ELSE n + 1
        /\ At(b, n) = n
        /\ \A i \in a.start .. (a.end - 1) : i # n => At(b, i) = At(a, i)
        /\ \A i \in a.end .. (n - 1) : At(b, i) = Empty
    BY <1>1, <1>5, FlatAdd DEF b
  <1>8. b.end \in Nat /\ b.end <= written[Other(p)] /\ b.start <= b.end /\ a.end <= b.end
    BY <1>2, <1>3, <1>7
  <1>9. Flat(b)
    BY <1>3, <1>8, PacketsArrayAssumption DEF Flat
  <1>10. ASSUME NEW i \in b.start .. (b.end - 1), At(b, i) # Empty PROVE At(b, i) = i
    <2>1. CASE i = n
      BY <1>7, <2>1, Zenon
    <2>2. CASE i # n /\ i < a.end
      <3>1. i \in a.start .. (a.end - 1)
        BY <1>2, <1>7, <1>8, <2>2
      <3> QED BY <1>4, <1>7, <1>10, <2>2, <3>1, Zenon
    <2>3. CASE i # n /\ ~(i < a.end)
      <3>1. i \in a.end .. (n - 1)
        BY <1>2, <1>7, <1>8, <2>3
      <3> QED BY <1>7, <1>10, <3>1, Zenon
    <2> QED BY <2>1, <2>2, <2>3, Zenon
  <1>11. ASSUME NEW i \in b.start .. (a.end - 1), At(a, i) = i PROVE i < b.end /\ At(b, i) = i
    <2>1. i \in Nat /\ i < a.end /\ i < b.end
      BY <1>2, <1>7, <1>8
    <2>2. i # n
      BY <1>4, <1>11, <2>1, CryptoTransportAssumption, Zenon
    <2> QED BY <1>7, <1>11, <2>1, <2>2, Zenon
  <1> QED BY <1>4, <1>6, <1>7, <1>8, <1>9, <1>10, <1>11, Zenon DEF a, b

\* The delivery loop hands over the messages that follow what was delivered.
LEMMA HandedOverNext ==
    ASSUME NEW a \in ArrayOf(Nat), Flat(a), NEW k \in 0 .. num_packets_array(a),
           \A j \in 0 .. (k - 1) : ~LoopStops(a, j),
           \A i \in a.start .. (a.end - 1) : At(a, i) # Empty => At(a, i) = i
    PROVE  HandedOver(a, k) = [i \in 1 .. k |-> a.start + i - 1]
  <1>1. /\ a.start \in Nat /\ a.end \in Nat /\ num_packets_array(a) = a.end - a.start
        /\ a.end + CRYPTO_PACKET_BUFFER_SIZE < U32
        /\ k \in Nat /\ a.start + k <= a.end
    BY FlatWindow DEF Flat
  <1>2. ASSUME NEW j \in 0 .. k, j < k PROVE Plus(a.start, j) = a.start + j /\ At(a, a.start + j) = a.start + j
    <2>1. j \in Nat /\ a.start + j < a.end
      BY <1>1, <1>2
    <2>2. Plus(a.start, j) = a.start + j
      BY <1>1, <2>1, PacketsArrayAssumption DEF Plus
    <2>3. j \in 0 .. (k - 1) /\ a.start + j \in a.start .. (a.end - 1)
      BY <1>1, <2>1, <1>2
    <2>4. At(a, a.start + j) # Empty
      BY <2>2, <2>3, Zenon DEF LoopStops
    <2> QED BY <2>2, <2>3, <2>4, Zenon
  <1>3. ~(k > 0 /\ Plus(a.start, k - 1) = U32 - 1)
    BY <1>1, PacketsArrayAssumption DEF Plus
  <1>4. HandedOver(a, k) = [i \in 1 .. k |-> At(a, Plus(a.start, i - 1))]
    BY <1>3, Zenon DEF HandedOver
  <1>5. ASSUME NEW i \in 1 .. k PROVE At(a, Plus(a.start, i - 1)) = a.start + i - 1
    <2>1. i - 1 \in 0 .. k /\ i - 1 < k
      BY <1>1
    <2>2. Plus(a.start, i - 1) = a.start + (i - 1) /\ At(a, a.start + (i - 1)) = a.start + (i - 1)
      BY <1>2, <2>1, Zenon
    <2>3. a.start + (i - 1) = a.start + i - 1
      BY <1>1, Zenon
    <2> QED BY <2>2, <2>3, Zenon
  <1> QED BY <1>4, <1>5, Zenon

LEMMA ConcatLength ==
    ASSUME NEW s \in Seq(Nat), NEW t \in Seq(Nat)
    PROVE  s \o t \in Seq(Nat) /\ Len(s \o t) = Len(s) + Len(t)
  OBVIOUS

LEMMA ConcatEmpty ==
    ASSUME NEW s \in Seq(Nat)
    PROVE  s \o <<>> = s
  OBVIOUS

LEMMA CountsOn ==
    ASSUME NEW s \in Seq(Nat), \A i \in 1 .. Len(s) : s[i] = i - 1, NEW k \in Nat
    PROVE  LET t == s \o [i \in 1 .. k |-> Len(s) + i - 1]
           IN  /\ t \in Seq(Nat) /\ Len(t) = Len(s) + k
               /\ \A i \in 1 .. Len(t) : t[i] = i - 1
  <1> DEFINE h == [i \in 1 .. k |-> Len(s) + i - 1]
  <1>1. h \in Seq(Nat) /\ Len(h) = k /\ \A i \in 1 .. k : h[i] = Len(s) + i - 1
    OBVIOUS
  <1> HIDE DEF h
  <1>2. s \o h \in Seq(Nat) /\ Len(s \o h) = Len(s) + k
    BY <1>1, ConcatLength, Zenon
  <1>3. ASSUME NEW i \in 1 .. (Len(s) + k) PROVE (s \o h)[i] = i - 1
    <2>1. CASE i <= Len(s)
      <3>1. (s \o h)[i] = s[i]
        BY <1>1, <2>1, SMTT(30)
      <3> QED BY <2>1, <3>1, SMTT(30)
    <2>2. CASE i > Len(s)
      <3>1. i - Len(s) \in 1 .. k
        BY <2>2, SMTT(30)
      <3>2. (s \o h)[i] = h[i - Len(s)]
        BY <1>1, <2>2, SMTT(30)
      <3> QED BY <1>1, <3>1, <3>2, SMTT(30)
    <2>3. i <= Len(s) \/ i > Len(s)
      <3>1. Len(s) \in Nat /\ i \in Int
        BY SMTT(30)
      <3> QED BY <3>1, SMTT(30)
    <2> QED BY <2>1, <2>2, <2>3, Zenon
  <1> QED BY <1>2, <1>3, Zenon DEF h

\* What the loop leaves of the receive array and of the history of p.
LEMMA DeliveryFlat ==
    ASSUME IInv, OInv, NumbersLast, NEW p \in Peer, Live(p),
           NEW n \in Number, n < written[Other(p)], CanAdd(recv_array[p], n),
           NEW k \in 0 .. num_packets_array(add_data_to_buffer(recv_array[p], n, n)),
           \A j \in 0 .. (k - 1) : ~LoopStops(add_data_to_buffer(recv_array[p], n, n), j)
    PROVE  LET b == add_data_to_buffer(recv_array[p], n, n)
               c == read_data_beg_buffer(b, k)
               s == delivered[p] \o HandedOver(b, k)
           IN  /\ HandedOver(b, k) = [i \in 1 .. k |-> Len(delivered[p]) + i - 1]
               /\ s \in Seq(Nat) /\ Len(s) = Len(delivered[p]) + k
               /\ \A i \in 1 .. Len(s) : s[i] = i - 1
               /\ c \in ArrayOf(Nat) /\ c.start = Len(s) /\ c.start <= c.end /\ c.end <= written[Other(p)]
               /\ \A i \in c.start .. (c.end - 1) : At(c, i) # Empty => At(c, i) = i
               /\ \A i \in Number : i < Len(delivered[p]) \/ (i < recv_array[p].end /\ At(recv_array[p], i) = i)
                                    => i < Len(s) \/ (i < c.end /\ At(c, i) = i)
  <1> DEFINE a == recv_array[p]
             b == add_data_to_buffer(a, n, n)
             c == read_data_beg_buffer(b, k)
             s == delivered[p] \o HandedOver(b, k)
  <1>1. /\ b \in ArrayOf(Nat) /\ WellFormed(b) /\ Flat(b)
        /\ b.start = Len(delivered[p])
        /\ b.end <= written[Other(p)]
        /\ \A i \in b.start .. (b.end - 1) : At(b, i) # Empty => At(b, i) = i
        /\ \A i \in b.start .. (a.end - 1) : At(a, i) = i => i < b.end /\ At(b, i) = i
    BY AddedFlat, Zenon
  <1>0. k \in 0 .. num_packets_array(b) /\ \A j \in 0 .. (k - 1) : ~LoopStops(b, j)
    BY Zenon
  <1> HIDE DEF b
  <1>2. /\ b.start \in Nat /\ b.end \in Nat /\ num_packets_array(b) = b.end - b.start /\ a.end \in Nat
        /\ k \in Nat /\ b.start + k <= b.end
    <2>1. b.start \in Nat /\ b.end \in Nat /\ num_packets_array(b) = b.end - b.start
      BY <1>1, FlatWindow, Zenon
    <2>2. a.end \in Nat
      BY PeerParts, ArrayParts, NumberNat, Zenon
    <2> QED BY <1>0, <2>1, <2>2, SMTT(30)
  <1>3. HandedOver(b, k) = [i \in 1 .. k |-> Len(delivered[p]) + i - 1]
    BY <1>0, <1>1, HandedOverNext, Zenon
  <1>4. delivered[p] \in Seq(Nat) /\ \A i \in 1 .. Len(delivered[p]) : delivered[p][i] = i - 1
    BY LengthType, Zenon DEF OInv, Arrived
  <1>5. s \in Seq(Nat) /\ Len(s) = Len(delivered[p]) + k /\ \A i \in 1 .. Len(s) : s[i] = i - 1
    BY <1>2, <1>3, <1>4, CountsOn, SMTT(30)
  <1> HIDE DEF a, c, s
  <1>6. c \in ArrayOf(Nat)
    BY <1>0, <1>1, ReadWellFormed, Zenon DEF c
  <1>7. /\ c.start = b.start + k /\ c.end = b.end
        /\ \A i \in (b.start + k) .. (b.end - 1) : At(c, i) = At(b, i)
    BY <1>0, <1>1, FlatRead, Zenon DEF c
  <1>8. c.start = Len(s) /\ c.start <= c.end /\ c.end <= written[Other(p)]
    BY <1>1, <1>2, <1>5, <1>7, Zenon
  <1>9. ASSUME NEW i \in c.start .. (c.end - 1), At(c, i) # Empty PROVE At(c, i) = i
    <2>1. i \in b.start .. (b.end - 1) /\ At(c, i) = At(b, i)
      BY <1>2, <1>7, SMTT(30)
    <2> QED BY <1>1, <1>9, <2>1, Zenon
  <1>10. ASSUME NEW i \in Number, i < Len(delivered[p]) \/ (i < a.end /\ At(a, i) = i), ~(i < Len(s))
         PROVE  i < c.end /\ At(c, i) = i
    <2>1. i \in Nat
      BY NumberNat, Zenon
    <2>2. i \in b.start .. (a.end - 1) /\ At(a, i) = i
      BY <1>1, <1>2, <1>5, <1>10, <2>1, SMTT(30)
    <2>3. i < b.end /\ At(b, i) = i
      BY <1>1, <2>2, Zenon
    <2>4. i \in (b.start + k) .. (b.end - 1)
      BY <1>1, <1>2, <1>5, <1>10, <2>1, <2>3, SMTT(30)
    <2> QED BY <1>7, <2>3, <2>4, Zenon
  <1> QED BY <1>3, <1>5, <1>6, <1>8, <1>9, <1>10, Zenon DEF a, b, c, s

\* reset_max_speed_reached changes no message and no window.
LEMMA ResetFlat ==
    ASSUME IInv, NEW p \in Peer
    PROVE  /\ AfterReset(p).start = send_array[p].start
           /\ \A n \in Number :
                 /\ At(AfterReset(p), n) = Empty <=> At(send_array[p], n) = Empty
                 /\ At(send_array[p], n) # Empty => At(AfterReset(p), n).data = At(send_array[p], n).data
           /\ RetriesNewest(p) => Newest(p) \in Number /\ At(send_array[p], Newest(p)) # Empty
  <1> DEFINE a == send_array[p]
             n == Newest(p)
  <1>1. a \in ArrayOf(SendPacket) /\ WellFormed(a) /\ a.end \in Number
    BY PeerParts, Zenon
  <1>2. n \in Number
    <2>1. 1 \in Number
      BY PacketsArrayAssumption, SMTT(30) DEF Number
    <2> QED BY <1>1, <2>1, SubType, Zenon DEF Newest
  <1>3. CASE ~RetriesNewest(p)
    BY <1>3, Zenon DEF AfterReset
  <1>4. CASE RetriesNewest(p)
    <2>1. AfterReset(p) = Marked(a, {n}, TRUE)
      BY <1>4, Zenon DEF AfterReset
    <2>2. {n} \in SUBSET Number /\ \A i \in {n} : At(a, i) # Empty
      BY <1>2, <1>4, Zenon DEF RetriesNewest, HasData
    <2>3. TRUE \in BOOLEAN
      BY Zenon
    <2> HIDE DEF a, n
    <2>4. Marked(a, {n}, TRUE).start = a.start
      BY <1>1, <2>2, <2>3, MarkWellFormed, Zenon
    <2>5. ASSUME NEW i \in Number
          PROVE  /\ At(Marked(a, {n}, TRUE), i) = Empty <=> At(a, i) = Empty
                 /\ At(a, i) # Empty => At(Marked(a, {n}, TRUE), i).data = At(a, i).data
      BY <1>1, <2>2, <2>3, MarkedAt, Zenon
    <2> QED BY <1>2, <2>1, <2>2, <2>4, <2>5, Zenon DEF a, n
  <1> QED BY <1>3, <1>4, Zenon

\* The newest message is appended to the send array of p.
LEMMA SendingAppends ==
    ASSUME IInv, OInv, NumbersLast, NEW p \in Peer, Alone(p), status'[p] = status[p],
           written[p] < MaxWritten[p], written'[p] = written[p] + 1,
           NEW a \in ArrayOf(SendPacket), WellFormed(a), CanAppend(a),
           a.start = send_array[p].start, a.end = send_array[p].end,
           \A n \in Number :
               /\ At(a, n) = Empty <=> At(send_array[p], n) = Empty
               /\ At(send_array[p], n) # Empty => At(a, n).data = At(send_array[p], n).data,
           NEW d \in SendPacket, d.data = written[p],
           send_array'[p] = add_data_end_of_buffer(a, d)
    PROVE  Queued(p)' /\ Covered(p)'
  <1> DEFINE b == add_data_end_of_buffer(a, d)
             w == written[p]
  <1>1. /\ Queued(p) /\ Covered(p) /\ w \in Nat /\ MaxWritten[p] \in Nat /\ Flat(send_array[p])
        /\ w + CRYPTO_PACKET_BUFFER_SIZE < U32
    BY PeerFlat, CryptoTransportAssumption, Zenon
  <1>2. a.end = w /\ a.start <= w /\ a.start \in Nat /\ Flat(a)
    BY <1>1, ArrayParts, NumberNat, Zenon DEF Queued, Flat
  <1> HIDE DEF b
  <1>3. /\ b.start = a.start /\ b.end = w + 1 /\ At(b, w) = d
        /\ \A i \in a.start .. (w - 1) : At(b, i) = At(a, i)
    BY <1>2, FlatAppend, SMTT(30) DEF b
  <1>4. \A i \in a.start .. (w - 1) : i \in Number
    BY <1>1, <1>2, PacketsArrayAssumption, SMTT(30) DEF Number
  <1>5. ASSUME NEW i \in a.start .. w
        PROVE  i = w \/ i \in a.start .. (w - 1)
    BY <1>1, <1>2, SMTT(30)
  <1>6. d # Empty
    BY CryptoTransportAssumption, Zenon DEF SendPacket
  <1>7. send_array'[p] = b /\ written'[p] = w + 1 /\ written'[p] - 1 = w
    BY <1>1, SMTT(30) DEF b
  <1>8. Queued(p)'
    <2>1. \A i \in a.start .. w : At(b, i) # Empty => At(b, i).data = i
      BY <1>1, <1>2, <1>3, <1>4, <1>5, ZenonT(30) DEF Queued
    <2>2. w + 1 <= MaxWritten[p] /\ a.start <= w + 1
      BY <1>1, <1>2, SMTT(30)
    <2> HIDE DEF w
    <2> QED BY <1>3, <1>7, <2>1, <2>2, Zenon DEF Queued
  <1>9. Covered(p)'
    <2>1. ASSUME NEW n, Has(Other(p), n) PROVE Has(Other(p), n)'
      BY <2>1, SMTT(30) DEF Has, Live, Alone
    <2>2. \A i \in a.start .. w : At(b, i) = Empty => Has(Other(p), i)'
      BY <1>1, <1>2, <1>3, <1>4, <1>5, <1>6, <2>1, Zenon DEF Covered
    <2>3. Live(p)' => b.start <= Len(delivered'[Other(p)])
      BY <1>1, <1>3, Zenon DEF Covered, Live, Alone
    <2> HIDE DEF w
    <2> QED BY <1>3, <1>7, <2>2, <2>3, ZenonT(30) DEF Covered
  <1> QED BY <1>8, <1>9, Zenon

\* A data packet that p builds claims what is so.
LEMMA BuiltClaims ==
    ASSUME IInv, IInv', OInv, NEW p \in Peer, Grows(p), Live(p), NEW k, NEW num \in Number, NEW body,
           num <= written'[p],
           body.kind = "lossless" => num < written'[p] /\ body.data = num,
           body.kind = "request" => \A n \in body.report.received : n \in Number /\ Has(p, n),
           NEW m, m = DataPacket(p, k, num, body)
    PROVE  m.to = Other(p) /\ Claims(m)'
  <1>1. m.to = Other(p) /\ Other(m.to) = p /\ m.start = recv_array[p].start /\ m.num = num /\ m.body = body
    BY OtherOther, Zenon DEF DataPacket
  <1>2. m.start <= Len(delivered'[p])
    <2>1. recv_array[p].start = Len(delivered[p])
      BY Zenon DEF OInv, Arrived
    <2>2. Len(delivered[p]) \in Nat
      BY LengthType, Zenon
    <2> QED BY <1>1, <2>1, <2>2, Zenon DEF Grows
  <1>3. m.body.kind = "request" => \A n \in m.body.report.received : Has(p, n)'
    BY <1>1, Zenon DEF Grows
  <1>4. Claims(m)'
    BY <1>1, <1>2, <1>3, Zenon DEF Claims
  <1> QED BY <1>1, <1>4, Zenon

\* A request reports as received only what p has.
LEMMA ReportClaims ==
    ASSUME IInv, OInv, NumbersLast, NEW p \in Peer
    PROVE  \A n \in RequestBody(p).report.received : n \in Number /\ Has(p, n)
  <1> DEFINE a == recv_array[p]
  <1>1. a \in ArrayOf(Nat) /\ Flat(a) /\ Arrived(p)
    BY PeerFlat, Zenon
  <1>2. ASSUME NEW n \in RequestBody(p).report.received PROVE n \in Number /\ Has(p, n)
    <2>1. n \in Window(a) /\ At(a, n) # Empty
      BY Zenon DEF RequestBody, generate_request_packet, Occupied
    <2>2. n \in Number
      BY <2>1, Zenon DEF Window, Between
    <2>3. a.start <= n /\ n < a.end /\ a.start \in Nat /\ a.end \in Nat
      BY <1>1, <2>1, <2>2, FlatWindow, Zenon
    <2>4. n \in a.start .. (a.end - 1)
      BY <2>2, <2>3, NumberNat, SMTT(30)
    <2> QED BY <1>1, <2>1, <2>2, <2>3, <2>4, Zenon DEF Arrived, Has
  <1> QED BY <1>2, Zenon

LEMMA RetriedClaims ==
    ASSUME IInv, IInv', OInv, NumbersLast, NEW p \in Peer, Grows(p), Live(p)
    PROVE  \A m \in Retried(p) : m.to = Other(p) /\ Claims(m)'
  <1> SUFFICES ASSUME RetriesNewest(p), NEW m, m = RetryPacket(p) PROVE m.to = Other(p) /\ Claims(m)'
    BY Zenon DEF Retried
  <1> DEFINE a == send_array[p]
             n == Newest(p)
             body == Lossless(At(a, n).data)
  <1>1. /\ a \in ArrayOf(SendPacket) /\ Flat(a) /\ Queued(p)
        /\ written[p] \in Nat /\ a.start \in Nat /\ a.end \in Nat /\ num_packets_array(a) = a.end - a.start
    BY PeerFlat, FlatWindow, SMTT(30)
  <1>2. n \in Number /\ At(a, n) # Empty /\ HasData(a, n)
    BY ResetFlat, ZenonT(30) DEF RetriesNewest
  <1>3. n = a.end - 1 /\ a.start <= n /\ n \in Nat
    BY <1>1, <1>2, PacketsArrayAssumption, SMTT(30) DEF Newest, HasData, Sub, Flat, Number
  <1>4. n \in a.start .. (written[p] - 1)
    BY <1>1, <1>3, SMTT(30) DEF Queued
  <1>5. At(a, n).data = n
    BY <1>1, <1>2, <1>4, Zenon DEF Queued
  <1>6. n < written'[p] /\ n <= written'[p]
    BY <1>1, <1>3, <1>4, SMTT(30) DEF Grows, IInv, TypeOK
  <1>7. body.kind = "lossless" /\ body.data = n
    BY <1>5, Zenon DEF Lossless
  <1> HIDE DEF body, n, a
  <1>8. m = DataPacket(p, 0, n, body)
    BY Zenon DEF RetryPacket, a, n, body
  <1> QED BY <1>2, <1>6, <1>7, <1>8, BuiltClaims, Zenon

----------------------------------------------------------------------------
\* One lemma per action: it preserves the invariant.
LEMMA WriteLosslessOrder ==
    ASSUME IInv, IInv', OInv, NumbersLast, NEW p \in Peer, NEW ok \in BOOLEAN, WriteLossless(p, ok)
    PROVE  OInv'
  <1> DEFINE d == [data |-> written[p], sent |-> ok]
             packet == DataPacket(p, Retries(p), send_array[p].end, Lossless(written[p]))
  <1>1. /\ CanWrite(p) /\ CanAppend(send_array[p])
        /\ net' = net \union Retried(p) \union (IF ok THEN {packet} ELSE {})
        /\ send_array' = [send_array EXCEPT ![p] = add_data_end_of_buffer(AfterReset(p), d)]
        /\ written' = [written EXCEPT ![p] = @ + 1]
        /\ UNCHANGED <<status, recv_array, recv_nonce, delivered>>
    BY Zenon DEF WriteLossless
  <1> HIDE DEF d, packet
  <1>2. Alone(p) /\ written'[p] = written[p] + 1 /\ send_array'[p] = add_data_end_of_buffer(AfterReset(p), d)
    BY <1>1, OtherOther, SMTT(30) DEF Alone, IInv, TypeOK
  <1>3. Queued(p) /\ written[p] \in Nat /\ Flat(send_array[p]) /\ written[p] \in Number
    BY PeerFlat, PacketsArrayAssumption, SMTT(30) DEF Number
  <1>4. Arrived(p)' /\ Grows(p)
    BY <1>1, <1>2, <1>3, ReceivingSame, SMTT(30)
  <1>5. Queued(p)' /\ Covered(p)'
    <2>1. AfterReset(p) \in ArrayOf(SendPacket) /\ WellFormed(AfterReset(p)) /\ CanAppend(AfterReset(p))
      BY <1>1, ResetParts, Zenon DEF CanAppend
    <2>2. AfterReset(p).start = send_array[p].start /\ AfterReset(p).end = send_array[p].end
      BY ResetFlat, ResetParts, Zenon
    <2>3. d \in SendPacket /\ d.data = written[p]
      BY <1>3, Zenon DEF d, SendPacket
    <2>4. written[p] < MaxWritten[p] /\ status'[p] = status[p]
      BY <1>1, Zenon DEF CanWrite
    <2> QED BY <1>2, <2>1, <2>2, <2>3, <2>4, ResetFlat, SendingAppends, Zenon
  <1>6. Live(p)
    BY <1>1, CryptoTransportAssumption, Zenon DEF CanWrite, Live
  <1>7. ASSUME NEW m, m = packet PROVE m.to = Other(p) /\ Claims(m)'
    <2>1. send_array[p].end = written[p]
      BY <1>3, Zenon DEF Queued
    <2>2. Lossless(written[p]).kind = "lossless" /\ Lossless(written[p]).data = written[p]
      BY Zenon DEF Lossless
    <2>3. written[p] < written'[p] /\ written[p] <= written'[p]
      BY <1>2, <1>3, SMTT(30)
    <2> QED BY <1>3, <1>4, <1>6, <1>7, <2>1, <2>2, <2>3, BuiltClaims, ZenonT(30) DEF packet
  <1>8. \A m \in Retried(p) : m.to = Other(p) /\ Claims(m)'
    BY <1>4, <1>6, RetriedClaims, Zenon
  <1>9. \A m \in net' \ net : m.to = Other(p) /\ Claims(m)'
    BY <1>1, <1>7, <1>8, Zenon
  <1> QED BY <1>2, <1>4, <1>5, <1>9, OrderStep, Zenon

LEMMA WriteHeldBackOrder ==
    ASSUME IInv, IInv', OInv, NumbersLast, NEW p \in Peer, NEW cc \in BOOLEAN, WriteHeldBack(p, cc)
    PROVE  OInv'
  <1> DEFINE d == [data |-> written[p], sent |-> FALSE]
             queued == ~cc /\ CanAppend(send_array[p])
  <1>1. /\ CanWrite(p)
        /\ send_array' = [send_array EXCEPT ![p] = IF queued THEN add_data_end_of_buffer(@, d) ELSE @]
        /\ written' = [written EXCEPT ![p] = IF queued THEN @ + 1 ELSE @]
        /\ UNCHANGED <<status, recv_array, max_speed, recv_nonce, net, delivered>>
    BY Zenon DEF WriteHeldBack
  <1> HIDE DEF d
  <1>2. Alone(p)
    BY <1>1, OtherOther, Zenon DEF Alone, IInv, TypeOK
  <1>3. written[p] \in Nat /\ d \in SendPacket /\ d.data = written[p]
    BY PeerFlat, Zenon DEF d, SendPacket
  <1>4. Arrived(p)' /\ Grows(p)
    <2>1. written[p] <= written'[p]
      BY <1>1, <1>3, SMTT(30) DEF IInv, TypeOK
    <2> QED BY <1>1, <1>2, <2>1, ReceivingSame, ZenonT(30)
  <1>5. Queued(p)' /\ Covered(p)'
    <2>1. CASE queued
      <3>1. written'[p] = written[p] + 1 /\ send_array'[p] = add_data_end_of_buffer(send_array[p], d)
        BY <1>1, <2>1, Zenon DEF IInv, TypeOK
      <3>2. written[p] < MaxWritten[p] /\ status'[p] = status[p]
        BY <1>1, Zenon DEF CanWrite
      <3>3. send_array[p] \in ArrayOf(SendPacket) /\ WellFormed(send_array[p])
        BY PeerFlat, Zenon
      <3> QED BY <1>2, <1>3, <2>1, <3>1, <3>2, <3>3, SendingAppends, Zenon
    <2>2. CASE ~queued
      <3>1. written'[p] = written[p] /\ send_array'[p] = send_array[p] /\ status'[p] = status[p]
        BY <1>1, <2>2, Zenon DEF IInv, TypeOK
      <3> QED BY <1>2, <3>1, SendingSame, Zenon
    <2> QED BY <2>1, <2>2, Zenon
  <1>6. net' = net
    BY <1>1, Zenon
  <1> QED BY <1>2, <1>4, <1>5, <1>6, OrderStep, Zenon

\* Only the marks of sent packets change, and packets p may send are sent.
LEMMA MarkedOrder ==
    ASSUME IInv, IInv', OInv, NumbersLast, NEW p \in Peer, Live(p),
           NEW b \in ArrayOf(SendPacket), b.start = send_array[p].start, b.end = send_array[p].end,
           \A n \in Number :
               /\ At(b, n) = Empty <=> At(send_array[p], n) = Empty
               /\ At(send_array[p], n) # Empty => At(b, n).data = At(send_array[p], n).data,
           send_array' = [send_array EXCEPT ![p] = b],
           UNCHANGED <<status, recv_array, written, delivered>>,
           NEW N, net' = net \union N,
           Grows(p) => \A m \in N : m.to = Other(p) /\ Claims(m)'
    PROVE  OInv'
  <1>1. Alone(p) /\ send_array'[p] = b /\ written'[p] = written[p]
    BY OtherOther, ZenonT(30) DEF Alone, IInv, TypeOK
  <1>2. written[p] \in Nat /\ Queued(p) /\ Covered(p) /\ b.start \in Nat
    BY PeerFlat, ArrayParts, NumberNat, Zenon
  <1>3. Arrived(p)' /\ Grows(p)
    BY <1>1, <1>2, ReceivingSame, SMTT(30)
  <1>4. \A n \in b.start .. (written[p] - 1) : n \in Number
    <2>1. written[p] + CRYPTO_PACKET_BUFFER_SIZE < U32
      BY PeerFlat, Zenon
    <2> QED BY <1>2, <2>1, PacketsArrayAssumption, SMTT(30) DEF Number
  <1>5. Queued(p)' /\ Covered(p)'
    <2>1. /\ send_array[p].start <= b.start /\ b.start <= send_array[p].end
          /\ Live(p)' => b.start <= Len(delivered[Other(p)])
      BY <1>2, SMTT(30) DEF Queued, Covered, Live
    <2>2. \A n \in b.start .. (written[p] - 1) :
               IF At(b, n) = Empty
               THEN At(send_array[p], n) = Empty \/ Has(Other(p), n)
               ELSE At(send_array[p], n) # Empty /\ At(b, n).data = At(send_array[p], n).data
      BY <1>4, Zenon
    <2> QED BY <1>1, <1>2, <2>1, <2>2, SendingShrinks, ZenonT(30)
  <1>6. \A m \in net' \ net : m.to = Other(p) /\ Claims(m)'
    BY <1>3, Zenon
  <1> QED BY <1>1, <1>3, <1>5, <1>6, OrderStep, Zenon

LEMMA MaxSpeedReachedOrder ==
    ASSUME IInv, IInv', OInv, NumbersLast, NEW p \in Peer, MaxSpeedReached(p)
    PROVE  OInv'
  <1>1. /\ Live(p) /\ net' = net \union Retried(p)
        /\ send_array' = [send_array EXCEPT ![p] = AfterReset(p)]
        /\ UNCHANGED <<status, recv_array, written, delivered>>
    BY Zenon DEF MaxSpeedReached
  <1>2. AfterReset(p) \in ArrayOf(SendPacket) /\ AfterReset(p).end = send_array[p].end
    BY ResetParts, Zenon
  <1>3. Grows(p) => \A m \in Retried(p) : m.to = Other(p) /\ Claims(m)'
    BY <1>1, RetriedClaims, Zenon
  <1> QED BY <1>1, <1>2, <1>3, ResetFlat, MarkedOrder, Zenon

\* send_lossy_cryptpacket and the periodic request packet.
LEMMA TransmitOrder ==
    ASSUME IInv, IInv', OInv, NumbersLast, NEW p \in Peer, Live(p), NEW body,
           Transmit(p, send_array[p].end, body),
           UNCHANGED <<status, send_array, recv_array, max_speed, recv_nonce, written, delivered>>,
           body.kind # "lossless",
           body.kind = "request" => \A n \in body.report.received : n \in Number /\ Has(p, n)
    PROVE  OInv'
  <1>1. net' = net \union {DataPacket(p, 0, send_array[p].end, body)}
    BY Zenon DEF Transmit
  <1>2. Alone(p) /\ send_array'[p] = send_array[p] /\ written'[p] = written[p] /\ status'[p] = status[p]
    BY Zenon DEF Alone
  <1>3. written[p] \in Nat /\ Queued(p) /\ send_array[p].end \in Number
    BY PeerFlat, PeerParts, ZenonT(30)
  <1>4. Arrived(p)' /\ Grows(p)
    BY <1>2, <1>3, ReceivingSame, SMTT(30)
  <1>5. Queued(p)' /\ Covered(p)'
    BY <1>2, SendingSame, Zenon
  <1>6. ASSUME NEW m, m = DataPacket(p, 0, send_array[p].end, body) PROVE m.to = Other(p) /\ Claims(m)'
    <2>1. send_array[p].end <= written'[p]
      BY <1>2, <1>3, SMTT(30) DEF Queued
    <2> QED BY <1>3, <1>4, <1>6, <2>1, BuiltClaims, ZenonT(30)
  <1>7. \A m \in net' \ net : m.to = Other(p) /\ Claims(m)'
    BY <1>1, <1>6, Zenon
  <1> QED BY <1>2, <1>4, <1>5, <1>7, OrderStep, Zenon

LEMMA SendRequestedOrder ==
    ASSUME IInv, IInv', OInv, NumbersLast, NEW p \in Peer, NEW max_num, NEW S, SendRequested(p, max_num, S)
    PROVE  OInv'
  <1> DEFINE a == send_array[p]
             before(n) == {i \in Unsent(p) : Offset(send_array[p], i) < Offset(send_array[p], n)}
             N == {DataPacket(p, Cardinality(before(n)), n, Lossless(At(a, n).data)) : n \in S}
  <1>1. /\ status[p] = ESTABLISHED
        /\ S \subseteq Unsent(p)
        /\ net' = net \union N
        /\ send_array' = [send_array EXCEPT ![p] = Marked(a, S, TRUE)]
        /\ UNCHANGED <<status, recv_array, written, delivered>>
    BY Zenon DEF SendRequested
  <1>2. /\ a \in ArrayOf(SendPacket) /\ WellFormed(a) /\ Flat(a) /\ Queued(p) /\ written[p] \in Nat
        /\ Live(p)
    BY <1>1, PeerFlat, CryptoTransportAssumption, Zenon DEF Live
  <1>3. \A n \in S : n \in Number /\ n \in Window(a) /\ At(a, n) # Empty
    BY <1>1, Zenon DEF Unsent, Occupied, Window, Between
  <1>4. S \in SUBSET Number /\ TRUE \in BOOLEAN /\ \A n \in S : At(a, n) # Empty
    BY <1>3, Zenon
  <1>5. Grows(p) => \A m \in N : m.to = Other(p) /\ Claims(m)'
    <2> SUFFICES ASSUME Grows(p), NEW n \in S, NEW m,
                        m = DataPacket(p, Cardinality(before(n)), n, Lossless(At(a, n).data))
                 PROVE  m.to = Other(p) /\ Claims(m)'
      BY ZenonT(30)
    <2>1. n \in a.start .. (written[p] - 1)
      BY <1>2, <1>3, FlatWindow, NumberNat, SMTT(30) DEF Queued
    <2>2. At(a, n).data = n
      BY <1>2, <1>3, <2>1, ZenonT(30) DEF Queued
    <2>3. n < written'[p] /\ n <= written'[p] /\ n \in Number
      BY <1>1, <1>2, <1>3, <2>1, NumberNat, SMTT(30)
    <2> DEFINE body == Lossless(At(a, n).data)
               k == Cardinality(before(n))
    <2>4. body.kind = "lossless" /\ body.data = n
      BY <2>2, Zenon DEF Lossless
    <2>5. m = DataPacket(p, k, n, body)
      BY Zenon
    <2> HIDE DEF body, k, before, N, a
    <2> QED BY <1>2, <2>3, <2>4, <2>5, BuiltClaims, Zenon
  <1> HIDE DEF N, a
  <1>6. /\ Marked(a, S, TRUE) \in ArrayOf(SendPacket)
        /\ Marked(a, S, TRUE).start = a.start /\ Marked(a, S, TRUE).end = a.end
    BY <1>2, <1>4, MarkWellFormed, Zenon
  <1>7. \A i \in Number : /\ At(Marked(a, S, TRUE), i) = Empty <=> At(a, i) = Empty
                          /\ At(a, i) # Empty => At(Marked(a, S, TRUE), i).data = At(a, i).data
    BY <1>2, <1>4, MarkedAt, Zenon
  <1> QED BY <1>1, <1>2, <1>5, <1>6, <1>7, MarkedOrder, Zenon DEF a

----------------------------------------------------------------------------
\* What an arriving packet says of the other peer.
LEMMA ArrivesClaims ==
    ASSUME IInv, OInv, NEW p \in Peer, NEW m, Arrives(p, m)
    PROVE  /\ Live(p) /\ m \in Packet /\ m.num \in Number /\ m.num <= written[Other(p)]
           /\ m.body.kind = "lossless" => m.num < written[Other(p)] /\ m.body.data = m.num
           /\ m.body.kind = "request" => \A n \in m.body.report.received : Has(Other(p), n)
  <1>1. m \in net /\ m.to = p /\ Live(p)
    BY Zenon DEF Arrives
  <1>2. m \in Packet /\ Claims(m)
    BY <1>1, Zenon DEF OInv, IInv, TypeOK
  <1> QED BY <1>1, <1>2, BodyOf, Zenon DEF Claims

LEMMA ReceiveBadAckOrder ==
    ASSUME IInv, IInv', OInv, NumbersLast, NEW p \in Peer, NEW m, ReceiveBadAck(p, m)
    PROVE  OInv'
  <1>1. UNCHANGED <<status, send_array, recv_array, max_speed, sent_nonce, net, written, delivered>>
    BY Zenon DEF ReceiveBadAck
  <1>2. Alone(p) /\ written[p] \in Nat
    BY <1>1, PeerFlat, Zenon DEF Alone
  <1>3. Arrived(p)' /\ Grows(p)
    BY <1>1, <1>2, ReceivingSame, SMTT(30)
  <1>4. Queued(p)' /\ Covered(p)'
    BY <1>1, <1>2, SendingSame, Zenon
  <1> QED BY <1>1, <1>2, <1>3, <1>4, OrderStep, Zenon

\* The acknowledgement is taken, and the send array changes no more.
LEMMA AckedOrder ==
    ASSUME IInv, OInv, NumbersLast, NEW p \in Peer, NEW m, Arrives(p, m), AckValid(p, m),
           Alone(p), written'[p] = written[p], send_array'[p] = Acked(p, m)
    PROVE  Queued(p)' /\ Covered(p)'
  <1> DEFINE b == Acked(p, m)
  <1>1. /\ send_array[p].start <= b.start /\ b.start <= send_array[p].end
        /\ b.end = send_array[p].end
        /\ b.start <= Len(delivered[Other(p)])
        /\ \A n \in b.start .. (send_array[p].end - 1) : At(b, n) = At(send_array[p], n)
    BY AckedFlat, Zenon
  <1>2. b.start \in Nat
    BY ArrivesParts, ArrayParts, NumberNat, Zenon
  <1>3. send_array[p].end = written[p]
    BY Zenon DEF OInv, Queued
  <1> HIDE DEF b
  <1>4. \A n \in b.start .. (written[p] - 1) :
            IF At(b, n) = Empty
            THEN At(send_array[p], n) = Empty \/ Has(Other(p), n)
            ELSE At(send_array[p], n) # Empty /\ At(b, n).data = At(send_array[p], n).data
    BY <1>1, <1>3, SMTT(30)
  <1>5. send_array'[p] = b /\ (Live(p)' => b.start <= Len(delivered[Other(p)]))
    BY <1>1, Zenon DEF b
  <1> QED BY <1>1, <1>2, <1>4, <1>5, SendingShrinks, Zenon

LEMMA ReceiveLossyOrder ==
    ASSUME IInv, IInv', OInv, NumbersLast, NEW p \in Peer, NEW m, ReceiveLossy(p, m)
    PROVE  OInv'
  <1>1. /\ Arrives(p, m) /\ AckValid(p, m) /\ Confirm(p)
        /\ send_array' = [send_array EXCEPT ![p] = Acked(p, m)]
        /\ recv_array' = [recv_array EXCEPT ![p] = set_buffer_end(@, m.num)]
        /\ UNCHANGED <<max_speed, sent_nonce, net, written, delivered>>
    BY Zenon DEF ReceiveLossy
  <1>2. Alone(p) /\ send_array'[p] = Acked(p, m) /\ recv_array'[p] = set_buffer_end(recv_array[p], m.num)
    BY <1>1, OtherOther, SMTT(30) DEF Alone, Confirm, IInv, TypeOK
  <1>3. Live(p) /\ m.num \in Number /\ m.num <= written[Other(p)] /\ written[p] \in Nat
    BY <1>1, ArrivesClaims, PeerFlat, ZenonT(30)
  <1>4. written'[p] = written[p] /\ written[p] <= written'[p] /\ delivered'[p] = delivered[p]
    <2>1. written' = written /\ delivered' = delivered
      BY <1>1, Zenon
    <2>2. written[p] <= written[p]
      BY <1>3, SMTT(30)
    <2> QED BY <2>1, <2>2, Zenon
  <1>5. Arrived(p)' /\ Grows(p)
    BY <1>2, <1>3, <1>4, ReceivingExtends, Zenon
  <1>6. Queued(p)' /\ Covered(p)'
    BY <1>1, <1>2, <1>4, AckedOrder, Zenon
  <1> QED BY <1>1, <1>2, <1>5, <1>6, OrderStep, Zenon

LEMMA ReceiveRequestOrder ==
    ASSUME IInv, IInv', OInv, NumbersLast, NEW p \in Peer, NEW m, NEW Late, ReceiveRequest(p, m, Late)
    PROVE  OInv'
  <1> DEFINE a == Acked(p, m)
             b == Marked(a, Late, FALSE)
             gone == m.body.report.received \intersect Window(a)
             c == [b EXCEPT !.buffer = Freed(b, gone)]
             q == Other(p)
  <1>1. /\ Arrives(p, m) /\ AckValid(p, m) /\ m.body.kind = "request" /\ Confirm(p)
        /\ Late \subseteq m.body.report.requested \intersect Occupied(a)
        /\ send_array' = [send_array EXCEPT ![p] = c]
        /\ recv_array' = [recv_array EXCEPT ![p] = set_buffer_end(@, m.num)]
        /\ UNCHANGED <<max_speed, sent_nonce, net, written, delivered>>
    BY Zenon DEF ReceiveRequest
  <1> HIDE DEF c
  <1>2. Alone(p) /\ send_array'[p] = c /\ recv_array'[p] = set_buffer_end(recv_array[p], m.num)
    BY <1>1, OtherOther, Zenon DEF Alone, Confirm, IInv, TypeOK
  <1>3. /\ Live(p) /\ m.num \in Number /\ m.num <= written[q] /\ written[p] \in Nat
        /\ \A n \in m.body.report.received : Has(q, n)
    BY <1>1, ArrivesClaims, PeerFlat, ZenonT(30)
  <1>4. written'[p] = written[p] /\ written[p] <= written'[p] /\ delivered'[p] = delivered[p]
    <2>1. written' = written /\ delivered' = delivered
      BY <1>1, Zenon
    <2>2. written[p] <= written[p]
      BY <1>3, SMTT(30)
    <2> QED BY <2>1, <2>2, Zenon
  <1>5. Arrived(p)' /\ Grows(p)
    BY <1>2, <1>3, <1>4, ReceivingExtends, Zenon
  <1>6. Queued(p)' /\ Covered(p)'
    <2>1. /\ send_array[p].start <= a.start /\ a.start <= send_array[p].end
          /\ a.end = send_array[p].end
          /\ a.start <= Len(delivered[q])
          /\ \A n \in a.start .. (send_array[p].end - 1) : At(a, n) = At(send_array[p], n)
      BY <1>1, AckedFlat, Zenon
    <2>2. a \in ArrayOf(SendPacket) /\ WellFormed(a)
      BY <1>1, ArrivesParts, Zenon
    <2>3. Late \in SUBSET Number /\ FALSE \in BOOLEAN /\ \A n \in Late : At(a, n) # Empty
      BY <1>1, Zenon DEF Occupied, Window, Between
    <2>4. send_array[p].end = written[p] /\ written[p] + CRYPTO_PACKET_BUFFER_SIZE < U32
      BY PeerFlat, Zenon DEF Queued
    <2>5. a.start \in Nat
      BY <2>2, ArrayParts, NumberNat, Zenon
    <2> HIDE DEF a
    <2>6. b \in ArrayOf(SendPacket) /\ b.start = a.start /\ b.end = a.end
      BY <2>2, <2>3, MarkWellFormed, Zenon
    <2>7. \A n \in Number : /\ At(b, n) = Empty <=> At(a, n) = Empty
                            /\ At(a, n) # Empty => At(b, n).data = At(a, n).data
      BY <2>2, <2>3, MarkedAt, Zenon
    <2> HIDE DEF b
    <2>8. c.start = a.start /\ c.end = a.end /\ c.buffer = Freed(b, gone)
      BY <2>6, Zenon DEF c, ArrayOf
    <2>9. ASSUME NEW n \in c.start .. (written[p] - 1)
          PROVE  IF At(c, n) = Empty
                 THEN At(send_array[p], n) = Empty \/ Has(q, n)
                 ELSE At(send_array[p], n) # Empty /\ At(c, n).data = At(send_array[p], n).data
      <3>1. n \in a.start .. (send_array[p].end - 1) /\ n \in Number /\ n \in Nat /\ n < a.end
        BY <1>3, <2>1, <2>4, <2>5, <2>8, PacketsArrayAssumption, SMTT(30) DEF Number
      <3>2. At(a, n) = At(send_array[p], n) /\ SlotOf(n) \in Slot
        BY <2>1, <3>1, SlotType, Zenon
      <3>3. CASE \E i \in gone : SlotOf(i) = SlotOf(n)
        <4>1. PICK i \in gone : SlotOf(i) = SlotOf(n)
          BY <3>3, Zenon
        <4>2. i \in Number /\ a.start <= i /\ i < a.end
          <5>1. Flat(a) /\ i \in Number /\ i \in Window(a)
            BY <1>3, <2>1, <2>4, <2>5, PacketsArrayAssumption, Zenon DEF Flat, Window, Between
          <5> QED BY <2>2, <5>1, FlatWindow, Zenon
        <4>3. a.end - a.start <= CRYPTO_PACKET_BUFFER_SIZE
          <5>1. Flat(a)
            BY <1>3, <2>1, <2>4, <2>5, PacketsArrayAssumption, Zenon DEF Flat
          <5> QED BY <2>2, <5>1, FlatWindow, Zenon DEF WellFormed
        <4>4. i = n
          <5>1. i \in Nat /\ a.end \in Nat
            BY <1>3, <2>1, <2>4, <4>2, NumberNat, ZenonT(30)
          <5>2. a.start <= n
            BY <2>5, <3>1, SMTT(30)
          <5>3. n < i + CRYPTO_PACKET_BUFFER_SIZE /\ i < n + CRYPTO_PACKET_BUFFER_SIZE
            BY <2>5, <3>1, <4>2, <4>3, <5>1, <5>2, PacketsArrayAssumption, SMTT(30)
          <5> QED BY <3>1, <4>1, <5>1, <5>3, SlotsDiffer, ZenonT(30)
        <4>5. Has(q, n)
          BY <1>3, <4>1, <4>4, Zenon
        <4>6. At(c, n) = Empty
          BY <2>8, <3>2, <3>3, Zenon DEF At, Freed
        <4> QED BY <4>5, <4>6, Zenon
      <3>4. CASE ~\E i \in gone : SlotOf(i) = SlotOf(n)
        <4>1. At(c, n) = At(b, n)
          BY <2>8, <3>2, <3>4, Zenon DEF At, Freed
        <4> QED BY <2>7, <3>1, <3>2, <4>1, Zenon
      <3> QED BY <3>3, <3>4, ZenonT(30)
    <2>10. c.start \in Nat /\ (Live(p)' => c.start <= Len(delivered[Other(p)]))
      BY <2>1, <2>5, <2>8, Zenon
    <2>11. send_array[p].start <= c.start /\ c.start <= send_array[p].end /\ c.end = send_array[p].end
      BY <2>1, <2>8, Zenon
    <2> QED BY <1>2, <1>4, <2>9, <2>10, <2>11, SendingShrinks, ZenonT(30) DEF q
  <1> QED BY <1>1, <1>2, <1>5, <1>6, OrderStep, Zenon

LEMMA ReceiveLosslessOrder ==
    ASSUME IInv, IInv', OInv, NumbersLast, NEW p \in Peer, NEW m, NEW k, ReceiveLossless(p, m, k)
    PROVE  OInv'
  <1> DEFINE b == add_data_to_buffer(recv_array[p], m.num, m.body.data)
             Added == /\ CanAdd(recv_array[p], m.num)
                      /\ ReadsExactly(b, k)
                      /\ recv_array' = [recv_array EXCEPT ![p] = read_data_beg_buffer(b, k)]
                      /\ delivered' = [delivered EXCEPT ![p] = @ \o HandedOver(b, k)]
  <1>1. /\ Arrives(p, m) /\ AckValid(p, m) /\ Confirm(p) /\ m.body.kind = "lossless"
        /\ send_array' = [send_array EXCEPT ![p] = Acked(p, m)]
        /\ Added \/ UNCHANGED <<recv_array, delivered>>
        /\ UNCHANGED <<max_speed, sent_nonce, net, written>>
    BY Zenon DEF ReceiveLossless
  <1> HIDE DEF Added
  <1>2. /\ Live(p) /\ m.num \in Number /\ m.num < written[Other(p)] /\ m.body.data = m.num
        /\ written[p] \in Nat
    BY <1>1, ArrivesClaims, PeerFlat, Zenon
  <1>3. Alone(p)
    BY <1>1, OtherOther, ZenonT(30) DEF Alone, Added, Confirm, IInv, TypeOK
  <1>4. written'[p] = written[p] /\ send_array'[p] = Acked(p, m) /\ status'[p] = ESTABLISHED /\ written[p] <= written'[p]
    BY <1>1, <1>2, SMTT(30) DEF Confirm, IInv, TypeOK
  <1>5. Queued(p)' /\ Covered(p)'
    BY <1>1, <1>3, <1>4, AckedOrder, Zenon
  <1>6. CASE UNCHANGED <<recv_array, delivered>>
    <2>1. Arrived(p)
      BY Zenon DEF OInv
    <2>2. Arrived(p)'
      BY <1>2, <1>3, <1>6, <2>1, ZenonT(30) DEF Arrived, Alone
    <2>3. Grows(p)
      BY <1>2, <1>4, <1>6, LengthType, SMTT(30) DEF Grows, Has
    <2> QED BY <1>1, <1>3, <1>5, <2>2, <2>3, OrderStep, ZenonT(30)
  <1>7. CASE Added
    <2> DEFINE d == add_data_to_buffer(recv_array[p], m.num, m.num)
               c == read_data_beg_buffer(d, k)
               s == delivered[p] \o HandedOver(d, k)
    <2>2. b = d
      BY <1>2, Zenon
    <2> HIDE DEF b, d
    <2>1. /\ CanAdd(recv_array[p], m.num)
          /\ k \in 0 .. num_packets_array(d) /\ \A j \in 0 .. (k - 1) : ~LoopStops(d, j)
      BY <1>7, <2>2, Zenon DEF Added, ReadsExactly
    <2>3. recv_array'[p] = c /\ delivered'[p] = s
      BY <1>7, <2>2, Zenon DEF Added, IInv, TypeOK
    <2>4. /\ s \in Seq(Nat) /\ Len(s) = Len(delivered[p]) + k
          /\ \A i \in 1 .. Len(s) : s[i] = i - 1
          /\ c \in ArrayOf(Nat) /\ c.start = Len(s) /\ c.start <= c.end /\ c.end <= written[Other(p)]
          /\ \A i \in c.start .. (c.end - 1) : At(c, i) # Empty => At(c, i) = i
          /\ \A i \in Number : i < Len(delivered[p]) \/ (i < recv_array[p].end /\ At(recv_array[p], i) = i)
                               => i < Len(s) \/ (i < c.end /\ At(c, i) = i)
      BY <1>2, <2>1, DeliveryFlat, ZenonT(30) DEF d
    <2>5. k \in Nat /\ Len(delivered[p]) \in Nat
      BY <2>1, LengthType, SMTT(30)
    <2> HIDE DEF c, s
    <2>6. c.start \in Nat /\ c.end \in Nat /\ written[Other(p)] \in Nat
      BY <2>4, ArrayParts, NumberNat, OtherOther, PeerFlat, Zenon
    <2>7. Arrived(p)'
      <3>1. written'[Other(p)] = written[Other(p)]
        BY <1>3, Zenon DEF Alone
      <3>2. Len(s) <= written[Other(p)]
        BY <2>4, <2>6, SMTT(30)
      <3> QED BY <2>3, <2>4, <3>1, <3>2, Zenon DEF Arrived
    <2>8. Grows(p)
      <3>1. \A i \in Number : Has(p, i) => Has(p, i)'
        BY <1>2, <2>3, <2>4, ZenonT(30) DEF Has
      <3>2. Len(delivered[p]) <= Len(delivered'[p])
        BY <2>3, <2>4, <2>5, SMTT(30)
      <3> QED BY <1>4, <3>1, <3>2, Zenon DEF Grows
    <2> QED BY <1>1, <1>3, <1>5, <2>7, <2>8, OrderStep, Zenon
  <1> QED BY <1>1, <1>6, <1>7, Zenon

----------------------------------------------------------------------------
\* A killed connection: what p had delivered by then is s, and the kill packet
\* acknowledges no more than that.
LEMMA KilledOrder ==
    ASSUME IInv, IInv', OInv, NumbersLast, NEW p \in Peer, NEW st, NEW start,
           NEW sa \in ArrayOf(SendPacket), sa.end = send_array[p].end,
           NEW ra \in ArrayOf(Nat), ra.end <= written[Other(p)],
           SendsKill(p, st, start), Killed(p, sa, ra), UNCHANGED written,
           NEW s \in Seq(Nat), delivered' = [delivered EXCEPT ![p] = s],
           Len(delivered[p]) <= Len(s), Len(s) <= written[Other(p)], start <= Len(s),
           \A i \in 1 .. Len(s) : s[i] = i - 1
    PROVE  OInv'
  <1>1. /\ status' = [status EXCEPT ![p] = FREE]
        /\ send_array' = [send_array EXCEPT ![p] = clear_buffer(sa)]
        /\ recv_array' = [recv_array EXCEPT ![p] = clear_buffer(ra)]
    BY Zenon DEF Killed
  <1>2. Alone(p)
    BY <1>1, OtherOther, Zenon DEF Alone, IInv, TypeOK
  <1>3. /\ status'[p] = FREE /\ send_array'[p] = clear_buffer(sa) /\ recv_array'[p] = clear_buffer(ra)
        /\ delivered'[p] = s /\ written'[p] = written[p]
    BY <1>1, ZenonT(30) DEF IInv, TypeOK
  <1>4. Queued(p)' /\ Covered(p)' /\ Arrived(p)' /\ Grows(p)
    BY <1>2, <1>3, KilledFlat, Zenon
  <1>5. ASSUME NEW m \in net' \ net PROVE m.to = Other(p) /\ Claims(m)'
    <2>1. m = KillPacket(p, start)
      BY <1>5, Zenon DEF SendsKill
    <2>2. m.to = Other(p) /\ m.start = start /\ m.num = send_array[p].end /\ m.body.kind = "kill"
      BY <2>1, Zenon DEF KillPacket, DataPacket, Kill
    <2>3. Other(m.to) = p
      BY <2>2, OtherOther, Zenon
    <2>4. send_array[p].end = written[p] /\ written[p] \in Nat
      BY PeerFlat, ZenonT(30) DEF Queued
    <2>5. Claims(m)'
      BY <1>3, <2>2, <2>3, <2>4, SMTT(30) DEF Claims
    <2> QED BY <2>2, <2>5, Zenon
  <1> QED BY <1>2, <1>4, <1>5, OrderStep, Zenon

\* What a kill leaves as it is.
LEMMA KillParts ==
    ASSUME IInv, OInv, NumbersLast, NEW p \in Peer, UNCHANGED delivered
    PROVE  /\ delivered[p] \in Seq(Nat) /\ delivered' = [delivered EXCEPT ![p] = delivered[p]]
           /\ Len(delivered[p]) <= Len(delivered[p]) /\ Len(delivered[p]) <= written[Other(p)]
           /\ \A i \in 1 .. Len(delivered[p]) : delivered[p][i] = i - 1
           /\ recv_array[p] \in ArrayOf(Nat) /\ recv_array[p].end <= written[Other(p)]
           /\ send_array[p] \in ArrayOf(SendPacket)
           /\ Live(p) => recv_array[p].start <= Len(delivered[p])
  <1>1. Arrived(p) /\ delivered[p] \in Seq(Nat) /\ Len(delivered[p]) \in Nat
    BY PeerFlat, LengthType, Zenon
  <1>2. delivered' = [delivered EXCEPT ![p] = delivered[p]]
    BY Zenon DEF IInv, TypeOK
  <1>3. /\ Len(delivered[p]) <= Len(delivered[p]) /\ Len(delivered[p]) <= written[Other(p)]
        /\ \A i \in 1 .. Len(delivered[p]) : delivered[p][i] = i - 1
        /\ recv_array[p].end <= written[Other(p)]
        /\ Live(p) => recv_array[p].start <= Len(delivered[p])
    BY <1>1, SMTT(30) DEF Arrived
  <1> QED BY <1>1, <1>2, <1>3, PeerParts, Zenon

LEMMA CryptoKillOrder ==
    ASSUME IInv, IInv', OInv, NumbersLast, NEW p \in Peer, CryptoKill(p)
    PROVE  OInv'
  <1>1. /\ Live(p) /\ SendsKill(p, status[p], recv_array[p].start)
        /\ Killed(p, send_array[p], recv_array[p])
        /\ UNCHANGED written /\ UNCHANGED delivered
    BY Zenon DEF CryptoKill
  <1> QED BY <1>1, KillParts, KilledOrder, Zenon

LEMMA KillTimedOutOrder ==
    ASSUME IInv, IInv', OInv, NumbersLast, NEW p \in Peer, KillTimedOut(p)
    PROVE  OInv'
  <1>1. /\ status[p] = NOT_CONFIRMED
        /\ Killed(p, send_array[p], recv_array[p])
        /\ UNCHANGED written /\ UNCHANGED delivered /\ UNCHANGED <<sent_nonce, net>>
    BY Zenon DEF KillTimedOut
  <1>2. Live(p) /\ SendsKill(p, status[p], recv_array[p].start)
    BY <1>1, CryptoTransportAssumption, Zenon DEF Live, SendsKill
  <1> QED BY <1>1, <1>2, KillParts, KilledOrder, Zenon

LEMMA ReceiveKillOrder ==
    ASSUME IInv, IInv', OInv, NumbersLast, NEW p \in Peer, NEW m, ReceiveKill(p, m)
    PROVE  OInv'
  <1>1. /\ Arrives(p, m) /\ AckValid(p, m)
        /\ SendsKill(p, status[p], recv_array[p].start)
        /\ Killed(p, Acked(p, m), recv_array[p])
        /\ UNCHANGED written /\ UNCHANGED delivered
    BY Zenon DEF ReceiveKill
  <1>2. Acked(p, m) \in ArrayOf(SendPacket) /\ Acked(p, m).end = send_array[p].end /\ Live(p)
    BY <1>1, ArrivesParts, AckedFlat, ArrivesClaims, Zenon
  <1> QED BY <1>1, <1>2, KillParts, KilledOrder, Zenon

LEMMA ReceiveKilledInCallbackOrder ==
    ASSUME IInv, IInv', OInv, NumbersLast, NEW p \in Peer, NEW m, NEW j, ReceiveKilledInCallback(p, m, j)
    PROVE  OInv'
  <1> DEFINE b == add_data_to_buffer(recv_array[p], m.num, m.body.data)
             d == add_data_to_buffer(recv_array[p], m.num, m.num)
             c == read_data_beg_buffer(d, j)
             s == delivered[p] \o HandedOver(d, j)
  <1>1. /\ Arrives(p, m) /\ AckValid(p, m) /\ m.body.kind = "lossless"
        /\ CanAdd(recv_array[p], m.num)
        /\ j \in 1 .. num_packets_array(b)
        /\ \A i \in 0 .. (j - 1) : ~LoopStops(b, i)
        /\ delivered' = [delivered EXCEPT ![p] = @ \o HandedOver(b, j)]
        /\ SendsKill(p, ESTABLISHED, read_data_beg_buffer(b, j).start)
        /\ Killed(p, Acked(p, m), read_data_beg_buffer(b, j))
        /\ UNCHANGED written
    BY Zenon DEF ReceiveKilledInCallback
  <1>2. /\ Live(p) /\ m.num \in Number /\ m.num < written[Other(p)] /\ m.body.data = m.num
        /\ Acked(p, m) \in ArrayOf(SendPacket) /\ Acked(p, m).end = send_array[p].end
    BY <1>1, ArrivesParts, AckedFlat, ArrivesClaims, Zenon
  <1>3. b = d
    BY <1>2, Zenon
  <1> HIDE DEF b, d
  <1>4. j \in 0 .. num_packets_array(d) /\ j \in Nat /\ \A i \in 0 .. (j - 1) : ~LoopStops(d, i)
    BY <1>1, <1>3, SMTT(30)
  <1>5. /\ delivered' = [delivered EXCEPT ![p] = s]
        /\ SendsKill(p, ESTABLISHED, c.start)
        /\ Killed(p, Acked(p, m), c)
    BY <1>1, <1>3, Zenon
  <1>6. /\ s \in Seq(Nat) /\ Len(s) = Len(delivered[p]) + j
        /\ \A i \in 1 .. Len(s) : s[i] = i - 1
        /\ c \in ArrayOf(Nat) /\ c.start = Len(s) /\ c.start <= c.end /\ c.end <= written[Other(p)]
    BY <1>1, <1>2, <1>4, DeliveryFlat, Zenon DEF d
  <1> HIDE DEF c, s
  <1>7. c.start <= Len(s) /\ Len(delivered[p]) <= Len(s) /\ Len(s) <= written[Other(p)]
    <2>1. c.start \in Nat /\ c.end \in Nat /\ written[Other(p)] \in Nat /\ Len(delivered[p]) \in Nat
      BY <1>6, ArrayParts, NumberNat, OtherOther, PeerFlat, Zenon
    <2> QED BY <1>4, <1>6, <2>1, SMTT(30)
  <1> QED BY <1>1, <1>2, <1>5, <1>6, <1>7, KilledOrder, ZenonT(30)
----------------------------------------------------------------------------
LEMMA InitOrder == Init => OInv
  <1> SUFFICES ASSUME Init PROVE OInv
    BY Zenon
  <1>1. ASSUME NEW p \in Peer PROVE Queued(p) /\ Covered(p) /\ Arrived(p)
    <2>1. Other(p) \in Peer
      BY OtherOther, Zenon
    <2>2. /\ send_array[p] = EmptyArray /\ recv_array[p] = EmptyArray /\ delivered[p] = <<>>
          /\ written[p] = 0 /\ written[Other(p)] = 0 /\ delivered[Other(p)] = <<>>
          /\ MaxWritten[p] \in Nat
      BY <2>1, CryptoTransportAssumption, Zenon DEF Init
    <2>3. EmptyArray.start = 0 /\ EmptyArray.end = 0 /\ Len(<<>>) = 0
      BY Zenon DEF EmptyArray
    <2> QED BY <2>2, <2>3, SMTT(30) DEF Queued, Covered, Arrived
  <1>2. net = {}
    BY Zenon DEF Init
  <1> QED BY <1>1, <1>2, Zenon DEF OInv

LEMMA SendOrder ==
    ASSUME IInv, IInv', OInv, NumbersLast, NEW p \in Peer, Send(p)
    PROVE  OInv'
  <1>1. CASE \E ok \in BOOLEAN : WriteLossless(p, ok)
    BY <1>1, WriteLosslessOrder, Zenon
  <1>2. CASE \E congestion_control \in BOOLEAN : WriteHeldBack(p, congestion_control)
    BY <1>2, WriteHeldBackOrder, Zenon
  <1>3. CASE MaxSpeedReached(p)
    BY <1>3, MaxSpeedReachedOrder, Zenon
  <1>4. CASE SendLossy(p)
    <2>1. Lossy.kind # "lossless" /\ Lossy.kind # "request"
      BY Zenon DEF Lossy
    <2>2. /\ Live(p) /\ Transmit(p, send_array[p].end, Lossy)
          /\ UNCHANGED <<status, send_array, recv_array, max_speed, recv_nonce, written, delivered>>
      BY <1>4, Zenon DEF SendLossy
    <2> QED BY <2>1, <2>2, TransmitOrder, Zenon
  <1>5. CASE SendRequest(p)
    <2>1. RequestBody(p).kind # "lossless"
      BY Zenon DEF RequestBody
    <2>2. /\ Live(p) /\ Transmit(p, send_array[p].end, RequestBody(p))
          /\ UNCHANGED <<status, send_array, recv_array, max_speed, recv_nonce, written, delivered>>
      BY <1>5, Zenon DEF SendRequest
    <2>3. \A n \in RequestBody(p).report.received : n \in Number /\ Has(p, n)
      BY ReportClaims, Zenon
    <2> QED BY <2>1, <2>2, <2>3, TransmitOrder, Zenon
  <1>6. CASE \E S \in SUBSET Unsent(p), max_num \in 1 .. CRYPTO_PACKET_BUFFER_SIZE : SendRequested(p, max_num, S)
    BY <1>6, SendRequestedOrder, Zenon
  <1> QED BY <1>1, <1>2, <1>3, <1>4, <1>5, <1>6, Zenon DEF Send

LEMMA NextOrder == NumbersLast /\ IInv /\ IInv' /\ OInv /\ [Next]_vars => OInv'
  <1> SUFFICES ASSUME NumbersLast, IInv, IInv', OInv, [Next]_vars PROVE OInv'
    BY Zenon
  <1>1. CASE UNCHANGED vars
    BY <1>1, ZenonT(30) DEF vars, OInv, Queued, Covered, Arrived, Claims, Has, Live
  <1>2. ASSUME NEW p \in Peer, Send(p) PROVE OInv'
    BY <1>2, SendOrder, Zenon
  <1>3. ASSUME NEW p \in Peer, NEW m \in net, Receive(p, m) PROVE OInv'
    <2>1. CASE ReceiveBadAck(p, m)
      BY <2>1, ReceiveBadAckOrder, Zenon
    <2>2. CASE ReceiveLossy(p, m)
      BY <2>2, ReceiveLossyOrder, Zenon
    <2>3. CASE \E Late \in SUBSET Occupied(send_array[p]) : ReceiveRequest(p, m, Late)
      BY <2>3, ReceiveRequestOrder, Zenon
    <2>4. CASE \E k \in 0 .. CRYPTO_PACKET_BUFFER_SIZE : ReceiveLossless(p, m, k)
      BY <2>4, ReceiveLosslessOrder, Zenon
    <2> QED BY <1>3, <2>1, <2>2, <2>3, <2>4, Zenon DEF Receive
  <1>4. ASSUME NEW p \in Peer, Die(p) PROVE OInv'
    <2>1. CASE CryptoKill(p)
      BY <2>1, CryptoKillOrder, Zenon
    <2>2. CASE KillTimedOut(p)
      BY <2>2, KillTimedOutOrder, Zenon
    <2>3. CASE \E m \in net : ReceiveKill(p, m)
      BY <2>3, ReceiveKillOrder, Zenon
    <2>4. CASE \E m \in net, j \in 1 .. CRYPTO_PACKET_BUFFER_SIZE : ReceiveKilledInCallback(p, m, j)
      BY <2>4, ReceiveKilledInCallbackOrder, Zenon
    <2> QED BY <1>4, <2>1, <2>2, <2>3, <2>4, Zenon DEF Die
  <1> QED BY <1>1, <1>2, <1>3, <1>4, Zenon DEF Next

----------------------------------------------------------------------------
\* Numbers below U32 count the messages themselves.
LEMMA SmallNumbers ==
    ASSUME NEW n \in Nat, n < U32
    PROVE  n % U32 = n
  BY PacketsArrayAssumption, SMTT(30)

LEMMA ConsumedIs ==
    ASSUME IInv, OInv, NumbersLast, NEW q \in Peer
    PROVE  Consumed(q) = recv_array[q].start
  <1> DEFINE w == written[Other(q)]
             a == recv_array[q]
  <1>1. /\ w \in Nat /\ w + CRYPTO_PACKET_BUFFER_SIZE < U32
        /\ a.start \in Nat /\ a.end \in Nat /\ a.start <= a.end /\ a.end <= w
    <2>1. a.start \in Nat /\ a.end \in Nat
      BY PeerParts, ArrayParts, NumberNat, SMTT(30)
    <2>2. w \in Nat /\ w + CRYPTO_PACKET_BUFFER_SIZE < U32
      BY OtherOther, PeerFlat, SMTT(30)
    <2>3. a.start <= a.end /\ a.end <= w
      BY Zenon DEF OInv, Arrived
    <2> QED BY <2>1, <2>2, <2>3, Zenon
  <1>2. w % U32 = w
    BY <1>1, PacketsArrayAssumption, SmallNumbers, SMTT(30)
  <1> HIDE DEF w, a
  <1>3. Consumed(q) = w - Sub(w % U32, a.start)
    BY Zenon DEF Consumed, w, a
  <1>4. Consumed(q) = w - Sub(w, a.start)
    BY <1>2, <1>3, SMTT(30)
  <1>5. Consumed(q) = a.start
    BY <1>1, <1>4, SMTT(30) DEF Sub
  <1> QED BY <1>5, SMTT(30) DEF a

LEMMA OrderKeeps == NumbersLast /\ IInv /\ OInv => NothingLost
  <1>1. ASSUME NumbersLast, IInv, OInv, BothLive, NEW q \in Peer, NEW i \in 0 .. (written[Other(q)] - 1)
        PROVE  \/ i < Consumed(q)
               \/ At(recv_array[q], i % U32) = i
               \/ /\ At(send_array[Other(q)], i % U32) # Empty
                  /\ At(send_array[Other(q)], i % U32).data = i
    <2> DEFINE p == Other(q)
    <2>1. p \in Peer /\ Other(p) = q /\ Live(p) /\ Live(q)
      BY <1>1, OtherOther, SMTT(30) DEF BothLive
    <2> HIDE DEF p
    <2>2. /\ Queued(p) /\ Covered(p) /\ Arrived(q) /\ written[p] \in Nat
          /\ written[p] + CRYPTO_PACKET_BUFFER_SIZE < U32
      BY <1>1, <2>1, PeerFlat, Zenon
    <2>3. i \in Nat /\ i < written[p] /\ i % U32 = i
      BY <2>2, SmallNumbers, PacketsArrayAssumption, SMTT(30) DEF p
    <2>4. /\ recv_array[q].start = Len(delivered[q]) /\ Consumed(q) = recv_array[q].start
          /\ send_array[p].start <= Len(delivered[q])
      BY <1>1, <2>1, <2>2, ConsumedIs, ZenonT(30) DEF Arrived, Covered
    <2>5. send_array[p].start \in Nat /\ Len(delivered[q]) \in Nat
      BY <1>1, <2>1, PeerParts, NumberNat, LengthType, SMTT(30)
    <2>6. CASE i < Len(delivered[q])
      BY <2>4, <2>6, Zenon
    <2>7. CASE ~(i < Len(delivered[q]))
      <3>1. i \in send_array[p].start .. (written[p] - 1)
        BY <2>2, <2>3, <2>4, <2>5, <2>7, SMTT(30)
      <3>2. At(send_array[p], i) # Empty => At(send_array[p], i).data = i
        BY <2>2, <3>1, Zenon DEF Queued
      <3>3. At(send_array[p], i) = Empty => At(recv_array[q], i) = i
        BY <2>1, <2>2, <2>7, <3>1, Zenon DEF Covered, Has
      <3> QED BY <2>3, <3>2, <3>3, ZenonT(30) DEF p
    <2> QED BY <2>6, <2>7, Zenon
  <1> QED BY <1>1, SMTT(30) DEF NothingLost

LEMMA OrderReceipts == NumbersLast /\ IInv /\ OInv => ReceiptsTruthful
  <1>1. ASSUME NumbersLast, IInv, OInv, NEW q \in Peer, NEW i \in 0 .. (written[Other(q)] - 1),
               Live(Other(q)), cryptpacket_received(Other(q), i % U32)
        PROVE  \E k \in DOMAIN delivered[q] : delivered[q][k] = i
    <2> DEFINE p == Other(q)
               a == send_array[p]
    <2>1. p \in Peer /\ Other(p) = q
      BY OtherOther, SMTT(30)
    <2> HIDE DEF p, a
    <2>2. /\ Queued(p) /\ Covered(p) /\ Arrived(q) /\ written[p] \in Nat
          /\ written[p] + CRYPTO_PACKET_BUFFER_SIZE < U32
      BY <1>1, <2>1, PeerFlat, Zenon
    <2>3. i \in Nat /\ i < written[p] /\ i % U32 = i
      BY <2>2, SmallNumbers, PacketsArrayAssumption, SMTT(30) DEF p
    <2>4. a.start \in Nat /\ delivered[q] \in Seq(Nat) /\ Len(delivered[q]) \in Nat
      BY <1>1, <2>1, PeerParts, NumberNat, LengthType, SMTT(30) DEF a
    <2>5. a.end = written[p] /\ a.start <= written[p] /\ a.start <= Len(delivered[q])
      BY <1>1, <2>1, <2>2, Zenon DEF Queued, Covered, a, p
    <2>6. Sub(i, a.start) > Sub(a.end, a.start)
      BY <1>1, <2>3, Zenon DEF cryptpacket_received, num_packets_array, a, p
    <2>7. i < a.start
      BY <2>2, <2>3, <2>4, <2>5, <2>6, SMTT(30) DEF Sub
    <2>8. i + 1 \in 1 .. Len(delivered[q]) /\ (i + 1) - 1 = i
      BY <2>3, <2>4, <2>5, <2>7, SMTT(30)
    <2>9. delivered[q][i + 1] = i
      BY <2>2, <2>8, Zenon DEF Arrived
    <2> QED BY <2>4, <2>8, <2>9, SMTT(30)
  <1> QED BY <1>1, Zenon DEF ReceiptsTruthful

LEMMA OrderNoGap == NumbersLast /\ IInv /\ OInv => DeliversEveryMessage
  <1> SUFFICES ASSUME NumbersLast, IInv, OInv, NEW q \in Peer, NEW k \in DOMAIN delivered[q]
               PROVE  delivered[q][k] = k - 1
    BY SMTT(30) DEF DeliversEveryMessage
  <1>1. DOMAIN delivered[q] = 1 .. Len(delivered[q])
    BY LengthType, SMTT(30)
  <1> QED BY <1>1, Zenon DEF OInv, Arrived

----------------------------------------------------------------------------
\* The delivery loop takes the next messages from the channel.
LEMMA FifoDelivers ==
    ASSUME IInv, OInv, NumbersLast, NEW p \in Peer, Live(p),
           NEW n \in Number, n < written[Other(p)], CanAdd(recv_array[p], n),
           NEW k \in 0 .. num_packets_array(add_data_to_buffer(recv_array[p], n, n)),
           \A j \in 0 .. (k - 1) : ~LoopStops(add_data_to_buffer(recv_array[p], n, n), j),
           UNCHANGED written,
           delivered' = [delivered EXCEPT ![p] =
                             @ \o HandedOver(add_data_to_buffer(recv_array[p], n, n), k)]
    PROVE  [Fifo!Next]_<<written, delivered>>
  <1> DEFINE b == add_data_to_buffer(recv_array[p], n, n)
             h == [i \in 1 .. k |-> Len(delivered[p]) + i - 1]
             c == read_data_beg_buffer(b, k)
             s == delivered[p] \o HandedOver(b, k)
  <1>1. /\ HandedOver(b, k) = h
        /\ Len(s) = Len(delivered[p]) + k
        /\ c \in ArrayOf(Nat) /\ c.start = Len(s) /\ c.start <= c.end /\ c.end <= written[Other(p)]
    BY DeliveryFlat, ZenonT(30)
  <1> HIDE DEF b, c, s
  <1>2. k \in Nat /\ delivered \in [Peer -> Seq(Nat)] /\ delivered[p] \in Seq(Nat)
    BY LengthType, SMTT(30) DEF IInv, TypeOK
  <1>3. delivered' = [delivered EXCEPT ![p] = delivered[p] \o h]
    BY <1>1, <1>2, Zenon DEF b
  <1>4. CASE k = 0
    <2>1. h = <<>>
      BY <1>4, SMTT(30)
    <2>2. delivered[p] \o h = delivered[p]
      BY <1>2, <2>1, ConcatEmpty, Zenon
    <2>3. delivered' = delivered
      BY <1>2, <1>3, <2>2, SMTT(30)
    <2> QED BY <2>3, Zenon
  <1>5. CASE k # 0
    <2>1. /\ c.start \in Nat /\ c.end \in Nat /\ written[Other(p)] \in Nat /\ Len(delivered[p]) \in Nat
      BY <1>1, ArrayParts, NumberNat, OtherOther, PeerFlat, ZenonT(30)
    <2> HIDE DEF h
    <2>2. Len(delivered[p]) + k <= written[Other(p)] /\ k \in 1 .. written[Other(p)]
      BY <1>1, <1>2, <1>5, <2>1, SMTT(30)
    <2>3. Fifo!Source(p) = Other(p)
      BY SMTT(30) DEF Fifo!Source, Other
    <2>4. Fifo!Deliver(p, k)
      BY <1>3, <2>2, <2>3, Zenon DEF Fifo!Deliver, h
    <2> QED BY <2>2, <2>3, <2>4, Zenon DEF Fifo!Next
  <1> QED BY <1>4, <1>5, Zenon

LEMMA FifoWrites ==
    ASSUME NEW p \in Peer, written' = [written EXCEPT ![p] = @ + 1], UNCHANGED delivered
    PROVE  [Fifo!Next]_<<written, delivered>>
  BY Zenon DEF Fifo!Next, Fifo!Write

LEMMA FifoReceives ==
    ASSUME IInv, OInv, NumbersLast, NEW p \in Peer, NEW m, NEW k, ReceiveLossless(p, m, k)
    PROVE  [Fifo!Next]_<<written, delivered>>
  <1> DEFINE b == add_data_to_buffer(recv_array[p], m.num, m.body.data)
             d == add_data_to_buffer(recv_array[p], m.num, m.num)
             Added == /\ CanAdd(recv_array[p], m.num)
                      /\ ReadsExactly(b, k)
                      /\ delivered' = [delivered EXCEPT ![p] = @ \o HandedOver(b, k)]
  <1>1. /\ Arrives(p, m) /\ m.body.kind = "lossless"
        /\ Added \/ UNCHANGED delivered
        /\ UNCHANGED written
    BY Zenon DEF ReceiveLossless
  <1> HIDE DEF Added
  <1>2. /\ Live(p) /\ m.num \in Number /\ m.num < written[Other(p)] /\ m.body.data = m.num
    BY <1>1, ArrivesClaims, Zenon
  <1>3. b = d
    BY <1>2, SMTT(30)
  <1> HIDE DEF b, d
  <1>4. CASE Added
    <2>1. /\ CanAdd(recv_array[p], m.num)
          /\ k \in 0 .. num_packets_array(d) /\ \A j \in 0 .. (k - 1) : ~LoopStops(d, j)
          /\ delivered' = [delivered EXCEPT ![p] = @ \o HandedOver(d, k)]
      BY <1>3, <1>4, SMTT(30) DEF Added, ReadsExactly
    <2> QED BY <1>1, <1>2, <2>1, FifoDelivers, Zenon DEF d
  <1> QED BY <1>1, <1>4, Zenon

LEMMA FifoReceivesLast ==
    ASSUME IInv, OInv, NumbersLast, NEW p \in Peer, NEW m, NEW j, ReceiveKilledInCallback(p, m, j)
    PROVE  [Fifo!Next]_<<written, delivered>>
  <1> DEFINE b == add_data_to_buffer(recv_array[p], m.num, m.body.data)
             d == add_data_to_buffer(recv_array[p], m.num, m.num)
  <1>1. /\ Arrives(p, m) /\ m.body.kind = "lossless"
        /\ CanAdd(recv_array[p], m.num)
        /\ j \in 1 .. num_packets_array(b)
        /\ \A i \in 0 .. (j - 1) : ~LoopStops(b, i)
        /\ delivered' = [delivered EXCEPT ![p] = @ \o HandedOver(b, j)]
        /\ UNCHANGED written
    BY Zenon DEF ReceiveKilledInCallback
  <1>2. /\ Live(p) /\ m.num \in Number /\ m.num < written[Other(p)] /\ m.body.data = m.num
    BY <1>1, ArrivesClaims, Zenon
  <1>3. b = d
    BY <1>2, SMTT(30)
  <1> HIDE DEF b, d
  <1>4. /\ j \in 0 .. num_packets_array(d) /\ \A i \in 0 .. (j - 1) : ~LoopStops(d, i)
        /\ delivered' = [delivered EXCEPT ![p] = @ \o HandedOver(d, j)]
    BY <1>1, <1>3, SMTT(30)
  <1> QED BY <1>1, <1>2, <1>4, FifoDelivers, Zenon DEF d

\* Every step of the data phase is a step of the channels or leaves them alone.
LEMMA FifoStep ==
    NumbersLast /\ IInv /\ OInv /\ [Next]_vars => [Fifo!Next]_<<written, delivered>>
  <1> SUFFICES ASSUME NumbersLast, IInv, OInv, [Next]_vars PROVE [Fifo!Next]_<<written, delivered>>
    BY SMTT(30)
  <1>1. CASE UNCHANGED vars
    BY <1>1, Zenon DEF vars
  <1>2. ASSUME NEW p \in Peer, NEW ok \in BOOLEAN, WriteLossless(p, ok)
        PROVE  [Fifo!Next]_<<written, delivered>>
    <2>1. written' = [written EXCEPT ![p] = @ + 1] /\ UNCHANGED delivered
      BY <1>2, Zenon DEF WriteLossless
    <2> QED BY <2>1, FifoWrites, Zenon
  <1>3. ASSUME NEW p \in Peer, NEW congestion_control \in BOOLEAN, WriteHeldBack(p, congestion_control)
        PROVE  [Fifo!Next]_<<written, delivered>>
    <2> DEFINE queued == ~congestion_control /\ CanAppend(send_array[p])
    <2>1. written' = [written EXCEPT ![p] = IF queued THEN @ + 1 ELSE @] /\ UNCHANGED delivered
      BY <1>3, Zenon DEF WriteHeldBack
    <2> HIDE DEF queued
    <2>2. CASE queued
      <3>1. written' = [written EXCEPT ![p] = @ + 1]
        BY <2>1, <2>2, Zenon
      <3> QED BY <2>1, <3>1, FifoWrites, Zenon
    <2>3. CASE ~queued
      <3>1. written' = written
        BY <2>1, <2>3, SMTT(30) DEF IInv, TypeOK
      <3> QED BY <2>1, <3>1, Zenon
    <2> QED BY <2>2, <2>3, Zenon
  <1>4. ASSUME NEW p \in Peer, Send(p) PROVE [Fifo!Next]_<<written, delivered>>
    <2>1. CASE MaxSpeedReached(p) \/ SendLossy(p) \/ SendRequest(p)
      BY <2>1, Zenon DEF MaxSpeedReached, SendLossy, SendRequest
    <2>2. CASE \E S \in SUBSET Unsent(p), max_num \in 1 .. CRYPTO_PACKET_BUFFER_SIZE : SendRequested(p, max_num, S)
      BY <2>2, Zenon DEF SendRequested
    <2> QED BY <1>2, <1>3, <1>4, <2>1, <2>2, Zenon DEF Send
  <1>5. ASSUME NEW p \in Peer, NEW m \in net, Receive(p, m) PROVE [Fifo!Next]_<<written, delivered>>
    <2>1. CASE ReceiveBadAck(p, m) \/ ReceiveLossy(p, m)
      BY <2>1, Zenon DEF ReceiveBadAck, ReceiveLossy
    <2>2. CASE \E Late \in SUBSET Occupied(send_array[p]) : ReceiveRequest(p, m, Late)
      BY <2>2, Zenon DEF ReceiveRequest
    <2>3. CASE \E k \in 0 .. CRYPTO_PACKET_BUFFER_SIZE : ReceiveLossless(p, m, k)
      BY <2>3, FifoReceives, Zenon
    <2> QED BY <1>5, <2>1, <2>2, <2>3, Zenon DEF Receive
  <1>6. ASSUME NEW p \in Peer, Die(p) PROVE [Fifo!Next]_<<written, delivered>>
    <2>1. CASE CryptoKill(p) \/ KillTimedOut(p) \/ \E m \in net : ReceiveKill(p, m)
      BY <2>1, Zenon DEF CryptoKill, KillTimedOut, ReceiveKill
    <2>2. CASE \E m \in net, j \in 1 .. CRYPTO_PACKET_BUFFER_SIZE : ReceiveKilledInCallback(p, m, j)
      BY <2>2, FifoReceivesLast, Zenon
    <2> QED BY <1>6, <2>1, <2>2, Zenon DEF Die
  <1> QED BY <1>1, <1>4, <1>5, <1>6, Zenon DEF Next
=============================================================================
