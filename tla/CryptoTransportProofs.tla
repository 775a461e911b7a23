----------------------- MODULE CryptoTransportProofs -----------------------
(***************************************************************************)
(* Type correctness of the data phase, and that whatever the network does  *)
(* the packet arrays stay well formed and a killed connection holds no     *)
(* packet.  The three are inductive together: the window of an array must  *)
(* be well formed for clear_buffer to free every packet.  Then the nonce   *)
(* window: its base stays more than a threshold behind the newest packet   *)
(* of the peer whatever order packets arrive in, as long as the packets    *)
(* sent do not use up the space of nonces.  Last, with TransportOrder-     *)
(* Proofs: the data phase loses nothing, tells the truth in its receipts   *)
(* and implements a pair of FIFO channels, as long as the packet numbers   *)
(* last.                                                                   *)
(***************************************************************************)
EXTENDS TransportOrderProofs, FiniteSetTheorems

\* One lemma per action: it preserves the invariant.
LEMMA WriteLosslessStep ==
    ASSUME IInv, NEW p \in Peer, NEW ok \in BOOLEAN, WriteLossless(p, ok)
    PROVE  IInv'
  <1> DEFINE d == [data |-> written[p], sent |-> ok]
             sa == add_data_end_of_buffer(AfterReset(p), d)
             packet == DataPacket(p, Retries(p), send_array[p].end, Lossless(written[p]))
  <1>1. d \in SendPacket
    BY PeerParts, Zenon DEF SendPacket
  <1>2. CanAppend(AfterReset(p))
    BY ResetParts, Zenon DEF WriteLossless, CanAppend
  <1>3. sa \in ArrayOf(SendPacket) /\ WellFormed(sa)
    BY <1>1, <1>2, ResetParts, AppendWellFormed, ZenonT(30)
  <1>4. packet \in Packet
    BY PeerParts, ResetParts, BodyTypes, DataPacketType, ZenonT(30) DEF IInv
  <1>5. Advance(sent_nonce[p], Retries(p) + 1) \in 0 .. (NONCES - 1)
    <2>1. sent_nonce[p] \in Nat /\ Retries(p) + 1 \in Nat
      BY PeerParts, ResetParts, SMTT(30)
    <2> QED BY <2>1, AdvanceType, Zenon
  <1>6. /\ send_array' = [send_array EXCEPT ![p] = sa]
        /\ recv_array' = [recv_array EXCEPT ![p] = recv_array[p]]
        /\ status' = [status EXCEPT ![p] = status[p]]
        /\ status[p] # FREE
    BY CryptoTransportAssumption, Zenon DEF WriteLossless, CanWrite, IInv, TypeOK
  <1>7. ArraysWellFormed' /\ NothingLeaked'
        /\ status' \in [Peer -> {NOT_CONFIRMED, ESTABLISHED, FREE}]
        /\ send_array' \in [Peer -> ArrayOf(SendPacket)]
        /\ recv_array' \in [Peer -> ArrayOf(Nat)]
    BY <1>3, <1>6, PeerParts, ArraysStep, ZenonT(30)
  <1>8. /\ net' \subseteq Packet
        /\ sent_nonce' \in [Peer -> 0 .. (NONCES - 1)]
        /\ written' \in [Peer -> Nat]
        /\ max_speed' \in [Peer -> BOOLEAN]
    BY <1>4, <1>5, ResetParts, SMTT(30) DEF WriteLossless, IInv, TypeOK
  <1> QED BY <1>7, <1>8, Zenon DEF WriteLossless, IInv, TypeOK

LEMMA WriteHeldBackStep ==
    ASSUME IInv, NEW p \in Peer, NEW cc \in BOOLEAN, WriteHeldBack(p, cc)
    PROVE  IInv'
  <1> DEFINE d == [data |-> written[p], sent |-> FALSE]
             sa == IF ~cc /\ CanAppend(send_array[p])
                   THEN add_data_end_of_buffer(send_array[p], d)
                   ELSE send_array[p]
  <1>1. d \in SendPacket
    BY PeerParts, Zenon DEF SendPacket
  <1>2. sa \in ArrayOf(SendPacket) /\ WellFormed(sa)
    BY <1>1, PeerParts, AppendWellFormed, Zenon
  <1>3. Advance(sent_nonce[p], 1) \in 0 .. (NONCES - 1)
    BY PeerParts, AdvanceType, Zenon
  <1>4. /\ send_array' = [send_array EXCEPT ![p] = sa]
        /\ recv_array' = [recv_array EXCEPT ![p] = recv_array[p]]
        /\ status' = [status EXCEPT ![p] = status[p]]
        /\ status[p] # FREE
    BY CryptoTransportAssumption, Zenon DEF WriteHeldBack, CanWrite, IInv, TypeOK
  <1>5. ArraysWellFormed' /\ NothingLeaked'
        /\ status' \in [Peer -> {NOT_CONFIRMED, ESTABLISHED, FREE}]
        /\ send_array' \in [Peer -> ArrayOf(SendPacket)]
        /\ recv_array' \in [Peer -> ArrayOf(Nat)]
    BY <1>2, <1>4, PeerParts, ArraysStep, ZenonT(30)
  <1>6. /\ sent_nonce' \in [Peer -> 0 .. (NONCES - 1)]
        /\ written' \in [Peer -> Nat]
    BY <1>3, PeerParts, SMTT(30) DEF WriteHeldBack, IInv, TypeOK
  <1> QED BY <1>5, <1>6, SMTT(30) DEF WriteHeldBack, IInv, TypeOK

LEMMA MaxSpeedReachedStep ==
    ASSUME IInv, NEW p \in Peer, MaxSpeedReached(p)
    PROVE  IInv'
  <1>1. Advance(sent_nonce[p], Retries(p)) \in 0 .. (NONCES - 1)
    BY PeerParts, ResetParts, AdvanceType, SMTT(30)
  <1>2. /\ send_array' = [send_array EXCEPT ![p] = AfterReset(p)]
        /\ recv_array' = [recv_array EXCEPT ![p] = recv_array[p]]
        /\ status' = [status EXCEPT ![p] = status[p]]
        /\ status[p] # FREE
    BY SMTT(40) DEF MaxSpeedReached, Live, IInv, TypeOK
  <1>3. ArraysWellFormed' /\ NothingLeaked'
        /\ status' \in [Peer -> {NOT_CONFIRMED, ESTABLISHED, FREE}]
        /\ send_array' \in [Peer -> ArrayOf(SendPacket)]
        /\ recv_array' \in [Peer -> ArrayOf(Nat)]
    BY <1>2, PeerParts, ResetParts, ArraysStep, ZenonT(30)
  <1>4. /\ net' \subseteq Packet
        /\ sent_nonce' \in [Peer -> 0 .. (NONCES - 1)]
        /\ max_speed' \in [Peer -> BOOLEAN]
    BY <1>1, ResetParts, ZenonT(30) DEF MaxSpeedReached, IInv, TypeOK
  <1> QED BY <1>3, <1>4, SMTT(30) DEF MaxSpeedReached, IInv, TypeOK

\* Sending a packet that leaves the arrays alone.
LEMMA TransmitStep ==
    ASSUME IInv, NEW p \in Peer, NEW body \in Body,
           Transmit(p, send_array[p].end, body),
           UNCHANGED <<status, send_array, recv_array, max_speed, recv_nonce, written, delivered>>
    PROVE  IInv'
  <1>1. DataPacket(p, 0, send_array[p].end, body) \in Packet
    BY PeerParts, DataPacketType, ZenonT(30) DEF IInv
  <1>2. Advance(sent_nonce[p], 1) \in 0 .. (NONCES - 1)
    BY PeerParts, AdvanceType, ZenonT(30)
  <1>3. net' \subseteq Packet /\ sent_nonce' \in [Peer -> 0 .. (NONCES - 1)]
    BY <1>1, <1>2, ZenonT(30) DEF Transmit, IInv, TypeOK
  <1> QED BY <1>3, Zenon DEF IInv, TypeOK, ArraysWellFormed, NothingLeaked, Live

\* Sets of packet numbers are finite.
LEMMA FiniteNumbers ==
    ASSUME NEW S \in SUBSET Number
    PROVE  IsFiniteSet(S) /\ Cardinality(S) \in Nat
  <1>1. IsFiniteSet(Number)
    BY FS_Interval, PacketsArrayAssumption, SMTT(40) DEF Number
  <1> QED BY <1>1, FS_Subset, FS_CardinalityType, ZenonT(30)

LEMMA SendRequestedStep ==
    ASSUME IInv, NEW p \in Peer, NEW max_num, NEW S, SendRequested(p, max_num, S)
    PROVE  IInv'
  <1> DEFINE before(n) == {m \in Unsent(p) : Offset(send_array[p], m) < Offset(send_array[p], n)}
             tried == {n \in Unsent(p) : Cardinality(before(n) \intersect S) < max_num}
  <1>1. /\ Unsent(p) \subseteq Number
        /\ \A n \in Unsent(p) : At(send_array[p], n) # Empty
    BY Zenon DEF Unsent, Occupied, Window, Between
  <1>2. S \subseteq Unsent(p) /\ tried \in SUBSET Number /\ \A n : before(n) \in SUBSET Number
    BY <1>1, Zenon DEF SendRequested
  <1>3. Cardinality(tried) \in Nat /\ \A n : Cardinality(before(n)) \in Nat
    BY <1>2, FiniteNumbers, ZenonT(30)
  <1>4. Advance(sent_nonce[p], Cardinality(tried)) \in 0 .. (NONCES - 1)
    BY <1>3, PeerParts, AdvanceType, ZenonT(30)
  <1>5. ASSUME NEW n \in S
        PROVE  DataPacket(p, Cardinality(before(n)), n, Lossless(At(send_array[p], n).data)) \in Packet
    <2>1. n \in Number /\ At(send_array[p], n) # Empty
      BY <1>1, <1>2, <1>5, SMTT(30)
    <2>2. At(send_array[p], n) \in SendPacket
      BY <2>1, PeerParts, OccupiedParts, SMTT(30)
    <2>3. Lossless(At(send_array[p], n).data) \in Body
      BY <2>2, BodyTypes, ZenonT(30) DEF SendPacket
    <2> QED BY <1>3, <2>1, <2>3, DataPacketType, SMTT(30) DEF IInv
  <1>6. /\ Marked(send_array[p], S, TRUE) \in ArrayOf(SendPacket)
        /\ WellFormed(Marked(send_array[p], S, TRUE))
    <2>1. S \in SUBSET Number /\ \A n \in S : At(send_array[p], n) # Empty
      BY <1>1, <1>2, SMTT(40)
    <2>2. TRUE \in BOOLEAN /\ send_array[p] \in ArrayOf(SendPacket) /\ WellFormed(send_array[p])
      BY PeerParts, SMTT(40)
    <2> QED BY <2>1, <2>2, MarkWellFormed, ZenonT(30)
  <1>7. /\ send_array' = [send_array EXCEPT ![p] = Marked(send_array[p], S, TRUE)]
        /\ recv_array' = [recv_array EXCEPT ![p] = recv_array[p]]
        /\ status' = [status EXCEPT ![p] = status[p]]
        /\ status[p] # FREE
    BY CryptoTransportAssumption, SMTT(40) DEF SendRequested, IInv, TypeOK
  <1>8. ArraysWellFormed' /\ NothingLeaked'
        /\ status' \in [Peer -> {NOT_CONFIRMED, ESTABLISHED, FREE}]
        /\ send_array' \in [Peer -> ArrayOf(SendPacket)]
        /\ recv_array' \in [Peer -> ArrayOf(Nat)]
    BY <1>6, <1>7, PeerParts, ArraysStep, ZenonT(30)
  <1>9. /\ net' \subseteq Packet
        /\ sent_nonce' \in [Peer -> 0 .. (NONCES - 1)]
    BY <1>4, <1>5, ZenonT(30) DEF SendRequested, IInv, TypeOK
  <1> QED BY <1>8, <1>9, ZenonT(30) DEF SendRequested, IInv, TypeOK

LEMMA ReceiveBadAckStep ==
    ASSUME IInv, NEW p \in Peer, NEW m, ReceiveBadAck(p, m)
    PROVE  IInv'
  BY ArrivesParts, SMTT(40) DEF ReceiveBadAck, IInv, TypeOK, ArraysWellFormed, NothingLeaked, Live

LEMMA ReceiveLossyStep ==
    ASSUME IInv, NEW p \in Peer, NEW m, ReceiveLossy(p, m)
    PROVE  IInv'
  <1> DEFINE ra == set_buffer_end(recv_array[p], m.num)
  <1>1. /\ m \in Packet /\ recv_nonce' \in [Peer -> 0 .. (NONCES - 1)]
        /\ Acked(p, m) \in ArrayOf(SendPacket) /\ WellFormed(Acked(p, m))
    BY ArrivesParts, SMTT(40) DEF ReceiveLossy
  <1>2. ra \in ArrayOf(Nat) /\ WellFormed(ra)
    BY <1>1, BodyOf, PeerParts, SetEndWellFormed, SMTT(40)
  <1>3. /\ send_array' = [send_array EXCEPT ![p] = Acked(p, m)]
        /\ recv_array' = [recv_array EXCEPT ![p] = ra]
        /\ status' = [status EXCEPT ![p] = ESTABLISHED]
    BY SMTT(40) DEF ReceiveLossy, Confirm
  <1>4. ArraysWellFormed' /\ NothingLeaked'
        /\ status' \in [Peer -> {NOT_CONFIRMED, ESTABLISHED, FREE}]
        /\ send_array' \in [Peer -> ArrayOf(SendPacket)]
        /\ recv_array' \in [Peer -> ArrayOf(Nat)]
    BY <1>1, <1>2, <1>3, ArraysStep, CryptoTransportAssumption, ZenonT(30)
  <1> QED BY <1>1, <1>4, SMTT(40) DEF ReceiveLossy, IInv, TypeOK

LEMMA ReceiveRequestStep ==
    ASSUME IInv, NEW p \in Peer, NEW m, NEW Late, ReceiveRequest(p, m, Late)
    PROVE  IInv'
  <1> DEFINE ra == set_buffer_end(recv_array[p], m.num)
             acked == Acked(p, m)
             marked == Marked(acked, Late, FALSE)
             gone == m.body.report.received \intersect Window(acked)
             sa == [marked EXCEPT !.buffer = Freed(marked, gone)]
  <1>1. /\ m \in Packet /\ recv_nonce' \in [Peer -> 0 .. (NONCES - 1)]
        /\ acked \in ArrayOf(SendPacket) /\ WellFormed(acked)
    BY ArrivesParts, ZenonT(30) DEF ReceiveRequest
  <1>2. ra \in ArrayOf(Nat) /\ WellFormed(ra)
    BY <1>1, BodyOf, PeerParts, SetEndWellFormed, SMTT(30)
  <1>3. /\ send_array' = [send_array EXCEPT ![p] = sa]
        /\ recv_array' = [recv_array EXCEPT ![p] = ra]
        /\ status' = [status EXCEPT ![p] = ESTABLISHED]
        /\ Late \subseteq Occupied(acked)
    BY Zenon DEF ReceiveRequest, Confirm
  <1>4. marked \in ArrayOf(SendPacket) /\ WellFormed(marked)
    <2>1. Late \in SUBSET Number /\ \A n \in Late : At(acked, n) # Empty
      BY <1>3, Zenon DEF Occupied, Window, Between
    <2>2. FALSE \in BOOLEAN
      BY Zenon
    <2> HIDE DEF acked
    <2> QED BY <1>1, <2>1, <2>2, MarkWellFormed, ZenonT(30)
  <1>5. sa \in ArrayOf(SendPacket) /\ WellFormed(sa)
    <2> HIDE DEF marked, gone
    <2>1. sa \in ArrayOf(SendPacket) /\ sa.start = marked.start /\ sa.end = marked.end
      BY <1>4, FreedType, ZenonT(30) DEF ArrayOf
    <2>2. sa.buffer = Freed(marked, gone)
      BY <1>4, Zenon DEF ArrayOf
    <2>3. \A s \in Slot : sa.buffer[s] # Empty => marked.buffer[s] # Empty
      BY <2>2, Zenon DEF Freed
    <2> QED BY <1>4, <2>1, <2>3, SameWindowWellFormed, ZenonT(30)
  <1>6. ArraysWellFormed' /\ NothingLeaked'
        /\ status' \in [Peer -> {NOT_CONFIRMED, ESTABLISHED, FREE}]
        /\ send_array' \in [Peer -> ArrayOf(SendPacket)]
        /\ recv_array' \in [Peer -> ArrayOf(Nat)]
    BY <1>2, <1>3, <1>5, ArraysStep, CryptoTransportAssumption, ZenonT(30)
  <1> QED BY <1>1, <1>6, ZenonT(30) DEF ReceiveRequest, IInv, TypeOK

\* The delivery loop hands over messages, and leaves a well-formed array.
LEMMA HandedOverType ==
    ASSUME NEW a \in ArrayOf(Nat), NEW k \in 0 .. num_packets_array(a),
           \A j \in 0 .. (k - 1) : ~LoopStops(a, j)
    PROVE  HandedOver(a, k) \in Seq(Nat)
  <1> DEFINE len == IF k > 0 /\ Plus(a.start, k - 1) = U32 - 1 THEN k - 1 ELSE k
  <1>1. k \in Nat /\ len \in Nat /\ len <= k
    BY ArrayParts, PacketsArrayAssumption, SMTT(30) DEF Number
  <1>2. ASSUME NEW i \in 1 .. len
        PROVE  At(a, Plus(a.start, i - 1)) \in Nat
    <2>1. i - 1 \in 0 .. (k - 1) /\ i - 1 \in Nat
      BY <1>1, <1>2, SMTT(30)
    <2>2. ~LoopStops(a, i - 1)
      BY <2>1, Zenon
    <2>3. At(a, Plus(a.start, i - 1)) # Empty
      BY <2>2, Zenon DEF LoopStops
    <2>4. i - 1 \in Number
      BY <1>1, <2>1, ArrayParts, PacketsArrayAssumption, SMTT(30) DEF Number
    <2> DEFINE j == i - 1
    <2>5. a.start \in Number /\ j \in Number
      BY <2>4, ArrayParts, ZenonT(30)
    <2> HIDE DEF j
    <2>6. Plus(a.start, j) \in Number
      BY <2>5, PlusType, PacketsArrayAssumption, SMTT(30) DEF Number
    <2>7. Plus(a.start, i - 1) \in Number
      BY <2>6, Zenon DEF j
    <2> QED BY <2>3, <2>7, OccupiedParts, ZenonT(30)
  <1> HIDE DEF len
  <1>3. [i \in 1 .. len |-> At(a, Plus(a.start, i - 1))] \in [1 .. len -> Nat]
    BY <1>2, Zenon
  <1>4. [i \in 1 .. len |-> At(a, Plus(a.start, i - 1))] \in Seq(Nat)
    BY <1>1, <1>3, SMTT(30)
  <1>5. HandedOver(a, k) = [i \in 1 .. len |-> At(a, Plus(a.start, i - 1))]
    BY Zenon DEF HandedOver, len
  <1> QED BY <1>4, <1>5, ZenonT(30)

LEMMA DeliveredType ==
    ASSUME IInv, NEW p \in Peer, NEW s \in Seq(Nat),
           delivered' = [delivered EXCEPT ![p] = @ \o s]
    PROVE  delivered' \in [Peer -> Seq(Nat)]
  <1>1. delivered \in [Peer -> Seq(Nat)]
    BY Zenon DEF IInv, TypeOK
  <1>2. delivered[p] \o s \in Seq(Nat)
    BY <1>1, SMTT(40)
  <1> QED BY <1>1, <1>2, SMTT(30)

LEMMA ReceiveLosslessStep ==
    ASSUME IInv, NEW p \in Peer, NEW m, NEW k, ReceiveLossless(p, m, k)
    PROVE  IInv'
  <1> DEFINE added == add_data_to_buffer(recv_array[p], m.num, m.body.data)
             P1 == /\ ArraysWellFormed' /\ NothingLeaked'
                   /\ status' \in [Peer -> {NOT_CONFIRMED, ESTABLISHED, FREE}]
                   /\ send_array' \in [Peer -> ArrayOf(SendPacket)]
                   /\ recv_array' \in [Peer -> ArrayOf(Nat)]
             P2 == delivered' \in [Peer -> Seq(Nat)]
             Added == /\ CanAdd(recv_array[p], m.num)
                      /\ ReadsExactly(added, k)
                      /\ recv_array' = [recv_array EXCEPT ![p] = read_data_beg_buffer(added, k)]
                      /\ delivered' = [delivered EXCEPT ![p] = @ \o HandedOver(added, k)]
  <1>1. /\ Arrives(p, m) /\ AckValid(p, m) /\ Confirm(p) /\ m.body.kind = "lossless"
        /\ send_array' = [send_array EXCEPT ![p] = Acked(p, m)]
        /\ Added \/ UNCHANGED <<recv_array, delivered>>
        /\ UNCHANGED <<max_speed, sent_nonce, net, written>>
    BY Zenon DEF ReceiveLossless
  <1> HIDE DEF added, Added
  <1>2. /\ m \in Packet /\ recv_nonce' \in [Peer -> 0 .. (NONCES - 1)]
        /\ Acked(p, m) \in ArrayOf(SendPacket) /\ WellFormed(Acked(p, m))
    BY <1>1, ArrivesParts, ZenonT(30)
  <1>3. m.num \in Number /\ m.body.data \in Nat
    BY <1>1, <1>2, BodyOf, ZenonT(30)
  <1>4. status' = [status EXCEPT ![p] = ESTABLISHED]
    BY <1>1, Zenon DEF Confirm
  <1>5. /\ max_speed' \in [Peer -> BOOLEAN] /\ sent_nonce' \in [Peer -> 0 .. (NONCES - 1)]
        /\ net' \subseteq Packet /\ written' \in [Peer -> Nat]
    BY <1>1, Zenon DEF IInv, TypeOK
  <1>6. CASE Added
    <2>1. CanAdd(recv_array[p], m.num) /\ ReadsExactly(added, k)
      BY <1>6, Zenon DEF Added
    <2>2. recv_array[p] \in ArrayOf(Nat) /\ WellFormed(recv_array[p])
      BY PeerParts, Zenon
    <2>3. added \in ArrayOf(Nat) /\ WellFormed(added)
      BY <1>3, <2>1, <2>2, AddWellFormed, ZenonT(30) DEF added
    <2>4. k \in 0 .. num_packets_array(added) /\ \A j \in 0 .. (k - 1) : ~LoopStops(added, j)
      BY <2>1, Zenon DEF ReadsExactly
    <2>5. read_data_beg_buffer(added, k) \in ArrayOf(Nat) /\ WellFormed(read_data_beg_buffer(added, k))
      BY <2>3, <2>4, ReadWellFormed, ZenonT(30)
    <2>6. HandedOver(added, k) \in Seq(Nat)
      BY <2>3, <2>4, HandedOverType, ZenonT(30)
    <2>7. P1
      BY <1>1, <1>2, <1>4, <1>6, <2>5, ArraysStep, CryptoTransportAssumption, ZenonT(30) DEF Added
    <2>8. P2
      BY <1>6, <2>6, DeliveredType, ZenonT(30) DEF Added
    <2> QED BY <1>2, <1>5, <2>7, <2>8, ZenonT(30) DEF IInv, TypeOK
  <1>7. CASE UNCHANGED <<recv_array, delivered>>
    <2>1. recv_array' = [recv_array EXCEPT ![p] = recv_array[p]]
      BY <1>7, Zenon DEF IInv, TypeOK
    <2>2. P1
      BY <1>1, <1>2, <1>4, <2>1, PeerParts, ArraysStep, CryptoTransportAssumption, ZenonT(30)
    <2>3. P2
      BY <1>7, ZenonT(30) DEF IInv, TypeOK
    <2> QED BY <1>2, <1>5, <2>2, <2>3, ZenonT(30) DEF IInv, TypeOK
  <1> QED BY <1>1, <1>6, <1>7, ZenonT(30)

----------------------------------------------------------------------------
\* Killing empties both arrays.
LEMMA KilledStep ==
    ASSUME IInv, NEW p \in Peer,
           NEW sa \in ArrayOf(SendPacket), WellFormed(sa),
           NEW ra \in ArrayOf(Nat), WellFormed(ra),
           Killed(p, sa, ra)
    PROVE  /\ status' \in [Peer -> {NOT_CONFIRMED, ESTABLISHED, FREE}]
           /\ send_array' \in [Peer -> ArrayOf(SendPacket)]
           /\ recv_array' \in [Peer -> ArrayOf(Nat)]
           /\ max_speed' \in [Peer -> BOOLEAN]
           /\ ArraysWellFormed'
           /\ NothingLeaked'
  <1>1. /\ clear_buffer(sa) \in ArrayOf(SendPacket) /\ WellFormed(clear_buffer(sa))
        /\ \A s \in Slot : clear_buffer(sa).buffer[s] = Empty
        /\ clear_buffer(ra) \in ArrayOf(Nat) /\ WellFormed(clear_buffer(ra))
        /\ \A s \in Slot : clear_buffer(ra).buffer[s] = Empty
    BY ClearEmpties, Zenon
  <1>2. max_speed' \in [Peer -> BOOLEAN]
    BY Zenon DEF Killed, IInv, TypeOK
  <1> QED BY <1>1, <1>2, ArraysStep, ZenonT(30) DEF Killed

LEMMA SendsKillStep ==
    ASSUME IInv, NEW p \in Peer, NEW st, NEW start \in Number, SendsKill(p, st, start)
    PROVE  net' \subseteq Packet /\ sent_nonce' \in [Peer -> 0 .. (NONCES - 1)]
  <1>1. DataPacket(p, 0, send_array[p].end, Kill) \in Packet
    BY PeerParts, BodyTypes, DataPacketType, SMTT(30) DEF IInv
  <1>2. KillPacket(p, start) \in Packet
    BY <1>1, Zenon DEF KillPacket, Packet
  <1>3. Advance(sent_nonce[p], 1) \in 0 .. (NONCES - 1)
    BY PeerParts, AdvanceType, ZenonT(30)
  <1>4. net \subseteq Packet /\ sent_nonce \in [Peer -> 0 .. (NONCES - 1)]
    BY Zenon DEF IInv, TypeOK
  <1>5. CASE st = ESTABLISHED
    BY <1>2, <1>3, <1>4, <1>5, SMTT(30) DEF SendsKill
  <1>6. CASE st # ESTABLISHED
    BY <1>4, <1>6, ZenonT(30) DEF SendsKill
  <1> QED BY <1>5, <1>6, SMTT(30)

LEMMA CryptoKillStep ==
    ASSUME IInv, NEW p \in Peer, CryptoKill(p)
    PROVE  IInv'
  BY PeerParts, KilledStep, SendsKillStep, ZenonT(30) DEF CryptoKill, IInv, TypeOK

LEMMA KillTimedOutStep ==
    ASSUME IInv, NEW p \in Peer, KillTimedOut(p)
    PROVE  IInv'
  BY PeerParts, KilledStep, ZenonT(30) DEF KillTimedOut, IInv, TypeOK

LEMMA ReceiveKillStep ==
    ASSUME IInv, NEW p \in Peer, NEW m, ReceiveKill(p, m)
    PROVE  IInv'
  <1>1. /\ Arrives(p, m) /\ AckValid(p, m)
        /\ SendsKill(p, status[p], recv_array[p].start)
        /\ Killed(p, Acked(p, m), recv_array[p])
        /\ UNCHANGED <<written, delivered>>
    BY Zenon DEF ReceiveKill
  <1>2. /\ recv_nonce' \in [Peer -> 0 .. (NONCES - 1)]
        /\ Acked(p, m) \in ArrayOf(SendPacket) /\ WellFormed(Acked(p, m))
    BY <1>1, ArrivesParts, Zenon
  <1>3. net' \subseteq Packet /\ sent_nonce' \in [Peer -> 0 .. (NONCES - 1)]
    BY <1>1, PeerParts, SendsKillStep, ZenonT(30)
  <1>4. written' \in [Peer -> Nat] /\ delivered' \in [Peer -> Seq(Nat)]
    BY <1>1, ZenonT(30) DEF IInv, TypeOK
  <1>5. /\ status' \in [Peer -> {NOT_CONFIRMED, ESTABLISHED, FREE}]
        /\ send_array' \in [Peer -> ArrayOf(SendPacket)]
        /\ recv_array' \in [Peer -> ArrayOf(Nat)]
        /\ max_speed' \in [Peer -> BOOLEAN]
        /\ ArraysWellFormed' /\ NothingLeaked'
    BY <1>1, <1>2, PeerParts, KilledStep, ZenonT(30)
  <1> QED BY <1>2, <1>3, <1>4, <1>5, ZenonT(30) DEF IInv, TypeOK

LEMMA ReceiveKilledInCallbackStep ==
    ASSUME IInv, NEW p \in Peer, NEW m, NEW j, ReceiveKilledInCallback(p, m, j)
    PROVE  IInv'
  <1> DEFINE added == add_data_to_buffer(recv_array[p], m.num, m.body.data)
             read == read_data_beg_buffer(added, j)
  <1>1. /\ m \in Packet /\ recv_nonce' \in [Peer -> 0 .. (NONCES - 1)]
        /\ Acked(p, m) \in ArrayOf(SendPacket) /\ WellFormed(Acked(p, m))
    BY ArrivesParts, Zenon DEF ReceiveKilledInCallback
  <1>2. added \in ArrayOf(Nat) /\ WellFormed(added)
    BY <1>1, BodyOf, PeerParts, AddWellFormed, ZenonT(30) DEF ReceiveKilledInCallback
  <1>3. /\ j \in 0 .. num_packets_array(added)
        /\ \A i \in 0 .. (j - 1) : ~LoopStops(added, i)
        /\ delivered' = [delivered EXCEPT ![p] = @ \o HandedOver(added, j)]
        /\ SendsKill(p, ESTABLISHED, read.start)
        /\ Killed(p, Acked(p, m), read)
        /\ UNCHANGED written
    <2>1. num_packets_array(added) \in Nat
      BY <1>2, ArrayParts, PacketsArrayAssumption, SMTT(30) DEF Number
    <2>2. /\ j \in 1 .. num_packets_array(added)
          /\ \A i \in 0 .. (j - 1) : ~LoopStops(added, i)
          /\ delivered' = [delivered EXCEPT ![p] = @ \o HandedOver(added, j)]
          /\ SendsKill(p, ESTABLISHED, read.start)
          /\ Killed(p, Acked(p, m), read)
          /\ UNCHANGED written
      BY ZenonT(30) DEF ReceiveKilledInCallback
    <2>3. j \in 0 .. num_packets_array(added)
      BY <2>1, <2>2, SMTT(40)
    <2> QED BY <2>2, <2>3, ZenonT(30)
  <1> HIDE DEF added
  <1>4. read \in ArrayOf(Nat) /\ WellFormed(read) /\ read.start \in Number
    BY <1>2, <1>3, ReadWellFormed, ArrayParts, ZenonT(30)
  <1>5. HandedOver(added, j) \in Seq(Nat)
    BY <1>2, <1>3, HandedOverType, SMTT(30)
  <1>6. delivered' \in [Peer -> Seq(Nat)]
    BY <1>3, <1>5, DeliveredType, ZenonT(30)
  <1>7. net' \subseteq Packet /\ sent_nonce' \in [Peer -> 0 .. (NONCES - 1)]
    BY <1>3, <1>4, SendsKillStep, SMTT(30)
  <1> HIDE DEF read
  <1>8. written' \in [Peer -> Nat]
    BY <1>3, ZenonT(30) DEF IInv, TypeOK
  <1>9. /\ status' \in [Peer -> {NOT_CONFIRMED, ESTABLISHED, FREE}]
        /\ send_array' \in [Peer -> ArrayOf(SendPacket)]
        /\ recv_array' \in [Peer -> ArrayOf(Nat)]
        /\ max_speed' \in [Peer -> BOOLEAN]
        /\ ArraysWellFormed' /\ NothingLeaked'
    BY <1>1, <1>3, <1>4, KilledStep, ZenonT(30)
  <1> QED BY <1>1, <1>6, <1>7, <1>8, <1>9, ZenonT(30) DEF IInv, TypeOK

----------------------------------------------------------------------------
LEMMA InitStep == Init => IInv
  <1> SUFFICES ASSUME Init PROVE IInv
    BY Zenon
  <1>1. EmptyArray \in ArrayOf(SendPacket) /\ EmptyArray \in ArrayOf(Nat) /\ WellFormed(EmptyArray)
    BY EmptyArrayWellFormed, Zenon
  <1>2. max_speed \in [Peer -> BOOLEAN]
    BY Zenon DEF Init
  <1> QED BY <1>1, <1>2, CryptoTransportAssumption, SMTT(30)
          DEF Init, IInv, TypeOK, ArraysWellFormed, NothingLeaked, Live

LEMMA SendStep ==
    ASSUME IInv, NEW p \in Peer, Send(p)
    PROVE  IInv'
  <1>1. CASE SendLossy(p)
    BY <1>1, TransmitStep, BodyTypes, PeerParts, SMTT(40) DEF SendLossy
  <1>2. CASE SendRequest(p)
    BY <1>2, TransmitStep, BodyTypes, PeerParts, SMTT(30) DEF SendRequest
  <1> QED BY <1>1, <1>2, WriteLosslessStep, WriteHeldBackStep, MaxSpeedReachedStep, SendRequestedStep, ZenonT(30)
          DEF Send

LEMMA NextStep == IInv /\ [Next]_vars => IInv'
  <1> SUFFICES ASSUME IInv, [Next]_vars PROVE IInv'
    BY Zenon
  <1>1. CASE UNCHANGED vars
    BY <1>1, ZenonT(30) DEF vars, IInv, TypeOK, ArraysWellFormed, NothingLeaked, Live
  <1>2. ASSUME NEW p \in Peer, Send(p) PROVE IInv'
    BY <1>2, SendStep, ZenonT(30)
  <1>3. ASSUME NEW p \in Peer, NEW m \in net, Receive(p, m) PROVE IInv'
    BY <1>3, ReceiveBadAckStep, ReceiveLossyStep, ReceiveRequestStep, ReceiveLosslessStep, SMTT(40) DEF Receive
  <1>4. ASSUME NEW p \in Peer, Die(p) PROVE IInv'
    BY <1>4, CryptoKillStep, KillTimedOutStep, ReceiveKillStep, ReceiveKilledInCallbackStep, SMTT(30) DEF Die
  <1> QED BY <1>1, <1>2, <1>3, <1>4, SMTT(30) DEF Next

\* The inductive invariant holds of every behaviour of the data phase.
THEOREM Invariance == Spec => []IInv
  BY InitStep, NextStep, PTL DEF Spec

\* Every variable keeps its type, for every buffer size, number width, nonce
\* space and bound: no packet outside the packet format is ever built from
\* received numbers, and no message is delivered from an empty slot.
THEOREM TypeCorrect == Spec => []TypeOK
  BY Invariance, PTL DEF IInv

\* However packets are lost, repeated and reordered, the windows of both arrays
\* of both peers fit the ring and no packet is left outside a window; and a killed
\* connection holds no packet, whether it was killed by the application, by the
\* peer, by a timeout, or inside the callback of a delivery loop.
THEOREM WindowsFit == Spec => []ArraysSound
  BY Invariance, PTL DEF IInv, ArraysSound

----------------------------------------------------------------------------
\* The nonce window.  The nonces last: the nonce space is larger than the packets
\* encrypted and the window together, as it is by far in the code (2^192).  Then
\* a nonce below the base is never mistaken for one ahead of it.
NoncesLast == \A p \in Peer : MaxPackets[p] + NonceTails <= NONCES

NInv ==
    /\ \A m \in net : m.nonce <= MaxPackets[Other(m.to)]
    /\ NonceWindowTolerant

LEMMA NonceBounds ==
    ASSUME IInv, NoncesLast, NEW p \in Peer
    PROVE  /\ MaxPackets[p] \in Nat /\ DATA_NUM_THRESHOLD \in Nat \ {0} /\ NONCES \in Nat \ {0}
           /\ NonceTails = 3 * DATA_NUM_THRESHOLD + 1
           /\ MaxPackets[p] + NonceTails <= NONCES /\ NONCES # 1
           /\ sent_nonce[p] \in Nat /\ recv_nonce[p] \in Nat
  <1>1. MaxPackets[p] \in Nat /\ DATA_NUM_THRESHOLD \in Nat \ {0} /\ NONCES \in Nat \ {0}
    BY CryptoTransportAssumption, SMTT(30)
  <1>2. sent_nonce[p] \in Nat /\ recv_nonce[p] \in Nat
    BY <1>1, SMTT(30) DEF IInv, TypeOK
  <1>3. NonceTails = 3 * DATA_NUM_THRESHOLD + 1 /\ MaxPackets[p] + NonceTails <= NONCES
    BY ZenonT(30) DEF NonceTails, NoncesLast
  <1> QED BY <1>1, <1>2, <1>3, SMTT(30)

\* A packet that p encrypts.
LEMMA NonceSent ==
    ASSUME IInv, NoncesLast, NEW p \in Peer, NEW n \in Nat, NoncesLeft(p, n), NEW k \in Nat, k <= n,
           NEW m, m.to = Other(p), m.nonce = Advance(sent_nonce[p], k)
    PROVE  m.to = Other(p) /\ m.nonce <= MaxPackets[Other(m.to)]
  <1>1. sent_nonce[p] + n <= MaxPackets[p]
    BY NonceBounds, ZenonT(30) DEF NoncesLeft
  <1>2. sent_nonce[p] + k \in Nat /\ sent_nonce[p] + k < NONCES /\ sent_nonce[p] + k <= MaxPackets[p]
    BY <1>1, NonceBounds, SMTT(30)
  <1>3. Advance(sent_nonce[p], k) = sent_nonce[p] + k
    BY <1>2, NonceBounds, SMTT(30) DEF Advance
  <1> QED BY <1>2, <1>3, OtherOther, SMTT(30)

\* A packet that arrives: the base follows it at a distance.
LEMMA NonceArrives ==
    ASSUME IInv, NInv, NoncesLast, NEW p \in Peer, NEW m, Arrives(p, m)
    PROVE  recv_nonce'[p] = recv_nonce[p] \/ m.nonce > recv_nonce'[p] + DATA_NUM_THRESHOLD
  <1> DEFINE base == recv_nonce[p]
             q == Other(p)
             t == DATA_NUM_THRESHOLD
             ahead == Ahead(p, m)
  <1>1. m \in net /\ m.to = p /\ m \in Packet /\ recv_nonce'[p] = BaseAfter(p, m) /\ Decrypts(p, m)
    BY ZenonT(30) DEF Arrives, IInv, TypeOK
  <1>2. /\ q \in Peer /\ base \in Nat /\ t \in Nat \ {0} /\ NONCES \in Nat \ {0}
        /\ NonceTails = 3 * t + 1 /\ MaxPackets[q] \in Nat /\ MaxPackets[q] + NonceTails <= NONCES
    BY NonceBounds, OtherPeer, SMTT(30)
  <1>3. m.nonce \in Int
    BY <1>1, <1>2, BodyOf, SMTT(30)
  <1>4. ahead \in Nat /\ ahead < NonceTails
    BY <1>2, <1>3, SMTT(30) DEF Ahead
  <1>5. base <= MaxPackets[q]
    <2>1. CASE base = 0
      BY <1>2, <2>1, SMTT(30)
    <2>2. CASE base > 0
      <3>1. PICK n \in net : n.to = p /\ n.nonce > base + t
        BY <2>2, ZenonT(30) DEF NInv, NonceWindowTolerant
      <3>2. n.nonce <= MaxPackets[q] /\ n \in Packet
        BY <3>1, SMTT(30) DEF NInv, IInv, TypeOK
      <3>3. n.nonce \in Int
        BY <1>2, <3>2, BodyOf, SMTT(30)
      <3> QED BY <1>2, <3>1, <3>2, <3>3, SMTT(30)
    <2> QED BY <1>2, <2>1, <2>2, SMTT(30)
  <1> HIDE DEF base, q, t, ahead
  <1>6. m.nonce = base + ahead
    <2>1. m.nonce = (base + ahead) % NONCES
      BY <1>1, ZenonT(30) DEF Decrypts, Advance, base, ahead
    <2>2. base + ahead \in Nat /\ base + ahead < NONCES
      BY <1>2, <1>4, <1>5, SMTT(30)
    <2> QED BY <1>2, <2>1, <2>2, SMTT(30)
  <1>7. CASE ahead > 2 * t
    <2>1. BaseAfter(p, m) = (base + t) % NONCES
      BY <1>7, ZenonT(30) DEF BaseAfter, Advance, base, ahead, t
    <2>2. base + t \in Nat /\ base + t < NONCES
      BY <1>2, <1>5, SMTT(30)
    <2>3. BaseAfter(p, m) = base + t
      BY <1>2, <2>1, <2>2, SMTT(30)
    <2>4. m.nonce > (base + t) + t
      BY <1>2, <1>4, <1>6, <1>7, SMTT(30)
    <2> QED BY <1>1, <2>3, <2>4, SMTT(30) DEF t
  <1>8. CASE ~(ahead > 2 * t)
    BY <1>1, <1>8, ZenonT(30) DEF BaseAfter, ahead, t
  <1> QED BY <1>7, <1>8, SMTT(30)

LEMMA NonceStep ==
    ASSUME IInv, NInv, NoncesLast, NEW p \in Peer,
           recv_nonce' = recv_nonce \/ \E m \in net : Arrives(p, m),
           net \subseteq net',
           \A m \in net' \ net : m.to = Other(p) /\ m.nonce <= MaxPackets[Other(m.to)]
    PROVE  NInv'
  <1>1. \A m \in net' : m.nonce <= MaxPackets[Other(m.to)]
    BY ZenonT(30) DEF NInv
  <1>2. ASSUME NEW q \in Peer, recv_nonce'[q] > 0
        PROVE  \E m \in net' : m.to = q /\ m.nonce > recv_nonce'[q] + DATA_NUM_THRESHOLD
    <2>1. CASE recv_nonce'[q] = recv_nonce[q]
      BY <1>2, <2>1, ZenonT(30) DEF NInv, NonceWindowTolerant
    <2>2. CASE recv_nonce'[q] # recv_nonce[q]
      <3>1. PICK m \in net : Arrives(p, m)
        BY <2>2, SMTT(30)
      <3>2. q = p
        BY <2>2, <3>1, SMTT(30) DEF Arrives, IInv, TypeOK
      <3>3. m.to = p /\ m.nonce > recv_nonce'[p] + DATA_NUM_THRESHOLD
        BY <2>2, <3>1, <3>2, NonceArrives, ZenonT(30) DEF Arrives
      <3> QED BY <3>1, <3>2, <3>3, SMTT(30)
    <2> QED BY <2>1, <2>2, SMTT(30)
  <1>3. NonceWindowTolerant'
    BY <1>2, SMTT(30) DEF NonceWindowTolerant
  <1> QED BY <1>1, <1>3, SMTT(30) DEF NInv

\* The packets of one call of send_requested_packets use the nonces reserved for it.
LEMMA RequestedNonces ==
    ASSUME IInv, NoncesLast, NEW p \in Peer, NEW max_num \in 1 .. CRYPTO_PACKET_BUFFER_SIZE, NEW S,
           SendRequested(p, max_num, S), NEW m \in net' \ net
    PROVE  m.to = Other(p) /\ m.nonce <= MaxPackets[Other(m.to)]
  <1> DEFINE before(n) == {i \in Unsent(p) : Offset(send_array[p], i) < Offset(send_array[p], n)}
             tried == {n \in Unsent(p) : Cardinality(before(n) \intersect S) < max_num}
  <1>1. /\ S \subseteq tried /\ NoncesLeft(p, Cardinality(tried))
        /\ net' = net \union
               {DataPacket(p, Cardinality(before(n)), n, Lossless(At(send_array[p], n).data)) : n \in S}
    BY Zenon DEF SendRequested
  <1>2. PICK n \in S : m = DataPacket(p, Cardinality(before(n)), n, Lossless(At(send_array[p], n).data))
    BY <1>1, ZenonT(30)
  <1>3. Unsent(p) \subseteq Number
    BY Zenon DEF Unsent, Occupied, Window, Between
  <1>4. \A i : /\ before(i) \in SUBSET Number /\ IsFiniteSet(before(i)) /\ Cardinality(before(i)) \in Nat
               /\ IsFiniteSet(before(i) \intersect S) /\ Cardinality(before(i) \intersect S) \in Nat
    <2>1. ASSUME NEW i PROVE before(i) \in SUBSET Number /\ before(i) \intersect S \in SUBSET Number
      BY <1>3, Zenon
    <2> QED BY <2>1, FiniteNumbers, ZenonT(30)
  <1>5. IsFiniteSet(tried) /\ Cardinality(tried) \in Nat
    <2>1. tried \in SUBSET Number
      BY <1>3, Zenon
    <2> QED BY <2>1, FiniteNumbers, ZenonT(30)
  <1>6. ASSUME NEW i \in before(n) PROVE i \in tried
    <2>1. i \in Unsent(p) /\ Offset(send_array[p], i) < Offset(send_array[p], n)
      BY Zenon
    <2>2. ASSUME NEW j \in before(i) PROVE j \in before(n)
      <3>1. i \in Number /\ j \in Number /\ n \in Number /\ send_array[p].start \in Number
        BY <1>1, <1>2, <1>3, <2>1, PeerParts, ZenonT(30)
      <3>2. Offset(send_array[p], i) \in Nat /\ Offset(send_array[p], j) \in Nat /\ Offset(send_array[p], n) \in Nat
        <4>1. \A x \in Number : Offset(send_array[p], x) \in Number
          BY <3>1, SubType, ZenonT(30) DEF Offset
        <4>2. \A x \in Number : x \in Nat
          BY PacketsArrayAssumption, SMTT(30) DEF Number
        <4> QED BY <3>1, <4>1, <4>2, Zenon
      <3> QED BY <2>1, <3>2, SMTT(30)
    <2>3. before(i) \intersect S \subseteq before(n) \intersect S
      BY <2>2, ZenonT(30)
    <2>4. Cardinality(before(i) \intersect S) <= Cardinality(before(n) \intersect S)
      BY <1>4, <2>3, FS_Subset, ZenonT(30)
    <2>5. Cardinality(before(n) \intersect S) < max_num
      BY <1>1, <1>2, ZenonT(30)
    <2>6. max_num \in Int
      BY PacketsArrayAssumption, SMTT(30)
    <2>7. Cardinality(before(i) \intersect S) < max_num
      <3>1. Cardinality(before(i) \intersect S) \in Nat /\ Cardinality(before(n) \intersect S) \in Nat
        BY <1>4, Zenon
      <3> HIDE DEF before
      <3> QED BY <2>4, <2>5, <2>6, <3>1, SMTT(30)
    <2> QED BY <2>1, <2>7, ZenonT(30)
  <1>7. Cardinality(before(n)) <= Cardinality(tried)
    <2>1. before(n) \subseteq tried
      BY <1>6, ZenonT(30)
    <2> QED BY <1>5, <2>1, FS_Subset, ZenonT(30)
  <1> HIDE DEF before, tried
  <1>8. m.to = Other(p) /\ m.nonce = Advance(sent_nonce[p], Cardinality(before(n)))
    BY <1>2, Zenon DEF DataPacket
  <1> QED BY <1>1, <1>4, <1>5, <1>7, <1>8, NonceSent, ZenonT(30)

LEMMA SendNonces ==
    ASSUME IInv, NInv, NoncesLast, NEW p \in Peer, Send(p)
    PROVE  NInv'
  <1>1. recv_nonce' = recv_nonce
    BY ZenonT(30) DEF Send, WriteLossless, WriteHeldBack, MaxSpeedReached, SendLossy, SendRequest, SendRequested
  <1>2. net \subseteq net'
    BY Zenon DEF Send, WriteLossless, WriteHeldBack, MaxSpeedReached, SendLossy, SendRequest, SendRequested, Transmit
  <1>3. ASSUME NEW m \in net' \ net PROVE m.to = Other(p) /\ m.nonce <= MaxPackets[Other(m.to)]
    <2>1. Retries(p) \in Nat
      BY SMTT(30) DEF Retries
    <2>2. ASSUME m \in Retried(p), NEW n \in Nat, NoncesLeft(p, n) PROVE m.to = Other(p) /\ m.nonce <= MaxPackets[Other(m.to)]
      <3>1. m.to = Other(p) /\ m.nonce = Advance(sent_nonce[p], 0)
        BY <2>2, SMTT(30) DEF Retried, RetryPacket, DataPacket
      <3> QED BY <2>2, <3>1, NonceSent, SMTT(30)
    <2>3. ASSUME NEW ok \in BOOLEAN, WriteLossless(p, ok)
          PROVE  m.to = Other(p) /\ m.nonce <= MaxPackets[Other(m.to)]
      <3> DEFINE packet == DataPacket(p, Retries(p), send_array[p].end, Lossless(written[p]))
      <3>1. NoncesLeft(p, Retries(p) + 1) /\ (m \in Retried(p) \/ m = packet)
        BY <2>3, ZenonT(30) DEF WriteLossless
      <3>2. CASE m = packet
        <4>1. m.to = Other(p) /\ m.nonce = Advance(sent_nonce[p], Retries(p)) /\ Retries(p) <= Retries(p) + 1
          BY <2>1, <3>2, SMTT(30) DEF DataPacket
        <4> QED BY <2>1, <3>1, <4>1, NonceSent, SMTT(30)
      <3> QED BY <2>1, <2>2, <3>1, <3>2, SMTT(30)
    <2>4. ASSUME MaxSpeedReached(p) PROVE m.to = Other(p) /\ m.nonce <= MaxPackets[Other(m.to)]
      <3>1. NoncesLeft(p, Retries(p)) /\ m \in Retried(p)
        BY <2>4, ZenonT(30) DEF MaxSpeedReached
      <3> QED BY <2>1, <2>2, <3>1, SMTT(30)
    <2>5. ASSUME NEW num, NEW body, Transmit(p, num, body)
          PROVE  m.to = Other(p) /\ m.nonce <= MaxPackets[Other(m.to)]
      <3>1. NoncesLeft(p, 1) /\ m = DataPacket(p, 0, num, body)
        BY <2>5, ZenonT(30) DEF Transmit
      <3>2. m.to = Other(p) /\ m.nonce = Advance(sent_nonce[p], 0)
        BY <3>1, Zenon DEF DataPacket
      <3> QED BY <3>1, <3>2, NonceSent, SMTT(30)
    <2>6. ASSUME SendLossy(p) \/ SendRequest(p) PROVE m.to = Other(p) /\ m.nonce <= MaxPackets[Other(m.to)]
      BY <2>5, <2>6, ZenonT(30) DEF SendLossy, SendRequest
    <2>7. ASSUME NEW cc \in BOOLEAN, WriteHeldBack(p, cc) PROVE FALSE
      BY <2>7, ZenonT(30) DEF WriteHeldBack
    <2> QED BY <2>3, <2>4, <2>6, <2>7, RequestedNonces, ZenonT(30) DEF Send
  <1> QED BY <1>1, <1>2, <1>3, NonceStep, ZenonT(30)

LEMMA KillNonces ==
    ASSUME IInv, NoncesLast, NEW p \in Peer, NEW st, NEW start, SendsKill(p, st, start)
    PROVE  net \subseteq net' /\ \A m \in net' \ net : m.to = Other(p) /\ m.nonce <= MaxPackets[Other(m.to)]
  <1>1. ASSUME NEW m \in net' \ net PROVE m.to = Other(p) /\ m.nonce <= MaxPackets[Other(m.to)]
    <2>1. NoncesLeft(p, 1) /\ m = KillPacket(p, start)
      BY Zenon DEF SendsKill
    <2>2. m.to = Other(p) /\ m.nonce = Advance(sent_nonce[p], 0)
      BY <2>1, Zenon DEF KillPacket, DataPacket
    <2> QED BY <2>1, <2>2, NonceSent, SMTT(30)
  <1>2. net \subseteq net'
    BY Zenon DEF SendsKill
  <1> QED BY <1>1, <1>2, ZenonT(30)

LEMMA NextNonces == NoncesLast /\ IInv /\ NInv /\ [Next]_vars => NInv'
  <1> SUFFICES ASSUME NoncesLast, IInv, NInv, [Next]_vars PROVE NInv'
    BY Zenon
  <1>1. CASE UNCHANGED vars
    BY <1>1, Zenon DEF vars, NInv, NonceWindowTolerant
  <1>2. ASSUME NEW p \in Peer, Send(p) PROVE NInv'
    BY <1>2, SendNonces, ZenonT(30)
  <1>3. ASSUME NEW p \in Peer, NEW m \in net, Receive(p, m) PROVE NInv'
    <2>1. Arrives(p, m) /\ net' = net
      BY <1>3, ZenonT(30) DEF Receive, ReceiveBadAck, ReceiveLossy, ReceiveRequest, ReceiveLossless
    <2>2. net \subseteq net' /\ \A n \in net' \ net : FALSE
      BY <2>1, ZenonT(30)
    <2> QED BY <2>1, <2>2, NonceStep, ZenonT(30)
  <1>4. ASSUME NEW p \in Peer, Die(p) PROVE NInv'
    <2>1. recv_nonce' = recv_nonce \/ \E m \in net : Arrives(p, m)
      BY <1>4, ZenonT(30) DEF Die, CryptoKill, KillTimedOut, ReceiveKill, ReceiveKilledInCallback
    <2>2. net' = net \/ \E st, start : SendsKill(p, st, start)
      BY <1>4, ZenonT(30) DEF Die, CryptoKill, KillTimedOut, ReceiveKill, ReceiveKilledInCallback
    <2>3. net \subseteq net' /\ \A m \in net' \ net : m.to = Other(p) /\ m.nonce <= MaxPackets[Other(m.to)]
      BY <2>2, KillNonces, ZenonT(30)
    <2> QED BY <2>1, <2>3, NonceStep, ZenonT(30)
  <1> QED BY <1>1, <1>2, <1>3, <1>4, ZenonT(30) DEF Next

\* The base from which handle_data_packet reconstructs nonces is 0 or more than a
\* threshold behind a packet the peer really encrypted: no packet, however late
\* or often it arrives, moves it past packets delayed by less than a threshold.
THEOREM NonceWindow == ASSUME NoncesLast PROVE Spec => []NonceWindowTolerant
  <1>1. Init => NInv
    BY DEF Init, NInv, NonceWindowTolerant
  <1>2. IInv /\ NInv /\ [Next]_vars => NInv'
    BY NextNonces, Zenon
  <1>3. NInv => NonceWindowTolerant
    BY Zenon DEF NInv
  <1> QED BY <1>1, <1>2, <1>3, Invariance, PTL DEF Spec
-----------------------------------------------------------------------------
(* Order, receipts and the channel *)

\* The invariant of the order of messages holds while the packet numbers last.
THEOREM OrderInvariance == ASSUME NumbersLast PROVE Spec => []OInv
  <1>1. Init => OInv
    BY InitOrder, Zenon
  <1>2. IInv /\ IInv' /\ OInv /\ [Next]_vars => OInv'
    BY NextOrder, Zenon
  <1> QED BY <1>1, <1>2, Invariance, PTL DEF Spec

\* No message is lost: a late, repeated or reordered acknowledgement or request
\* never makes a sender free a packet that the receiver still needs.
THEOREM KeepsWhatIsNeeded == ASSUME NumbersLast PROVE Spec => []NothingLost
  <1>1. IInv /\ OInv => NothingLost
    BY OrderKeeps, Zenon
  <1> QED BY <1>1, Invariance, OrderInvariance, PTL

\* A receipt (cryptpacket_received) is only given for a message the peer's
\* application has, whatever becomes of the peer's connection afterwards.
THEOREM ReceiptsMeanDelivery == ASSUME NumbersLast PROVE Spec => []ReceiptsTruthful
  <1>1. IInv /\ OInv => ReceiptsTruthful
    BY OrderReceipts, Zenon
  <1> QED BY <1>1, Invariance, OrderInvariance, PTL

\* No application sees a gap in the messages of the other (tox.h compares the
\* channel with TCP) before the packet numbers are used up.
THEOREM NoGap == ASSUME NumbersLast PROVE Spec => []DeliversEveryMessage
  <1>1. IInv /\ OInv => DeliversEveryMessage
    BY OrderNoGap, ZenonT(30)
  <1> QED BY <1>1, Invariance, OrderInvariance, PTL

\* The data phase implements a pair of FIFO channels: over a network that loses,
\* repeats and reorders, each application gets the messages of the other in the
\* order they were written, each once, until the connection is killed.
THEOREM Refinement == ASSUME NumbersLast PROVE Spec => ImplementsFifo
  <1>1. Init => Fifo!Init
    BY Zenon DEF Init, Fifo!Init
  <1>2. IInv /\ OInv /\ [Next]_vars => [Fifo!Next]_<<written, delivered>>
    BY FifoStep, Zenon
  <1> QED BY <1>1, <1>2, Invariance, OrderInvariance, PTL DEF Spec, ImplementsFifo, Fifo!Spec
=============================================================================
