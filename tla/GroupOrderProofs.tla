-------------------------- MODULE GroupOrderProofs --------------------------
(***************************************************************************)
(* The lossless packets of a group connection are delivered in the order   *)
(* they were written, each once and whole, for any size of the arrays, any *)
(* fragmentation and any network, on connections that take no fragments    *)
(* back once their message ids have outgrown 16 bits.                      *)
(***************************************************************************)
EXTENDS GroupLosslessProofs
-----------------------------------------------------------------------------
(* Every step keeps the order *)

\* The layout of the ids is not part of the state.
OInv == \E first : LInv(first)

LEMMA InitInOrder == Init => OInv
  <1> SUFFICES ASSUME Init PROVE OInv
    BY Zenon
  <1> DEFINE first == [n \in 1 .. 1 |-> FirstId]
  <1>1. written = <<>> /\ consumed = <<>> /\ send_message_id = FirstId /\ FirstId \in Nat \ {0} /\ net = {}
    BY SizesAssumption, Zenon DEF Init
  <1>2. Len(written) = 0 /\ Len(consumed) = 0
    BY <1>1, Zenon
  <1>3. first \in [1 .. 1 -> Nat] /\ first[1] = FirstId
    BY <1>1
  <1> HIDE DEF first
  <1>4. Layout(first, written, send_message_id)
    BY <1>1, <1>2, <1>3 DEF Layout
  <1>5. \A x \in Index : send_array[x] = Empty /\ recv_array[x] = Empty
    BY Zenon DEF Init
  <1>6. Kept(first, written, send_array) /\ Kept(first, written, recv_array) /\ Carried(first, written, net)
    BY <1>1, <1>5, Zenon DEF Kept, Carried
  <1>7. InOrder(first)
    <2>1. consumed \in Seq(PieceSeqs)
      BY <1>1
    <2>2. received_message_id + 1 = first[Current] /\ last_chunk_id = 0
      BY <1>1, <1>2, <1>3 DEF Init, Current
    <2>3. \A x \in Index : recv_array[x].type = "none"
      BY <1>5, EmptyType, Zenon
    <2> QED BY <1>2, <2>1, <2>2, <2>3 DEF InOrder
  <1> QED BY <1>4, <1>6, <1>7, Zenon DEF OInv, LInv

\* A packet that is accepted takes the next ids.
LEMMA GrowsInOrder ==
    ASSUME KInv, NEW first, LInv(first), NEW c \in ChunkCounts,
           written' = Append(written, c), send_message_id' = send_message_id + (IF c = 1 THEN 1 ELSE c + 1), UNCHANGED receiverVars,
           NEW more, more = [n \in 1 .. Len(written) + 2 |-> IF n = Len(written) + 2 THEN send_message_id' ELSE first[n]],
           Kept(more, written', send_array'), Carried(more, written', net')
    PROVE  LInv(more)'
  <1>1. /\ written \in Seq(ChunkCounts) /\ send_message_id \in Nat /\ c \in Nat
        /\ Layout(first, written, send_message_id) /\ Kept(first, written, recv_array)
    BY SizesAssumption DEF KInv, Types, LInv
  <1>2. send_message_id' \in Nat
    BY <1>1
  <1>3. /\ Len(written') = Len(written) + 1
        /\ Layout(more, written', send_message_id')
        /\ \A n \in 1 .. Len(written) + 1 : more[n] = first[n]
        /\ \A n \in 1 .. Len(written) : written'[n] = written[n] /\ \A id : Made(more, written', n, id) = Made(first, written, n, id)
        /\ \A e : Genuine(first, written, e) => Genuine(more, written', e)
    <2>1. Grown(first, written, send_message_id, more, written', send_message_id')
      BY <1>1, <1>2, LayoutGrows, Zenon
    <2> QED BY <2>1, Zenon DEF Grown
  <1>4. /\ received_message_id' = received_message_id /\ last_chunk_id' = last_chunk_id /\ recv_array' = recv_array
        /\ consumed' = consumed /\ refused' = refused /\ shadowed' = shadowed
    BY Zenon DEF receiverVars
  <1>5. Kept(more, written', recv_array')
    BY <1>1, <1>3, <1>4, Zenon DEF Kept
  <1>6. ASSUME ~shadowed PROVE InOrder(more)'
    <2>1. InOrder(first)
      BY <1>6, Zenon DEF LInv
    <2>2. Len(written) \in Nat /\ Len(consumed) \in Nat /\ Len(consumed) <= Len(written) /\ Current \in 1 .. Len(written) + 1
      BY <1>1, <2>1 DEF InOrder, Current
    <2>3. Current' = Current /\ more[Current] = first[Current]
      BY <1>3, <1>4, <2>2, Zenon DEF Current
    <2>4. ASSUME NEW n \in 1 .. Len(consumed) PROVE consumed[n] = Pieces(n)'
      <3>1. n \in 1 .. Len(written)
        BY <2>2
      <3>2. written'[n] = written[n]
        BY <1>3, <3>1, Zenon
      <3>3. Pieces(n)' = Pieces(n)
        BY <3>2, Zenon DEF Pieces
      <3> QED BY <2>1, <3>3, Zenon DEF InOrder
    <2>5. ASSUME last_chunk_id # 0 PROVE UnderWay(more)'
      <3>1. UnderWay(first)
        BY <2>1, <2>5, Zenon DEF InOrder
      <3>2. Current \in 1 .. Len(written) /\ Current <= Len(written) + 1
        BY <2>2, <3>1 DEF UnderWay
      <3>3. written'[Current] = written[Current] /\ \A id : Made(more, written', Current, id) = Made(first, written, Current, id)
        BY <1>3, <3>2, Zenon
      <3>4. AllStored(first) => AllStored(more)'
        BY <1>4, <2>3, <3>3, Zenon DEF AllStored
      <3>5. NoneStored(first) => NoneStored(more)'
        BY <1>4, <2>3, <3>3, Zenon DEF NoneStored
      <3> QED BY <1>3, <1>4, <2>3, <3>1, <3>2, <3>3, <3>4, <3>5, Zenon DEF UnderWay
    <2>6. Len(consumed) <= Len(written')
      BY <1>3, <2>2
    <2>7. last_chunk_id = 0 => received_message_id + 1 = more[Current] /\ \A x \in Index : recv_array[x].type # "fragment"
      BY <2>1, <2>3, Zenon DEF InOrder
    <2>8. consumed \in Seq(PieceSeqs) /\ \A x \in Index : recv_array[x].type = "packet" => recv_array[x].id > received_message_id
      BY <2>1, Zenon DEF InOrder
    <2> QED BY <1>4, <2>3, <2>4, <2>5, <2>6, <2>7, <2>8, Zenon DEF InOrder
  <1> QED BY <1>3, <1>4, <1>5, <1>6, Zenon DEF LInv

\* Other steps of the sender.
LEMMA SenderInOrder ==
    ASSUME NEW first, LInv(first), UNCHANGED <<written, send_message_id, receiverVars>>,
           Kept(first, written, send_array'), Carried(first, written, net')
    PROVE  LInv(first)'
  <1>1. /\ received_message_id' = received_message_id /\ last_chunk_id' = last_chunk_id /\ recv_array' = recv_array
        /\ consumed' = consumed /\ refused' = refused /\ shadowed' = shadowed
    BY Zenon DEF receiverVars
  <1>2. ~shadowed => InOrder(first)'
    <2> SUFFICES ASSUME ~shadowed PROVE InOrder(first)'
      BY Zenon
    <2>1. InOrder(first)
      BY Zenon DEF LInv
    <2> QED BY <1>1, <2>1, Zenon DEF InOrder, UnderWay, AllStored, NoneStored, Current, Pieces
  <1> QED BY <1>1, <1>2, Zenon DEF LInv

LEMMA ReceiverInOrder ==
    ASSUME NEW first, LInv(first), UNCHANGED senderVars,
           Kept(first, written, recv_array'), Carried(first, written, net'), ~shadowed' => InOrder(first)'
    PROVE  LInv(first)'
  BY Zenon DEF LInv, senderVars

LEMMA SendPacketInOrder ==
    ASSUME KInv, KInv', OInv, 1 \in ChunkCounts, NEW sent \in BOOLEAN, SendPacket(sent) PROVE OInv'
  <1>1. PICK first : LInv(first)
    BY Zenon DEF OInv
  <1> DEFINE w == written
             n == Len(written) + 1
             slot == gcc_get_array_index(send_message_id)
             entry == Entry(send_message_id, "packet", <<<<Len(written) + 1, 1>>>>)
  <1>2. PICK more : more = [k \in 1 .. Len(written) + 2 |-> IF k = Len(written) + 2 THEN send_message_id' ELSE first[k]]
    OBVIOUS
  <1>3. /\ send_array' = [send_array EXCEPT ![slot] = entry]
        /\ net' = net \cup {Lossless(entry)} \/ net' = net
        /\ send_message_id' = send_message_id + 1
        /\ written' = Append(written, 1)
        /\ UNCHANGED receiverVars
    BY Zenon DEF SendPacket, CanAdd, add_to_send_array
  <1>4. /\ written \in Seq(ChunkCounts) /\ send_message_id \in Nat /\ send_message_id' \in Nat
        /\ Layout(first, written, send_message_id) /\ Kept(first, written, send_array) /\ Carried(first, written, net)
        /\ send_array \in [Index -> Entries]
    BY <1>1, Zenon DEF KInv, Types, LInv
  <1>5. /\ Len(written') = Len(written) + 1 /\ written'[n] = 1
        /\ more[n] = send_message_id
        /\ \A e : Genuine(first, written, e) => Genuine(more, written', e)
    <2>1. send_message_id' = send_message_id + (IF 1 = 1 THEN 1 ELSE 1 + 1)
      BY <1>3, Zenon
    <2>2. Grown(first, written, send_message_id, more, written', send_message_id')
      BY <1>2, <1>3, <1>4, <2>1, LayoutGrows, Zenon
    <2>3. written'[n] = 1
      BY <1>3, <1>4
    <2> QED BY <2>2, <2>3, Zenon DEF Grown
  <1>6. Genuine(more, written', entry) /\ entry.id = send_message_id
    <2>1. entry.id = send_message_id
      BY Zenon DEF Entry
    <2>2. Size(written', n) = 1
      BY <1>5, Zenon DEF Size
    <2>3. entry.id \in OfPacket(more, written', n)
      BY <1>4, <1>5, <2>1, <2>2 DEF OfPacket
    <2>4. entry = Made(more, written', n, entry.id)
      BY <1>5, <2>1, Zenon DEF Made
    <2>5. n \in 1 .. Len(written')
      BY <1>4, <1>5
    <2> QED BY <2>1, <2>3, <2>4, <2>5, Zenon DEF Genuine
  <1> HIDE DEF entry
  <1>7. Kept(more, written', send_array')
    <2> SUFFICES ASSUME NEW x \in Index, send_array'[x] # Empty
                 PROVE  Genuine(more, written', send_array'[x]) /\ gcc_get_array_index(send_array'[x].id) = x
      BY Zenon DEF Kept
    <2>1. slot \in Index
      BY <1>4, SlotType
    <2>2. CASE x = slot
      BY <1>3, <1>4, <1>6, <2>1, <2>2, Zenon
    <2>3. CASE x # slot
      <3>1. send_array'[x] = send_array[x]
        BY <1>3, <1>4, <2>3, Zenon
      <3> QED BY <1>4, <1>5, <3>1, Zenon DEF Kept
    <2> QED BY <2>2, <2>3, Zenon
  <1>8. Carried(more, written', net')
    <2> SUFFICES ASSUME NEW m \in net', m.kind = "lossless" PROVE m.entry = Empty \/ Genuine(more, written', m.entry)
      BY Zenon DEF Carried
    <2>1. CASE m \in net
      BY <1>4, <1>5, <2>1, Zenon DEF Carried
    <2>2. CASE m = Lossless(entry)
      BY <1>6, <2>2, Zenon DEF Lossless
    <2> QED BY <1>3, <2>1, <2>2, Zenon
  <1>9. LInv(more)'
    <2>1. send_message_id' = send_message_id + (IF 1 = 1 THEN 1 ELSE 1 + 1)
      BY <1>3, Zenon
    <2> QED BY <1>1, <1>2, <1>3, <1>7, <1>8, <2>1, GrowsInOrder
  <1> QED BY <1>9, Zenon DEF OInv

LEMMA SendFragmentsInOrder ==
    ASSUME KInv, KInv', OInv, NEW count \in ChunkCounts, count # 1, SendFragments(count) PROVE OInv'
  <1>1. PICK first : LInv(first)
    BY Zenon DEF OInv
  <1> DEFINE n == Len(written) + 1
             array == WithFragments(n, count, count + 1)
             slot(i) == gcc_get_array_index(send_message_id + i - 1)
             part(i) == Fragment(send_message_id + i - 1, n, i, count)
  <1>2. PICK more : more = [k \in 1 .. Len(written) + 2 |-> IF k = Len(written) + 2 THEN send_message_id' ELSE first[k]]
    OBVIOUS
  <1>3. /\ send_array' = array
        /\ net' = net \cup {Lossless(array[gcc_get_array_index(send_message_id + i)]) : i \in 0 .. count}
        /\ send_message_id' = send_message_id + count + 1
        /\ written' = Append(written, count)
        /\ UNCHANGED receiverVars
    BY Zenon DEF SendFragments
  <1>4. /\ written \in Seq(ChunkCounts) /\ send_message_id \in Nat /\ send_message_id' \in Nat /\ Types
        /\ Layout(first, written, send_message_id) /\ Kept(first, written, send_array) /\ Carried(first, written, net)
    BY <1>1, Zenon DEF KInv, Types, LInv
  <1>5. count \in 1 .. GCC_BUFFER_SIZE - 1 /\ count + 1 \in 0 .. count + 1 /\ count \in Nat /\ n \in Nat
    BY <1>4, SizesAssumption
  <1>6. send_message_id' = send_message_id + (IF count = 1 THEN 1 ELSE count + 1)
    BY <1>3, <1>4, <1>5
  <1>7. /\ Len(written') = Len(written) + 1 /\ written'[n] = count
        /\ more[n] = send_message_id
        /\ \A e : Genuine(first, written, e) => Genuine(more, written', e)
    <2>1. Grown(first, written, send_message_id, more, written', send_message_id')
      BY <1>2, <1>3, <1>4, <1>6, LayoutGrows, Zenon
    <2>2. written'[n] = count
      BY <1>3, <1>4
    <2> QED BY <2>1, <2>2, Zenon DEF Grown
  <1>8. /\ \A i \in 1 .. count + 1 : array[slot(i)] = part(i)
        /\ \A x \in Index : \/ array[x] = send_array[x] /\ \A i \in 1 .. count + 1 : x # slot(i)
                            \/ \E i \in 1 .. count + 1 : x = slot(i) /\ array[x] = part(i)
    <2>1. Placed(array, n, count, count + 1)
      BY <1>4, <1>5, FragmentsPlaced, Zenon
    <2> QED BY <2>1, Zenon DEF Placed
  <1> HIDE DEF array, n
  <1>9. ASSUME NEW i \in 1 .. count + 1
        PROVE  Genuine(more, written', part(i)) /\ part(i).id = send_message_id + i - 1
    <2>1. part(i).id = send_message_id + i - 1
      BY Zenon DEF Fragment, Entry
    <2>2. Size(written', n) = count + 1
      BY <1>7, Zenon DEF Size
    <2>3. part(i).id \in OfPacket(more, written', n)
      BY <1>4, <1>5, <1>7, <2>1, <2>2 DEF OfPacket
    <2>4. part(i).id - more[n] + 1 = i
      BY <1>4, <1>7, <2>1
    <2>5. Made(more, written', n, part(i).id) = Fragment(part(i).id, n, part(i).id - more[n] + 1, written'[n])
      BY <1>7, Zenon DEF Made
    <2>6. part(i) = Made(more, written', n, part(i).id)
      BY <1>7, <2>1, <2>4, <2>5, Zenon
    <2>7. n \in 1 .. Len(written')
      BY <1>4, <1>7 DEF n
    <2> QED BY <2>1, <2>3, <2>6, <2>7, Zenon DEF Genuine
  <1>10. Kept(more, written', send_array')
    <2> SUFFICES ASSUME NEW x \in Index, send_array'[x] # Empty
                 PROVE  Genuine(more, written', send_array'[x]) /\ gcc_get_array_index(send_array'[x].id) = x
      BY Zenon DEF Kept
    <2>1. CASE send_array'[x] = send_array[x]
      BY <1>4, <1>7, <2>1, Zenon DEF Kept
    <2>2. CASE \E i \in 1 .. count + 1 : x = slot(i) /\ send_array'[x] = part(i)
      BY <1>9, <2>2, Zenon
    <2> QED BY <1>3, <1>8, <2>1, <2>2, Zenon
  <1>11. Carried(more, written', net')
    <2> SUFFICES ASSUME NEW m \in net', m.kind = "lossless" PROVE m.entry = Empty \/ Genuine(more, written', m.entry)
      BY Zenon DEF Carried
    <2>1. CASE m \in net
      BY <1>4, <1>7, <2>1, Zenon DEF Carried
    <2>2. ASSUME NEW i \in 0 .. count, m = Lossless(array[gcc_get_array_index(send_message_id + i)])
          PROVE  Genuine(more, written', m.entry)
      <3>1. i + 1 \in 1 .. count + 1 /\ send_message_id + (i + 1) - 1 = send_message_id + i
        BY <1>4, <1>5
      <3>2. array[gcc_get_array_index(send_message_id + i)] = part(i + 1)
        BY <1>8, <3>1, Zenon
      <3>3. Genuine(more, written', part(i + 1))
        BY <1>9, <3>1, Zenon
      <3> QED BY <2>2, <3>2, <3>3, Zenon DEF Lossless
    <2> QED BY <1>3, <2>1, <2>2, Zenon
  <1>12. LInv(more)'
    <2>1. count \in ChunkCounts
      BY Zenon
    <2> QED BY <1>1, <1>2, <1>3, <1>6, <1>10, <1>11, <2>1, GrowsInOrder, Zenon
  <1> QED BY <1>12, Zenon DEF OInv

LEMMA OtherSenderInOrder ==
    ASSUME KInv, OInv, IdsLast,
           \/ \E count \in ChunkCounts : SendFragmentsFails(count)
           \/ \E due \in SUBSET Index : Resend(due)
           \/ SendArrayStuck
           \/ \E m \in net : ReceiveAck(m) \/ ReceiveRequest(m)
    PROVE  OInv'
  <1>1. PICK first : LInv(first)
    BY Zenon DEF OInv
  <1>2. /\ Types /\ send_message_id \in Nat /\ send_array \in [Index -> Entries] /\ net \subseteq Packets
        /\ Kept(first, written, send_array) /\ Carried(first, written, net)
    BY <1>1, Zenon DEF KInv, Types, LInv
  <1>3. \A x \in Index : send_array[x] # Empty => Genuine(first, written, send_array[x])
    BY <1>2, Zenon DEF Kept
  <1>4. ASSUME NEW packets, \A m \in packets : \E x \in Index : m = Lossless(send_array[x]), net' = net \cup packets
        PROVE  Carried(first, written, net')
    <2> SUFFICES ASSUME NEW m \in net', m.kind = "lossless" PROVE m.entry = Empty \/ Genuine(first, written, m.entry)
      BY Zenon DEF Carried
    <2>1. CASE m \in net
      BY <1>2, <2>1, Zenon DEF Carried
    <2>2. CASE m \in packets
      <3>1. PICK x \in Index : m = Lossless(send_array[x])
        BY <1>4, <2>2, Zenon
      <3>2. m.entry = send_array[x]
        BY <3>1, Zenon DEF Lossless
      <3> QED BY <1>3, <3>2, Zenon
    <2> QED BY <1>4, <2>1, <2>2, Zenon
  <1>5. ASSUME NEW count \in ChunkCounts, SendFragmentsFails(count) PROVE OInv'
    <2>1. send_array' = send_array /\ send_message_id' = send_message_id % U16
      BY <1>2, <1>5, TakenBack, Zenon
    <2>2. send_message_id' = send_message_id
      BY <1>2, <1>5, <2>1, SlotLow, Zenon DEF IdsLast, TakesBack
    <2>3. UNCHANGED <<written, receiverVars, net>>
      BY <1>5, Zenon DEF SendFragmentsFails
    <2>4. LInv(first)'
      BY <1>1, <1>2, <2>1, <2>2, <2>3, SenderInOrder, Zenon
    <2> QED BY <2>4, Zenon DEF OInv
  <1>6. ASSUME NEW due \in SUBSET Index, Resend(due) PROVE OInv'
    <2>1. UNCHANGED <<senderVars, receiverVars>> /\ net' = net \cup {Lossless(send_array[i]) : i \in due}
      BY <1>6, Zenon DEF Resend
    <2>2. \A m \in {Lossless(send_array[i]) : i \in due} : \E x \in Index : m = Lossless(send_array[x])
      BY Zenon
    <2>3. Carried(first, written, net')
      BY <1>4, <2>1, <2>2, Zenon
    <2>4. UNCHANGED <<written, send_message_id, receiverVars>> /\ send_array' = send_array
      BY <2>1, Zenon DEF senderVars
    <2>5. LInv(first)'
      BY <1>1, <1>2, <2>3, <2>4, SenderInOrder, Zenon
    <2> QED BY <2>5, Zenon DEF OInv
  <1>7. CASE SendArrayStuck
    <2>1. UNCHANGED <<send_message_id, send_array, written, receiverVars, net>>
      BY <1>7, Zenon DEF SendArrayStuck
    <2>2. LInv(first)'
      BY <1>1, <1>2, <2>1, SenderInOrder, Zenon
    <2> QED BY <2>2, Zenon DEF OInv
  <1>8. ASSUME NEW m \in net, ReceiveAck(m) PROVE OInv'
    <2>1. /\ UNCHANGED <<send_message_id, written, receiverVars, net>>
          /\ send_array' = send_array \/ send_array' = [send_array EXCEPT ![gcc_get_array_index(m.id)] = Empty]
      BY <1>8, Zenon DEF ReceiveAck, gcc_handle_ack
    <2>2. \A x \in Index : send_array'[x] = send_array[x] \/ send_array'[x] = Empty
      BY <1>2, <2>1, Zenon
    <2>3. Kept(first, written, send_array')
      BY <1>2, <2>2, Zenon DEF Kept
    <2>4. LInv(first)'
      BY <1>1, <1>2, <2>1, <2>3, SenderInOrder, Zenon
    <2> QED BY <2>4, Zenon DEF OInv
  <1>9. ASSUME NEW m \in net, ReceiveRequest(m) PROVE OInv'
    <2> DEFINE x == gcc_get_array_index(m.id)
    <2>1. UNCHANGED <<senderVars, receiverVars>> /\ (net' = net \cup {Lossless(send_array[x])} \/ net' = net)
      BY <1>9, Zenon DEF ReceiveRequest
    <2>2. m.id \in Nat
      BY <1>2, <1>9, Zenon DEF ReceiveRequest, Packets
    <2>3. x \in Index
      BY <2>2, SlotType
    <2>4. Carried(first, written, net')
      BY <1>2, <1>4, <2>1, <2>3
    <2>5. UNCHANGED <<written, send_message_id, receiverVars>> /\ send_array' = send_array
      BY <2>1, Zenon DEF senderVars
    <2>6. LInv(first)'
      BY <1>1, <1>2, <2>4, <2>5, SenderInOrder, Zenon
    <2> QED BY <2>6, Zenon DEF OInv
  <1> QED BY <1>5, <1>6, <1>7, <1>8, <1>9, Zenon

\* The state of a receiver that has put no packet over a copy of it.
LEMMA Standing ==
    ASSUME KInv, NEW first, LInv(first), ~shadowed
    PROVE  /\ written \in Seq(ChunkCounts) /\ send_message_id \in Nat /\ received_message_id \in Nat
           /\ Layout(first, written, send_message_id) /\ Kept(first, written, recv_array) /\ Carried(first, written, net)
           /\ InOrder(first) /\ recv_array \in [Index -> Entries] /\ net \subseteq Packets
           /\ GCC_BUFFER_SIZE \in Nat /\ Len(written) \in Nat /\ Len(consumed) \in Nat /\ Current \in 1 .. Len(written) + 1
           /\ NextFragment = received_message_id + 1
  <1>1. /\ written \in Seq(ChunkCounts) /\ send_message_id \in Nat /\ received_message_id \in Nat
        /\ recv_array \in [Index -> Entries] /\ net \subseteq Packets /\ GCC_BUFFER_SIZE \in Nat
    BY SizesAssumption, Zenon DEF KInv, Types
  <1>2. /\ Layout(first, written, send_message_id) /\ Kept(first, written, recv_array) /\ Carried(first, written, net)
        /\ InOrder(first)
    BY Zenon DEF LInv
  <1>3. Len(written) \in Nat /\ Len(consumed) \in Nat /\ Len(consumed) <= Len(written)
    BY <1>1, <1>2 DEF InOrder
  <1>4. Current \in 1 .. Len(written) + 1
    BY <1>3 DEF Current
  <1>5. NextFragment = received_message_id + 1
    BY <1>2, Zenon DEF NextFragment, InOrder, UnderWay
  <1> QED BY <1>1, <1>2, <1>3, <1>4, <1>5, Zenon

\* A packet that is given to its handler, when nothing else was under way.
LEMMA Delivered ==
    ASSUME KInv, NEW first, LInv(first), ~shadowed, Current \in 1 .. Len(written), written' = written,
           consumed' = Append(consumed, Pieces(Current)), received_message_id' + 1 = first[Current + 1], last_chunk_id' = 0,
           \A x \in Index : recv_array'[x].type # "fragment",
           \A x \in Index : recv_array'[x].type = "packet" => recv_array'[x].id > received_message_id'
    PROVE  InOrder(first)'
  <1>1. /\ written \in Seq(ChunkCounts) /\ Len(written) \in Nat /\ InOrder(first)
        /\ send_message_id \in Nat /\ Layout(first, written, send_message_id)
    BY Standing, Zenon
  <1>2. consumed \in Seq(PieceSeqs) /\ Len(consumed) \in Nat
    BY <1>1 DEF InOrder
  <1>3. Pieces(Current) \in PieceSeqs
    <2>1. written[Current] \in Nat
      BY <1>1, LayoutFacts, Zenon
    <2>2. \A i \in 1 .. written[Current] : <<Current, i>> \in Nat \X Nat
      BY <1>1
    <2> QED BY <2>1, <2>2 DEF Pieces, PieceSeqs
  <1>4. consumed' \in Seq(PieceSeqs) /\ Len(consumed') = Len(consumed) + 1
    BY <1>2, <1>3
  <1>5. Current' = Current + 1 /\ Len(consumed') <= Len(written)
    BY <1>1, <1>2, <1>4 DEF Current
  <1>6. ASSUME NEW n \in 1 .. Len(consumed') PROVE consumed'[n] = Pieces(n)'
    <2>1. Pieces(n)' = Pieces(n)
      BY Zenon DEF Pieces
    <2>2. CASE n = Current
      BY <1>2, <1>3, <2>1, <2>2 DEF Current
    <2>3. CASE n # Current
      <3>1. n \in 1 .. Len(consumed)
        BY <1>2, <1>4, <2>3 DEF Current
      <3>2. consumed'[n] = consumed[n]
        BY <1>2, <1>3, <3>1
      <3> QED BY <1>1, <2>1, <3>1, <3>2, Zenon DEF InOrder
    <2> QED BY <2>2, <2>3, Zenon
  <1> QED BY <1>4, <1>5, <1>6, Zenon DEF InOrder

\* Nothing that was carried or stored is lost of sight by a step of the receiver.
LEMMA ReceiverCarries ==
    ASSUME NEW first, LInv(first),
           \A x \in Index : recv_array'[x] = recv_array[x] \/ recv_array'[x] = Empty,
           \A m \in net' : m \in net \/ m.kind = "ack"
    PROVE  Kept(first, written, recv_array') /\ Carried(first, written, net')
  <1>1. Kept(first, written, recv_array) /\ Carried(first, written, net)
    BY Zenon DEF LInv
  <1>2. Kept(first, written, recv_array')
    BY <1>1, Zenon DEF Kept
  <1>3. Carried(first, written, net')
    BY <1>1, Zenon DEF Carried
  <1> QED BY <1>2, <1>3, Zenon

LEMMA ReceiveNextInOrder ==
    ASSUME KInv, OInv, NEW m \in net, NEW ok \in BOOLEAN, ReceiveNext(m, ok) PROVE OInv'
  <1>1. PICK first : LInv(first)
    BY Zenon DEF OInv
  <1> DEFINE e == m.entry
             idx == gcc_get_array_index(m.entry.id)
  <1>2. /\ m.kind = "lossless" /\ e.type = "packet" /\ e.id = received_message_id + 1
        /\ received_message_id' = received_message_id + 1
        /\ consumed' = Append(consumed, e.piece)
        /\ shadowed' = (shadowed \/ ~IsEmpty(recv_array[idx]))
        /\ net' = net \cup {Ack("GR_ACK_RECV", e.id)} \/ net' = net
        /\ UNCHANGED <<last_chunk_id, recv_array, senderVars>>
    BY Zenon DEF ReceiveNext
  <1>3. Kept(first, written, recv_array') /\ Carried(first, written, net')
    BY <1>1, <1>2, ReceiverCarries DEF Ack
  <1>4. ASSUME ~shadowed' PROVE InOrder(first)'
    <2>1. ~shadowed /\ IsEmpty(recv_array[idx])
      BY <1>2, <1>4
    <2>2. /\ written \in Seq(ChunkCounts) /\ send_message_id \in Nat /\ received_message_id \in Nat
          /\ Layout(first, written, send_message_id) /\ Kept(first, written, recv_array) /\ Carried(first, written, net)
          /\ InOrder(first)
      BY <1>1, <2>1, Standing, Zenon
    <2>3. Genuine(first, written, e)
      <3>1. e # Empty
        BY <1>2, EmptyType, Zenon
      <3> QED BY <1>2, <2>2, <3>1, Zenon DEF Carried
    <2> HIDE DEF e
    <2>4. /\ Current \in 1 .. Len(written) /\ e.id \in OfPacket(first, written, Current)
          /\ e = Made(first, written, Current, e.id)
          /\ last_chunk_id = 0 /\ e.id = first[Current]
      BY <1>1, <1>2, <2>1, <2>3, NextPacket, Zenon
    <2>5. written[Current] = 1 /\ e.piece = <<<<Current, 1>>>>
      BY <1>2, <2>2, <2>4, MadeFacts
    <2>6. Pieces(Current) = e.piece
      BY <2>5 DEF Pieces
    <2>7. first[Current + 1] = received_message_id' + 1
      <3>1. first[Current + 1] = first[Current] + Size(written, Current)
        BY <2>2, <2>4, Zenon DEF Layout
      <3>2. Size(written, Current) = 1
        BY <2>5, Zenon DEF Size
      <3> QED BY <1>2, <2>2, <2>4, <3>1, <3>2, Zenon
    <2>8. \A x \in Index : recv_array'[x].type # "fragment"
      BY <1>2, <2>2, <2>4, Zenon DEF InOrder
    <2>9. ASSUME NEW x \in Index, recv_array'[x].type = "packet" PROVE recv_array'[x].id > received_message_id'
      <3>1. recv_array[x].id > received_message_id /\ recv_array[x] # Empty
        BY <1>2, <2>2, <2>9, EmptyType, Zenon DEF InOrder
      <3>2. gcc_get_array_index(recv_array[x].id) = x /\ recv_array[x].id \in Nat
        BY <2>2, <3>1, GenuineFacts, Zenon DEF Kept
      <3>3. recv_array[x].id # received_message_id + 1
        BY <1>2, <2>1, <2>9, <3>2, Zenon DEF e, IsEmpty
      <3> QED BY <1>2, <2>2, <3>1, <3>2, <3>3, SMTT(30)
    <2>10. written' = written /\ last_chunk_id' = 0 /\ consumed' = Append(consumed, Pieces(Current))
      BY <1>2, <2>4, <2>6, Zenon DEF senderVars
    <2> QED BY <1>1, <2>1, <2>4, <2>7, <2>8, <2>9, <2>10, Delivered, ZenonT(30)
  <1>5. LInv(first)'
    BY <1>1, <1>2, <1>3, <1>4, ReceiverInOrder, Zenon
  <1> QED BY <1>5, Zenon DEF OInv

LEMMA CheckRecvArrayInOrder ==
    ASSUME KInv, OInv, NEW ok \in BOOLEAN, CheckRecvArray(ok) PROVE OInv'
  <1>1. PICK first : LInv(first)
    BY Zenon DEF OInv
  <1> DEFINE idx == gcc_get_array_index(received_message_id + 1)
             e == recv_array[idx]
  <1>2. /\ last_chunk_id = 0 /\ ~IsEmpty(e) /\ UNCHANGED <<last_chunk_id, shadowed, senderVars>>
        /\ recv_array' = [recv_array EXCEPT ![idx] = Empty]
        /\ net' = net \cup {Ack("GR_ACK_RECV", Empty.id)} \/ net' = net \cup {Ack("GR_ACK_REQ", Empty.id)} \/ net' = net
        /\ \/ received_message_id' = received_message_id + 1 /\ consumed' = Append(consumed, e.piece)
           \/ received_message_id' = received_message_id /\ consumed' = consumed
    BY Zenon DEF CheckRecvArray, Request
  <1>3. recv_array \in [Index -> Entries] /\ received_message_id \in Nat /\ idx \in Index
    BY SlotType DEF KInv, Types
  <1>4. \A x \in Index : recv_array'[x] = IF x = idx THEN Empty ELSE recv_array[x]
    BY <1>2, <1>3, Zenon
  <1>5. Kept(first, written, recv_array') /\ Carried(first, written, net')
    <2>1. \A x \in Index : recv_array'[x] = recv_array[x] \/ recv_array'[x] = Empty
      BY <1>4, Zenon
    <2>2. \A m \in net' : m \in net \/ m.kind = "ack"
      BY <1>2 DEF Ack
    <2> QED BY <1>1, <2>1, <2>2, ReceiverCarries, Zenon
  <1>6. ASSUME ~shadowed' PROVE InOrder(first)'
    <2>1. ~shadowed
      BY <1>2, <1>6, Zenon
    <2>2. /\ written \in Seq(ChunkCounts) /\ send_message_id \in Nat
          /\ Layout(first, written, send_message_id) /\ Kept(first, written, recv_array) /\ InOrder(first)
      BY <1>1, <2>1, Standing, Zenon
    <2>3. e.id = received_message_id + 1
      BY <1>1, <1>2, <2>1, Proper, Zenon DEF ProperSequence
    <2>4. Genuine(first, written, e)
      <3>1. e # Empty
        BY <1>2, EmptyType, Zenon
      <3> QED BY <1>3, <2>2, <3>1, Zenon DEF Kept
    <2>5. /\ Current \in 1 .. Len(written) /\ e.id \in OfPacket(first, written, Current)
          /\ e = Made(first, written, Current, e.id)
          /\ e.id = first[Current] /\ e.type \in {"packet", "fragment"}
      BY <1>1, <1>2, <2>1, <2>2, <2>3, <2>4, NextPacket, GenuineFacts, ZenonT(30)
    <2>6. \A x \in Index : recv_array[x].type # "fragment"
      BY <1>2, <2>2, Zenon DEF InOrder
    <2>7. \A x \in Index : recv_array'[x].type # "fragment"
      BY <1>4, <2>6, EmptyType, Zenon
    <2>8. \A x \in Index : recv_array'[x].type = "packet" => x # idx /\ recv_array[x].type = "packet" /\ recv_array'[x] = recv_array[x]
      BY <1>4, EmptyType, Zenon
    <2>9. CASE received_message_id' = received_message_id /\ consumed' = consumed
      <3>1. Current' = Current /\ written' = written
        BY <1>2, <2>9, Zenon DEF Current, senderVars
      <3>2. \A n : Pieces(n)' = Pieces(n)
        BY <3>1, Zenon DEF Pieces
      <3> QED BY <1>2, <2>2, <2>7, <2>8, <2>9, <3>1, <3>2, Zenon DEF InOrder
    <2>10. CASE received_message_id' = received_message_id + 1 /\ consumed' = Append(consumed, e.piece)
      <3>1. e.type = "packet"
        BY <1>3, <2>5, <2>6, Zenon
      <3> HIDE DEF e
      <3>2. written[Current] = 1 /\ e.piece = <<<<Current, 1>>>>
        <4>1. /\ e.type = IF written[Current] = 1 THEN "packet" ELSE "fragment"
              /\ written[Current] = 1 => e.piece = <<<<Current, 1>>>>
          BY <2>2, <2>5, MadeFacts
        <4> QED BY <3>1, <4>1, Zenon
      <3>3. Pieces(Current) = e.piece
        BY <3>2 DEF Pieces
      <3>4. first[Current + 1] = received_message_id' + 1
        <4>1. first[Current + 1] = first[Current] + Size(written, Current)
          BY <2>2, <2>5, Zenon DEF Layout
        <4>2. Size(written, Current) = 1
          BY <3>2, Zenon DEF Size
        <4> QED BY <1>3, <2>3, <2>5, <2>10, <4>1, <4>2, Zenon
      <3>5. ASSUME NEW x \in Index, recv_array'[x].type = "packet" PROVE recv_array'[x].id > received_message_id'
        <4>1. x # idx /\ recv_array'[x] = recv_array[x] /\ recv_array[x].id > received_message_id /\ recv_array[x] # Empty
          BY <2>2, <2>8, <3>5, EmptyType, Zenon DEF InOrder
        <4>2. gcc_get_array_index(recv_array[x].id) = x /\ recv_array[x].id \in Nat
          BY <2>2, <4>1, GenuineFacts, Zenon DEF Kept
        <4>3. recv_array[x].id # received_message_id + 1
          BY <4>1, <4>2, Zenon
        <4> QED BY <1>3, <2>10, <4>1, <4>2, <4>3, SMTT(30)
      <3>6. written' = written /\ last_chunk_id' = 0 /\ consumed' = Append(consumed, Pieces(Current))
        BY <1>2, <2>10, <3>3, Zenon DEF senderVars
      <3> QED BY <1>1, <2>1, <2>5, <2>7, <3>4, <3>5, <3>6, Delivered, ZenonT(30)
    <2> QED BY <1>2, <2>9, <2>10, Zenon
  <1>7. LInv(first)'
    BY <1>1, <1>2, <1>5, <1>6, ReceiverInOrder
  <1> QED BY <1>7, Zenon DEF OInv

\* A packet that is put in the receive array is one of the peer's.
LEMMA StoredKept ==
    ASSUME KInv, NEW first, LInv(first), NEW m \in net, m.kind = "lossless", m.entry.type # "none"
    PROVE  /\ Genuine(first, written, m.entry) /\ m.entry.id \in Nat /\ gcc_get_array_index(m.entry.id) \in Index
           /\ \A array : array = [recv_array EXCEPT ![gcc_get_array_index(m.entry.id)] = m.entry] =>
                /\ Kept(first, written, array)
                /\ \A x \in Index : array[x] = IF x = gcc_get_array_index(m.entry.id) THEN m.entry ELSE recv_array[x]
  <1> DEFINE e == m.entry
             idx == gcc_get_array_index(e.id)
  <1>1. /\ written \in Seq(ChunkCounts) /\ send_message_id \in Nat /\ Layout(first, written, send_message_id)
        /\ Kept(first, written, recv_array) /\ Carried(first, written, net) /\ recv_array \in [Index -> Entries]
    BY Zenon DEF KInv, Types, LInv
  <1>2. e # Empty
    BY EmptyType, Zenon
  <1>3. Genuine(first, written, e)
    BY <1>1, <1>2, Zenon DEF Carried
  <1> HIDE DEF e
  <1>4. e.id \in Nat /\ idx \in Index
    BY <1>1, <1>3, GenuineFacts, SlotType
  <1>5. ASSUME NEW array, array = [recv_array EXCEPT ![idx] = e]
        PROVE  Kept(first, written, array) /\ \A x \in Index : array[x] = IF x = idx THEN e ELSE recv_array[x]
    <2>1. \A x \in Index : array[x] = IF x = idx THEN e ELSE recv_array[x]
      BY <1>1, <1>4, <1>5, Zenon
    <2> QED BY <1>1, <1>3, <2>1, Zenon DEF Kept
  <1> QED BY <1>3, <1>4, <1>5, Zenon DEF e

\* A slot that is empty holds no fragment of the packet under way.
LEMMA StoredElsewhere ==
    ASSUME KInv, NEW first, LInv(first), ~shadowed, last_chunk_id # 0, AllStored(first), NEW idx, IsEmpty(recv_array[idx])
    PROVE  \A id \in first[Current] .. received_message_id : gcc_get_array_index(id) # idx
  <1> SUFFICES ASSUME NEW id \in first[Current] .. received_message_id PROVE ~IsEmpty(recv_array[gcc_get_array_index(id)])
    BY Zenon
  <1> DEFINE e == Made(first, written, Current, id)
  <1>1. /\ written \in Seq(ChunkCounts) /\ send_message_id \in Nat /\ received_message_id \in Nat
        /\ Layout(first, written, send_message_id) /\ InOrder(first) /\ Current \in 1 .. Len(written) + 1
    BY Standing, Zenon
  <1>2. UnderWay(first)
    BY <1>1, Zenon DEF InOrder
  <1>3. Current \in 1 .. Len(written) /\ written[Current] # 1 /\ received_message_id < first[Current] + written[Current]
    BY <1>1, <1>2 DEF UnderWay
  <1>4. first[Current] \in Nat /\ written[Current] \in Nat /\ Size(written, Current) = written[Current] + 1
    BY <1>1, <1>3, LayoutFacts, Zenon DEF Size
  <1>5. id \in OfPacket(first, written, Current)
    BY <1>1, <1>3, <1>4 DEF OfPacket
  <1>6. recv_array[gcc_get_array_index(id)] = e
    BY Zenon DEF AllStored
  <1> HIDE DEF e
  <1>7. e.type = "fragment"
    <2>1. e = Made(first, written, Current, id)
      BY Zenon DEF e
    <2>2. e.type = IF written[Current] = 1 THEN "packet" ELSE "fragment"
      BY <1>1, <1>3, <1>5, <2>1, MadeFacts, SMTT(30)
    <2> QED BY <1>3, <2>2, Zenon
  <1> QED BY <1>6, <1>7, Zenon DEF IsEmpty

\* A step that leaves the receiver as it was.
LEMMA Unmoved ==
    ASSUME NEW first, InOrder(first), UNCHANGED <<written, receiverVars>> PROVE InOrder(first)'
  BY Zenon DEF InOrder, UnderWay, AllStored, NoneStored, Current, Pieces, receiverVars

LEMMA OtherReceiverInOrder ==
    ASSUME KInv, OInv, NEW m \in net, ReceiveDuplicate(m) \/ ReceiveFragmentEarly(m) PROVE OInv'
  <1>1. PICK first : LInv(first)
    BY Zenon DEF OInv
  <1>2. /\ UNCHANGED <<senderVars, receiverVars>>
        /\ \A p \in net' : p \in net \/ p.kind = "ack"
    <2>1. CASE ReceiveDuplicate(m)
      BY <2>1 DEF ReceiveDuplicate, Ack
    <2>2. CASE ReceiveFragmentEarly(m)
      BY <2>2 DEF ReceiveFragmentEarly, Request, Ack
    <2> QED BY <2>1, <2>2, Zenon
  <1>3. written' = written /\ shadowed' = shadowed /\ recv_array' = recv_array
    BY <1>2, Zenon DEF senderVars, receiverVars
  <1>4. Kept(first, written, recv_array') /\ Carried(first, written, net')
    BY <1>1, <1>2, <1>3, ReceiverCarries, Zenon
  <1>5. ~shadowed' => InOrder(first)'
    BY <1>1, <1>2, <1>3, Unmoved, Zenon DEF LInv
  <1>6. LInv(first)'
    BY <1>1, <1>2, <1>4, <1>5, ReceiverInOrder, Zenon
  <1> QED BY <1>6, Zenon DEF OInv

LEMMA ReceiveEarlyInOrder ==
    ASSUME KInv, OInv, NEW m \in net, ReceiveEarly(m) PROVE OInv'
  <1>1. PICK first : LInv(first)
    BY Zenon DEF OInv
  <1> DEFINE e == m.entry
             idx == gcc_get_array_index(m.entry.id)
  <1>2. /\ m.kind = "lossless" /\ e.type = "packet" /\ e.id > received_message_id + 1
        /\ UNCHANGED <<received_message_id, last_chunk_id, consumed, refused, shadowed, senderVars>>
        /\ \/ IsEmpty(recv_array[idx]) /\ recv_array' = [recv_array EXCEPT ![idx] = e]
           \/ recv_array' = recv_array
        /\ net' = net \cup {Ack("GR_ACK_REQ", received_message_id + 1)} \/ net' = net
    BY Zenon DEF ReceiveEarly, Request
  <1>3. written' = written /\ shadowed' = shadowed
    BY <1>2, Zenon DEF senderVars
  <1>4. Carried(first, written, net')
    <2>1. \A p \in net' : p \in net \/ p.kind = "ack"
      BY <1>2 DEF Ack
    <2> QED BY <1>1, <2>1, Zenon DEF LInv, Carried
  <1>5. CASE recv_array' = recv_array
    <2>1. Kept(first, written, recv_array')
      BY <1>1, <1>5, Zenon DEF LInv
    <2>2. ~shadowed' => InOrder(first)'
      BY <1>1, <1>2, <1>3, <1>5, Unmoved, SMTT(30) DEF LInv, receiverVars
    <2>3. LInv(first)'
      BY <1>1, <1>2, <1>4, <2>1, <2>2, ReceiverInOrder, Zenon
    <2> QED BY <2>3, Zenon DEF OInv
  <1>6. CASE IsEmpty(recv_array[idx]) /\ recv_array' = [recv_array EXCEPT ![idx] = e]
    <2>1. /\ idx \in Index /\ Kept(first, written, recv_array') /\ e.id \in Nat
          /\ \A x \in Index : recv_array'[x] = IF x = idx THEN e ELSE recv_array[x]
      BY <1>1, <1>2, <1>6, StoredKept, ZenonT(30)
    <2> HIDE DEF e, idx
    <2>2. ASSUME ~shadowed PROVE InOrder(first)'
      <3>1. InOrder(first) /\ received_message_id \in Nat
        BY <1>1, <2>2, Standing, Zenon
      <3>2. Current' = Current /\ \A n : Pieces(n)' = Pieces(n)
        BY <1>2, <1>3, Zenon DEF Current, Pieces
      <3>3. \A x \in Index : recv_array'[x].type = "fragment" => recv_array'[x] = recv_array[x]
        BY <1>2, <2>1, Zenon
      <3>4. \A x \in Index : recv_array'[x].type = "packet" => recv_array'[x].id > received_message_id
        BY <1>2, <2>1, <3>1 DEF InOrder
      <3>5. ASSUME last_chunk_id # 0 PROVE UnderWay(first)'
        <4>1. UnderWay(first)
          BY <3>1, <3>5, Zenon DEF InOrder
        <4>2. CASE AllStored(first)
          <5>1. \A id \in first[Current] .. received_message_id : gcc_get_array_index(id) # idx
            BY <1>1, <1>6, <2>2, <3>5, <4>2, StoredElsewhere, Zenon
          <5>2. \A id \in first[Current] .. received_message_id : gcc_get_array_index(id) \in Index
            <6>1. Current \in 1 .. Len(written) + 1 /\ Layout(first, written, send_message_id)
              BY <1>1, <2>2, Standing, Zenon
            <6>2. first[Current] \in Nat
              BY <6>1, Zenon DEF Layout
            <6> QED BY <3>1, <6>2, SlotType
          <5>3. AllStored(first)'
            BY <1>2, <1>3, <2>1, <3>2, <4>2, <5>1, <5>2, ZenonT(30) DEF AllStored
          <5> QED BY <1>2, <1>3, <3>2, <3>3, <4>1, <5>3, Zenon DEF UnderWay
        <4>3. CASE NoneStored(first)
          <5>1. NoneStored(first)'
            BY <1>2, <1>3, <3>2, <3>3, <4>3, Zenon DEF NoneStored
          <5> QED BY <1>2, <1>3, <3>2, <3>3, <4>1, <5>1, Zenon DEF UnderWay
        <4> QED BY <4>1, <4>2, <4>3, Zenon DEF UnderWay
      <3> QED BY <1>2, <1>3, <3>1, <3>2, <3>3, <3>4, <3>5, Zenon DEF InOrder
    <2>3. LInv(first)'
      BY <1>1, <1>2, <1>3, <1>4, <2>1, <2>2, ReceiverInOrder, SMTT(30)
    <2> QED BY <2>3, Zenon DEF OInv
  <1> QED BY <1>2, <1>5, <1>6, Zenon

LEMMA ReceiveChunkInOrder ==
    ASSUME KInv, OInv, NEW m \in net, ReceiveChunk(m) PROVE OInv'
  <1>1. PICK first : LInv(first)
    BY Zenon DEF OInv
  <1> DEFINE e == m.entry
             idx == gcc_get_array_index(m.entry.id)
  <1>2. /\ m.kind = "lossless" /\ e.type = "fragment" /\ e.piece # <<>> /\ e.id = NextFragment
        /\ UNCHANGED <<consumed, refused, shadowed, senderVars, net>>
        /\ \/ /\ IsEmpty(recv_array[idx]) /\ recv_array' = [recv_array EXCEPT ![idx] = e]
              /\ received_message_id' = received_message_id + 1 /\ last_chunk_id' = e.id
           \/ UNCHANGED <<recv_array, received_message_id, last_chunk_id>>
    BY Zenon DEF ReceiveChunk
  <1>3. written' = written /\ shadowed' = shadowed
    BY <1>2, Zenon DEF senderVars
  <1>4. Carried(first, written, net')
    BY <1>1, <1>2, Zenon DEF LInv
  <1>5. CASE UNCHANGED <<recv_array, received_message_id, last_chunk_id>>
    <2>1. Kept(first, written, recv_array')
      BY <1>1, <1>5, Zenon DEF LInv
    <2>2. ~shadowed' => InOrder(first)'
      BY <1>1, <1>2, <1>3, <1>5, Unmoved, SMTT(30) DEF LInv, receiverVars
    <2>3. LInv(first)'
      BY <1>1, <1>2, <1>4, <2>1, <2>2, ReceiverInOrder, Zenon
    <2> QED BY <2>3, Zenon DEF OInv
  <1>6. CASE /\ IsEmpty(recv_array[idx]) /\ recv_array' = [recv_array EXCEPT ![idx] = e]
             /\ received_message_id' = received_message_id + 1 /\ last_chunk_id' = e.id
    <2>1. /\ idx \in Index /\ Kept(first, written, recv_array') /\ e.id \in Nat /\ Genuine(first, written, e)
          /\ \A x \in Index : recv_array'[x] = IF x = idx THEN e ELSE recv_array[x]
      BY <1>1, <1>2, <1>6, StoredKept, ZenonT(30)
    <2>2. idx = gcc_get_array_index(e.id)
      BY Zenon
    <2> HIDE DEF e, idx
    <2>3. ASSUME ~shadowed PROVE InOrder(first)'
      <3>1. /\ written \in Seq(ChunkCounts) /\ send_message_id \in Nat /\ received_message_id \in Nat /\ InOrder(first)
            /\ Layout(first, written, send_message_id) /\ Kept(first, written, recv_array)
            /\ e.id = received_message_id + 1
        BY <1>1, <1>2, <2>3, Standing, Zenon
      <3>2. /\ Current \in 1 .. Len(written) /\ e.id \in OfPacket(first, written, Current)
            /\ e = Made(first, written, Current, e.id)
            /\ last_chunk_id = 0 => e.id = first[Current]
        BY <1>1, <2>1, <2>3, <3>1, NextPacket, Zenon
      <3>3. written[Current] # 1 /\ e.id < first[Current] + written[Current]
        <4>1. /\ e.type = IF written[Current] = 1 THEN "packet" ELSE "fragment"
              /\ written[Current] # 1 /\ e.piece # <<>> => e.id < first[Current] + written[Current]
          BY <3>1, <3>2, MadeFacts
        <4> QED BY <1>2, <4>1, Zenon
      <3>4. Current' = Current /\ \A n : Pieces(n)' = Pieces(n)
        BY <1>2, <1>3, Zenon DEF Current, Pieces
      <3>5. Current \in 1 .. Len(written) + 1 /\ first[Current] \in Nat /\ written[Current] \in Nat
        BY <3>1, <3>2, LayoutFacts, SMTT(30)
      <3>6. last_chunk_id # 0 => UnderWay(first)
        BY <3>1 DEF InOrder
      <3>7. last_chunk_id # 0 => AllStored(first)
        BY <3>1, <3>3, <3>6, SMTT(30) DEF UnderWay, NoneStored
      <3>8. first[Current] <= received_message_id' /\ received_message_id' < first[Current] + written[Current]
        BY <1>6, <3>1, <3>2, <3>3, <3>5, <3>6, SMTT(30) DEF UnderWay
      <3>9. ASSUME NEW x \in Index, recv_array'[x].type = "fragment"
            PROVE  first[Current] <= recv_array'[x].id /\ recv_array'[x].id <= received_message_id'
        <4>1. CASE x = idx
          BY <1>6, <2>1, <3>1, <3>8, <4>1, SMTT(30)
        <4>2. CASE x # idx
          <5>1. recv_array'[x] = recv_array[x] /\ recv_array[x].type = "fragment"
            BY <2>1, <3>9, <4>2, Zenon
          <5>2. last_chunk_id # 0
            BY <3>1, <5>1, Zenon DEF InOrder
          <5>3. first[Current] <= recv_array[x].id /\ recv_array[x].id <= received_message_id
            BY <3>6, <5>1, <5>2, Zenon DEF UnderWay
          <5>4. recv_array[x].id \in Nat
            BY Zenon DEF KInv, Types, Entries
          <5> QED BY <1>6, <3>1, <5>1, <5>3, <5>4, SMTT(30)
        <4> QED BY <4>1, <4>2, Zenon
      <3>10. AllStored(first)'
        <4> SUFFICES ASSUME NEW id \in first[Current] .. received_message_id'
                     PROVE  recv_array'[gcc_get_array_index(id)] = Made(first, written, Current, id)
          BY <1>3, <3>4, Zenon DEF AllStored
        <4>1. CASE id = received_message_id + 1
          BY <2>1, <2>2, <3>1, <3>2, <4>1, Zenon
        <4>2. CASE id # received_message_id + 1
          <5>1. id \in first[Current] .. received_message_id
            BY <1>6, <3>1, <3>5, <4>2, SMTT(30)
          <5>2. last_chunk_id # 0
            BY <3>1, <3>2, <3>5, <5>1, SMTT(30)
          <5>3. gcc_get_array_index(id) # idx
            BY <1>1, <1>6, <2>3, <3>7, <5>1, <5>2, StoredElsewhere, ZenonT(30)
          <5>4. gcc_get_array_index(id) \in Index
            BY <3>5, <5>1, SlotType
          <5>5. recv_array[gcc_get_array_index(id)] = Made(first, written, Current, id)
            BY <3>7, <5>1, <5>2, Zenon DEF AllStored
          <5> QED BY <2>1, <5>3, <5>4, <5>5, Zenon
        <4> QED BY <4>1, <4>2, Zenon
      <3>11. UnderWay(first)'
        <4>1. last_chunk_id' = received_message_id'
          BY <1>6, <3>1, Zenon
        <4>2. Current' <= Len(written')
          BY <1>3, <3>1, <3>2, <3>4, SMTT(30)
        <4> QED BY <1>3, <3>3, <3>4, <3>8, <3>9, <3>10, <4>1, <4>2, ZenonT(30) DEF UnderWay
      <3>12. ASSUME NEW x \in Index, recv_array'[x].type = "packet" PROVE recv_array'[x].id > received_message_id'
        <4>1. x # idx /\ recv_array'[x] = recv_array[x]
          BY <1>2, <2>1, <3>12, Zenon
        <4>2. recv_array[x].id > received_message_id /\ recv_array[x] # Empty
          BY <3>1, <3>12, <4>1, EmptyType, Zenon DEF InOrder
        <4>3. gcc_get_array_index(recv_array[x].id) = x /\ recv_array[x].id \in Nat
          BY <3>1, <4>2, GenuineFacts, Zenon DEF Kept
        <4>4. recv_array[x].id # received_message_id + 1
          BY <2>2, <3>1, <4>1, <4>3, Zenon
        <4> QED BY <1>6, <3>1, <4>1, <4>2, <4>3, <4>4, SMTT(30)
      <3>13. last_chunk_id' # 0
        BY <1>6, <3>1
      <3>14. consumed \in Seq(PieceSeqs) /\ Len(consumed) <= Len(written) /\ \A n \in 1 .. Len(consumed) : consumed[n] = Pieces(n)
        BY <3>1, Zenon DEF InOrder
      <3> QED BY <1>2, <1>3, <3>4, <3>11, <3>12, <3>13, <3>14 DEF InOrder
    <2>4. LInv(first)'
      BY <1>1, <1>2, <1>3, <1>4, <2>1, <2>3, ReceiverInOrder, SMTT(30)
    <2> QED BY <2>4, Zenon DEF OInv
  <1> QED BY <1>2, <1>5, <1>6, Zenon

LEMMA ReceiveEndInOrder ==
    ASSUME KInv, OInv, NEW m \in net, NEW ok \in BOOLEAN, ReceiveEnd(m, ok) PROVE OInv'
  <1>1. PICK first : LInv(first)
    BY Zenon DEF OInv
  <1> DEFINE e == m.entry
             id == m.entry.id
             cleared == {Back(id, k) : k \in 1 .. Found(id)}
  <1>2. /\ m.kind = "lossless" /\ e.type = "fragment" /\ e.piece = <<>> /\ id = NextFragment
        /\ UNCHANGED senderVars
        /\ \/ Found(id) \in {0, GCC_BUFFER_SIZE} /\ UNCHANGED <<receiverVars, net>>
           \/ /\ Found(id) \notin {0, GCC_BUFFER_SIZE}
              /\ Handles(ok) /\ UNCHANGED shadowed
              /\ recv_array' = [i \in Index |-> IF i \in cleared THEN Empty ELSE recv_array[i]]
              /\ received_message_id' = received_message_id + IF ok THEN 1 ELSE 0
              /\ last_chunk_id' = IF ok THEN 0 ELSE last_chunk_id
              /\ consumed' = IF ok THEN Append(consumed, Joined(id)) ELSE consumed
              /\ net' = IF ok THEN net \cup {Ack("GR_ACK_RECV", id)} ELSE net
    BY Zenon DEF ReceiveEnd
  <1>3. written' = written
    BY <1>2, Zenon DEF senderVars
  <1>4. CASE UNCHANGED <<receiverVars, net>>
    <2>1. shadowed' = shadowed /\ recv_array' = recv_array /\ net' = net
      BY <1>4, Zenon DEF receiverVars
    <2>2. ~shadowed' => InOrder(first)'
      BY <1>1, <1>3, <1>4, <2>1, Unmoved, Zenon DEF LInv
    <2>3. LInv(first)'
      BY <1>1, <1>2, <2>1, <2>2, ReceiverInOrder, Zenon DEF LInv
    <2> QED BY <2>3, Zenon DEF OInv
  <1>5. CASE /\ Found(id) \notin {0, GCC_BUFFER_SIZE}
             /\ Handles(ok) /\ UNCHANGED shadowed
             /\ recv_array' = [i \in Index |-> IF i \in cleared THEN Empty ELSE recv_array[i]]
             /\ received_message_id' = received_message_id + IF ok THEN 1 ELSE 0
             /\ last_chunk_id' = IF ok THEN 0 ELSE last_chunk_id
             /\ consumed' = IF ok THEN Append(consumed, Joined(id)) ELSE consumed
             /\ net' = IF ok THEN net \cup {Ack("GR_ACK_RECV", id)} ELSE net
    <2> HIDE DEF cleared
    <2>1. \A x \in Index : recv_array'[x] = IF x \in cleared THEN Empty ELSE recv_array[x]
      BY <1>5, Zenon
    <2>2. Kept(first, written, recv_array') /\ Carried(first, written, net')
      <3>1. \A x \in Index : recv_array'[x] = recv_array[x] \/ recv_array'[x] = Empty
        BY <2>1, Zenon
      <3>2. \A p \in net' : p \in net \/ p.kind = "ack"
        BY <1>5 DEF Ack
      <3> QED BY <1>1, <3>1, <3>2, ReceiverCarries, Zenon
    <2>3. ASSUME ~shadowed PROVE InOrder(first)'
      <3>1. /\ written \in Seq(ChunkCounts) /\ send_message_id \in Nat /\ received_message_id \in Nat /\ InOrder(first)
            /\ Layout(first, written, send_message_id) /\ Kept(first, written, recv_array)
            /\ id = received_message_id + 1 /\ refused \in Nat
        <4>1. refused \in Nat
          BY SizesAssumption, SMTT(30) DEF KInv, Types
        <4> QED BY <1>1, <1>2, <2>3, <4>1, Standing, SMTT(30)
      <3>2. Genuine(first, written, e)
        BY <1>1, <1>2, StoredKept
      <3>3. e.id = id
        BY Zenon
      <3> HIDE DEF e, id
      <3>4. /\ Current \in 1 .. Len(written) /\ id \in OfPacket(first, written, Current)
            /\ e = Made(first, written, Current, id)
            /\ last_chunk_id = 0 => id = first[Current]
        BY <1>1, <2>3, <3>1, <3>2, <3>3, NextPacket, ZenonT(30)
      <3>5. written[Current] # 1 /\ id = first[Current] + written[Current]
        BY <1>2, <3>1, <3>4, FragmentFacts, SMTT(30)
      <3>6. /\ Current \in 1 .. Len(written) + 1 /\ first[Current] \in Nat /\ written[Current] \in Nat /\ written[Current] >= 1
            /\ first[Current + 1] = first[Current] + Size(written, Current) /\ Size(written, Current) = written[Current] + 1
        BY <3>1, <3>4, <3>5, LayoutFacts, SMTT(30) DEF Size
      <3>7. last_chunk_id # 0
        BY <3>4, <3>5, <3>6, SMTT(30)
      <3>8. UnderWay(first)
        BY <3>1, <3>7, SMTT(30) DEF InOrder
      <3>9. /\ id \in Nat /\ received_message_id \in Nat /\ id = received_message_id + 1
            /\ first[Current] \in Nat /\ written[Current] \in Nat /\ id = first[Current] + written[Current]
            /\ first[Current + 1] = id + 1
            /\ id - first[Current] = written[Current] /\ (received_message_id + 1) - first[Current] = written[Current]
        BY <3>1, <3>5, <3>6, SMTT(30)
      <3>10. AllStored(first)
        <4>1. ~NoneStored(first)
          BY <1>1, <1>5, <2>3, <3>1, <3>7, FoundAll
        <4> QED BY <3>8, <4>1, Zenon DEF UnderWay
      <3>11. Found(id) = written[Current] /\ Joined(id) = [i \in 1 .. written[Current] |-> <<Current, i>>]
        BY <1>1, <2>3, <3>1, <3>7, <3>9, <3>10, FoundAll, Zenon
      <3>12. Joined(id) = Pieces(Current)
        BY <3>11, Zenon DEF Pieces
      <3>13. ASSUME NEW x \in Index, recv_array[x].type = "fragment" PROVE x \in cleared
        <4>1. first[Current] <= recv_array[x].id /\ recv_array[x].id <= received_message_id
          BY <3>8, <3>13, Zenon DEF UnderWay
        <4>2. gcc_get_array_index(recv_array[x].id) = x /\ recv_array[x].id \in Nat
          BY <3>1, <3>13, EmptyType, GenuineFacts, ZenonT(30) DEF Kept
        <4>3. id - recv_array[x].id \in 1 .. written[Current] /\ id - (id - recv_array[x].id) = recv_array[x].id
          BY <3>9, <4>1, <4>2
        <4>4. Back(id, id - recv_array[x].id) = x
          BY <4>2, <4>3, Zenon DEF Back, gcc_get_array_index
        <4> QED BY <3>11, <4>3, <4>4, Zenon DEF cleared
      <3>14. \A x \in Index : recv_array'[x].type # "fragment"
        BY <2>1, <3>13, EmptyType, ZenonT(30)
      <3>15. ASSUME NEW x \in Index, recv_array'[x].type = "packet"
             PROVE  recv_array'[x].id \in Nat /\ recv_array'[x].id > received_message_id + 1
        <4>1. recv_array'[x] = recv_array[x]
          BY <2>1, <3>15, EmptyType, Zenon
        <4>2. recv_array[x].id > received_message_id /\ Genuine(first, written, recv_array[x])
          BY <3>1, <3>15, <4>1, EmptyType, Zenon DEF InOrder, Kept
        <4>3. recv_array[x].id \in Nat
          BY <3>1, <4>2, GenuineFacts, Zenon
        <4>4. recv_array[x].id # received_message_id + 1
          BY <1>1, <2>3, <3>7, <3>15, <4>1, <4>2, NextPacket, ZenonT(30)
        <4> QED BY <3>1, <4>1, <4>2, <4>3, <4>4, SMTT(30)
      <3>16. CASE ok
        <4>1. consumed' = Append(consumed, Pieces(Current)) /\ last_chunk_id' = 0 /\ received_message_id' = received_message_id + 1
          BY <1>5, <3>12, <3>16, Zenon
        <4>2. received_message_id' + 1 = first[Current + 1]
          BY <3>9, <4>1, Zenon
        <4>3. \A x \in Index : recv_array'[x].type = "packet" => recv_array'[x].id > received_message_id'
          BY <3>15, <4>1, ZenonT(30)
        <4> QED BY <1>1, <1>3, <2>3, <3>4, <3>14, <4>1, <4>2, <4>3, Delivered, SMTT(30)
      <3>17. CASE ~ok
        <4>1. /\ consumed' = consumed /\ last_chunk_id' = last_chunk_id /\ received_message_id' = received_message_id
              /\ refused' = refused + 1
          BY <1>5, <3>1, <3>17 DEF Handles
        <4>2. Current' = Current /\ \A n : Pieces(n)' = Pieces(n)
          BY <1>3, <4>1, ZenonT(30) DEF Current, Pieces
        <4>3. NoneStored(first)'
          BY <1>3, <3>1, <3>5, <3>14, <4>1, <4>2, SMTT(30) DEF NoneStored
        <4>4. UnderWay(first)'
          BY <1>3, <3>8, <3>14, <4>1, <4>2, <4>3, SMTT(30) DEF UnderWay
        <4>5. \A x \in Index : recv_array'[x].type = "packet" => recv_array'[x].id > received_message_id'
          BY <3>1, <3>15, <4>1
        <4> QED BY <1>3, <3>1, <3>7, <4>1, <4>2, <4>4, <4>5, SMTT(30) DEF InOrder
      <3> QED BY <3>16, <3>17, ZenonT(30)
    <2>4. shadowed' = shadowed
      BY <1>5, Zenon
    <2>5. LInv(first)'
      BY <1>1, <1>2, <2>2, <2>3, <2>4, ReceiverInOrder, Zenon
    <2> QED BY <2>5, Zenon DEF OInv
  <1> QED BY <1>2, <1>4, <1>5, Zenon

LEMMA NextInOrder == KInv /\ KInv' /\ OInv /\ [IdsLast]_vars /\ [Next]_vars => OInv'
  <1> SUFFICES ASSUME KInv, KInv', OInv, [IdsLast]_vars, [Next]_vars PROVE OInv'
    BY Zenon
  <1>10. IdsLast \/ UNCHANGED vars
    BY Zenon
  <1>1. CASE Write /\ IdsLast
    <2>1. CASE \E sent \in BOOLEAN : 1 \in ChunkCounts /\ SendPacket(sent)
      BY <2>1, SendPacketInOrder, Zenon
    <2>2. CASE \E count \in ChunkCounts \ {1} : SendFragments(count)
      BY <2>2, SendFragmentsInOrder, Zenon
    <2>3. CASE \E count \in ChunkCounts \ {1} : SendFragmentsFails(count)
      BY <1>1, <2>3, OtherSenderInOrder, Zenon
    <2> QED BY <1>1, <2>1, <2>2, <2>3, Zenon DEF Write
  <1>2. CASE /\ IdsLast
             /\ \/ \E due \in SUBSET Index : Resend(due)
                \/ SendArrayStuck
                \/ \E m \in net : ReceiveAck(m) \/ ReceiveRequest(m)
    BY <1>2, OtherSenderInOrder, Zenon
  <1>3. CASE \E ok \in BOOLEAN : CheckRecvArray(ok)
    BY <1>3, CheckRecvArrayInOrder, Zenon
  <1>4. CASE \E m \in net : ReceiveDuplicate(m) \/ ReceiveFragmentEarly(m)
    BY <1>4, OtherReceiverInOrder, Zenon
  <1>5. CASE \E m \in net : ReceiveEarly(m)
    BY <1>5, ReceiveEarlyInOrder, Zenon
  <1>6. CASE \E m \in net : ReceiveChunk(m)
    BY <1>6, ReceiveChunkInOrder, Zenon
  <1>7. CASE \E m \in net, ok \in BOOLEAN : ReceiveNext(m, ok)
    BY <1>7, ReceiveNextInOrder, Zenon
  <1>8. CASE \E m \in net, ok \in BOOLEAN : ReceiveEnd(m, ok)
    BY <1>8, ReceiveEndInOrder, Zenon
  <1>9. CASE UNCHANGED vars
    <2>1. PICK first : LInv(first)
      BY Zenon DEF OInv
    <2>2. UNCHANGED <<written, send_message_id, receiverVars>> /\ send_array' = send_array /\ net' = net
      BY <1>9, Zenon DEF vars, senderVars
    <2>3. LInv(first)'
      BY <2>1, <2>2, SenderInOrder, Zenon DEF LInv
    <2> QED BY <2>3, Zenon DEF OInv
  <1> QED BY <1>1, <1>2, <1>3, <1>4, <1>5, <1>6, <1>7, <1>8, <1>9, <1>10, ZenonT(30) DEF Next, Receive

LEMMA OrderGivesWhole == KInv /\ OInv => PacketsWhole
  <1> SUFFICES ASSUME KInv, OInv PROVE PacketsWhole
    BY Zenon
  <1>1. PICK first : LInv(first)
    BY Zenon DEF OInv
  <1>2. TypeOK
    BY DEF TypeOK, KInv, Types
  <1>3. InOrderOnceWhole
    BY <1>1, Proper DEF InOrderOnceWhole, LInv, InOrder
  <1>4. PartialPacket
    <2> SUFFICES ASSUME last_chunk_id # 0, ~shadowed
                 PROVE  /\ last_chunk_id = received_message_id
                        /\ refused = 0 => /\ Found(last_chunk_id + 1) > 0
                                          /\ Joined(last_chunk_id + 1) =
                                                [i \in 1 .. Found(last_chunk_id + 1) |-> <<Len(consumed) + 1, i>>]
      BY Zenon DEF PartialPacket
    <2>1. UnderWay(first)
      BY <1>1, Zenon DEF LInv, InOrder
    <2>2. last_chunk_id = received_message_id
      BY <2>1, Zenon DEF UnderWay
    <2>3. ASSUME refused = 0
          PROVE  /\ Found(last_chunk_id + 1) > 0
                 /\ Joined(last_chunk_id + 1) = [i \in 1 .. Found(last_chunk_id + 1) |-> <<Len(consumed) + 1, i>>]
      <3> DEFINE id == received_message_id + 1
                 k == (received_message_id + 1) - first[Current]
      <3>1. AllStored(first)
        BY <2>1, <2>3, Zenon DEF UnderWay, NoneStored
      <3>2. Found(id) = k /\ k \in 1 .. GCC_BUFFER_SIZE - 1 /\ Joined(id) = [i \in 1 .. k |-> <<Current, i>>]
        BY <1>1, <3>1, FoundAll, Zenon
      <3> HIDE DEF id, k
      <3>3. Found(id) > 0
        BY <3>2, SizesAssumption
      <3>4. Joined(id) = [i \in 1 .. Found(id) |-> <<Len(consumed) + 1, i>>]
        BY <3>2, Zenon DEF Current
      <3> QED BY <2>2, <3>3, <3>4, Zenon DEF id
    <2> QED BY <2>2, <2>3, Zenon
  <1> QED BY <1>2, <1>3, <1>4, Zenon DEF PacketsWhole

\* The order is kept until fragments are taken back past the last id of 16 bits.
TInv == ~truncated => OInv

\* A step after which that has not happened takes no fragments back there.
LEMMA NotTruncated == [Next]_vars /\ ~truncated' => ~truncated /\ [IdsLast]_vars
  <1> SUFFICES ASSUME [Next]_vars, ~truncated' PROVE ~truncated /\ [IdsLast]_vars
    BY Zenon
  <1>1. CASE TakesBack
    <2>1. PICK count \in ChunkCounts : SendFragmentsFails(count)
      BY <1>1, Zenon DEF TakesBack
    <2>2. truncated' = (truncated \/ ~(send_message_id < U16))
      BY <2>1, Zenon DEF SendFragmentsFails
    <2> QED BY <2>2, Zenon DEF IdsLast
  <1>2. CASE ~TakesBack
    <2>1. truncated' = truncated
      <3>1. CASE Write
        BY <1>2, <3>1, Zenon DEF Write, TakesBack, SendPacket, SendFragments
      <3>2. CASE \/ \E due \in SUBSET Index : Resend(due)
                 \/ SendArrayStuck
                 \/ \E m \in net : ReceiveAck(m) \/ ReceiveRequest(m)
        BY <3>2, Zenon DEF Resend, SendArrayStuck, ReceiveAck, ReceiveRequest, senderVars
      <3>3. CASE \E m \in net : ReceiveDuplicate(m) \/ ReceiveEarly(m) \/ ReceiveFragmentEarly(m) \/ ReceiveChunk(m)
        BY <3>3, Zenon DEF ReceiveDuplicate, ReceiveEarly, ReceiveFragmentEarly, ReceiveChunk, senderVars
      <3>4. CASE \E m \in net, ok \in BOOLEAN : ReceiveNext(m, ok) \/ ReceiveEnd(m, ok)
        BY <3>4, Zenon DEF ReceiveNext, ReceiveEnd, senderVars
      <3>5. CASE \E ok \in BOOLEAN : CheckRecvArray(ok)
        BY <3>5, Zenon DEF CheckRecvArray, senderVars
      <3>6. CASE UNCHANGED vars
        BY <3>6, Zenon DEF vars, senderVars
      <3> QED BY <3>1, <3>2, <3>3, <3>4, <3>5, <3>6, ZenonT(30) DEF Next, Receive
    <2> QED BY <1>2, <2>1, Zenon DEF IdsLast
  <1> QED BY <1>1, <1>2, Zenon

LEMMA InitKeepsOrder == Init => KInv /\ TInv
  BY InitKeeps, InitInOrder, Zenon DEF TInv

LEMMA NextKeepsOrder == KInv /\ TInv /\ [Next]_vars => (KInv /\ TInv)'
  <1> SUFFICES ASSUME KInv, TInv, [Next]_vars PROVE KInv' /\ TInv'
    BY Zenon
  <1>1. KInv'
    BY NextKeeps, Zenon
  <1>2. ASSUME ~truncated' PROVE OInv'
    BY <1>1, <1>2, NotTruncated, NextInOrder, Zenon DEF TInv
  <1> QED BY <1>1, <1>2, Zenon DEF TInv

\* Until a packet is accepted over a copy of it, or fragments are taken back past id 2^16, the
\* handlers are given the packets in the order they were written, each once and whole, and the
\* chunks that wait are those of the packet under way, whatever the network loses, repeats or
\* reorders and whichever handlers fail (handle_gc_lossless_packet, gcc_handle_packet_fragment,
\* reassemble_packet, gcc_check_recv_array).
THEOREM GroupPacketsWhole == Spec => []PacketsWhole
  <1>1. KInv /\ TInv => PacketsWhole
    <2> SUFFICES ASSUME KInv, TInv, truncated PROVE PacketsWhole
      BY OrderGivesWhole, Zenon DEF TInv
    <2>1. TypeOK
      BY DEF TypeOK, KInv, Types
    <2> QED BY <2>1, Zenon DEF PacketsWhole, InOrderOnceWhole, PartialPacket
  <1> QED BY <1>1, InitKeepsOrder, NextKeepsOrder, PTL DEF Spec

\* What a step writes and delivers.
Writes == /\ \E c \in ChunkCounts : written' = Append(written, c)
          /\ consumed' = consumed
Delivers == /\ written' = written /\ send_message_id' = send_message_id
            /\ \E pieces : consumed' = Append(consumed, pieces)
Neither == written' = written /\ consumed' = consumed /\ send_message_id' = send_message_id

LEMMA StepKinds ==
    ASSUME KInv, [IdsLast]_vars, [Next]_vars PROVE (Writes \/ Delivers \/ Neither) /\ (shadowed => shadowed')
  <1>7. IdsLast \/ UNCHANGED vars
    BY Zenon
  <1>1. CASE Write /\ IdsLast
    <2>1. CASE \E sent \in BOOLEAN : 1 \in ChunkCounts /\ SendPacket(sent)
      BY <2>1 DEF SendPacket, Writes, receiverVars
    <2>2. CASE \E count \in ChunkCounts \ {1} : SendFragments(count)
      <3>1. PICK count \in ChunkCounts : SendFragments(count)
        BY <2>2, Zenon
      <3>2. written' = Append(written, count) /\ UNCHANGED receiverVars
        BY <3>1, Zenon DEF SendFragments
      <3> QED BY <3>2, Zenon DEF Writes, receiverVars
    <2>3. CASE \E count \in ChunkCounts \ {1} : SendFragmentsFails(count)
      <3>1. PICK count \in ChunkCounts : SendFragmentsFails(count)
        BY <2>3, Zenon
      <3>2. Types /\ send_message_id \in Nat
        BY Zenon DEF KInv, Types
      <3>3. send_message_id' = send_message_id % U16
        BY <3>1, <3>2, TakenBack, Zenon
      <3>4. send_message_id' = send_message_id
        BY <1>1, <2>3, <3>2, <3>3, SlotLow, Zenon DEF IdsLast, TakesBack
      <3>5. UNCHANGED <<written, receiverVars>>
        BY <3>1, Zenon DEF SendFragmentsFails
      <3> QED BY <3>4, <3>5, Zenon DEF Neither, receiverVars
    <2> QED BY <1>1, <2>1, <2>2, <2>3, Zenon DEF Write
  <1>2. CASE \/ \E due \in SUBSET Index : Resend(due)
             \/ SendArrayStuck
             \/ \E m \in net : ReceiveAck(m) \/ ReceiveRequest(m) \/ ReceiveDuplicate(m) \/ ReceiveFragmentEarly(m)
             \/ UNCHANGED vars
    <2>1. UNCHANGED <<written, send_message_id, receiverVars>>
      BY <1>2, Zenon DEF Resend, SendArrayStuck, ReceiveAck, ReceiveRequest, ReceiveDuplicate, ReceiveFragmentEarly, vars, senderVars
    <2> QED BY <2>1, Zenon DEF Neither, receiverVars
  <1>3. CASE \E m \in net : ReceiveEarly(m) \/ ReceiveChunk(m)
    <2>1. UNCHANGED <<senderVars, consumed, shadowed>>
      BY <1>3 DEF ReceiveEarly, ReceiveChunk
    <2> QED BY <2>1, Zenon DEF Neither, senderVars
  <1>4. CASE \E m \in net, ok \in BOOLEAN : ReceiveNext(m, ok)
    <2>1. UNCHANGED senderVars /\ (\E pieces : consumed' = Append(consumed, pieces)) /\ (shadowed => shadowed')
      BY <1>4, Zenon DEF ReceiveNext
    <2> QED BY <2>1, Zenon DEF Delivers, senderVars
  <1>5. CASE \E m \in net, ok \in BOOLEAN : ReceiveEnd(m, ok)
    <2>1. PICK m \in net, ok \in BOOLEAN : ReceiveEnd(m, ok)
      BY <1>5, Zenon
    <2>2. /\ UNCHANGED senderVars
          /\ UNCHANGED receiverVars \/ (shadowed' = shadowed /\ consumed' = IF ok THEN Append(consumed, Joined(m.entry.id)) ELSE consumed)
      BY <2>1, Zenon DEF ReceiveEnd
    <2>3. shadowed' = shadowed /\ (consumed' = consumed \/ \E pieces : consumed' = Append(consumed, pieces))
      BY <2>2, Zenon DEF receiverVars
    <2> QED BY <2>2, <2>3, Zenon DEF Delivers, Neither, senderVars
  <1>6. CASE \E ok \in BOOLEAN : CheckRecvArray(ok)
    <2>1. UNCHANGED <<senderVars, shadowed>> /\ (consumed' = consumed \/ \E pieces : consumed' = Append(consumed, pieces))
      BY <1>6, Zenon DEF CheckRecvArray
    <2> QED BY <2>1, Zenon DEF Delivers, Neither, senderVars
  <1> QED BY <1>1, <1>2, <1>3, <1>4, <1>5, <1>6, <1>7, ZenonT(30) DEF Next, Receive

\* What was delivered, as the channel numbers it.
Numbers == [n \in 1 .. Len(consumed) |-> Message(consumed[n])]

InNumbers ==
    /\ consumed \in Seq(PieceSeqs) /\ Len(consumed) <= Len(written) /\ written \in Seq(ChunkCounts)
    /\ Numbers = [n \in 1 .. Len(consumed) |-> n - 1]

LEMMA Numbered == KInv /\ OInv /\ ~shadowed => InNumbers
  <1> SUFFICES ASSUME KInv, OInv, ~shadowed PROVE InNumbers
    BY Zenon
  <1>1. PICK first : LInv(first)
    BY Zenon DEF OInv
  <1>2. /\ InOrder(first) /\ written \in Seq(ChunkCounts) /\ Len(written) \in Nat
        /\ send_message_id \in Nat /\ Layout(first, written, send_message_id)
    BY <1>1, Standing, Zenon
  <1>3. /\ consumed \in Seq(PieceSeqs) /\ Len(consumed) <= Len(written) /\ Len(consumed) \in Nat
        /\ \A n \in 1 .. Len(consumed) : consumed[n] = Pieces(n)
    BY <1>2 DEF InOrder
  <1>4. ASSUME NEW n \in 1 .. Len(consumed) PROVE Message(consumed[n]) = n - 1
    <2>1. n \in 1 .. Len(written)
      BY <1>2, <1>3
    <2>2. written[n] \in Nat /\ written[n] >= 1
      BY <1>2, <2>1, LayoutFacts, Zenon
    <2>3. Pieces(n)[1] = <<n, 1>>
      BY <2>2 DEF Pieces
    <2>4. consumed[n] = Pieces(n)
      BY <1>3, Zenon
    <2>5. \E k \in 1 .. Len(written) : consumed[n] = Pieces(k)
      BY <2>1, <2>4, Zenon
    <2>6. Message(consumed[n]) = consumed[n][1][1] - 1
      BY <2>5, Zenon DEF Message
    <2> QED BY <2>3, <2>4, <2>6
  <1> QED BY <1>2, <1>3, <1>4, Zenon DEF InNumbers, Numbers

LEMMA FifoStep ==
    ASSUME KInv, KInv', OInv, OInv', [IdsLast]_vars, [Next]_vars PROVE [shadowed' \/ Fifo!Next]_<<written, consumed>>
  <1> SUFFICES ASSUME ~shadowed', ~Neither PROVE Fifo!Next
    BY Zenon DEF Neither
  <1>1. ~shadowed /\ (Writes \/ Delivers)
    BY StepKinds, Zenon
  <1>2. /\ consumed \in Seq(PieceSeqs) /\ Len(consumed) <= Len(written) /\ written \in Seq(ChunkCounts)
        /\ Numbers = [n \in 1 .. Len(consumed) |-> n - 1]
    BY <1>1, Numbered, Zenon DEF InNumbers
  <1>3. /\ consumed' \in Seq(PieceSeqs) /\ Len(consumed') <= Len(written') /\ written' \in Seq(ChunkCounts)
        /\ Numbers' = [n \in 1 .. Len(consumed') |-> n - 1]
    <2>1. InNumbers'
      BY Numbered, PTL
    <2> QED BY <2>1, Zenon DEF InNumbers
  <1>4. Len(consumed) \in Nat /\ Len(written) \in Nat
    BY <1>2
  <1> DEFINE P == {"from", "to"}
             wrote == [p \in P |-> IF p = "from" THEN Len(written) ELSE 0]
             wroteNext == [p \in P |-> IF p = "from" THEN Len(written') ELSE 0]
             had == [p \in P |-> IF p = "to" THEN Numbers ELSE <<>>]
             hadNext == [p \in P |-> IF p = "to" THEN Numbers' ELSE <<>>]
  <1>5. ASSUME wroteNext = [wrote EXCEPT !["from"] = @ + 1], hadNext = had PROVE Fifo!Next
    <2>1. Fifo!Write("from")
      BY <1>5, Zenon DEF Fifo!Write, Numbers
    <2> QED BY <2>1, Zenon DEF Fifo!Next
  <1>6. CASE Writes
    <2>1. Len(written') = Len(written) + 1 /\ consumed' = consumed
      BY <1>2, <1>6 DEF Writes
    <2>2. wroteNext = [wrote EXCEPT !["from"] = @ + 1]
      BY <1>4, <2>1
    <2>3. Numbers' = Numbers
      BY <1>2, <1>3, <2>1, Zenon
    <2> QED BY <1>5, <2>2, <2>3, Zenon
  <1>7. CASE Delivers
    <2>1. Len(consumed') = Len(consumed) + 1 /\ written' = written
      BY <1>2, <1>7 DEF Delivers
    <2>2. Fifo!Source("to") = "from"
      BY Zenon DEF Fifo!Source
    <2>3. Len(Numbers) = Len(consumed) /\ Numbers \in Seq(Nat)
      BY <1>2, <1>4
    <2>4. Numbers' = Numbers \o [i \in 1 .. 1 |-> Len(Numbers) + i - 1]
      BY <1>2, <1>3, <1>4, <2>1, <2>3, SMTT(30)
    <2>5. hadNext = [had EXCEPT !["to"] = @ \o [i \in 1 .. 1 |-> Len(@) + i - 1]]
      BY <2>4
    <2>6. Len(had["to"]) + 1 <= wrote["from"] /\ wroteNext = wrote /\ 1 \in 1 .. wrote["from"]
      BY <1>3, <1>4, <2>1, <2>3
    <2>7. Fifo!Deliver("to", 1)
      BY <2>2, <2>5, <2>6, Zenon DEF Fifo!Deliver, Numbers
    <2> QED BY <2>2, <2>6, <2>7, Zenon DEF Fifo!Next
  <1> QED BY <1>1, <1>6, <1>7, Zenon

\* The steps that change ids.
LEMMA IdsStep ==
    ASSUME KInv, [Next]_vars, send_message_id' # send_message_id
    PROVE  Len(written') = Len(written) + 1 \/ (send_message_id >= U16 /\ send_message_id' = send_message_id % U16)
  <1>1. CASE [IdsLast]_vars
    <2>1. Writes /\ written \in Seq(ChunkCounts)
      BY <1>1, StepKinds, Zenon DEF Delivers, Neither, KInv, Types
    <2> QED BY <2>1 DEF Writes
  <1>2. CASE ~[IdsLast]_vars
    <2>1. PICK count \in ChunkCounts : SendFragmentsFails(count) /\ ~(send_message_id < U16)
      BY <1>2, Zenon DEF IdsLast, TakesBack
    <2>2. send_message_id' = send_message_id % U16
      BY <2>1, Zenon DEF SendFragmentsFails, clear_send_queue_id_range
    <2>3. send_message_id \in Nat
      BY Zenon DEF KInv, Types
    <2> QED BY <2>1, <2>2, <2>3, SizesAssumption
  <1> QED BY <1>1, <1>2, Zenon

\* A peer connection of a group implements a FIFO channel of the packets it accepted, up to the
\* first packet that is put over a copy of it or that follows fragments taken back past id 2^16,
\* and a packet that finds no room for all its fragments takes no id, but that ids past 2^16 go
\* back (gcc_send_lossless_packet_fragments).
THEOREM GroupFifo == Spec => FifoOfAccepted
  <1>1. Init => Fifo!Init
    BY DEF Init, Fifo!Init
  <1>2. KInv /\ TInv /\ KInv' /\ TInv' /\ [Next]_vars => [shadowed' \/ truncated' \/ Fifo!Next]_<<written, consumed>>
    <2> SUFFICES ASSUME KInv, TInv, KInv', TInv', [Next]_vars, ~truncated'
                 PROVE  [shadowed' \/ Fifo!Next]_<<written, consumed>>
      BY Zenon
    <2>1. OInv /\ OInv' /\ [IdsLast]_vars
      BY NotTruncated, Zenon DEF TInv
    <2> QED BY <2>1, FifoStep, Zenon
  <1>3. KInv /\ [Next]_vars =>
           [send_message_id' # send_message_id =>
               \/ Len(written') = Len(written) + 1
               \/ send_message_id >= U16 /\ send_message_id' = send_message_id % U16]_vars
    BY IdsStep, Zenon
  <1> QED BY <1>1, <1>2, <1>3, InitKeepsOrder, NextKeepsOrder, PTL
          DEF Spec, FifoOfAccepted, ImplementsFifo, OnlyAcceptedTakeIds
=============================================================================
