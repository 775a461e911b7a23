-------------------------- MODULE CryptoTransport --------------------------
(***************************************************************************)
(* The data phase of a crypto connection (net_crypto.c): two peers that    *)
(* share a session key exchange data packets over a network that loses,    *)
(* duplicates and reorders.                                                *)
(*                                                                         *)
(* Every data packet carries the sender's recv_array.buffer_start (a       *)
(* cumulative acknowledgement), a packet number, and a payload: a lossless *)
(* message, a lossy message, a request for missing packets, or a kill.     *)
(* The network is the set of packets ever put on the wire: a packet may be *)
(* received at any later time, any number of times, or never.  Only the    *)
(* 16 low bits of the nonce travel with a packet; a packet whose nonce the *)
(* receiver cannot reconstruct does not decrypt and is dropped.            *)
(*                                                                         *)
(* The message with index i (from 0) of a peer's application is the number *)
(* i itself, so `written[p]' is both the messages p's application queued   *)
(* and how many they are.                                                  *)
(***************************************************************************)
EXTENDS PacketsArray, Sequences

CONSTANTS
    Peer,                \* the two ends of the connection
    NOT_CONFIRMED, ESTABLISHED, FREE,  \* CRYPTO_CONN_* of the data phase; FREE: killed
    NONCES,              \* size of the nonce space
    DATA_NUM_THRESHOLD,  \* 21845: a third of the 16-bit space of nonce tails
    RequestRoom,         \* bytes for holes in a request packet
    MaxWritten,          \* bounds of the model: messages each peer writes,
    MaxPackets           \* and packets each peer encrypts (unless NONCES = 1)

ASSUME CryptoTransportAssumption ==
    /\ \A p \in Peer : \E q \in Peer : Peer = {p, q} /\ p # q
    /\ Peer # {}
    /\ NOT_CONFIRMED # ESTABLISHED /\ NOT_CONFIRMED # FREE /\ ESTABLISHED # FREE
    /\ NONCES \in Nat \ {0}
    /\ DATA_NUM_THRESHOLD \in Nat \ {0}
    /\ RequestRoom \in Nat
    /\ MaxWritten \in [Peer -> Nat]
    /\ MaxPackets \in [Peer -> 0 .. (NONCES - 1)]
    /\ Empty \notin Nat
    /\ Empty \notin [data : Nat, sent : BOOLEAN]

VARIABLES
    status,       \* status[p]: the connection's state at p
    send_array,   \* packets hold the message and whether sent_time is nonzero
    recv_array,   \* packets hold the message
    max_speed,    \* maximum_speed_reached: the last lossless send failed
    sent_nonce,   \* nonce of the next packet p encrypts
    recv_nonce,   \* base from which p reconstructs the peer's nonces
    net,          \* every packet put on the wire
    written,      \* history: messages queued by p's application
    delivered     \* history: messages handed to p's application, in order

vars == <<status, send_array, recv_array, max_speed, sent_nonce, recv_nonce,
          net, written, delivered>>

Other(p) == CHOOSE q \in Peer : q # p

SendPacket == [data : Nat, sent : BOOLEAN]
Request == [requested : SUBSET Number, received : SUBSET Number]
Body == [kind : {"lossless"}, data : Nat]
        \union [kind : {"lossy", "kill"}]
        \union [kind : {"request"}, report : Request]
Packet == [to : Peer, nonce : 0 .. (NONCES - 1), start : Number, num : Number, body : Body]

Init ==
    /\ status = [p \in Peer |-> NOT_CONFIRMED]
    /\ send_array = [p \in Peer |-> EmptyArray]
    /\ recv_array = [p \in Peer |-> EmptyArray]
    /\ max_speed = [p \in Peer |-> FALSE]
    /\ sent_nonce = [p \in Peer |-> 0]
    /\ recv_nonce = [p \in Peer |-> 0]
    /\ net = {}
    /\ written = [p \in Peer |-> 0]
    /\ delivered = [p \in Peer |-> <<>>]

----------------------------------------------------------------------------
\* Sending.

Live(p) == status[p] # FREE

\* Nonces are not reused while the model runs; with a single nonce every
\* packet decrypts and the nonces play no part.
NoncesLeft(p, k) == NONCES = 1 \/ sent_nonce[p] + k <= MaxPackets[p]
Advance(nonce, k) == (nonce + k) % NONCES

\* Mutant: the packet acknowledges everything the receiver has heard of.
DataPacket_AcksEnd(p, k, num, body) ==
    [to |-> Other(p), nonce |-> Advance(sent_nonce[p], k),
     start |-> recv_array[p].end, num |-> num, body |-> body]

\* send_data_packet_helper: the k-th packet encrypted by p from this state.
DataPacket(p, k, num, body) ==
    [to |-> Other(p), nonce |-> Advance(sent_nonce[p], k),
     start |-> recv_array[p].start, num |-> num, body |-> body]

Lossless(d) == [kind |-> "lossless", data |-> d]
Lossy == [kind |-> "lossy"]
Kill == [kind |-> "kill"]
RequestBody(p) ==
    [kind |-> "request", report |-> generate_request_packet(recv_array[p], RequestRoom)]

\* One packet encrypted and sent.  Where the code does not act on a failed send,
\* the failure is a packet that is never received.
Transmit(p, num, body) ==
    /\ NoncesLeft(p, 1)
    /\ sent_nonce' = [sent_nonce EXCEPT ![p] = Advance(@, 1)]
    /\ net' = net \union {DataPacket(p, 0, num, body)}

\* The packets numbered N marked as sent (v) or to be sent again (~v): sent_time
\* set to the current time or to 0.
Marked(arr, N, v) ==
    [arr EXCEPT !.buffer =
        [s \in Slot |-> IF \E n \in N : SlotOf(n) = s
                        THEN [arr.buffer[s] EXCEPT !.sent = v]
                        ELSE arr.buffer[s]]]

\* reset_max_speed_reached: after a failed send the newest packet is tried again.
Newest(p) == Sub(send_array[p].end, 1)

RetriesNewest(p) ==
    /\ max_speed[p]
    /\ HasData(send_array[p], Newest(p))
    /\ ~At(send_array[p], Newest(p)).sent

RetryPacket(p) == DataPacket(p, 0, Newest(p), Lossless(At(send_array[p], Newest(p)).data))

\* The send array and the packets sent when the retry, if one is due, succeeds.
AfterReset(p) ==
    IF RetriesNewest(p)
    THEN Marked(send_array[p], {Newest(p)}, TRUE)
    ELSE send_array[p]
Retried(p) == IF RetriesNewest(p) THEN {RetryPacket(p)} ELSE {}
Retries(p) == IF RetriesNewest(p) THEN 1 ELSE 0

CanWrite(p) == status[p] = ESTABLISHED /\ written[p] < MaxWritten[p]

\* write_cryptpacket, send_lossless_packet: the message is queued and sent.
\* If the send fails (~ok) the packet stays queued as unsent.
WriteLossless(p, ok) ==
    LET tries == Retries(p) + 1
        packet == DataPacket(p, Retries(p), send_array[p].end, Lossless(written[p]))
    IN  /\ CanWrite(p)
        /\ CanAppend(send_array[p])
        /\ NoncesLeft(p, tries)
        /\ sent_nonce' = [sent_nonce EXCEPT ![p] = Advance(@, tries)]
        /\ net' = net \union Retried(p) \union (IF ok THEN {packet} ELSE {})
        /\ max_speed' = [max_speed EXCEPT ![p] = ~ok]
        /\ send_array' = [send_array EXCEPT ![p] =
               add_data_end_of_buffer(AfterReset(p), [data |-> written[p], sent |-> ok])]
        /\ written' = [written EXCEPT ![p] = @ + 1]
        /\ UNCHANGED <<status, recv_array, recv_nonce, delivered>>

\* The same call when the retry of the newest packet fails: with congestion
\* control the message is refused, without it the message is queued unsent.
WriteHeldBack(p, congestion_control) ==
    LET queued == ~congestion_control /\ CanAppend(send_array[p])
    IN  /\ CanWrite(p)
        /\ RetriesNewest(p)
        /\ NoncesLeft(p, 1)
        /\ sent_nonce' = [sent_nonce EXCEPT ![p] = Advance(@, 1)]
        /\ send_array' = [send_array EXCEPT ![p] =
               IF queued
               THEN add_data_end_of_buffer(@, [data |-> written[p], sent |-> FALSE])
               ELSE @]
        /\ written' = [written EXCEPT ![p] = IF queued THEN @ + 1 ELSE @]
        /\ UNCHANGED <<status, recv_array, max_speed, recv_nonce, net, delivered>>

\* max_speed_reached, and write_cryptpacket when the buffer is full: only the
\* retry takes place.
MaxSpeedReached(p) ==
    /\ Live(p)
    /\ max_speed[p]
    /\ NoncesLeft(p, Retries(p))
    /\ sent_nonce' = [sent_nonce EXCEPT ![p] = Advance(@, Retries(p))]
    /\ net' = net \union Retried(p)
    /\ max_speed' = [max_speed EXCEPT ![p] = FALSE]
    /\ send_array' = [send_array EXCEPT ![p] = AfterReset(p)]
    /\ UNCHANGED <<status, recv_array, recv_nonce, written, delivered>>

\* send_lossy_cryptpacket
SendLossy(p) ==
    /\ Live(p)
    /\ Transmit(p, send_array[p].end, Lossy)
    /\ UNCHANGED <<status, send_array, recv_array, max_speed, recv_nonce, written, delivered>>

\* send_crypto_packets: the periodic request packet.
SendRequest(p) ==
    /\ Live(p)
    /\ Transmit(p, send_array[p].end, RequestBody(p))
    /\ UNCHANGED <<status, send_array, recv_array, max_speed, recv_nonce, written, delivered>>

\* send_requested_packets: walk the window and send what was never sent or was
\* asked for again, until max_num sends succeeded.  S are the successes.
\* Mutant: the walk stops one packet early.
Unsent_NotNewest(p) ==
    {n \in Occupied(send_array[p]) : ~At(send_array[p], n).sent /\ n # Newest(p)}

Unsent(p) == {n \in Occupied(send_array[p]) : ~At(send_array[p], n).sent}

SendRequested(p, max_num, S) ==
    LET before(n) == {m \in Unsent(p) : Offset(send_array[p], m) < Offset(send_array[p], n)}
        tried == {n \in Unsent(p) : Cardinality(before(n) \intersect S) < max_num}
    IN  /\ status[p] = ESTABLISHED
        /\ S \subseteq tried
        /\ tried # {}
        /\ NoncesLeft(p, Cardinality(tried))
        /\ sent_nonce' = [sent_nonce EXCEPT ![p] = Advance(@, Cardinality(tried))]
        /\ net' = net \union
               {DataPacket(p, Cardinality(before(n)), n, Lossless(At(send_array[p], n).data)) : n \in S}
        /\ send_array' = [send_array EXCEPT ![p] = Marked(@, S, TRUE)]
        /\ UNCHANGED <<status, recv_array, max_speed, recv_nonce, written, delivered>>
----------------------------------------------------------------------------
\* Receiving: handle_data_packet decrypts with the nonce nearest above the base
\* that has the packet's tail, and moves the base when the packet is far ahead.

NonceTails == 3 * DATA_NUM_THRESHOLD + 1
Ahead(p, m) == (m.nonce - recv_nonce[p]) % NonceTails
Decrypts(p, m) == m.nonce = Advance(recv_nonce[p], Ahead(p, m))

\* Mutant: the base moves by two thresholds.
BaseAfter_Eager(p, m) ==
    IF Ahead(p, m) > 2 * DATA_NUM_THRESHOLD
    THEN Advance(recv_nonce[p], 2 * DATA_NUM_THRESHOLD)
    ELSE recv_nonce[p]

BaseAfter(p, m) ==
    IF Ahead(p, m) > 2 * DATA_NUM_THRESHOLD
    THEN Advance(recv_nonce[p], DATA_NUM_THRESHOLD)
    ELSE recv_nonce[p]

\* The acknowledgement a packet carries: the send array up to the peer's
\* buffer_start is freed; a number outside the window is refused.
AckValid(p, m) ==
    \/ m.start = send_array[p].start
    \/ CanClearUntil(send_array[p], m.start)

Acked(p, m) ==
    IF m.start = send_array[p].start
    THEN send_array[p]
    ELSE clear_buffer_until(send_array[p], m.start)

Arrives(p, m) ==
    /\ m \in net
    /\ m.to = p
    /\ Live(p)
    /\ Decrypts(p, m)
    /\ recv_nonce' = [recv_nonce EXCEPT ![p] = BaseAfter(p, m)]

\* Any packet but a kill confirms the connection.
Confirm(p) == status' = [status EXCEPT ![p] = ESTABLISHED]

\* A packet whose acknowledgement is refused is dropped, payload and all.
ReceiveBadAck(p, m) ==
    /\ Arrives(p, m)
    /\ ~AckValid(p, m)
    /\ UNCHANGED <<status, send_array, recv_array, max_speed, sent_nonce, net, written, delivered>>

ReceiveLossy(p, m) ==
    /\ Arrives(p, m)
    /\ AckValid(p, m)
    /\ m.body.kind = "lossy"
    /\ Confirm(p)
    /\ send_array' = [send_array EXCEPT ![p] = Acked(p, m)]
    /\ recv_array' = [recv_array EXCEPT ![p] = set_buffer_end(@, m.num)]
    /\ UNCHANGED <<max_speed, sent_nonce, net, written, delivered>>

\* handle_request_packet: packets the peer reports received are freed; requested
\* ones sent longer than a round trip ago (the set Late) are marked for resending.
ReceiveRequest(p, m, Late) ==
    LET acked == Acked(p, m)
        marked == Marked(acked, Late, FALSE)
        gone == m.body.report.received \intersect Window(acked)
    IN  /\ Arrives(p, m)
        /\ AckValid(p, m)
        /\ m.body.kind = "request"
        /\ Late \subseteq m.body.report.requested \intersect Occupied(acked)
        /\ Confirm(p)
        /\ send_array' = [send_array EXCEPT ![p] = [marked EXCEPT !.buffer = Freed(marked, gone)]]
        /\ recv_array' = [recv_array EXCEPT ![p] = set_buffer_end(@, m.num)]
        /\ UNCHANGED <<max_speed, sent_nonce, net, written, delivered>>

\* Mutant: the loop also ends on number 0.
HandedOver_NotZero(a, k) ==
    LET last == Plus(a.start, k - 1)
    IN  [i \in 1 .. (IF k > 0 /\ last \in {0, U32 - 1} THEN k - 1 ELSE k) |-> At(a, Plus(a.start, i - 1))]

\* The messages handed over when the delivery loop has consumed k packets of a:
\* the packet numbered U32 - 1 ends the loop without reaching the application.
HandedOver(a, k) ==
    LET last == Plus(a.start, k - 1)
    IN  [i \in 1 .. (IF k > 0 /\ last = U32 - 1 THEN k - 1 ELSE k) |-> At(a, Plus(a.start, i - 1))]

ReceiveLossless(p, m, k) ==
    LET added == add_data_to_buffer(recv_array[p], m.num, m.body.data)
    IN  /\ Arrives(p, m)
        /\ AckValid(p, m)
        /\ m.body.kind = "lossless"
        /\ Confirm(p)
        /\ send_array' = [send_array EXCEPT ![p] = Acked(p, m)]
        /\ \/ /\ CanAdd(recv_array[p], m.num)
              /\ ReadsExactly(added, k)
              /\ recv_array' = [recv_array EXCEPT ![p] = read_data_beg_buffer(added, k)]
              /\ delivered' = [delivered EXCEPT ![p] = @ \o HandedOver(added, k)]
           \/ /\ ~CanAdd(recv_array[p], m.num)
              /\ k = 0
              /\ UNCHANGED <<recv_array, delivered>>
        /\ UNCHANGED <<max_speed, sent_nonce, net, written>>

----------------------------------------------------------------------------
\* Killing.

\* crypto_kill of a connection whose arrays are sa and ra.
Killed(p, sa, ra) ==
    /\ status' = [status EXCEPT ![p] = FREE]
    /\ send_array' = [send_array EXCEPT ![p] = clear_buffer(sa)]
    /\ recv_array' = [recv_array EXCEPT ![p] = clear_buffer(ra)]
    /\ max_speed' = [max_speed EXCEPT ![p] = FALSE]

KillPacket(p, start) == [DataPacket(p, 0, send_array[p].end, Kill) EXCEPT !.start = start]

SendsKill(p, st, start) ==
    IF st = ESTABLISHED
    THEN /\ NoncesLeft(p, 1)
         /\ sent_nonce' = [sent_nonce EXCEPT ![p] = Advance(@, 1)]
         /\ net' = net \union {KillPacket(p, start)}
    ELSE UNCHANGED <<sent_nonce, net>>

CryptoKill(p) ==
    /\ Live(p)
    /\ SendsKill(p, status[p], recv_array[p].start)
    /\ Killed(p, send_array[p], recv_array[p])
    /\ UNCHANGED <<recv_nonce, written, delivered>>

\* kill_timedout: the handshake packet was resent too often without an answer.
KillTimedOut(p) ==
    /\ status[p] = NOT_CONFIRMED
    /\ Killed(p, send_array[p], recv_array[p])
    /\ UNCHANGED <<sent_nonce, recv_nonce, net, written, delivered>>

ReceiveKill(p, m) ==
    /\ Arrives(p, m)
    /\ AckValid(p, m)
    /\ m.body.kind = "kill"
    /\ SendsKill(p, status[p], recv_array[p].start)
    /\ Killed(p, Acked(p, m), recv_array[p])
    /\ UNCHANGED <<written, delivered>>

\* The application kills the connection in the callback for the j-th message of
\* the delivery loop; the loop notices that the connection is gone and stops.
ReceiveKilledInCallback(p, m, j) ==
    LET added == add_data_to_buffer(recv_array[p], m.num, m.body.data)
        read == read_data_beg_buffer(added, j)
    IN  /\ Arrives(p, m)
        /\ AckValid(p, m)
        /\ m.body.kind = "lossless"
        /\ CanAdd(recv_array[p], m.num)
        /\ j \in 1 .. num_packets_array(added)
        /\ \A i \in 0 .. (j - 1) : ~LoopStops(added, i)
        /\ Plus(added.start, j - 1) # U32 - 1
        /\ delivered' = [delivered EXCEPT ![p] = @ \o HandedOver(added, j)]
        /\ SendsKill(p, ESTABLISHED, read.start)
        /\ Killed(p, Acked(p, m), read)
        /\ UNCHANGED written

----------------------------------------------------------------------------
Send(p) ==
    \/ \E ok \in BOOLEAN : WriteLossless(p, ok)
    \/ \E congestion_control \in BOOLEAN : WriteHeldBack(p, congestion_control)
    \/ MaxSpeedReached(p)
    \/ SendLossy(p)
    \/ SendRequest(p)
    \/ \E S \in SUBSET Unsent(p), max_num \in 1 .. CRYPTO_PACKET_BUFFER_SIZE :
           SendRequested(p, max_num, S)

Receive(p, m) ==
    \/ ReceiveBadAck(p, m)
    \/ ReceiveLossy(p, m)
    \/ \E Late \in SUBSET Occupied(send_array[p]) : ReceiveRequest(p, m, Late)
    \/ \E k \in 0 .. CRYPTO_PACKET_BUFFER_SIZE : ReceiveLossless(p, m, k)

Die(p) ==
    \/ CryptoKill(p)
    \/ KillTimedOut(p)
    \/ \E m \in net : ReceiveKill(p, m)
    \/ \E m \in net, j \in 1 .. CRYPTO_PACKET_BUFFER_SIZE : ReceiveKilledInCallback(p, m, j)

Next == \E p \in Peer : Send(p) \/ (\E m \in net : Receive(p, m)) \/ Die(p)

Spec == Init /\ [][Next]_vars

\* Fairness: do_net_crypto runs periodically, so each peer keeps sending request
\* packets and what was requested of it; and of the packets sent again and again
\* the network delivers one eventually.  A request repeated every
\* CRYPTO_SEND_PACKET_INTERVAL outlives any round trip, so all it asks for is
\* late at some point.
CurrentRequest(p) ==
    DataPacket(p, 0, send_array[p].end, RequestBody(p))

ReceiveCurrentRequest(p) ==
    \E m \in {CurrentRequest(Other(p))} :
        /\ m \in net
        /\ ReceiveRequest(p, m, m.body.report.requested \intersect Occupied(Acked(p, m)))

ReceiveNewData(p) ==
    \E m \in {n \in net : n.to = p /\ n.body.kind = "lossless"} :
        /\ CanAdd(recv_array[p], m.num)
        /\ \E k \in 0 .. CRYPTO_PACKET_BUFFER_SIZE : ReceiveLossless(p, m, k)

Fairness ==
    \A p \in Peer :
        /\ WF_vars(SendRequest(p))
        /\ WF_vars(Unsent(p) # {} /\ SendRequested(p, CRYPTO_PACKET_BUFFER_SIZE, Unsent(p)))
        /\ SF_vars(ReceiveCurrentRequest(p))
        /\ SF_vars(ReceiveNewData(p))

FairSpec == Spec /\ Fairness

\* Without kills, lossy packets and failing sends, for the long way past the last
\* packet number; and with the sends that fail.
PlainNext ==
    \E p \in Peer :
        \/ WriteLossless(p, TRUE)
        \/ SendRequest(p)
        \/ SendRequested(p, CRYPTO_PACKET_BUFFER_SIZE, Unsent(p))
        \/ \E m \in net : Receive(p, m)
LiveNext ==
    \/ PlainNext
    \/ \E p \in Peer :
        \/ WriteLossless(p, FALSE)
        \/ \E congestion_control \in BOOLEAN : WriteHeldBack(p, congestion_control)
        \/ MaxSpeedReached(p)

\* A packet the receiver can no longer decrypt, or whose receiver is gone, has no
\* effect any more.
Receivable == {m \in net : Live(m.to) /\ (NONCES = 1 \/ m.nonce >= recv_nonce[m.to])}
StateView == <<status, send_array, recv_array, max_speed, sent_nonce, recv_nonce,
               Receivable, written, delivered>>

----------------------------------------------------------------------------
\* Properties.

TypeOK ==
    /\ status \in [Peer -> {NOT_CONFIRMED, ESTABLISHED, FREE}]
    /\ send_array \in [Peer -> ArrayOf(SendPacket)]
    /\ recv_array \in [Peer -> ArrayOf(Nat)]
    /\ max_speed \in [Peer -> BOOLEAN]
    /\ sent_nonce \in [Peer -> 0 .. (NONCES - 1)]
    /\ recv_nonce \in [Peer -> 0 .. (NONCES - 1)]
    /\ net \subseteq Packet
    /\ written \in [Peer -> Nat]
    /\ delivered \in [Peer -> Seq(Nat)]

\* At any time every array of the connection is well formed: however packets are
\* lost, repeated or reordered, the windows fit the ring and no slot leaks.
ArraysWellFormed == \A p \in Peer : WellFormed(send_array[p]) /\ WellFormed(recv_array[p])

\* How many of the peer's messages the send array no longer spans, and how many
\* the receiver consumed, as counts that do not wrap.
Released(p) == written[p] - num_packets_array(send_array[p])
Consumed(q) == written[Other(q)] - Sub(written[Other(q)] % U32, recv_array[q].start)
Expected(q) == written[Other(q)] - Sub(written[Other(q)] % U32, recv_array[q].end)

BothLive == \A p \in Peer : Live(p)

\* The receiver's window always lies inside the sender's: what the sender gave up
\* was consumed, and the receiver never waits for a number that was not assigned.
WindowsNested ==
    BothLive => \A q \in Peer :
        /\ Released(Other(q)) <= Consumed(q)
        /\ Consumed(q) <= Expected(q)
        /\ Expected(q) <= written[Other(q)]

\* A message that was queued is in the send array, or in the peer's receive array,
\* or was consumed by the peer: no acknowledgement or request, however late or
\* often it arrives, makes the sender forget a packet the receiver still needs.
NothingLost ==
    BothLive => \A q \in Peer : \A i \in 0 .. (written[Other(q)] - 1) :
        \/ i < Consumed(q)
        \/ At(recv_array[q], i % U32) = i
        \/ /\ At(send_array[Other(q)], i % U32) # Empty
           /\ At(send_array[Other(q)], i % U32).data = i

\* The application receives exactly the messages written, in order and once
\* each, but for those whose packet number is U32 - 1 (see LoopStops).
DeliveredInOrder ==
    \A q \in Peer : \E n \in 0 .. written[Other(q)] :
        delivered[q] = SelectSeq([i \in 1 .. n |-> i - 1], LAMBDA i : i % U32 # U32 - 1)

\* cryptpacket_received, from which read receipts are made.
cryptpacket_received(p, n) ==
    Sub(n, send_array[p].start) > num_packets_array(send_array[p])

\* A receipt for a message written recently enough that its number cannot stand
\* for a newer one means the peer's application has the message.
ReceiptsTruthful ==
    \A q \in Peer : \A i \in 0 .. (written[Other(q)] - 1) :
        /\ Live(Other(q))
        /\ written[Other(q)] - i < U32 - CRYPTO_PACKET_BUFFER_SIZE
        /\ cryptpacket_received(Other(q), i % U32)
        => i % U32 = U32 - 1 \/ \E k \in DOMAIN delivered[q] : delivered[q][k] = i

\* The base of the nonce window stays more than a threshold behind the newest
\* packet of the peer, so a packet delayed by no more than that still decrypts.
NonceWindowTolerant ==
    \A p \in Peer : recv_nonce[p] > 0 =>
        \E m \in net : m.to = p /\ m.nonce > recv_nonce[p] + DATA_NUM_THRESHOLD

\* A killed connection holds no packet.
NothingLeaked ==
    \A p \in Peer : ~Live(p) =>
        \A s \in Slot : send_array[p].buffer[s] = Empty /\ recv_array[p].buffer[s] = Empty

\* Arrays fit their rings while the connection is there, and hold nothing once it is killed.
ArraysSound == ArraysWellFormed /\ NothingLeaked

\* The connection implements a pair of FIFO channels, one in each direction, as
\* long as no packet number U32 - 1 is used.
Fifo == INSTANCE FifoChannel
ImplementsFifo == Fifo!Spec

\* Every message queued reaches the peer's application, unless a peer kills the
\* connection: requests and resends make up for any loss.
AllDelivered == BothLive => \A p \in Peer : Len(delivered[Other(p)]) = written[p]
EventuallyDelivered == <>[]AllDelivered

\* "Lossless packet behaviour is comparable to TCP (reliability, arrive in
\* order)" (tox.h): the application receives every message, without a gap.
DeliversEveryMessage ==
    \A q \in Peer : \A k \in DOMAIN delivered[q] : delivered[q][k] = k - 1
============================================================================
