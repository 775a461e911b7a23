---------------------------- MODULE TcpFraming -----------------------------
(***************************************************************************)
(* Packets on a TCP connection between a client and a relay, one direction *)
(* (toxcore/TCP_common.c).  A packet is its length and its data, encrypted *)
(* with the next nonce; what the socket does not take is kept: of the last *)
(* packet, and of packets with priority, which are never refused.          *)
(*                                                                         *)
(* A byte is the packet it is of and its place in it: the first two are    *)
(* the length.  The socket takes as much as there is room for.             *)
(***************************************************************************)
EXTENDS Integers, Sequences, SequencesExt

CONSTANTS
    Sizes,          \* the sizes of packets, with the two bytes of the length
    Bounds          \* records, one of which is chosen at the start:
                    \*   buffer: the bytes that the socket holds
                    \*   writes: how many packets are written, or refused
                    \*   fails: how often there is no memory

VARIABLES
    framingBound,   \* the chosen member of Bounds
    sent_nonce,
    last_packet,    \* what is left to send of the last packet
    priority_queue, \* what is left to send of packets with priority
    socket,         \* the bytes under way
    next_packet_length, recv_nonce,     \* of the reader
    killed,         \* whether the reader ended the connection
    tries, fails,
    accepted,       \* how many packets the writer took
    got             \* the packets the reader got, numbered from 0

vars == <<framingBound, sent_nonce, last_packet, priority_queue, socket, next_packet_length, recv_nonce, killed,
          tries, fails, accepted, got>>
reader == <<next_packet_length, recv_nonce, killed, got>>

HEADER == 2
MAX_PACKET_SIZE == CHOOSE n \in Sizes : \A m \in Sizes : m <= n

Packet(id, nonce, size) == [id |-> id, nonce |-> nonce, size |-> size]
Byte(packet, at) == [packet |-> packet, at |-> at]
Bytes(packet) == [i \in 1 .. packet.size |-> Byte(packet, i)]

Init ==
    /\ framingBound \in Bounds
    /\ sent_nonce = 0 /\ recv_nonce = 0
    /\ last_packet = <<>> /\ priority_queue = <<>> /\ socket = <<>>
    /\ next_packet_length = 0 /\ killed = FALSE
    /\ tries = 0 /\ fails = 0
    /\ accepted = 0 /\ got = <<>>

\* net_send: the bytes the socket holds then, and what is left of those sent.
Taken(bytes, held) == {n \in 0 .. Len(bytes) : n = 0 \/ Len(held) + n <= framingBound.buffer}
Sent(bytes, held) == held \o SubSeq(bytes, 1, Max(Taken(bytes, held)))
Left(bytes, held) == SubSeq(bytes, Max(Taken(bytes, held)) + 1, Len(bytes))

State(last, queue, held) == [last |-> last, queue |-> queue, held |-> held]

\* The last packet first, then one of the queue after the other.
send_pending_data ==
    LET held == Sent(last_packet, socket)
        queue == [i \in DOMAIN priority_queue |->
                    Left(priority_queue[i], held \o FlattenSeq(SubSeq(priority_queue, 1, i - 1)))]
    IN  IF Left(last_packet, socket) # <<>> THEN State(Left(last_packet, socket), priority_queue, held)
        ELSE State(<<>>, SelectSeq(queue, LAMBDA bytes : bytes # <<>>), Sent(FlattenSeq(priority_queue), held))

Becomes(s) ==
    /\ last_packet' = s.last
    /\ priority_queue' = s.queue
    /\ socket' = s.held

\* do_confirmed_TCP and do_TCP_confirmed
Flush ==
    /\ ~killed /\ (last_packet # <<>> \/ priority_queue # <<>>)
    /\ \E s \in {send_pending_data} : Becomes(s)
    /\ UNCHANGED <<framingBound, sent_nonce, reader, tries, fails, accepted>>

Tries == ~killed /\ tries < framingBound.writes /\ tries' = tries + 1
Pending(s) == s.last # <<>> \/ s.queue # <<>>

\* write_packet_TCP_secure_connection, without priority: refused while something is pending
\* or there is no room at all.
Refuses(s) == Pending(s) \/ Len(s.held) = framingBound.buffer

\* Mutant: a packet of which only a part was sent is not counted as written.
WritePlain_Partly(size) ==
    \E s \in {send_pending_data} :
        LET bytes == Bytes(Packet(accepted, sent_nonce, size))
        IN  /\ Tries
            /\ IF Refuses(s) THEN Becomes(s) /\ UNCHANGED <<sent_nonce, accepted>>
               ELSE /\ Becomes(State(Left(bytes, s.held), s.queue, Sent(bytes, s.held)))
                    /\ sent_nonce' = sent_nonce + 1
                    /\ accepted' = IF Left(bytes, s.held) = <<>> THEN accepted + 1 ELSE accepted
            /\ UNCHANGED <<framingBound, reader, fails>>

WritePlain(size) ==
    \E s \in {send_pending_data} :
        LET bytes == Bytes(Packet(accepted, sent_nonce, size))
        IN  /\ Tries
            /\ IF Refuses(s) THEN Becomes(s) /\ UNCHANGED <<sent_nonce, accepted>>
               ELSE /\ Becomes(State(Left(bytes, s.held), s.queue, Sent(bytes, s.held)))
                    /\ sent_nonce' = sent_nonce + 1
                    /\ accepted' = accepted + 1
            /\ UNCHANGED <<framingBound, reader, fails>>

\* With priority: what is left is queued, unless there is no memory for it; the nonce is used
\* then, too.
WritePriority(size, memory) ==
    \E s \in {send_pending_data} :
        LET bytes == Bytes(Packet(accepted, sent_nonce, size))
            left == IF Pending(s) THEN bytes ELSE Left(bytes, s.held)
            held == IF Pending(s) THEN s.held ELSE Sent(bytes, s.held)
        IN  /\ Tries
            /\ ~memory => left # <<>> /\ fails < framingBound.fails
            /\ Becomes(State(s.last, IF left = <<>> \/ ~memory THEN s.queue ELSE Append(s.queue, left), held))
            /\ sent_nonce' = sent_nonce + 1
            /\ accepted' = IF memory THEN accepted + 1 ELSE accepted
            /\ fails' = IF memory THEN fails ELSE fails + 1
            /\ UNCHANGED <<framingBound, reader>>

\* read_TCP_length: what two bytes mean that are not a length is anybody's guess.
Lengths(bytes) ==
    IF bytes[1].at = 1 /\ bytes[2] = Byte(bytes[1].packet, 2) THEN {bytes[1].packet.size - HEADER}
    ELSE 0 .. MAX_PACKET_SIZE

\* decrypt_data_symmetric: of nothing but the data of the packet with the next nonce.
Decrypts(bytes) ==
    /\ bytes[1].packet.nonce = recv_nonce
    /\ bytes = SubSeq(Bytes(bytes[1].packet), HEADER + 1, bytes[1].packet.size)

\* read_packet_TCP_secure_connection: the rest is the stream after the length.
ReadPacket(length, rest) ==
    IF length = 0 \/ Len(rest) < length
    THEN /\ socket' = rest /\ next_packet_length' = length
         /\ UNCHANGED <<recv_nonce, got, killed>>
    ELSE LET bytes == SubSeq(rest, 1, length)
         IN  /\ socket' = SubSeq(rest, length + 1, Len(rest))
             /\ next_packet_length' = 0
             /\ IF Decrypts(bytes)
                THEN got' = Append(got, bytes[1].packet.id) /\ recv_nonce' = recv_nonce + 1 /\ UNCHANGED killed
                ELSE killed' = TRUE /\ UNCHANGED <<got, recv_nonce>>

Read ==
    /\ ~killed
    /\ IF next_packet_length # 0 THEN Len(socket) >= next_packet_length /\ ReadPacket(next_packet_length, socket)
       ELSE Len(socket) >= HEADER /\ \E length \in Lengths(socket) : ReadPacket(length, SubSeq(socket, HEADER + 1, Len(socket)))
    /\ UNCHANGED <<framingBound, sent_nonce, last_packet, priority_queue, tries, fails, accepted>>

Next ==
    \/ Flush
    \/ \E size \in Sizes : WritePlain(size) \/ \E memory \in BOOLEAN : WritePriority(size, memory)
    \/ Read

Spec == Init /\ [][Next]_vars

\* Both sides run their iterations.
Fairness == WF_vars(Flush) /\ WF_vars(Read)
-----------------------------------------------------------------------------
(* Properties *)

\* The bytes of packets never mix, however little the socket takes at a time, and their
\* nonces are used in the order in which the packets are on the way: as long as there is
\* memory the reader never has to end the connection.
InStep == fails = 0 => ~killed

\* The reader gets the packets that were not refused, in the order in which they were
\* written, with priority or without: the connection implements a FIFO channel.  If memory
\* runs out the packet that is lost is the last the reader could have got.
Fifo == INSTANCE FifoChannel WITH
           Peer <- {"writer", "reader"},
           written <- [p \in {"writer", "reader"} |-> IF p = "writer" THEN accepted ELSE 0],
           delivered <- [p \in {"writer", "reader"} |-> IF p = "reader" THEN got ELSE <<>>]
ImplementsFifo == Fifo!Spec

\* All packets that were taken arrive, once no more are written: nothing stays behind in
\* the last packet, the queue or the socket.
AllRead == fails = 0 => Len(got) = accepted
EventuallyRead == <>[]AllRead
=============================================================================
