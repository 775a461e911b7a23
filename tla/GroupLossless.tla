--------------------------- MODULE GroupLossless ---------------------------
(***************************************************************************)
(* The lossless packets of one peer connection of a group                  *)
(* (toxcore/group_connection.c and the packet handlers of group_chats.c    *)
(* that drive it), in one direction, over a network that loses, repeats    *)
(* and reorders packets.  The handshake has ended: both sides hold the     *)
(* same key and agree on the first message id.                             *)
(*                                                                         *)
(* A packet that fits in one chunk takes one message id.  A longer one is  *)
(* cut in chunks, one id each, and one more id for the empty fragment that *)
(* ends the sequence.                                                      *)
(***************************************************************************)
EXTENDS Integers, Sequences, FiniteSets

CONSTANTS
    GCC_BUFFER_SIZE,  \* entries of the send array and of the receive array
    U16,              \* 2^16: a message id is stored in a uint16_t once
    FirstId,          \* id of the first packet after the handshake
    ChunkCounts,      \* chunks of the packets that are written; 1: not fragmented
    MaxWritten,       \* bound: packets written
    MaxRefused        \* bound: packets whose handler fails

ASSUME SizesAssumption ==
    /\ GCC_BUFFER_SIZE \in Nat \ {0, 1}
    /\ U16 \in Nat \ {0}
    /\ U16 % GCC_BUFFER_SIZE = 0
    /\ GCC_BUFFER_SIZE < U16
    /\ FirstId \in Nat \ {0}
    /\ ChunkCounts \subseteq 1 .. GCC_BUFFER_SIZE - 1
    /\ MaxWritten \in Nat /\ MaxRefused \in Nat

VARIABLES
    send_message_id, send_array_start, send_array,        \* the sender's
    pending_delete,                                       \* the sender's
    received_message_id, last_chunk_id, recv_array,       \* the receiver's
    net,        \* packets under way, in both directions; one that is never
                \* received is a lost one
    written,    \* written[n]: number of chunks of the n-th packet that was accepted
    consumed,   \* what the receiver's handlers were given and will not see again
    refused,    \* calls of a handler that failed
    shadowed,   \* a packet was accepted while a copy of it lay in the receive array
    truncated   \* fragments were taken back at an id that does not fit in a uint16_t

senderVars == <<send_message_id, send_array_start, send_array, pending_delete, written, truncated>>
receiverVars == <<received_message_id, last_chunk_id, recv_array, consumed, refused, shadowed>>
vars == <<senderVars, receiverVars, net>>

Index == 0 .. GCC_BUFFER_SIZE - 1
gcc_get_array_index(id) == id % GCC_BUFFER_SIZE

\* An array entry that is all zero.
Empty == [id |-> 0, type |-> "none", piece |-> <<>>]
Entry(id, type, piece) == [id |-> id, type |-> type, piece |-> piece]
IsEmpty(entry) == entry.type = "none"

\* The pieces of packet n: what its chunks hold, in order.
Pieces(n) == [i \in 1 .. written[n] |-> <<n, i>>]

Lossless(entry) == [kind |-> "lossless", entry |-> entry]
Ack(type, id) == [kind |-> "ack", type |-> type, id |-> id]

Init ==
    /\ send_message_id = FirstId
    /\ send_array_start = gcc_get_array_index(FirstId)
    /\ send_array = [i \in Index |-> Empty]
    /\ pending_delete = FALSE
    /\ received_message_id = FirstId - 1
    /\ last_chunk_id = 0
    /\ recv_array = [i \in Index |-> Empty]
    /\ net = {}
    /\ written = <<>>
    /\ consumed = <<>>
    /\ refused = 0
    /\ shadowed = FALSE
    /\ truncated = FALSE
-----------------------------------------------------------------------------
(* The sender *)

\* add_to_send_array finds room for id in array.  The subtraction wraps around to
\* U16 - 1 when send_array_start is 0.
CanAdd(id, array) ==
    /\ id % GCC_BUFFER_SIZE # (send_array_start - 1) % U16
    /\ IsEmpty(array[gcc_get_array_index(id)])

add_to_send_array(id, array, entry) == [array EXCEPT ![gcc_get_array_index(id)] = entry]

\* What the fragments of packet n hold: its chunks, then the empty fragment.
Fragment(id, n, i, count) ==
    Entry(id, "fragment", IF i <= count THEN <<<<n, i>>>> ELSE <<>>)

\* The array with the first k fragments of packet n.
WithFragments(n, count, k) ==
    [x \in Index |->
        LET taken == {i \in 1 .. k : gcc_get_array_index(send_message_id + i - 1) = x}
        IN  IF taken = {} THEN send_array[x]
            ELSE LET i == CHOOSE i \in taken : TRUE
                 IN Fragment(send_message_id + i - 1, n, i, count)]

\* The first k of the count + 1 fragments find room one after the other.
Fits(n, count, k) ==
    \A i \in 1 .. k : CanAdd(send_message_id + i - 1, WithFragments(n, count, i - 1))

\* gcc_send_lossless_packet: the packet stays queued when it fails to be sent.
SendPacket(sent) ==
    /\ ~pending_delete
    /\ CanAdd(send_message_id, send_array)
    /\ LET entry == Entry(send_message_id, "packet", <<<<Len(written) + 1, 1>>>>)
       IN  /\ send_array' = add_to_send_array(send_message_id, send_array, entry)
           /\ net' = IF sent THEN net \cup {Lossless(entry)} ELSE net
    /\ send_message_id' = send_message_id + 1
    /\ written' = Append(written, 1)
    /\ UNCHANGED <<send_array_start, pending_delete, truncated, receiverVars>>

\* gcc_send_lossless_packet_fragments when every fragment finds room.
SendFragments(count) ==
    /\ ~pending_delete
    /\ LET n == Len(written) + 1
           array == WithFragments(n, count, count + 1)
       IN  /\ Fits(n, count, count + 1)
           /\ send_array' = array
           /\ net' = net \cup {Lossless(array[gcc_get_array_index(send_message_id + i)]) : i \in 0 .. count}
    /\ send_message_id' = send_message_id + count + 1
    /\ written' = Append(written, count)
    /\ UNCHANGED <<send_array_start, pending_delete, truncated, receiverVars>>

\* clear_send_queue_id_range: start_id went through a uint16_t, and becomes the next id.
clear_send_queue_id_range(start_id, end_id) ==
    /\ send_array' = [x \in Index |->
                        IF (x - start_id) % GCC_BUFFER_SIZE < (end_id - start_id) % GCC_BUFFER_SIZE
                        THEN Empty ELSE send_array[x]]
    /\ send_message_id' = start_id

\* gcc_send_lossless_packet_fragments when a later fragment finds no room: the k
\* fragments that did are taken back.  When the first finds none nothing changes.
SendFragmentsFails(count) ==
    /\ ~pending_delete
    /\ \E k \in 1 .. count :
        /\ Fits(Len(written) + 1, count, k)
        /\ ~Fits(Len(written) + 1, count, k + 1)
        /\ clear_send_queue_id_range(send_message_id % U16, send_message_id + k)
    /\ truncated' = (truncated \/ ~(send_message_id < U16))
    /\ UNCHANGED <<send_array_start, pending_delete, written, receiverVars, net>>

\* The entries gcc_resend_packets walks over.
ResendRange ==
    LET end == send_message_id % GCC_BUFFER_SIZE
    IN  {i \in Index : (i - send_array_start) % GCC_BUFFER_SIZE < (end - send_array_start) % GCC_BUFFER_SIZE}

\* gcc_resend_packets: the entries whose turn it is are sent again.
Resend(due) ==
    /\ ~pending_delete
    /\ ~IsEmpty(send_array[send_array_start])
    /\ due \subseteq {i \in ResendRange : ~IsEmpty(send_array[i])}
    /\ net' = net \cup {Lossless(send_array[i]) : i \in due}
    /\ UNCHANGED <<senderVars, receiverVars>>

\* gcc_resend_packets gives the peer up: its oldest entry has been there too long.
SendArrayStuck ==
    /\ ~pending_delete
    /\ ~IsEmpty(send_array[send_array_start])
    /\ pending_delete' = TRUE
    /\ UNCHANGED <<send_message_id, send_array_start, send_array, written, truncated, receiverVars, net>>

\* gcc_handle_ack: the entry is cleared, and the start of the array moves on to the
\* next entry in use or to the end.
Start(array) ==
    LET end == send_message_id % GCC_BUFFER_SIZE
        At(k) == (send_array_start + k) % GCC_BUFFER_SIZE
        stops == {k \in Index : At(k) = end \/ ~IsEmpty(array[At(k)])}
    IN  At(CHOOSE k \in stops : \A l \in stops : k <= l)

\* Mutant: the id of the entry is not compared.
gcc_handle_ack_AnyId(id) ==
    LET idx == gcc_get_array_index(id)
        array == [send_array EXCEPT ![idx] = Empty]
    IN  /\ send_array' = array
        /\ send_array_start' = IF idx = send_array_start THEN Start(array) ELSE send_array_start

gcc_handle_ack(id) ==
    LET idx == gcc_get_array_index(id)
        array == [send_array EXCEPT ![idx] = Empty]
    IN  IF IsEmpty(send_array[idx]) \/ send_array[idx].id # id
        THEN UNCHANGED <<send_array, send_array_start>>
        ELSE /\ send_array' = array
             /\ send_array_start' = IF idx = send_array_start THEN Start(array) ELSE send_array_start

\* handle_gc_message_ack, GR_ACK_RECV.
ReceiveAck(m) ==
    /\ ~pending_delete
    /\ m.kind = "ack"
    /\ m.type = "GR_ACK_RECV"
    /\ gcc_handle_ack(m.id)
    /\ UNCHANGED <<send_message_id, pending_delete, written, truncated, receiverVars, net>>

\* handle_gc_message_ack, GR_ACK_REQ.  An empty entry has id 0.
ReceiveRequest(m) ==
    /\ ~pending_delete
    /\ m.kind = "ack"
    /\ m.type = "GR_ACK_REQ"
    /\ LET entry == send_array[gcc_get_array_index(m.id)]
       IN  net' = IF entry.id = m.id THEN net \cup {Lossless(entry)} ELSE net
    /\ UNCHANGED <<senderVars, receiverVars>>
-----------------------------------------------------------------------------
(* The receiver: handle_gc_lossless_packet *)

\* gc_send_message_ack asks for a packet at most once a second.
Request(id) == {{}, {Ack("GR_ACK_REQ", id)}}

\* A packet it has had already is acknowledged again.
ReceiveDuplicate(m) ==
    /\ m.kind = "lossless"
    /\ m.entry.id < received_message_id + 1
    /\ net' = net \cup {Ack("GR_ACK_RECV", m.entry.id)}
    /\ UNCHANGED <<senderVars, receiverVars>>

\* A packet ahead of a missing one is stored, and the missing one asked for.  It is
\* dropped when its place is taken.
ReceiveEarly(m) ==
    /\ m.kind = "lossless"
    /\ m.entry.type = "packet"
    /\ m.entry.id > received_message_id + 1
    /\ LET idx == gcc_get_array_index(m.entry.id)
       IN  IF IsEmpty(recv_array[idx])
           THEN /\ recv_array' = [recv_array EXCEPT ![idx] = m.entry]
                /\ \E ask \in Request(received_message_id + 1) : net' = net \cup ask
           ELSE UNCHANGED <<recv_array, net>>
    /\ UNCHANGED <<received_message_id, last_chunk_id, consumed, refused, shadowed, senderVars>>

\* handle_gc_lossless_helper succeeds, or it fails and the bound counts it.
Handles(ok) ==
    IF ok THEN UNCHANGED refused
          ELSE /\ refused < MaxRefused
               /\ refused' = refused + 1

\* Mutant: the id does not move on when the handler fails, as in CheckRecvArray.
ReceiveNext_Retries(m, ok) ==
    /\ m.kind = "lossless"
    /\ m.entry.type = "packet"
    /\ m.entry.id = received_message_id + 1
    /\ Handles(ok)
    /\ received_message_id' = received_message_id + IF ok THEN 1 ELSE 0
    /\ consumed' = Append(consumed, m.entry.piece)
    /\ shadowed' = (shadowed \/ ~IsEmpty(recv_array[gcc_get_array_index(m.entry.id)]))
    /\ net' = IF ok THEN net \cup {Ack("GR_ACK_RECV", m.entry.id)} ELSE net
    /\ UNCHANGED <<last_chunk_id, recv_array, senderVars>>

\* The next packet: the id moves on before the handler runs, so that a packet whose
\* handler fails is not handled again.  It is acknowledged when the handler succeeds.
\* A copy of it that came early, and that gcc_check_recv_array has not come by, stays
\* in the receive array.
ReceiveNext(m, ok) ==
    /\ m.kind = "lossless"
    /\ m.entry.type = "packet"
    /\ m.entry.id = received_message_id + 1
    /\ Handles(ok)
    /\ received_message_id' = received_message_id + 1
    /\ consumed' = Append(consumed, m.entry.piece)
    /\ shadowed' = (shadowed \/ ~IsEmpty(recv_array[gcc_get_array_index(m.entry.id)]))
    /\ net' = IF ok THEN net \cup {Ack("GR_ACK_RECV", m.entry.id)} ELSE net
    /\ UNCHANGED <<last_chunk_id, recv_array, senderVars>>

\* The id the next fragment must have.
NextFragment == IF last_chunk_id # 0 THEN last_chunk_id + 1 ELSE received_message_id + 1

\* handle_gc_packet_fragment: a fragment out of sequence is not stored.
ReceiveFragmentEarly(m) ==
    /\ m.kind = "lossless"
    /\ m.entry.type = "fragment"
    /\ m.entry.id >= received_message_id + 1
    /\ m.entry.id # NextFragment
    /\ \E ask \in Request(NextFragment) : net' = net \cup ask
    /\ UNCHANGED <<senderVars, receiverVars>>

\* Mutant: a fragment is taken whatever its place in the sequence.
ReceiveChunk_AnyOrder(m) ==
    /\ m.kind = "lossless"
    /\ m.entry.type = "fragment"
    /\ m.entry.piece # <<>>
    /\ m.entry.id >= received_message_id + 1
    /\ recv_array' = [recv_array EXCEPT ![gcc_get_array_index(m.entry.id)] = m.entry]
    /\ received_message_id' = received_message_id + 1
    /\ last_chunk_id' = m.entry.id
    /\ UNCHANGED <<consumed, refused, shadowed, senderVars, net>>

\* gcc_handle_packet_fragment: a chunk is stored and not acknowledged.
ReceiveChunk(m) ==
    /\ m.kind = "lossless"
    /\ m.entry.type = "fragment"
    /\ m.entry.piece # <<>>
    /\ m.entry.id >= received_message_id + 1
    /\ m.entry.id = NextFragment
    /\ LET idx == gcc_get_array_index(m.entry.id)
       IN  IF IsEmpty(recv_array[idx])
           THEN /\ recv_array' = [recv_array EXCEPT ![idx] = m.entry]
                /\ received_message_id' = received_message_id + 1
                /\ last_chunk_id' = m.entry.id
           ELSE UNCHANGED <<recv_array, received_message_id, last_chunk_id>>
    /\ UNCHANGED <<consumed, refused, shadowed, senderVars, net>>

\* reassemble_packet walks back from the entry before id over the fragments: the
\* number of entries it finds, GCC_BUFFER_SIZE when it comes round.
Back(id, k) == (id - k) % GCC_BUFFER_SIZE
Found(id) ==
    CHOOSE k \in 0 .. GCC_BUFFER_SIZE :
        /\ \A i \in 1 .. k : recv_array[Back(id, i)].type = "fragment"
        /\ k = GCC_BUFFER_SIZE \/ recv_array[Back(id, k + 1)].type # "fragment"

\* The pieces it puts together.
Joined(id) == [i \in 1 .. Found(id) |-> recv_array[Back(id, Found(id) + 1 - i)].piece[1]]

\* gcc_handle_packet_fragment: the empty fragment ends the sequence.  The stored
\* chunks are gone when the handler fails.
ReceiveEnd(m, ok) ==
    /\ m.kind = "lossless"
    /\ m.entry.type = "fragment"
    /\ m.entry.piece = <<>>
    /\ m.entry.id >= received_message_id + 1
    /\ m.entry.id = NextFragment
    /\ LET id == m.entry.id
           cleared == {Back(id, k) : k \in 1 .. Found(id)}
       IN  IF Found(id) \in {0, GCC_BUFFER_SIZE}
           THEN UNCHANGED <<receiverVars, net>>
           ELSE /\ Handles(ok)
                /\ recv_array' = [i \in Index |-> IF i \in cleared THEN Empty ELSE recv_array[i]]
                /\ received_message_id' = received_message_id + IF ok THEN 1 ELSE 0
                /\ last_chunk_id' = IF ok THEN 0 ELSE last_chunk_id
                /\ consumed' = IF ok THEN Append(consumed, Joined(id)) ELSE consumed
                /\ net' = IF ok THEN net \cup {Ack("GR_ACK_RECV", id)} ELSE net
                /\ UNCHANGED shadowed
    /\ UNCHANGED senderVars

\* gcc_check_recv_array and process_recv_array_entry: the entry is cleared before
\* its id is put in the acknowledgement or the request, which so carries id 0.
CheckRecvArray(ok) ==
    LET idx == gcc_get_array_index(received_message_id + 1)
    IN  /\ last_chunk_id = 0
        /\ ~IsEmpty(recv_array[idx])
        /\ Handles(ok)
        /\ recv_array' = [recv_array EXCEPT ![idx] = Empty]
        /\ IF ok
           THEN /\ net' = net \cup {Ack("GR_ACK_RECV", Empty.id)}
                /\ received_message_id' = received_message_id + 1
                /\ consumed' = Append(consumed, recv_array[idx].piece)
           ELSE /\ \E ask \in Request(Empty.id) : net' = net \cup ask
                /\ UNCHANGED <<received_message_id, consumed>>
        /\ UNCHANGED <<last_chunk_id, shadowed, senderVars>>

-----------------------------------------------------------------------------
Receive(m) ==
    \/ ReceiveAck(m)
    \/ ReceiveRequest(m)
    \/ ReceiveDuplicate(m)
    \/ ReceiveEarly(m)
    \/ \E ok \in BOOLEAN : ReceiveNext(m, ok)
    \/ ReceiveFragmentEarly(m)
    \/ ReceiveChunk(m)
    \/ \E ok \in BOOLEAN : ReceiveEnd(m, ok)

Write ==
    /\ Len(written) < MaxWritten
    /\ \/ \E sent \in BOOLEAN : 1 \in ChunkCounts /\ SendPacket(sent)
       \/ \E count \in ChunkCounts \ {1} : SendFragments(count) \/ SendFragmentsFails(count)

Next ==
    \/ Write
    \/ \E due \in SUBSET Index : Resend(due)
    \/ SendArrayStuck
    \/ \E m \in net : Receive(m)
    \/ \E ok \in BOOLEAN : CheckRecvArray(ok)

Spec == Init /\ [][Next]_vars
-----------------------------------------------------------------------------
(* Properties *)

Ids == FirstId .. send_message_id - 1

\* The type of the state.
TypeOK ==
    /\ send_message_id \in Nat
    /\ send_array_start \in Index
    /\ DOMAIN send_array = Index
    /\ DOMAIN recv_array = Index
    /\ pending_delete \in BOOLEAN
    /\ received_message_id \in Nat
    /\ last_chunk_id \in Nat
    /\ refused \in 0 .. MaxRefused

\* gcc_check_recv_array looks at the place of the next id: what it finds there is
\* that packet ("messages that are in proper sequence", group_connection.h).
ProperSequence ==
    LET idx == gcc_get_array_index(received_message_id + 1)
    IN  ~IsEmpty(recv_array[idx]) => recv_array[idx].id = received_message_id + 1

\* The handlers are given the packets in the order they were written, each once and
\* whole, whatever the network does to their fragments, as long as no packet was
\* accepted over a copy of it in the receive array (handle_gc_lossless_packet) and no
\* fragments were taken back past id 2^16 (gcc_send_lossless_packet_fragments).
InOrderOnceWhole ==
    ~shadowed /\ ~truncated =>
        /\ ProperSequence
        /\ Len(consumed) <= Len(written)
        /\ \A n \in 1 .. Len(consumed) : consumed[n] = Pieces(n)

\* An id the receiver has not accepted is still in the send array: no
\* acknowledgement, however late or repeated, frees a packet the peer has not had
\* (gcc_handle_ack).
NothingLost ==
    \A id \in received_message_id + 1 .. send_message_id - 1 :
        send_array[gcc_get_array_index(id)].id = id

\* The chunks stored so far are those of the packet under way, up to the last id
\* accepted: none of them is overwritten or taken for another packet's
\* (gcc_handle_packet_fragment).  A handler that fails on the whole packet loses them.
PartialPacket ==
    last_chunk_id # 0 /\ ~shadowed /\ ~truncated =>
        /\ last_chunk_id = received_message_id
        /\ refused = 0 => /\ Found(last_chunk_id + 1) > 0
                          /\ Joined(last_chunk_id + 1) =
                                [i \in 1 .. Found(last_chunk_id + 1) |-> <<Len(consumed) + 1, i>>]

\* What the handlers were given, and what waits to be given to them, is whole and in order.
PacketsWhole == TypeOK /\ InOrderOnceWhole /\ PartialPacket

\* A packet takes ids only when it is accepted: a fragmented one that does not find
\* room for all its fragments leaves no trace, but that the next id loses what does not
\* fit in a uint16_t (gcc_send_lossless_packet_fragments).
OnlyAcceptedTakeIds ==
    [][send_message_id' # send_message_id =>
          \/ Len(written') = Len(written) + 1
          \/ send_message_id >= U16 /\ send_message_id' = send_message_id % U16]_vars

\* A packet that is not accepted leaves the ids as they were: "If any chunk fails to be
\* added the process will be reversed" (group_connection.h).
FailureReversed == [][written' = written => send_message_id' = send_message_id]_vars

\* Every packet without an acknowledgement is one gcc_resend_packets comes by: it
\* "attempts to re-send lossless packets that have not yet received an ack"
\* (group_connection.h).
ResendCovers ==
    \A i \in Index : ~IsEmpty(send_array[i]) => i \in ResendRange

-----------------------------------------------------------------------------
\* The number of a packet that arrived whole.
Message(pieces) ==
    IF \E n \in 1 .. Len(written) : pieces = Pieces(n) THEN pieces[1][1] - 1 ELSE -1

Fifo == INSTANCE FifoChannel WITH
    Peer <- {"from", "to"},
    written <- [p \in {"from", "to"} |-> IF p = "from" THEN Len(written) ELSE 0],
    delivered <- [p \in {"from", "to"} |->
        IF p = "to" THEN [n \in 1 .. Len(consumed) |-> Message(consumed[n])] ELSE <<>>]

\* The connection is a FIFO channel from the writer to the handlers, up to the first
\* packet that is accepted over a copy of it or after the ids went back.
ImplementsFifo ==
    Fifo!Init /\ [][shadowed' \/ truncated' \/ Fifo!Next]_<<written, consumed>>

\* The channel carries the packets that were accepted, and those alone take ids.
FifoOfAccepted == ImplementsFifo /\ OnlyAcceptedTakeIds
=============================================================================
