---------------------------- MODULE RequestCodec ----------------------------
(***************************************************************************)
(* The bytes of a request packet.  generate_request_packet encodes the     *)
(* holes of a receive array as distances from one to the next, with a zero *)
(* byte where a distance would not fit a byte; handle_request_packet walks *)
(* the peer's send array with the same counter, frees what was received    *)
(* and marks what was requested.  CryptoTransport uses the report the      *)
(* bytes stand for (generate_request_packet in PacketsArray); here both    *)
(* loops run on the bytes and the outcome is compared with that report.    *)
(***************************************************************************)
EXTENDS PacketsArray, Sequences

CONSTANTS Starts,   \* values of buffer_start to try
          Rooms     \* byte counts to try

VARIABLES recv_array, room, data, send_array, result, phase

vars == <<recv_array, room, data, send_array, result, phase>>

\* Mutant: the counter starts at 0 after a run is cut.
RECURSIVE Encode_FromZero(_, _, _, _, _)
Encode_FromZero(a, i, n, out, len) ==
    IF i = a.end \/ Len(out) = len THEN out
    ELSE IF At(a, i) = Empty THEN Encode_FromZero(a, Inc(i), 1, Append(out, n), len)
    ELSE IF n = RunMax THEN Encode_FromZero(a, Inc(i), 0, Append(out, 0), len)
    ELSE Encode_FromZero(a, Inc(i), n + 1, out, len)

\* The loop of generate_request_packet at number i with counter n; the bytes
\* written so far are out.
RECURSIVE Encode(_, _, _, _, _)
Encode(a, i, n, out, len) ==
    IF i = a.end \/ Len(out) = len THEN out
    ELSE IF At(a, i) = Empty THEN Encode(a, Inc(i), 1, Append(out, n), len)
    ELSE IF n = RunMax THEN Encode(a, Inc(i), 1, Append(out, 0), len)
    ELSE Encode(a, Inc(i), n + 1, out, len)

\* The loop of handle_request_packet: the numbers requested and freed so far.
RECURSIVE Decode(_, _, _, _, _, _)
Decode(a, i, n, bytes, requested, freed) ==
    IF i = a.end \/ bytes = <<>>
    THEN [ok |-> TRUE, requested |-> requested, freed |-> freed]
    ELSE IF n = Head(bytes)
    THEN Decode(a, Inc(i), 1, Tail(bytes), requested \union {i}, freed)
    ELSE IF n < RunMax
    THEN Decode(a, Inc(i), n + 1, bytes, requested, freed \union {i})
    ELSE IF Head(bytes) = 0
    THEN Decode(a, Inc(i), 1, Tail(bytes), requested, freed \union {i})
    ELSE [ok |-> FALSE, requested |-> requested, freed |-> freed \union {i}]

\* A window of k numbers from s whose packets are at the offsets in K.
ArrayWith(s, k, K) ==
    [buffer |-> [x \in Slot |-> IF \E o \in K : SlotOf(Plus(s, o)) = x THEN 1 ELSE Empty],
     start |-> s, end |-> Plus(s, k)]

\* The sender still holds what the receiver misses and what it has appended since;
\* earlier requests may have freed some of what was received.
Init ==
    \E s \in Starts, k \in 0 .. CRYPTO_PACKET_BUFFER_SIZE :
        \E e \in k .. CRYPTO_PACKET_BUFFER_SIZE, got \in SUBSET (0 .. (k - 1)) :
            \E gone \in SUBSET got :
                /\ recv_array = ArrayWith(s, k, got)
                /\ send_array = ArrayWith(s, e, (0 .. (e - 1)) \ gone)
                /\ room \in Rooms
                /\ data = <<>>
                /\ result = [ok |-> TRUE, requested |-> {}, freed |-> {}]
                /\ phase = "fresh"

GenerateRequest ==
    /\ phase = "fresh"
    /\ data' = Encode(recv_array, recv_array.start, 1, <<>>, room)
    /\ phase' = "sent"
    /\ UNCHANGED <<recv_array, room, send_array, result>>

HandleRequest ==
    LET d == Decode(send_array, send_array.start, 1, data, {}, {})
    IN  /\ phase = "sent"
        /\ phase' = "handled"
        /\ result' = d
        /\ send_array' = [send_array EXCEPT !.buffer = Freed(send_array, d.freed)]
        /\ UNCHANGED <<recv_array, room, data>>

Next == GenerateRequest \/ HandleRequest

Spec == Init /\ [][Next]_vars

TypeOK ==
    /\ recv_array \in ArrayOf({1})
    /\ send_array \in ArrayOf({1})
    /\ room \in Rooms
    /\ data \in Seq(0 .. RunMax)

\* The handler accepts every generated packet and reads from it exactly the report
\* of the receive array: nothing the receiver misses is freed, and every number up
\* to the last byte is either requested or freed.
BytesMeanReport ==
    phase = "handled" =>
        LET report == generate_request_packet(recv_array, room)
        IN  /\ result.ok
            /\ result.requested = report.requested
            /\ result.freed = report.received
            /\ Holes(recv_array) \subseteq Occupied(send_array)

\* If the packet has room for every hole, every hole is requested.
AllHolesRequested ==
    phase = "handled" /\ room >= CRYPTO_PACKET_BUFFER_SIZE =>
        result.requested = Holes(recv_array)
=============================================================================
