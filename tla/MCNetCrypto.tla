---------------------------- MODULE MCNetCrypto ----------------------------
(***************************************************************************)
(* Instances, for TLC, of net_crypto.c: handshakes, a connection on which  *)
(* the packet numbers start anew, and the bytes of request packets.  One   *)
(* run covers them: the initial state chooses the part that moves, the     *)
(* variables of the others stay as they are.                               *)
(***************************************************************************)
EXTENDS CryptoHandshake

CONSTANTS a, b,
          FREE, Empty,   \* of CryptoTransport
          Parts,         \* the parts that move
          WrapPackets    \* packets each peer encrypts in the part "wrap"

VARIABLES part,
          status, send_array, recv_array, max_speed, sent_nonce, recv_nonce, wire, written, delivered,
          holes, room, data, unacked, result, phase

transportVars == <<status, send_array, recv_array, max_speed, sent_nonce, recv_nonce, wire, written, delivered>>
codecVars == <<holes, room, data, unacked, result, phase>>

Sessions == [p \in {a, b} |-> 2]
Restarts == [p \in {a, b} |-> 1]

\* More messages than there are packet numbers.
LongWriter == [p \in {a, b} |-> IF p = a THEN 5 ELSE 0]
ManyPackets == [p \in {a, b} |-> IF p = a THEN 6 ELSE 5]
JustEnoughPackets == [p \in {a, b} |-> 5]
W == INSTANCE CryptoTransport WITH
        CRYPTO_PACKET_BUFFER_SIZE <- 1, U32 <- 4, RunMax <- 2, RequestRoom <- 2, NONCES <- 20, DATA_NUM_THRESHOLD <- 1,
        NOT_CONFIRMED <- "not confirmed", ESTABLISHED <- "established",
        MaxPackets <- WrapPackets, MaxWritten <- LongWriter, net <- wire

\* Windows at the start and at the end of the packet numbers, with every set of holes.
C == INSTANCE RequestCodec WITH
        CRYPTO_PACKET_BUFFER_SIZE <- 6, U32 <- 18, RunMax <- 3,
        Starts <- {0, 15}, Rooms <- {0, 1, 2, 6}, recv_array <- holes, send_array <- unacked
NoCodec == holes = 0 /\ room = 0 /\ data = 0 /\ unacked = 0 /\ result = 0 /\ phase = 0

MCInit ==
    /\ part \in Parts
    /\ Init
    /\ W!Init
    /\ IF part = "codec" THEN C!Init ELSE NoCodec

MCNext ==
    /\ \/ part = "handshake" /\ Next /\ UNCHANGED <<transportVars, codecVars>>
       \/ part = "wrap" /\ W!PlainNext /\ UNCHANGED <<vars, codecVars>>
       \/ part = "codec" /\ C!Next /\ UNCHANGED <<vars, transportVars>>
    /\ UNCHANGED part

MCSpec == MCInit /\ [][MCNext]_<<part, vars, transportVars, codecVars>>

\* What the future depends on: packets that can still be received with an effect,
\* and keys of sessions that are in use.
Asking(session) ==
    \E p \in Peer : /\ conn[p] # None
                    /\ conn[p].session = session
                    /\ conn[p].status = COOKIE_REQUESTING
Useful(m) ==
    CASE m.kind = "cookie_request" -> Asking(m.number) /\ m.to = Dht(m.to[1])
      [] m.kind = "cookie_response" -> Asking(m.number)
      [] m.kind = "handshake" -> m.cookie.maker = Dht(m.to)
      [] m.kind = "data" -> conn[m.to] # None /\ conn[m.to].session \in m.key
View ==
    <<part, inc, made, conn, friend, {m \in net : Useful(m)},
      {k \in keyed : conn[Other(k[1])] # None /\ conn[Other(k[1])].session \in k[2]},
      W!StateView, codecVars>>
----------------------------------------------------------------------------
\* The properties are stated in the modules, those of handshakes in CryptoHandshake; here one
\* definition joins those of a part.

\* Where packet numbers start anew and packets of the round before are still under way, the
\* windows of both ends stay nested, no message is lost, messages are delivered in order and
\* receipts are true: net_crypto.c.
SafeAroundWrap == W!WindowsNested /\ W!NothingLost /\ W!DeliveredInOrder /\ W!ReceiptsTruthful

\* The application receives every message, without a gap.
DeliversEveryMessage == W!DeliversEveryMessage

\* The bytes of a request packet say to its receiver what its sender misses and has, and all
\* that is missed if there is room (generate_request_packet, handle_request_packet).
BytesMeanReport == part = "codec" => C!TypeOK /\ C!BytesMeanReport /\ C!AllHolesRequested
============================================================================
