------------------------------- MODULE MCLive -------------------------------
(***************************************************************************)
(* Instances, for TLC, of what must happen in the end: handshakes,         *)
(* messages, routes of a relay, file transfers and packets on a TCP        *)
(* connection.  One run covers them: the initial state chooses the part    *)
(* that moves, the variables of the others stay as they are.               *)
(***************************************************************************)
EXTENDS TcpRelay, TLC

CONSTANTS a, b, FREE, Empty,
          Parts      \* the parts that move

VARIABLES part,
          inc, made, conn, friend, packets, keyed,
          status, send_array, recv_array, max_speed, sent_nonce, recv_nonce, net, written, delivered,
          fileBound, file_sending, num_sending_files, file_receiving, num_receiving_files, toReceiver, toSender,
          fileConn, online, files, did, accepted, ended, reused, bad, whole, told,
          framingBound, nonce, last_packet, priority_queue, socket, next_packet_length, next_nonce, killed,
          tries, noMemory, taken, got

relayVars == vars
handshakeVars == <<inc, made, conn, friend, packets, keyed>>
transportVars == <<status, send_array, recv_array, max_speed, sent_nonce, recv_nonce, net, written, delivered>>
fileVars == <<fileBound, file_sending, num_sending_files, file_receiving, num_receiving_files, toReceiver, toSender,
              fileConn, online, files, did, accepted, ended, reused, bad, whole, told>>
framingVars == <<framingBound, nonce, last_packet, priority_queue, socket, next_packet_length, next_nonce, killed,
                 tries, noMemory, taken, got>>

\* Two clients of a relay that ask for each other.
PairFriends == a :> {b} @@ b :> {a}
PairNumber == a :> 0 @@ b :> 0
NotHasty == {}

\* Two friends of whom one restarts.
CalmSessions == [p \in {a, b} |-> 6]
OneRestarts == [p \in {a, b} |-> IF p = a THEN 0 ELSE 1]
H == INSTANCE CryptoHandshake WITH Peer <- {a, b}, MaxSessions <- CalmSessions, MaxRestarts <- OneRestarts, net <- packets

\* Two messages of one peer; packets have no numbers here that run out.
NoBound == [p \in {a, b} |-> 0]
TwoMessages == [p \in {a, b} |-> IF p = a THEN 2 ELSE 0]
T == INSTANCE CryptoTransport WITH
        Peer <- {a, b}, CRYPTO_PACKET_BUFFER_SIZE <- 2, U32 <- 6, RunMax <- 2, RequestRoom <- 2, NONCES <- 1,
        DATA_NUM_THRESHOLD <- 1, NOT_CONFIRMED <- "not confirmed", ESTABLISHED <- "established",
        MaxPackets <- NoBound, MaxWritten <- TwoMessages

\* A transfer of two chunks that goes on after the connection was lost.
FileBounds == {[files |-> <<[kind |-> "ftv2", size |-> 3]>>, losses |-> 1,
                controls |-> 0, stales |-> 0, fails |-> 0, calm |-> TRUE]}
F == INSTANCE FileTransfers WITH
        Pipes <- 2, MAX_FILE_DATA_SIZE <- 2, U32 <- 16, Bounds <- FileBounds, bound <- fileBound, conn <- fileConn

\* A socket that holds less than a packet, or more.
FramingBounds == {[buffer |-> n, writes |-> 5, fails |-> 0] : n \in {3, 5, 7}}
P == INSTANCE TcpFraming WITH
        Sizes <- {3, 4}, Bounds <- FramingBounds, sent_nonce <- nonce, recv_nonce <- next_nonce,
        fails <- noMemory, accepted <- taken

MCInit ==
    /\ part \in Parts
    /\ Init /\ H!Init /\ T!Init /\ F!Init /\ P!Init
    /\ part # "framing" => framingBound = CHOOSE x \in FramingBounds : TRUE

MCNext ==
    /\ \/ part = "relay" /\ Calm /\ UNCHANGED <<handshakeVars, transportVars, fileVars, framingVars>>
       \/ part = "handshake" /\ H!CalmNext /\ UNCHANGED <<relayVars, transportVars, fileVars, framingVars>>
       \/ part = "transport" /\ T!LiveNext /\ UNCHANGED <<relayVars, handshakeVars, fileVars, framingVars>>
       \/ part = "files" /\ F!Next /\ UNCHANGED <<relayVars, handshakeVars, transportVars, framingVars>>
       \/ part = "framing" /\ P!Next /\ UNCHANGED <<relayVars, handshakeVars, transportVars, fileVars>>
    /\ UNCHANGED part

\* The fairness of each module, for the part that moves.
RelayFair ==
    /\ \A x \in Socket : WF_relayVars(part = "relay" /\ Accept(x)) /\ WF_relayVars(part = "relay" /\ ServerReceive(x))
    /\ \A k \in Key : /\ WF_relayVars(part = "relay" /\ ClientConnect(k))
                      /\ WF_relayVars(part = "relay" /\ ClientReceive(k))
                      /\ WF_relayVars(part = "relay" /\ NoticeClosed(k))
                      /\ \A p \in Friends[k] : WF_relayVars(part = "relay" /\ SendRoutingRequest(k, p))
HandshakeFair ==
    \A p \in {a, b} :
        /\ WF_handshakeVars(part = "handshake" /\ H!LearnCurrentKey(p))
        /\ WF_handshakeVars(part = "handshake" /\ H!Reconnect(p))
        /\ WF_handshakeVars(part = "handshake" /\ H!ReceiveFresh(p))
        /\ WF_handshakeVars(part = "handshake" /\ H!SendData(p))
        /\ WF_handshakeVars(part = "handshake" /\ H!StaleTimeout(p))
TransportFair ==
    \A p \in {a, b} :
        /\ WF_transportVars(part = "transport" /\ T!SendRequest(p))
        /\ WF_transportVars(part = "transport" /\ T!Unsent(p) # {} /\ T!SendRequested(p, 2, T!Unsent(p)))
        /\ SF_transportVars(part = "transport" /\ T!ReceiveCurrentRequest(p))
        /\ SF_transportVars(part = "transport" /\ T!ReceiveNewData(p))
FileFair ==
    /\ WF_fileVars(part = "files" /\ F!Send)
    /\ \A n \in {0, 1} :
        /\ WF_fileVars(part = "files" /\ F!RequestChunk(n)) /\ WF_fileVars(part = "files" /\ F!SendChunk(n))
        /\ WF_fileVars(part = "files" /\ F!SendEmpty(n)) /\ WF_fileVars(part = "files" /\ F!Finish(n))
        /\ WF_fileVars(part = "files" /\ F!SeekOver(n)) /\ WF_fileVars(part = "files" /\ F!SendAgain(n))
        /\ WF_fileVars(part = "files" /\ F!ReceiverAccept(n)) /\ WF_fileVars(part = "files" /\ F!AskAgain(n))
    /\ WF_fileVars(part = "files" /\ F!ControlSender) /\ WF_fileVars(part = "files" /\ F!ReceiveRequest)
    /\ WF_fileVars(part = "files" /\ F!ControlReceiver) /\ WF_fileVars(part = "files" /\ F!ReceiveData)
    /\ \A side \in {"sender", "receiver"} :
        WF_fileVars(part = "files" /\ F!Offline(side)) /\ WF_fileVars(part = "files" /\ F!Online(side))
    /\ WF_fileVars(part = "files" /\ F!Reconnect)
FramingFair == WF_framingVars(part = "framing" /\ P!Flush) /\ WF_framingVars(part = "framing" /\ P!Read)

LiveSpec ==
    /\ MCInit
    /\ [][MCNext]_<<part, relayVars, handshakeVars, transportVars, fileVars, framingVars>>
    /\ RelayFair /\ HandshakeFair /\ TransportFair /\ FileFair /\ FramingFair
-----------------------------------------------------------------------------
(* What the modules state to hold in the end and from then on: clients of a relay have   *)
(* routes to each other, friends are connected, messages delivered, files whole, and the *)
(* packets on a TCP connection read.                                                     *)
Settled ==
    CASE part = "relay" -> AllRouted
      [] part = "handshake" -> H!BothConnected
      [] part = "transport" -> T!AllDelivered
      [] part = "files" -> F!AllArrived
      [] part = "framing" -> P!AllRead
EventuallySettled == <>[]Settled
=============================================================================
