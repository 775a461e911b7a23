----------------------------- MODULE MCServices -----------------------------
(***************************************************************************)
(* Instances, for TLC, of what toxcore does over the connections between   *)
(* friends (file transfers, conferences) and of TCP connections: their     *)
(* packets and the ids of a relay.  One run covers them: the initial       *)
(* state chooses the module that moves, the variables of the others stay   *)
(* as they are.                                                            *)
(***************************************************************************)
EXTENDS Integers, Sequences, FiniteSets, TLC

CONSTANTS c1, c2, c3, None,
          Parts,            \* the modules that move
          FileBounds

VARIABLES part,
          fileBound, file_sending, num_sending_files, file_receiving, num_receiving_files, toReceiver, toSender,
          conn, online, files, fileDid, accepted, ended, reused, bad, whole, told,
          bound, member, name, chan, linked, did, left, pinged,
          lossyBound, top_lossy_number, bottom_lossy_number, recv_lossy, newest, heard, again, missed,
          framingBound, sent_nonce, last_packet, priority_queue, socket, next_packet_length, recv_nonce, killed,
          tries, noMemory, taken, got,
          acc, table, size, num, keylist, sock, up, down, client

fileVars == <<fileBound, file_sending, num_sending_files, file_receiving, num_receiving_files, toReceiver, toSender,
              conn, online, files, fileDid, accepted, ended, reused, bad, whole, told>>
conferenceVars == <<bound, member, name, chan, linked, did, left, pinged>>
lossyVars == <<lossyBound, top_lossy_number, bottom_lossy_number, recv_lossy, newest, heard, again, missed>>
framingVars == <<framingBound, sent_nonce, last_packet, priority_queue, socket, next_packet_length, recv_nonce, killed,
                 tries, noMemory, taken, got>>
relayVars == <<acc, table, size, num, keylist, sock, up, down, client>>

\* Files of one and of two chunks.
File(kind, bytes) == [kind |-> kind, size |-> bytes]
FileBound(fs, losses, controls, stales, fails, calm) ==
    [files |-> fs, losses |-> losses, controls |-> controls, stales |-> stales, fails |-> fails, calm |-> calm]
F == INSTANCE FileTransfers WITH
        Pipes <- 2, MAX_FILE_DATA_SIZE <- 2, U32 <- 16, Bounds <- FileBounds, bound <- fileBound, did <- fileDid

\* Transfers that go on with others that do not, one that is stale and one where an answer
\* cannot be sent; numbers that are used again; an empty file and a message.
MCFileBounds ==
    {FileBound(<<File("ftv2", 3)>>, 1, 1, 1, 0, FALSE),
     FileBound(<<File("ftv2", 3)>>, 0, 1, 1, 1, FALSE),
     FileBound(<<File("ftv2", 3), File("plain", 2)>>, 1, 1, 0, 0, FALSE),
     FileBound(<<File("plain", 3), File("plain", 2), File("plain", 1)>>, 0, 1, 0, 0, FALSE),
     FileBound(<<File("plain", 0), File("message", 2)>>, 1, 1, 0, 0, FALSE)}
\* A transfer whose receiver does not get data for long.
StaleBounds == {FileBound(<<File("ftv2", 3)>>, 0, 0, 1, 0, FALSE)}

\* Three friends, or two with a common friend.  Messages around the last number; of two
\* senders; a name and a farewell; connections lost; a client started again; invitations,
\* also of members; peers that time out; names while two are not connected.
Tri == {{c1, c2}, {c2, c3}, {c1, c3}}
Line == {{c1, c2}, {c2, c3}}
All == {c1, c2, c3}
Conference(links, members, first, actors) ==
    [links |-> links, down |-> {}, members |-> members, first |-> first, sends |-> 0, names |-> 0, joins |-> 0, leaves |-> 0,
     losses |-> 0, timeouts |-> 0, restarts |-> 0, actors |-> actors, pings |-> TRUE]
ConferenceBounds ==
    {[Conference(Tri, All, 30, {c1}) EXCEPT !.sends = 3],
     [Conference(Tri, All, 1, {c1, c2}) EXCEPT !.sends = 2],
     [Conference(Tri, All, 1, {c1}) EXCEPT !.sends = 1, !.names = 1, !.leaves = 1],
     [Conference(Tri, All, 1, {c1}) EXCEPT !.sends = 1, !.losses = 1],
     [Conference(Line, All, 1, {c1}) EXCEPT !.sends = 1, !.losses = 1],
     [Conference({{c1, c2}}, {c1, c2}, 1, {c1}) EXCEPT !.restarts = 1],
     [Conference({{c1, c2}}, {c1, c2}, 1, {c1}) EXCEPT !.sends = 1, !.restarts = 1, !.pings = FALSE],
     [Conference(Tri, {c1, c2}, 1, {c1}) EXCEPT !.joins = 1],
     [Conference({{c1, c2}}, {c1, c2}, 1, {c1, c2}) EXCEPT !.joins = 1, !.timeouts = 1],
     [Conference(Line, {c1, c2}, 1, {c2}) EXCEPT !.joins = 2],
     [Conference(Line, {c1, c2}, 1, {c2}) EXCEPT !.sends = 1, !.joins = 1, !.leaves = 1],
     [Conference(Line, All, 1, {c2}) EXCEPT !.sends = 1, !.timeouts = 1],
     [Conference(Tri, All, 1, {c1}) EXCEPT !.timeouts = 1],
     [Conference(Tri, All, 1, {c1}) EXCEPT !.names = 2, !.down = {{c1, c2}}, !.pings = FALSE]}
G == INSTANCE Conferences WITH
        Clients <- All, MAX_LAST_MESSAGE_INFOS <- 2, U32 <- 32, SAVE_OFFSET_MESSAGE_NUMBER <- 2, Bounds <- ConferenceBounds, client <- member

\* From the start, around the last number, and with many packets lost in a row.
LossyBound(first, last, burst, late) == [first |-> first, last |-> last, burst |-> burst, late |-> late]
LossyBounds == {LossyBound(1, 12, 3, 6), LossyBound(28, 40, 6, 6), LossyBound(30, 75, 12, 3), LossyBound(0, 8, 3, 3)}
L == INSTANCE ConferenceLossy WITH MAX_LOSSY_COUNT <- 4, U16 <- 32, Bounds <- LossyBounds

\* A socket that holds less than a packet, or more, and one without memory for the queue.
FramingBound(buffer, writes, fails) == [buffer |-> buffer, writes |-> writes, fails |-> fails]
FramingBounds == {FramingBound(3, 5, 0), FramingBound(5, 5, 0), FramingBound(7, 5, 0), FramingBound(5, 5, 1)}
T == INSTANCE TcpFraming WITH Sizes <- {3, 4}, Bounds <- FramingBounds, fails <- noMemory, accepted <- taken

\* One client of a relay asks for both others, and they ask for it, with one id each.
HubFriends == c1 :> {c2, c3} @@ c2 :> {c1} @@ c3 :> {c1}
HubNumber == c1 :> 0 @@ c2 :> 1 @@ c3 :> 0
R == INSTANCE TcpRelay WITH
        Key <- All, Friends <- HubFriends, PeerNumber <- HubNumber, NUM_CLIENT_CONNECTIONS <- 1, GROW <- 2,
        MaxConns <- 1, Hasty <- {}, MaxUp <- 2, MaxDown <- 0
\* The same where that client also gives routes up before the relay's answer.
E == INSTANCE TcpRelay WITH
        Key <- All, Friends <- HubFriends, PeerNumber <- HubNumber, NUM_CLIENT_CONNECTIONS <- 1, GROW <- 2,
        MaxConns <- 1, Hasty <- {<<c1, 1>>}, MaxUp <- 1, MaxDown <- 0

MCInit ==
    /\ part \in Parts
    /\ F!Init /\ G!Init /\ L!Init /\ T!Init /\ R!Init
    /\ part # "files" => fileBound = CHOOSE b \in FileBounds : TRUE
    /\ part # "conference" => bound = CHOOSE b \in ConferenceBounds : TRUE
    /\ part # "lossy" => lossyBound = CHOOSE b \in LossyBounds : TRUE
    /\ part # "framing" => framingBound = CHOOSE b \in FramingBounds : TRUE

MCNext ==
    /\ \/ part = "files" /\ F!Next /\ UNCHANGED <<relayVars, conferenceVars, lossyVars, framingVars>>
       \/ part = "conference" /\ G!Next /\ UNCHANGED <<relayVars, fileVars, lossyVars, framingVars>>
       \/ part = "lossy" /\ L!Next /\ UNCHANGED <<relayVars, fileVars, conferenceVars, framingVars>>
       \/ part = "framing" /\ T!Next /\ UNCHANGED <<relayVars, fileVars, conferenceVars, lossyVars>>
       \/ part = "relay" /\ R!Steady /\ UNCHANGED <<fileVars, conferenceVars, lossyVars, framingVars>>
       \/ part = "hasty" /\ E!Steady /\ UNCHANGED <<fileVars, conferenceVars, lossyVars, framingVars>>
    /\ UNCHANGED part

MCSpec == MCInit /\ [][MCNext]_<<part, relayVars, fileVars, conferenceVars, lossyVars, framingVars>>
-----------------------------------------------------------------------------
\* The properties are stated in the modules; here one definition joins those of a part.

\* Every piece of a file is put where it belongs, a transfer is told done only when it is
\* whole, and the transfers counted are those there are: Messenger.c, however controls, losses
\* and resumptions cross.
FilesWhole ==
    part = "files" => F!TypeOK /\ F!DataPlaced /\ F!ToldWhole /\ F!SendersServed /\ F!ReceiversServed

\* Data of a file is only sent once its receiver has accepted the file.
SentOnlyAccepted == part = "files" => F!SentOnlyAccepted

\* Members of a conference show every message once and those of a member in order, also
\* after a restart, and take no older name for a newer one: group.c, over several paths.
MessagesOnce ==
    /\ [](part = "conference" => G!TypeOK /\ G!HandledOnce /\ G!InOrder /\ G!NumbersAhead)
    /\ G!NamesForward

\* Once all is quiet the members of a conference have shown all messages and agree on names,
\* members and connections: group.c, after losses, time-outs, introductions and farewells.
MembersAgree ==
    part = "conference" =>
        G!AllHandled /\ G!GoneStaysGone /\ G!NamesAgree /\ G!ConnectionsAgree /\ G!GroupWhole

\* No lossy packet is taken twice, and none that is near enough is refused
\* (lossy_packet_not_received).
LossySound == part = "lossy" => L!LossyOnce /\ L!LossyTaken

\* Packets on a TCP connection stay whole and in order however little the socket takes, and
\* both ends keep their nonces in step: TCP_common.c.
FramesFifo == [](part = "framing" => T!InStep) /\ T!ImplementsFifo

\* An id of a relay that is used again never brings in data as another client's, and no packet
\* for an id is refused, to clients that wait for the relay's answer before they give a route
\* up: TCP_server.c, TCP_client.c, TCP_connection.c.
DataFromPeer == part \in {"relay", "hasty"} => R!NeverRefused /\ R!DataFromPeer

\* Data that arrives under an id without a number goes to no connection.
OnlyOwnData == part = "relay" => R!OnlyOwnData
=============================================================================
