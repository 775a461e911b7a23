------------------------------ MODULE Presence ------------------------------
(* Friends and the friend connections they use: toxcore/Messenger.c (adding and      *)
(* deleting friends, ONLINE and OFFLINE packets, names, messages and read receipts)  *)
(* over toxcore/friend_connection.c (connections shared by their users and counted). *)
(*                                                                                   *)
(* A friend connection carries packets in order, as CryptoTransport shows; either    *)
(* end may lose it at its own time.  A conference is the other user of a connection. *)
(* The pair of packets that send_online_packet writes is one packet here, the name   *)
(* stands for the four values that are sent in the same way (name, status, status    *)
(* message, typing), and message ids are not used again when a friend is added       *)
(* again.                                                                            *)
EXTENDS Naturals, Sequences, FiniteSets, SequencesExt

CONSTANTS Users,                      \* the users
          None,
          CRYPTO_PACKET_BUFFER_SIZE,  \* packets that may wait in a send array
          Bounds                      \* what may happen

VARIABLES left,        \* what may still happen
          conns,       \* Friend_Connections.conns of every user
          friendlist,  \* Messenger.friendlist of every user
          held,        \* <<u, v>>: a conference of u uses the connection to v
          wire,        \* wire[u][v]: packets of u that v did not get
          delivered,   \* delivered[u][v]: packets of u that v got on this connection
          name,        \* the users' names
          refused,     \* an ONLINE or OFFLINE packet was not sent: the send array was full
          astray,      \* <<v, u>>: an ONLINE packet of v for u was not sent, or one for another got to u
          arrived, seen, read  \* messages that got to the friend, to its client, and whose receipt was told
vars == <<left, conns, friendlist, held, wire, delivered, name, refused, astray, arrived, seen, read>>

\* One slot for every other user is enough for friends and for connections.
Slots == 0 .. Cardinality(Users) - 2
NOFRIEND == None
Packet(id, n) == [id |-> id, n |-> n]
ONLINE == Packet("online", 0)
OFFLINE == Packet("offline", 0)

(* The least free slot: create_friend_conn and init_new_friend take it.             *)
Free(list) == CHOOSE i \in Slots : list[i] = None /\ \A j \in Slots : j < i => list[j] # None
getfriend(list, v) == {i \in Slots : list[i] # None /\ list[i].peer = v}
friend_con_connected(cs, id) == id \in Slots /\ cs[id] # None /\ cs[id].up
Connection(u, v) == {id \in getfriend(conns[u], v) : conns[u][id].up}
Full(w) == Len(w) >= CRYPTO_PACKET_BUFFER_SIZE

NewConn(v) == [peer |-> v, lock_count |-> 0, up |-> FALSE]
NewFriend(v, con, status) ==
    [peer |-> v, friendcon_id |-> con, status |-> status, name |-> None, name_sent |-> FALSE, receipts |-> <<>>]

Load(u, b) ==   \* the friends and conferences of a save, friends first
    LET others(pairs) == SetToSeq({v \in Users : <<u, v>> \in pairs})
        order == others(b.friends) \o SelectSeq(others(b.held), LAMBDA v : <<u, v>> \notin b.friends)
    IN  [conns |-> [i \in Slots |-> IF i < Len(order)
                      THEN [NewConn(order[i + 1]) EXCEPT !.lock_count =
                              IF {<<u, order[i + 1]>>} \subseteq b.held \cap b.friends THEN 1 ELSE 0]
                      ELSE None],
         friendlist |-> [i \in Slots |-> IF i < Len(others(b.friends)) THEN NewFriend(order[i + 1], i, "confirmed") ELSE None]]

Init ==
    /\ left \in Bounds
    /\ conns = [u \in Users |-> Load(u, left).conns]
    /\ friendlist = [u \in Users |-> Load(u, left).friendlist]
    /\ held = left.held
    /\ wire = [u \in Users |-> [v \in Users |-> <<>>]]
    /\ delivered = [u \in Users |-> [v \in Users |-> 0]]
    /\ name = [u \in Users |-> 0]
    /\ refused = FALSE
    /\ astray = {}
    /\ arrived = {} /\ seen = {} /\ read = {}

(* ------------------------------ friend connections ------------------------------ *)

(* One more user of the connection to v: a new one, or the lock count of the old.    *)
new_friend_connection(cs, v) ==
    IF getfriend(cs, v) # {}
    THEN LET id == CHOOSE i \in getfriend(cs, v) : TRUE IN [cs EXCEPT ![id].lock_count = @ + 1]
    ELSE [cs EXCEPT ![Free(cs)] = NewConn(v)]

\* Mutant: the connection ends with its first user.
kill_friend_connection_Always(cs, id) == [cs EXCEPT ![id] = None]

kill_friend_connection(cs, id) ==
    IF cs[id].lock_count > 0 THEN [cs EXCEPT ![id].lock_count = @ - 1] ELSE [cs EXCEPT ![id] = None]

(* A send array that is gone: what was on its way may still arrive.                  *)
Remains(w) == {SubSeq(w, 1, k) : k \in 0 .. Len(w)}

Spend(what) == left[what] > 0 /\ left' = [left EXCEPT ![what] = @ - 1]

(* ------------------------------------ friends ----------------------------------- *)

clear_receipts(f) == [f EXCEPT !.receipts = <<>>]

Online(f) == [f EXCEPT !.name_sent = FALSE]

(* set_friend_status with check_friend_connectionstatus (break_files: FileTransfers). *)
set_friend_status(f, status) ==
    LET changed == CASE f.status = "online" /\ status # "online" -> clear_receipts(f)
                     [] f.status # "online" /\ status = "online" -> Online(f)
                     [] OTHER -> f
    IN  [changed EXCEPT !.status = status]

(* Put a packet into the send array of connection id, if there is room.              *)
Written(w, cs, id, p) ==
    IF friend_con_connected(cs, id) /\ ~Full(w[cs[id].peer]) THEN [w EXCEPT ![cs[id].peer] = Append(@, p)] ELSE w
Refuses(w, cs, id) == friend_con_connected(cs, id) /\ Full(w[cs[id].peer])

(* m_addfriend and m_addfriend_norequest: init_new_friend.  A connection that is up  *)
(* already, because a conference uses it, gets the ONLINE packet at once.            *)
AddFriend(u, v, status) ==
    /\ <<u, v>> \in left.may
    /\ Spend("adds")
    /\ getfriend(friendlist[u], v) = {}
    /\ LET cs == new_friend_connection(conns[u], v)
           id == CHOOSE i \in getfriend(cs, v) : TRUE
       IN  /\ conns' = [conns EXCEPT ![u] = cs]
           /\ friendlist' = [friendlist EXCEPT ![u][Free(friendlist[u])] = NewFriend(v, id, status)]
           /\ wire' = [wire EXCEPT ![u] = Written(@, cs, id, ONLINE)]
           /\ refused' = (refused \/ Refuses(wire[u], cs, id))
    /\ UNCHANGED <<held, delivered, name, astray, arrived, seen, read>>

(* m_delfriend: the OFFLINE packet goes out even if the connection ends with it.      *)
m_delfriend(u, i) ==
    /\ friendlist[u][i] # NOFRIEND
    /\ <<u, friendlist[u][i].peer>> \in left.may
    /\ Spend("dels")
    /\ LET id == friendlist[u][i].friendcon_id
           v == friendlist[u][i].peer
           w == Written(wire[u], conns[u], id, OFFLINE)
       IN  /\ conns' = [conns EXCEPT ![u] = kill_friend_connection(@, id)]
           /\ \E r \in IF conns'[u][id] = None THEN Remains(w[v]) ELSE {w[v]} :
                wire' = [wire EXCEPT ![u][v] = r]
           /\ refused' = (refused \/ Refuses(wire[u], conns[u], id))
    /\ friendlist' = [friendlist EXCEPT ![u][i] = NOFRIEND]
    /\ UNCHANGED <<held, delivered, name, astray, arrived, seen, read>>

(* A conference starts to use the connection to v (group.c: new_friend_connection).  *)
Hold(u, v) ==
    /\ <<u, v>> \notin held
    /\ <<u, v>> \in left.may
    /\ Spend("holds")
    /\ held' = held \union {<<u, v>>}
    /\ conns' = [conns EXCEPT ![u] = new_friend_connection(@, v)]
    /\ UNCHANGED <<friendlist, wire, delivered, name, refused, astray, arrived, seen, read>>

(* The conference no longer needs it (group.c: kill_friend_connection).              *)
Release(u, v) ==
    /\ <<u, v>> \in held
    /\ <<u, v>> \in left.may
    /\ Spend("holds")
    /\ held' = held \ {<<u, v>>}
    /\ \E id \in getfriend(conns[u], v) :
         /\ conns' = [conns EXCEPT ![u] = kill_friend_connection(@, id)]
         /\ \E r \in IF conns'[u][id] = None THEN Remains(wire[u][v]) ELSE {wire[u][v]} :
              wire' = [wire EXCEPT ![u][v] = r]
    /\ UNCHANGED <<friendlist, delivered, name, refused, astray, arrived, seen, read>>

(* ---------------------------------- connections --------------------------------- *)

(* handle_status, online, at both ends: m_handle_status sends an ONLINE packet if     *)
(* the connection belongs to a friend.                                               *)
Greeting(u, v) == IF getfriend(friendlist[u], v) = {} THEN <<>> ELSE <<ONLINE>>
Establish(u, v) ==
    /\ u # v
    /\ \E i \in getfriend(conns[u], v), j \in getfriend(conns[v], u) :
         /\ ~conns[u][i].up /\ ~conns[v][j].up
         /\ conns' = [conns EXCEPT ![u][i].up = TRUE, ![v][j].up = TRUE]
    /\ wire' = [wire EXCEPT ![u][v] = Greeting(u, v), ![v][u] = Greeting(v, u)]
    /\ delivered' = [delivered EXCEPT ![u][v] = 0, ![v][u] = 0]
    /\ UNCHANGED <<left, friendlist, held, name, refused, astray, arrived, seen, read>>

(* m_handle_status, offline.                                                         *)
m_handle_status(f) == IF f.status = "online" THEN set_friend_status(f, "confirmed") ELSE f

(* handle_status, offline, at one end: a time-out, a kill packet or a new DHT key.    *)
(* Nobody loses a connection for nothing unless the other end lost it.               *)
Lose(u, v) ==
    /\ \E id \in Connection(u, v) : conns' = [conns EXCEPT ![u][id].up = FALSE]
    /\ IF Connection(v, u) = {} THEN UNCHANGED left ELSE Spend("losses")
    /\ friendlist' = [friendlist EXCEPT ![u] =
                        [i \in Slots |-> IF i \in getfriend(@, v) THEN m_handle_status(@[i]) ELSE @[i]]]
    /\ \E r \in Remains(wire[u][v]) : wire' = [wire EXCEPT ![u][v] = r]
    /\ UNCHANGED <<held, delivered, name, refused, astray, arrived, seen, read>>

(* ------------------------------------ packets ----------------------------------- *)

(* The connection on which an ONLINE packet is answered: send_online_packet takes a   *)
(* friend connection and is given the number of the friend (Messenger.c:2434).        *)
OnlineReply(i) == i

(* handle_packet and m_handle_packet of v for the next packet of u.  A packet for a   *)
(* connection without a friend is dropped; so is all but ONLINE of a friend that is  *)
(* not online.                                                                       *)
Handle(v, i, p) ==
    LET f == friendlist[v][i]
        reply == OnlineReply(i)
        next == CASE p.id = "online"  -> set_friend_status(f, "online")
                  [] f.status # "online" -> f
                  [] p.id = "offline" -> set_friend_status(f, "confirmed")
                  [] p.id = "nickname" -> [f EXCEPT !.name = p.n]
                  [] OTHER -> f
        answers == p.id = "online" /\ f.status # "online"
    IN  /\ friendlist' = [friendlist EXCEPT ![v][i] = next]
        /\ wire' = [wire EXCEPT ![f.peer][v] = Tail(@),
                                ![v] = IF answers THEN Written(@, conns[v], reply, ONLINE) ELSE @]
        /\ refused' = (refused \/ (answers /\ Refuses(wire[v], conns[v], reply)))
        /\ astray' = IF answers /\ reply # f.friendcon_id
                     THEN astray \union {<<v, f.peer>>} \union {<<v, conns[v][k].peer>> : k \in {n \in {reply} : conns[v][n] # None}}
                     ELSE astray

Deliver(u, v) ==
    /\ wire[u][v] # <<>>
    /\ Connection(v, u) # {}
    /\ LET p == Head(wire[u][v])
           is == getfriend(friendlist[v], u)
           isMessage == p.id = "message"
       IN  /\ \/ \E i \in is : Handle(v, i, p)
              \/ /\ is = {}
                 /\ wire' = [wire EXCEPT ![u][v] = Tail(@)]
                 /\ UNCHANGED <<friendlist, refused, astray>>
           /\ arrived' = IF isMessage THEN arrived \union {<<u, p.n>>} ELSE arrived
           /\ seen' = IF isMessage /\ \E i \in is : friendlist[v][i].status = "online"
                      THEN seen \union {<<u, p.n>>} ELSE seen
    /\ delivered' = [delivered EXCEPT ![u][v] = @ + 1]
    /\ UNCHANGED <<left, conns, held, name, read>>

(* m_send_message_generic with add_receipt.                                          *)
m_send_message_generic(u, i) ==
    /\ friendlist[u][i] # NOFRIEND
    /\ friendlist[u][i].status = "online"
    /\ LET v == friendlist[u][i].peer
           number == delivered[u][v] + Len(wire[u][v])
       IN  /\ friend_con_connected(conns[u], friendlist[u][i].friendcon_id)
           /\ ~Full(wire[u][v])
           /\ <<u, v>> \in left.may
           /\ Spend("messages")
           /\ wire' = [wire EXCEPT ![u][v] = Append(@, Packet("message", left.messages))]
           /\ friendlist' = [friendlist EXCEPT ![u][i].receipts = Append(@, [packet_num |-> number, id |-> left.messages])]
    /\ UNCHANGED <<conns, held, delivered, name, refused, astray, arrived, seen, read>>

setname(u) ==
    /\ Spend("names")
    /\ <<u, u>> \in left.may
    /\ name' = [name EXCEPT ![u] = 1 - @]
    /\ friendlist' = [friendlist EXCEPT ![u] =
                        [i \in Slots |-> IF @[i] = NOFRIEND THEN NOFRIEND ELSE [@[i] EXCEPT !.name_sent = FALSE]]]
    /\ UNCHANGED <<conns, held, wire, delivered, refused, astray, arrived, seen, read>>

(* cryptpacket_received: the packet left the send array.                             *)
friend_received_packet(u, f, number) ==
    friend_con_connected(conns[u], f.friendcon_id) /\ number < delivered[u][f.peer]

(* do_receipts: those at the head of the list that were received.                    *)
Received(u, f) ==
    {k \in 1 .. Len(f.receipts) : \A j \in 1 .. k : friend_received_packet(u, f, f.receipts[j].packet_num)}

(* do_friends: a request that was not sent is sent (or is not: no path to the         *)
(* friend), one without success is sent again, the name is sent until the connection *)
(* takes it, and receipts are told.                                                  *)
Requested(f) ==
    CASE f.status = "added" -> {f, [f EXCEPT !.status = "requested"]}
      [] f.status = "requested" -> {f, [f EXCEPT !.status = "added"]}
      [] OTHER -> {f}
SendsName(u, f) ==
    /\ f.status = "online"
    /\ ~f.name_sent
    /\ friend_con_connected(conns[u], f.friendcon_id)
    /\ ~Full(wire[u][f.peer])
do_friends(u) ==
    LET fs == {i \in Slots : friendlist[u][i] # NOFRIEND}
        online == {i \in fs : friendlist[u][i].status = "online"}
        sending == {i \in fs : SendsName(u, friendlist[u][i])}
        told(i) == Cardinality(Received(u, friendlist[u][i]))
        cut(i) == SubSeq(friendlist[u][i].receipts, told(i) + 1, Len(friendlist[u][i].receipts))
    IN  /\ \E next \in [fs -> UNION {Requested(friendlist[u][i]) : i \in fs}] :
             /\ \A i \in fs : next[i] \in Requested(friendlist[u][i])
             /\ friendlist' = [friendlist EXCEPT ![u] = [i \in Slots |->
                    IF i \notin fs THEN NOFRIEND
                    ELSE IF i \notin online THEN next[i]
                    ELSE [next[i] EXCEPT !.name_sent = @ \/ i \in sending, !.receipts = cut(i)]]]
        /\ wire' = [wire EXCEPT ![u] = [v \in Users |->
                IF \E i \in sending : friendlist[u][i].peer = v THEN Append(@[v], Packet("nickname", name[u])) ELSE @[v]]]
        /\ read' = read \union {<<u, friendlist[u][i].receipts[k].id>> : <<i, k>> \in
                                {<<i, k>> \in online \X (1 .. 8) : k <= told(i)}}
        /\ UNCHANGED <<left, conns, held, delivered, name, refused, astray, arrived, seen>>

Next ==
    \/ \E u, v \in Users :
         /\ u # v
         /\ \/ \E status \in {"added", "confirmed"} : AddFriend(u, v, status)
            \/ Hold(u, v)
            \/ Release(u, v)
            \/ Establish(u, v)
            \/ Lose(u, v)
            \/ Deliver(u, v)
    \/ \E u \in Users :
         \/ \E i \in Slots : m_delfriend(u, i) \/ m_send_message_generic(u, i)
         \/ setname(u)
         \/ do_friends(u)

Spec == Init /\ [][Next]_vars

(* ---------------------------------- properties ---------------------------------- *)

\* The connection between u and v is up at both ends and everything written was handed over.
Settled(u, v) ==
    /\ Connection(u, v) # {} /\ Connection(v, u) # {}
    /\ wire[u][v] = <<>> /\ wire[v][u] = <<>>

\* A friend's connection is a connection to that friend for as long as it is a friend, and
\* a connection is counted once for each of its users (new_friend_connection and
\* kill_friend_connection of friends and conferences in any order).
FriendsConnected ==
    \A u \in Users :
        /\ \A i \in Slots : friendlist[u][i] # NOFRIEND =>
              conns[u][friendlist[u][i].friendcon_id] # None /\ conns[u][friendlist[u][i].friendcon_id].peer = friendlist[u][i].peer
        /\ \A id \in Slots : conns[u][id] # None =>
              conns[u][id].lock_count + 1 = Cardinality(getfriend(friendlist[u], conns[u][id].peer))
                                             + Cardinality(held \cap {<<u, conns[u][id].peer>>})

\* A receipt is told only for a message that got to the friend: the numbers kept by
\* add_receipt are never those of an earlier connection.
ReadArrived == read \subseteq arrived

\* Two users who have each other as friends see each other online once their connection
\* is up and quiet (m_handle_status, init_new_friend and m_handle_packet), if every ONLINE
\* and OFFLINE packet could be sent.
BothOnline ==
    \A u, v \in Users : \A i \in getfriend(friendlist[u], v) :
        Settled(u, v) /\ getfriend(friendlist[v], u) # {} /\ ~refused => friendlist[u][i].status = "online"

\* Two users whose connection is up and quiet see each other online if and only if they are
\* friends of one another, if every ONLINE and OFFLINE packet could be sent and none between
\* them went to another (OnlineReply; BothOnline is this without the last condition).
OnlineIfFriends ==
    \A u, v \in Users : \A i \in getfriend(friendlist[u], v) :
        Settled(u, v) /\ ~refused /\ {<<u, v>>, <<v, u>>} \cap astray = {}
            => (friendlist[u][i].status = "online" <=> getfriend(friendlist[v], u) # {})

\* A name that was sent is known to the friend once the connection is quiet, however often
\* the friend went and came meanwhile (check_friend_connectionstatus and do_friends).
NamesKnown ==
    \A u, v \in Users : \A i \in getfriend(friendlist[u], v), j \in getfriend(friendlist[v], u) :
        Settled(u, v) /\ friendlist[u][i].status = "online" /\ friendlist[v][j].status = "online" /\ friendlist[u][i].name_sent
            => friendlist[v][j].name = name[u]

\* A receipt is told only for a message that the client of the friend got (tox.h:1898).
ReadSeen == read \subseteq seen
=============================================================================
