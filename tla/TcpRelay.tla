------------------------------ MODULE TcpRelay ------------------------------
(***************************************************************************)
(* A TCP relay (TCP_server.c) and the clients connected to it               *)
(* (TCP_client.c).  A client asks the relay for a route to another client's *)
(* key and gets a one-byte connection id; when both ends have asked for     *)
(* each other the relay couples the two entries, notifies both and passes   *)
(* data between them.  Both sides keep a table indexed by connection id,    *)
(* and the packets that keep the tables in step are in flight meanwhile.    *)
(***************************************************************************)
EXTENDS Integers, Sequences, FiniteSets

CONSTANTS
    Key,                        \* public keys of the clients
    None,                       \* no key
    Friends,                    \* Friends[k]: the keys client k asks routes to
    PeerNumber,                 \* PeerNumber[k]: the number the client's owner gives connection k
    NUM_CLIENT_CONNECTIONS,     \* entries of a table (240)
    GROW,                       \* slots added when the relay's array is full (4)
    MaxConns,                   \* TCP connections a client makes
    Hasty,                      \* bound: where a route may be given up before the relay's answer
    MaxUp,                      \* packets on their way to the relay when a client adds one
    MaxDown                     \* packets on their way to a client when the relay adds more

ASSUME ConstantsAssumption ==
    /\ NUM_CLIENT_CONNECTIONS \in Nat \ {0}
    /\ GROW \in Nat \ {0}
    /\ None \notin Key
    /\ Friends \in [Key -> SUBSET Key]
    /\ PeerNumber \in [Key -> Nat]

Id == 0 .. NUM_CLIENT_CONNECTIONS - 1
Socket == Key \X (1 .. MaxConns)      \* a TCP connection: whose, and its how-manieth

VARIABLES
    acc,        \* the relay's accepted_connection_array, a function on 0 .. size - 1
    table,      \* the array's connections: table[s][i] is entry i of slot s
    size,       \* size_accepted_connections
    num,        \* num_accepted_connections
    keylist,    \* accepted_key_list: slot of a key, -1 if there is none
    sock,       \* what the relay holds of a TCP connection
    up, down,   \* packets on their way to the relay, to the client
    client      \* the TCP_Client_Connection of each client, with the links its owner
                \* (TCP_connection.c) keeps for the keys it asks routes to

server == <<acc, table, size, num, keylist>>
vars == <<acc, table, size, num, keylist, sock, up, down, client>>

----------------------------------------------------------------------------
(* Packets. *)

RoutingRequest(k) == [kind |-> "routing_request", key |-> k]
RoutingResponse(i, k) == [kind |-> "routing_response", id |-> i, key |-> k]
ConnectNotification(i) == [kind |-> "connect", id |-> i]
DisconnectNotification(i) == [kind |-> "disconnect", id |-> i]
Data(i, k) == [kind |-> "data", id |-> i, from |-> k]     \* from: who wrote it (history)

Refused == -1               \* the rpid 0 of a routing response

----------------------------------------------------------------------------
(* The relay's array of accepted connections. *)

NoConnection == [status |-> "none", public_key |-> None, sock |-> None]
Confirmed(k, x) == [status |-> "confirmed", public_key |-> k, sock |-> x]

Entry(status, k, t, j) == [status |-> status, public_key |-> k, index |-> t, other_id |-> j]
\* The public key of a free entry is never read: it is None here.
FreeEntry == Entry(0, None, 0, 0)
FreeTable == [i \in Id |-> FreeEntry]

\* Appends notes[t] to what is on its way to the client in slot t, if it still listens.
Tell(notes) ==
    [x \in Socket |->
        LET here == {t \in DOMAIN notes : acc[t].sock = x} IN
        IF here = {} \/ client[x[1]].sock # x THEN down[x]
        ELSE down[x] \o notes[CHOOSE t \in here : TRUE]]

(***************************************************************************)
(* rm_connection_index for the ids of a set R, in increasing order: the     *)
(* entries of slot s are freed, and the other end of a coupled one goes     *)
(* back to waiting and is told so.                                          *)
(***************************************************************************)
Couples(s, i, t) == table[s][i].status = 2 /\ table[s][i].index = t

\* Mutant: the other end of the route is not touched.
rm_connection_index_OneEnd(s, R) ==
    [t \in 0 .. size - 1 |->
        [j \in Id |-> IF t = s /\ j \in R THEN FreeEntry ELSE table[t][j]]]

\* Mutant: the other end of the route is freed with it.
rm_connection_index_BothFreed(s, R) ==
    [t \in 0 .. size - 1 |->
        [j \in Id |->
            IF \/ t = s /\ j \in R
               \/ \E i \in R : Couples(s, i, t) /\ table[s][i].other_id = j
            THEN FreeEntry ELSE table[t][j]]]

rm_connection_index(s, R) ==
    [t \in 0 .. size - 1 |->
        [j \in Id |->
            IF t = s /\ j \in R THEN FreeEntry
            ELSE IF \E i \in R : Couples(s, i, t) /\ table[s][i].other_id = j
                 THEN Entry(1, table[t][j].public_key, 0, 0)
                 ELSE table[t][j]]]

DisconnectNotifications(s, R) ==
    [t \in 0 .. size - 1 |->
        LET ids == SelectSeq([n \in 1 .. NUM_CLIENT_CONNECTIONS |-> n - 1],
                             LAMBDA i : i \in R /\ Couples(s, i, t))
        IN  [n \in DOMAIN ids |-> DisconnectNotification(table[s][ids[n]].other_id)]]

(***************************************************************************)
(* kill_accepted with del_accepted: the array is freed with its last        *)
(* connection.  (del_accepted gives up when bs_list_remove finds the key in *)
(* another slot; KeysListed says that it never does.)                       *)
(***************************************************************************)
\* Mutant: the key stays in the list.
AfterKill_KeyKept(s) ==
    IF num = 1
    THEN [acc |-> [t \in {} |-> NoConnection], table |-> [t \in {} |-> FreeTable],
          size |-> 0, num |-> 0, keylist |-> keylist]
    ELSE [acc |-> [acc EXCEPT ![s] = NoConnection], table |-> rm_connection_index(s, Id),
          size |-> size, num |-> num - 1, keylist |-> keylist]

AfterKill(s) ==
    LET list == [keylist EXCEPT ![acc[s].public_key] = -1] IN
    IF num = 1
    THEN [acc |-> [t \in {} |-> NoConnection], table |-> [t \in {} |-> FreeTable],
          size |-> 0, num |-> 0, keylist |-> list]
    ELSE [acc |-> [acc EXCEPT ![s] = NoConnection], table |-> rm_connection_index(s, Id),
          size |-> size, num |-> num - 1, keylist |-> list]

Now == [acc |-> acc, table |-> table, size |-> size, num |-> num, keylist |-> keylist]

SetServer(r) ==
    /\ acc' = r.acc
    /\ table' = r.table
    /\ size' = r.size
    /\ num' = r.num
    /\ keylist' = r.keylist

kill_accepted(s) ==
    /\ SetServer(AfterKill(s))
    /\ down' = Tell(DisconnectNotifications(s, Id))
    /\ sock' = [sock EXCEPT ![acc[s].sock] = "closed"]

\* The slot add_accepted takes: the first new one of a full array, or the last free one.
NewIndex(r) ==
    IF r.size = r.num THEN r.num
    ELSE CHOOSE t \in 0 .. r.size - 1 :
            /\ r.acc[t].status = "none"
            /\ \A v \in t + 1 .. r.size - 1 : r.acc[v].status # "none"

AfterAdd(r, k, x) ==
    LET index == NewIndex(r)
        size2 == IF r.size = r.num THEN r.size + GROW ELSE r.size
    IN  [acc |-> [t \in 0 .. size2 - 1 |->
                     IF t = index THEN Confirmed(k, x)
                     ELSE IF t < r.size THEN r.acc[t] ELSE NoConnection],
         table |-> [t \in 0 .. size2 - 1 |->
                       IF t # index /\ t < r.size THEN r.table[t] ELSE FreeTable],
         size |-> size2,
         num |-> r.num + 1,
         keylist |-> [r.keylist EXCEPT ![k] = index]]

\* add_accepted: an old connection of the same key is killed first.
add_accepted(k, x) ==
    LET old == keylist[k] IN
    IF old # -1
    THEN /\ SetServer(AfterAdd(AfterKill(old), k, x))
         /\ down' = Tell(DisconnectNotifications(old, Id))
         /\ sock' = [sock EXCEPT ![x] = "accepted", ![acc[old].sock] = "closed"]
    ELSE /\ SetServer(AfterAdd(Now, k, x))
         /\ sock' = [sock EXCEPT ![x] = "accepted"]
         /\ UNCHANGED down

----------------------------------------------------------------------------
(* handle_TCP_packet: what the relay does with a packet from slot s.        *)

Least(S) == CHOOSE i \in S : \A j \in S : i <= j
Routes(s, k) == {i \in Id : table[s][i].status # 0 /\ table[s][i].public_key = k}
FreeIds(s) == {i \in Id : table[s][i].status = 0}
Waiting(t, k) == {j \in Id : table[t][j].status = 1 /\ table[t][j].public_key = k}

WithEntry(tab, s, i, e) == [tab EXCEPT ![s] = [tab[s] EXCEPT ![i] = e]]

Answer(s, packet) ==
    /\ down' = Tell([t \in {s} |-> <<packet>>])
    /\ UNCHANGED table

NewRoute(s, k, i) ==
    /\ table' = WithEntry(table, s, i, Entry(1, k, 0, 0))
    /\ down' = Tell([t \in {s} |-> <<RoutingResponse(i, k)>>])

\* Mutant: only the client that asked last is notified.
CoupledRoute_OneTold(s, k, i, t, j) ==
    /\ table' = WithEntry(WithEntry(table, s, i, Entry(2, k, t, j)),
                          t, j, Entry(2, acc[s].public_key, s, i))
    /\ down' = Tell([v \in {s} |-> <<RoutingResponse(i, k), ConnectNotification(i)>>])

CoupledRoute(s, k, i, t, j) ==
    /\ table' = WithEntry(WithEntry(table, s, i, Entry(2, k, t, j)),
                          t, j, Entry(2, acc[s].public_key, s, i))
    /\ down' = Tell([v \in {s, t} |->
                        IF v = s THEN <<RoutingResponse(i, k), ConnectNotification(i)>>
                        ELSE <<ConnectNotification(j)>>])

handle_TCP_routing_req(s, k) ==
    LET me == acc[s].public_key
        other == keylist[k]
    IN  /\ UNCHANGED <<acc, size, num, keylist, sock>>
        /\ IF k = me THEN Answer(s, RoutingResponse(Refused, k))
           ELSE IF Routes(s, k) # {} THEN Answer(s, RoutingResponse(Least(Routes(s, k)), k))
           ELSE IF FreeIds(s) = {} THEN Answer(s, RoutingResponse(Refused, k))
           ELSE IF other # -1 /\ Waiting(other, me) # {}
           THEN CoupledRoute(s, k, Least(FreeIds(s)), other, Least(Waiting(other, me)))
           ELSE NewRoute(s, k, Least(FreeIds(s)))

\* The packets handle_TCP_packet refuses: the connection they came on is dropped.
Legal(s, m) ==
    m.kind \in {"disconnect", "data"} => table[s][m.id].status # 0

HandleDisconnect(s, i) ==
    /\ table' = rm_connection_index(s, {i})
    /\ down' = Tell(DisconnectNotifications(s, {i}))
    /\ UNCHANGED <<acc, size, num, keylist, sock>>

\* Data for a client that is not there is dropped, and so is data that cannot be
\* written at once: write_packet_TCP_secure_connection does not queue it.
HandleData(s, m) ==
    LET e == table[s][m.id] IN
    /\ \/ e.status = 2 /\ down' = Tell([t \in {e.index} |-> <<Data(e.other_id, m.from)>>])
       \/ UNCHANGED down
    /\ UNCHANGED <<server, sock>>

handle_TCP_packet(s, m) ==
    IF ~Legal(s, m) THEN kill_accepted(s)
    ELSE \/ m.kind = "routing_request" /\ handle_TCP_routing_req(s, m.key)
         \/ m.kind = "disconnect" /\ HandleDisconnect(s, m.id)
         \/ m.kind = "data" /\ HandleData(s, m)

----------------------------------------------------------------------------
(* The relay's steps. *)

\* do_unconfirmed and confirm_TCP_connection: the first packet of a connection is
\* the ping that do_confirmed_TCP sends, which only gets a pong.
Accept(x) ==
    /\ sock[x] = "unconfirmed"
    /\ add_accepted(x[1], x)
    /\ UNCHANGED <<up, client>>

\* accept_connection and do_incoming reuse the oldest place of a full queue.
DropUnconfirmed(x) ==
    /\ sock[x] = "unconfirmed"
    /\ sock' = [sock EXCEPT ![x] = "closed"]
    /\ UNCHANGED <<server, up, down, client>>

Room == \A x \in Socket : Len(down[x]) <= MaxDown

\* tcp_process_secure_packet.
ServerReceive(x) ==
    \E s \in 0 .. size - 1 :
        /\ acc[s].status = "confirmed"
        /\ acc[s].sock = x
        /\ up[x] # <<>>
        /\ Room
        /\ handle_TCP_packet(s, Head(up[x]))
        /\ up' = [up EXCEPT ![x] = Tail(up[x])]
        /\ UNCHANGED client

\* do_TCP_confirmed and tcp_process_secure_packet: no answer to a ping, a failed
\* read or the client's end of the connection closed.
ServerDrop(x) ==
    \E s \in 0 .. size - 1 :
        /\ acc[s].status = "confirmed"
        /\ acc[s].sock = x
        /\ kill_accepted(s)
        /\ UNCHANGED <<up, client>>

----------------------------------------------------------------------------
(* The client's table and its steps. *)

FreeConnection == [status |-> 0, number |-> 0, public_key |-> None]
NoLink == [status |-> "ABSENT", id |-> 0]

\* early: the TCP connections on which the owner gave up a route before the relay's
\* answer to the request for it (history).
NewClient(k, x, early) ==
    [sock |-> x, link |-> [p \in Friends[k] |-> NoLink],
     connections |-> [i \in Id |-> FreeConnection], early |-> early]

\* The owner's connections the number n stands for, and their links once set to status.
Numbered(k, n) == {p \in Friends[k] : client[k].link[p].status # "ABSENT" /\ PeerNumber[p] = n}
set_tcp_connection_status(k, P, status, i) ==
    [p \in Friends[k] |-> IF p \in P /\ client[k].link[p].status # status
                          THEN [status |-> status, id |-> i] ELSE client[k].link[p]]

SetConnection(k, i, c, links) ==
    client' = [client EXCEPT ![k] =
                  [client[k] EXCEPT !.connections = [client[k].connections EXCEPT ![i] = c],
                                    !.link = links]]
Send(k, m) ==
    /\ client[k].sock # None
    /\ Len(up[client[k].sock]) < MaxUp
    /\ up' = [up EXCEPT ![client[k].sock] = Append(up[client[k].sock], m)]
    /\ UNCHANGED <<server, sock, down>>

\* new_TCP_connection, up to the relay's answer to the handshake.
ClientConnect(k) ==
    /\ client[k].sock = None
    /\ \E n \in 1 .. MaxConns :
          /\ sock[<<k, n>>] = "unused"
          /\ \A m \in 1 .. n - 1 : sock[<<k, m>>] # "unused"
          /\ sock' = [sock EXCEPT ![<<k, n>>] = "unconfirmed"]
          /\ client' = [client EXCEPT ![k] = NewClient(k, <<k, n>>, client[k].early)]
    /\ UNCHANGED <<server, up, down>>

\* TCP_CLIENT_DISCONNECTED (ping timeout, failed read) and kill_TCP_connection.
ClientDisconnect(k) ==
    /\ client[k].sock # None
    /\ client' = [client EXCEPT ![k] = NewClient(k, None, client[k].early)]
    /\ down' = [down EXCEPT ![client[k].sock] = <<>>]
    /\ UNCHANGED <<server, sock, up>>

\* send_tcp_relay_routing_request: the link waits for the answer, and its id is 0.
SendRoutingRequest(k, p) ==
    /\ client[k].link[p].status = "ABSENT"
    /\ Send(k, RoutingRequest(p))
    /\ client' = [client EXCEPT ![k] =
                     [client[k] EXCEPT !.link = [client[k].link EXCEPT ![p] = [NoLink EXCEPT !.status = "NONE"]]]]

\* send_disconnect_request tells the relay whatever the status of the entry.
send_disconnect_request(k, i) == i \in Id /\ Send(k, DisconnectNotification(i))

\* kill_tcp_connection_to: the relay is told the id of the link, which is 0 until the
\* answer has come, and the entry of that id is freed with number 0.
kill_tcp_connection_to(k, p) ==
    LET l == client[k].link[p] IN
    /\ l.status # "ABSENT"
    /\ l.status = "NONE" => client[k].sock \in Hasty
    /\ send_disconnect_request(k, l.id)
    /\ client' = [client EXCEPT ![k] =
                     [client[k] EXCEPT
                         !.connections = [client[k].connections EXCEPT ![l.id] = FreeConnection],
                         !.link = [client[k].link EXCEPT ![p] = NoLink],
                         !.early = IF l.status = "NONE" THEN client[k].early \cup {client[k].sock}
                                   ELSE client[k].early]]

\* send_packet_tcp_connection with send_data.
SendData(k, p) ==
    LET l == client[k].link[p] IN
    /\ l.status = "ONLINE"
    /\ l.id \in Id
    /\ client[k].connections[l.id].status = 2
    /\ Send(k, Data(l.id, k))
    /\ UNCHANGED client

\* handle_TCP_client_routing_response with tcp_response_callback: the number is -1
\* unless the owner still has a connection to the key and waits for this answer.
HandleRoutingResponse(k, m) ==
    LET waits == m.key \in Friends[k] /\ client[k].link[m.key].status \in {"NONE", "ONLINE"}
    IN  IF m.id # Refused /\ client[k].connections[m.id].status = 0
        THEN SetConnection(k, m.id,
                 [status |-> 1, number |-> IF waits THEN PeerNumber[m.key] ELSE -1, public_key |-> m.key],
                 set_tcp_connection_status(k, IF waits THEN {m.key} ELSE {}, "REGISTERED", m.id))
        ELSE UNCHANGED client

\* The notifications, with tcp_status_callback.
HandleNotification(k, i, from, to, status) ==
    LET c == client[k].connections[i] IN
    IF c.status = from
    THEN SetConnection(k, i, [c EXCEPT !.status = to],
                       set_tcp_connection_status(k, Numbered(k, c.number), status, i))
    ELSE UNCHANGED client

\* tcp_conn_data_callback: the owner's connections the data of id i is handed to, by the
\* number of its entry, whatever the entry's status.
HandedTo(k, i) == Numbered(k, client[k].connections[i].number)

\* handle_TCP_client_packet.  Data goes to tcp_conn_data_callback and changes nothing here.
ClientReceive(k) ==
    LET x == client[k].sock
        m == Head(down[x])
    IN  /\ x # None
        /\ down[x] # <<>>
        /\ down' = [down EXCEPT ![x] = Tail(down[x])]
        /\ \/ m.kind = "routing_response" /\ HandleRoutingResponse(k, m)
           \/ m.kind = "connect" /\ HandleNotification(k, m.id, 1, 2, "ONLINE")
           \/ m.kind = "disconnect" /\ HandleNotification(k, m.id, 2, 1, "REGISTERED")
           \/ m.kind = "data" /\ UNCHANGED client
        /\ UNCHANGED <<server, sock, up>>

----------------------------------------------------------------------------
Init ==
    /\ acc = [t \in {} |-> NoConnection]
    /\ table = [t \in {} |-> FreeTable]
    /\ size = 0
    /\ num = 0
    /\ keylist = [k \in Key |-> -1]
    /\ sock = [x \in Socket |-> "unused"]
    /\ up = [x \in Socket |-> <<>>]
    /\ down = [x \in Socket |-> <<>>]
    /\ client = [k \in Key |-> NewClient(k, None, {})]

\* What happens while the TCP connections last.
Steady ==
    \/ \E x \in Socket : Accept(x) \/ ServerReceive(x)
    \/ \E k \in Key :
          \/ ClientConnect(k) \/ ClientReceive(k)
          \/ \E p \in Friends[k] :
                SendRoutingRequest(k, p) \/ kill_tcp_connection_to(k, p) \/ SendData(k, p)

Next ==
    \/ Steady
    \/ \E x \in Socket : DropUnconfirmed(x) \/ ServerDrop(x)
    \/ \E k \in Key : ClientDisconnect(k)

Spec == Init /\ [][Next]_vars
SteadySpec == Init /\ [][Steady]_vars

(***************************************************************************)
(* Calm: clients keep the routes they ask for and connections are lost      *)
(* finitely often.  Both sides poll their sockets and run their timers      *)
(* (do_TCP_server, do_TCP_connection), so each step that is possible is     *)
(* taken in the end; a client notices that the relay closed a connection.   *)
(* A connection the relay accepts late kills its successor, so the last two *)
(* connections of a client are not lost otherwise.                          *)
(***************************************************************************)
MayLose(x) == x[2] + 1 < MaxConns
NoticeClosed(k) == client[k].sock # None /\ sock[client[k].sock] = "closed" /\ ClientDisconnect(k)

Calm ==
    \/ \E x \in Socket :
          \/ Accept(x) \/ ServerReceive(x)
          \/ MayLose(x) /\ (DropUnconfirmed(x) \/ ServerDrop(x))
    \/ \E k \in Key :
          \/ ClientConnect(k) \/ ClientReceive(k) \/ NoticeClosed(k)
          \/ client[k].sock # None /\ MayLose(client[k].sock) /\ ClientDisconnect(k)
          \/ \E p \in Friends[k] : SendRoutingRequest(k, p)

CalmSpec ==
    /\ Init
    /\ [][Calm]_vars
    /\ \A x \in Socket : WF_vars(Accept(x)) /\ WF_vars(ServerReceive(x))
    /\ \A k \in Key : /\ WF_vars(ClientConnect(k))
                      /\ WF_vars(ClientReceive(k))
                      /\ WF_vars(NoticeClosed(k))
                      /\ \A p \in Friends[k] : WF_vars(SendRoutingRequest(k, p))

----------------------------------------------------------------------------
(* Properties. *)

\* Types of the relay's and the clients' state; the packets have the shape of
\* their kind.
ServerTypeOK ==
    /\ size \in Nat
    /\ num \in Nat
    /\ acc \in [0 .. size - 1 -> {NoConnection} \cup {Confirmed(k, x) : k \in Key, x \in Socket}]
    /\ table \in [0 .. size - 1 ->
                    [Id -> [status : 0 .. 2, public_key : Key \cup {None},
                            index : Nat, other_id : Id]]]
    /\ keylist \in [Key -> Int]

TypeOK ==
    /\ ServerTypeOK
    /\ sock \in [Socket -> {"unused", "unconfirmed", "accepted", "closed"}]
    /\ \A k \in Key :
          /\ client[k].sock \in {None} \cup {x \in Socket : x[1] = k}
          /\ client[k].link \in [Friends[k] -> [status : {"ABSENT", "NONE", "REGISTERED", "ONLINE"}, id : Id]]
          /\ client[k].connections \in
                [Id -> [status : 0 .. 2, number : Nat \cup {-1}, public_key : Key \cup {None}]]
          /\ client[k].early \subseteq {x \in Socket : x[1] = k}

\* The key list and the array tell the same: a key is listed with the one slot its
\* connection is in, and the array's counters are right (add_accepted, del_accepted;
\* bs_list_remove says a mismatch "should never happen").
KeysListed ==
    /\ \A k \in Key : keylist[k] # -1 =>
          keylist[k] \in 0 .. size - 1 /\ acc[keylist[k]].public_key = k
    /\ \A s \in 0 .. size - 1 : acc[s].status # "none" => keylist[acc[s].public_key] = s
    /\ num = Cardinality({s \in 0 .. size - 1 : acc[s].status # "none"})

\* Coupled entries point at each other and each names the other's key, so data is
\* only ever passed between two clients that asked for each other, whatever was
\* killed, reused or reconnected (handle_TCP_routing_req, rm_connection_index).
Coupled ==
    \A s \in 0 .. size - 1, i \in Id :
        LET e == table[s][i] IN
        e.status = 2 => /\ e.index \in 0 .. size - 1 \ {s}
                        /\ acc[s].status # "none"
                        /\ acc[e.index].public_key = e.public_key
                        /\ table[e.index][e.other_id] = Entry(2, acc[s].public_key, s, i)

\* Clients that gave a route up before the relay's answer freed id 0 instead, and may be
\* out of step until their TCP connection ends (kill_tcp_connection_to).
InStep(x) == x \notin client[x[1]].early

\* The relay never refuses a packet of a client, however its disconnect requests and
\* data cross the relay's notifications: a packet it refuses costs the client the
\* connection (handle_TCP_packet, rm_connection_index).  Only a client that gave up a
\* route before the answer can meet a refusal.
NeverRefused ==
    \A s \in 0 .. size - 1 :
        acc[s].status # "none" /\ up[acc[s].sock] # <<>> /\ InStep(acc[s].sock) =>
            Legal(s, Head(up[acc[s].sock]))

\* Once nothing is in flight the client's table says what the relay's says, and a route
\* the owner holds is the one both tables have; other clients that gave up a route before
\* the answer do not disturb it.
Synchronised ==
    \A s \in 0 .. size - 1 :
        LET x == acc[s].sock
            c == client[x[1]]
        IN  acc[s].status # "none" /\ up[x] = <<>> /\ down[x] = <<>> /\ c.sock = x /\ InStep(x) =>
            /\ \A i \in Id : /\ c.connections[i].status = table[s][i].status
                             /\ c.connections[i].public_key = table[s][i].public_key
            /\ \A p \in Friends[x[1]] :
                  c.link[p].status \in {"REGISTERED", "ONLINE"} =>
                      table[s][c.link[p].id] = [table[s][c.link[p].id] EXCEPT
                          !.public_key = p, !.status = IF c.link[p].status = "ONLINE" THEN 2 ELSE 1]

\* Data handed to a connection of the owner comes from the client that connection is to,
\* although ids are reused while packets are in flight.  An id the owner has given up is
\* left out: its number is 0.  A client that gave up a route before the answer can be
\* handed data of another.
DataFromPeer ==
    \A k \in Key :
        LET x == client[k].sock IN
        x # None /\ down[x] # <<>> /\ Head(down[x]).kind = "data" /\ InStep(x) =>
            LET m == Head(down[x]) IN
            client[k].connections[m.id].status # 0 => HandedTo(k, m.id) \subseteq {m.from}

\* No connection of the owner is handed data of another client: "When not set by this
\* function, the number is -1" (set_tcp_connection_number), which is no connection's.
OnlyOwnData ==
    \A k \in Key :
        LET x == client[k].sock IN
        x # None /\ down[x] # <<>> /\ Head(down[x]).kind = "data" /\ InStep(x) =>
            HandedTo(k, Head(down[x]).id) \subseteq {Head(down[x]).from}

\* Two clients that ask for each other can in the end exchange data through the
\* relay, whoever asked first and although connections were lost in between.
HasRoute(k, p) ==
    \E i \in Id : client[k].connections[i].status = 2 /\ client[k].connections[i].public_key = p
AllRouted == \A k \in Key : \A p \in Friends[k] : k \in Friends[p] => HasRoute(k, p)
EventuallyRouted == <>[]AllRouted
=============================================================================
