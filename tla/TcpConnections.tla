--------------------------- MODULE TcpConnections ---------------------------
(***************************************************************************)
(* A client's pool of TCP relays (TCP_connection.c): connections to peers,  *)
(* each linked to several relays that carry its packets, over the tables of *)
(* connection ids of the TCP clients (TCP_client.c).                        *)
(*                                                                          *)
(* A relay is its slot in tcp_connections, a connection to a peer its slot  *)
(* in connections; both arrays give out the first free slot.  How a relay   *)
(* answers is modelled by the table it keeps for this client: what the      *)
(* client sends arrives at once, what the relay sends is read later.  (The  *)
(* packets towards the relay can be moved there: a packet the relay sends   *)
(* before it reads one of the client's may as well be sent before that.)    *)
(***************************************************************************)
EXTENDS Integers, Sequences, FiniteSets

CONSTANTS
    Key,                                \* public keys of the peers
    NoKey,
    MaxRelays,                          \* relays the client ever knows at once
    NUM_CLIENT_CONNECTIONS,             \* ids of a relay (240)
    MAX_FRIEND_TCP_CONNECTIONS,         \* links of a connection (6)
    RECOMMENDED_FRIEND_TCP_CONNECTIONS, \* links of a connection that are enough (3)
    NUM_ONION_TCP_CONNECTIONS,          \* relays kept for the onion (3)
    U32,                                \* size of the counters' type (2^32)
    Bounds                              \* bounds of the behaviours, one of which each has:
                                        \*   relays, peers: how many there are at once
                                        \*   count: counters above it are not inflated further
                                        \*   down: packets on their way when the relay adds one

Slot == 0 .. MaxRelays - 1
Number == 0 .. Cardinality(Key) - 1
Id == 0 .. NUM_CLIENT_CONNECTIONS - 1

ASSUME ConstantsAssumption ==
    /\ IsFiniteSet(Key)
    /\ NoKey \notin Key
    /\ MaxRelays \in Nat
    /\ NUM_CLIENT_CONNECTIONS \in Nat \ {0}
    /\ MAX_FRIEND_TCP_CONNECTIONS \in Nat
    /\ RECOMMENDED_FRIEND_TCP_CONNECTIONS \in Nat
    /\ NUM_ONION_TCP_CONNECTIONS \in Nat \ {0}
    /\ U32 \in Nat
    /\ Bounds \subseteq [relays : 0 .. MaxRelays, peers : 0 .. Cardinality(Key), count : Nat, down : Nat]
    /\ \A b \in Bounds : b.count + Cardinality(Key) < U32

VARIABLES
    relay,              \* tcp_connections
    con,                \* connections
    onion_status, onion_num_conns,
    client,             \* client[r]: the id table of relay r's TCP_Client_Connection
    server,             \* server[r]: what relay r keeps for this client
    down,               \* down[r]: packets on their way from relay r
    early,              \* relays that have lost a connection before answering it (history)
    bound               \* the bounds of this behaviour, which do not change

pool == <<relay, con, onion_status, onion_num_conns>>
wire == <<client, server, down, early>>
vars == <<relay, con, onion_status, onion_num_conns, client, server, down, early, bound>>

----------------------------------------------------------------------------
(* The tables. *)

\* TCP_CONN_* of a relay or connection, TCP_CONNECTIONS_STATUS_* of a link.
RelayRecord(status, lock, sleep, onion, unsleep) ==
    [status |-> status, lock_count |-> lock, sleep_count |-> sleep,
     onion |-> onion, unsleep |-> unsleep]
Fresh(status) == RelayRecord(status, 0, 0, FALSE, FALSE)

\* A connection's TCP_Conn_to of each relay; "ABSENT": none holds that relay.
Link(status, i) == [status |-> status, connection_id |-> i]
NoLink == Link("ABSENT", 0)
Connection(status, k, link) == [status |-> status, public_key |-> k, link |-> link]
NoConnection == Connection("NONE", NoKey, [r \in Slot |-> NoLink])

\* Entry of a client's table.  Number -1: response_callback did not take the id.
ClientEntry(status, n, k) == [status |-> status, number |-> n, public_key |-> k]
NoEntry == ClientEntry(0, 0, NoKey)

ServerEntry(status, k) == [status |-> status, public_key |-> k]
NoRoute == ServerEntry(0, NoKey)
Server(open, table) == [open |-> open, table |-> table]
NewServer == Server(TRUE, [i \in Id |-> NoRoute])

Response(i, k) == [kind |-> "response", id |-> i, public_key |-> k]
Connect(i) == [kind |-> "connect", id |-> i, public_key |-> NoKey]
Disconnect(i) == [kind |-> "disconnect", id |-> i, public_key |-> NoKey]

Init ==
    /\ relay = [r \in Slot |-> Fresh("NONE")]
    /\ con = [n \in Number |-> NoConnection]
    /\ onion_status = FALSE
    /\ onion_num_conns = 0
    /\ client = [r \in Slot |-> [i \in Id |-> NoEntry]]
    /\ server = [r \in Slot |-> NewServer]
    /\ down = [r \in Slot |-> <<>>]
    /\ early = {}
    /\ bound \in Bounds

Least(S) == CHOOSE x \in S : \A y \in S : x <= y
FreeSlots == {r \in Slot : r < bound.relays /\ relay[r].status = "NONE"}
FreeNumbers == {n \in Number : n < bound.peers /\ con[n].status = "NONE"}
With(status) == {r \in Slot : relay[r].status = status}

Inc(x) == (x + 1) % U32
Dec(x) == (x + U32 - 1) % U32

Linked(n) == {r \in Slot : con[n].link[r].status # "ABSENT"}
Online(n) == {r \in Slot : con[n].link[r].status = "ONLINE"}
OnlineAt(r) == {n \in Number : r \in Online(n)}
LinkedTo(r) == {n \in Number : r \in Linked(n)}

WithLink(n, r, l) ==
    Connection(con[n].status, con[n].public_key, [con[n].link EXCEPT ![r] = l])

----------------------------------------------------------------------------
(* A relay, as far as this client sees it. *)

Routes(r, k) == {i \in Id : server[r].table[i].status # 0 /\ server[r].table[i].public_key = k}
Unused(r) == {i \in Id : server[r].table[i].status = 0}

(***************************************************************************)
(* A routing request for k: the id the client already has for k is named    *)
(* again, or the first free one is given out.  A refusal has no effect on   *)
(* the client, and neither has a relay that has closed the connection.      *)
(***************************************************************************)
Request(r, k) ==
    IF ~server[r].open \/ (Routes(r, k) = {} /\ Unused(r) = {})
    THEN UNCHANGED <<server, down>>
    ELSE LET known == Routes(r, k) # {}
             i == Least(IF known THEN Routes(r, k) ELSE Unused(r))
         IN  /\ server' = IF known THEN server
                          ELSE [server EXCEPT ![r] =
                                    Server(TRUE, [@.table EXCEPT ![i] = ServerEntry(1, k)])]
             /\ down' = [down EXCEPT ![r] = Append(@, Response(i, k))]

\* The peer of a route asks for this client, or goes away.
PeerConnects(r, i) ==
    /\ server[r].open /\ server[r].table[i].status = 1
    /\ Len(down[r]) < bound.down
    /\ server' = [server EXCEPT ![r] =
            Server(TRUE, [@.table EXCEPT ![i] = ServerEntry(2, @.public_key)])]
    /\ down' = [down EXCEPT ![r] = Append(@, Connect(i))]
    /\ UNCHANGED <<pool, client, early>>

PeerDisconnects(r, i) ==
    /\ server[r].open /\ server[r].table[i].status = 2
    /\ Len(down[r]) < bound.down
    /\ server' = [server EXCEPT ![r] =
            Server(TRUE, [@.table EXCEPT ![i] = ServerEntry(1, @.public_key)])]
    /\ down' = [down EXCEPT ![r] = Append(@, Disconnect(i))]
    /\ UNCHANGED <<pool, client, early>>

\* Mutant: the relay keeps the route.
AfterDisconnect_Kept(r, i) == server[r]

\* What a disconnect notification for id i makes of relay r: one for an id that is
\* not in use fails, and a packet that fails costs the client its connection.
AfterDisconnect(r, i) ==
    IF ~server[r].open THEN server[r]
    ELSE IF server[r].table[i].status = 0 THEN Server(FALSE, [j \in Id |-> NoRoute])
    ELSE Server(TRUE, [server[r].table EXCEPT ![i] = NoRoute])

\* The TCP connections to the relays of a set end, with both tables.
Close(R) ==
    /\ client' = [r \in Slot |-> IF r \in R THEN [i \in Id |-> NoEntry] ELSE client[r]]
    /\ server' = [r \in Slot |-> IF r \in R THEN NewServer ELSE server[r]]
    /\ down' = [r \in Slot |-> IF r \in R THEN <<>> ELSE down[r]]
    /\ early' = early \ R

----------------------------------------------------------------------------
(* Connections to peers. *)

Sleeping(n) == con[n].status = "SLEEPING"

\* The relay's counts when a link of n to it comes online, and when it stops being so.
Locked(r, n) ==
    RelayRecord(relay[r].status, Inc(relay[r].lock_count),
                IF Sleeping(n) THEN Inc(relay[r].sleep_count) ELSE relay[r].sleep_count,
                relay[r].onion, relay[r].unsleep)

Unlocked(r, n) ==
    RelayRecord(relay[r].status, Dec(relay[r].lock_count),
                IF Sleeping(n) THEN Dec(relay[r].sleep_count) ELSE relay[r].sleep_count,
                relay[r].onion, relay[r].unsleep)

Woken(r) ==
    RelayRecord(relay[r].status, relay[r].lock_count, relay[r].sleep_count, relay[r].onion, TRUE)

new_tcp_connection_to(k) ==
    /\ FreeNumbers # {}
    /\ \A n \in Number : con[n].status # "NONE" => con[n].public_key # k
    /\ con' = [con EXCEPT ![Least(FreeNumbers)] = Connection("VALID", k, NoConnection.link)]
    /\ UNCHANGED <<relay, onion_status, onion_num_conns, wire>>

\* The relays kill_tcp_connection_to sends a disconnect request, and those it unlocks.
\* Mutant: no relay is told that the connection's routes are given up.
Told_Nobody(n) == {}

Told(n) == Linked(n) \cap With("CONNECTED")

Released(n) == Online(n)

kill_tcp_connection_to(n) ==
    /\ con[n].status # "NONE"
    /\ LET id(r) == con[n].link[r].connection_id IN
       /\ client' = [r \in Slot |-> IF r \in Told(n) THEN [client[r] EXCEPT ![id(r)] = NoEntry]
                                    ELSE client[r]]
       /\ server' = [r \in Slot |-> IF r \in Told(n) THEN AfterDisconnect(r, id(r)) ELSE server[r]]
    /\ early' = early \cup {r \in Told(n) : con[n].link[r].status = "NONE"}
    /\ relay' = [r \in Slot |-> IF r \in Released(n) THEN Unlocked(r, n) ELSE relay[r]]
    /\ con' = [con EXCEPT ![n] = NoConnection]
    /\ UNCHANGED <<onion_status, onion_num_conns, down>>

(***************************************************************************)
(* set_tcp_connection_to_status: a connection that is needed again wakes    *)
(* its sleeping relays; one that is not needed any more counts as sleeping  *)
(* at the relays it is online through.                                      *)
(***************************************************************************)
Use(n) ==
    /\ con[n].status = "SLEEPING"
    /\ \A r \in Online(n) : relay[r].sleep_count <= bound.count
    /\ relay' = [r \in Slot |-> IF r \in Linked(n) \cap With("SLEEPING") THEN Woken(r) ELSE relay[r]]
    /\ con' = [con EXCEPT ![n] = Connection("VALID", @.public_key, @.link)]
    /\ UNCHANGED <<onion_status, onion_num_conns, wire>>

Disuse(n) ==
    /\ con[n].status = "VALID"
    /\ relay' = [r \in Slot |->
            IF r \in Online(n)
            THEN RelayRecord(relay[r].status, relay[r].lock_count, Inc(relay[r].sleep_count),
                             relay[r].onion, relay[r].unsleep)
            ELSE relay[r]]
    /\ con' = [con EXCEPT ![n] = Connection("SLEEPING", @.public_key, @.link)]
    /\ UNCHANGED <<onion_status, onion_num_conns, wire>>

----------------------------------------------------------------------------
(* Adding relays. *)

add_tcp_relay_global ==
    /\ FreeSlots # {}
    /\ relay' = [relay EXCEPT ![Least(FreeSlots)] = Fresh("VALID")]
    /\ UNCHANGED <<con, onion_status, onion_num_conns, wire>>

HasRoom(n) == Cardinality(Linked(n)) < MAX_FRIEND_TCP_CONNECTIONS

\* add_tcp_relay_connection for a relay that is not known yet, which stays even if
\* the connection has no room for it.
AddNewRelay(n) ==
    /\ con[n].status # "NONE"
    /\ FreeSlots # {}
    /\ Cardinality(Online(n)) < RECOMMENDED_FRIEND_TCP_CONNECTIONS
    /\ LET r == Least(FreeSlots) IN
       /\ relay' = [relay EXCEPT ![r] = Fresh("VALID")]
       /\ con' = IF HasRoom(n) THEN [con EXCEPT ![n] = WithLink(n, r, Link("NONE", 0))] ELSE con
    /\ UNCHANGED <<onion_status, onion_num_conns, wire>>

\* For a relay that is known, also through add_tcp_relay_connection.
add_tcp_number_relay_connection(n, r) ==
    /\ con[n].status # "NONE" /\ relay[r].status # "NONE"
    /\ relay' = IF ~Sleeping(n) /\ relay[r].status = "SLEEPING"
                THEN [relay EXCEPT ![r] = Woken(r)] ELSE relay
    /\ IF r \in Linked(n) \/ ~HasRoom(n)
       THEN UNCHANGED <<con, server, down>>
       ELSE /\ con' = [con EXCEPT ![n] = WithLink(n, r, Link("NONE", 0))]
            /\ IF relay[r].status # "CONNECTED" THEN UNCHANGED <<server, down>>
               ELSE Len(down[r]) < bound.down /\ Request(r, con[n].public_key)
    /\ UNCHANGED <<onion_status, onion_num_conns, client, early>>

----------------------------------------------------------------------------
(* do_tcp_connections: the relays' life. *)

\* Every connection's link to r goes back to TCP_CONNECTIONS_STATUS_NONE.
Unregistered(r) ==
    [n \in Number |-> IF r \in Linked(n) THEN WithLink(n, r, Link("NONE", 0)) ELSE con[n]]

Unlinked(R) ==
    [n \in Number |-> Connection(con[n].status, con[n].public_key,
                                 [r \in Slot |-> IF r \in R THEN NoLink ELSE con[n].link[r]])]

\* kill_tcp_relay_connection for the relays of a set.
kill_tcp_relay_connection(R) ==
    /\ relay' = [r \in Slot |-> IF r \in R THEN Fresh("NONE") ELSE relay[r]]
    /\ con' = Unlinked(R)
    /\ onion_num_conns' = onion_num_conns - Cardinality({r \in R : relay[r].onion})
    /\ Close(R)
    /\ UNCHANGED onion_status

\* reconnect_tcp_relay_connection, and sleep_tcp_relay_connection: the state that is left.
\* Mutant: the counts of the old connection stay.
Restarted_CountsKept(r, status) ==
    RelayRecord(status, relay[r].lock_count, relay[r].sleep_count, FALSE, FALSE)

Restarted(r, status) == Fresh(status)

Restart(r, status) ==
    /\ relay' = [relay EXCEPT ![r] = Restarted(r, status)]
    /\ con' = Unregistered(r)
    /\ onion_num_conns' = IF relay[r].onion THEN onion_num_conns - 1 ELSE onion_num_conns
    /\ Close({r})
    /\ UNCHANGED onion_status

\* The TCP connection to r is lost, or was never made.
Lost(r) ==
    \/ relay[r].status = "CONNECTED" /\ Restart(r, "VALID")
    \/ relay[r].status \in {"VALID", "CONNECTED"} /\ kill_tcp_relay_connection({r})

(***************************************************************************)
(* tcp_relay_on_online: a route is requested for every connection linked to *)
(* the relay, whose table is empty.                                         *)
(***************************************************************************)
\* The connections that get a route: the first ones, the others are refused.
Answered(r) == {n \in LinkedTo(r) : Cardinality({m \in LinkedTo(r) : m < n}) < NUM_CLIENT_CONNECTIONS}
Asker(r, i) == CHOOSE n \in Answered(r) : Cardinality({m \in LinkedTo(r) : m < n}) = i

ForOnion == onion_status /\ onion_num_conns < NUM_ONION_TCP_CONNECTIONS

tcp_relay_on_online(r) ==
    /\ relay[r].status = "VALID"
    /\ relay' = [relay EXCEPT ![r] = RelayRecord("CONNECTED", 0, 0, ForOnion, FALSE)]
    /\ onion_num_conns' = IF ForOnion THEN onion_num_conns + 1 ELSE onion_num_conns
    /\ server' = [server EXCEPT ![r] = Server(TRUE, [i \in Id |->
            IF i < Cardinality(Answered(r)) THEN ServerEntry(1, con[Asker(r, i)].public_key)
            ELSE NoRoute])]
    /\ down' = [down EXCEPT ![r] = [m \in 1 .. Cardinality(Answered(r)) |->
            Response(m - 1, con[Asker(r, m - 1)].public_key)]]
    /\ UNCHANGED <<con, onion_status, client, early>>

\* Of do_tcp_conns, TCP_CONNECTION_ANNOUNCE_TIMEOUT after the last routing request.
Sleep(r) ==
    /\ relay[r].status = "CONNECTED"
    /\ ~relay[r].onion
    /\ relay[r].lock_count > 0
    /\ relay[r].lock_count = relay[r].sleep_count
    /\ Restart(r, "SLEEPING")

Unsleep(r) ==
    /\ relay[r].status = "SLEEPING" /\ relay[r].unsleep
    /\ \/ /\ relay' = [relay EXCEPT ![r] = Fresh("VALID")]
          /\ UNCHANGED <<con, onion_status, onion_num_conns, wire>>
       \/ kill_tcp_relay_connection({r})

\* R: the unused relays whose announce timeout is over, as many as may go.
kill_nonused_tcp(R) ==
    /\ R # {}
    /\ \A r \in R : relay[r].status = "CONNECTED" /\ ~relay[r].onion /\ relay[r].lock_count = 0
    /\ Cardinality(R) <= Cardinality(With("CONNECTED")) - RECOMMENDED_FRIEND_TCP_CONNECTIONS
    /\ kill_tcp_relay_connection(R)

----------------------------------------------------------------------------
(* set_tcp_onion_status. *)

FirstConnected ==
    {r \in With("CONNECTED") :
        Cardinality({q \in With("CONNECTED") : q < r}) < NUM_ONION_TCP_CONNECTIONS}

OnionOn ==
    /\ ~onion_status
    /\ onion_status' = TRUE
    /\ onion_num_conns' = onion_num_conns + Cardinality(FirstConnected)
    /\ relay' = [r \in Slot |->
            IF r \in FirstConnected
            THEN RelayRecord("CONNECTED", relay[r].lock_count, relay[r].sleep_count, TRUE,
                             relay[r].unsleep)
            ELSE IF /\ relay[r].status = "SLEEPING"
                    /\ Cardinality(With("CONNECTED")) < NUM_ONION_TCP_CONNECTIONS
                 THEN Woken(r) ELSE relay[r]]
    /\ UNCHANGED <<con, wire>>

OnionOff ==
    /\ onion_status
    /\ onion_status' = FALSE
    /\ onion_num_conns' = onion_num_conns - Cardinality({r \in Slot : relay[r].onion})
    /\ relay' = [r \in Slot |-> RelayRecord(relay[r].status, relay[r].lock_count,
                                            relay[r].sleep_count, FALSE, relay[r].unsleep)]
    /\ UNCHANGED <<con, wire>>

----------------------------------------------------------------------------
(* Packets from a relay. *)

\* find_tcp_connection_to.
WithKey(k) == {n \in Number : con[n].status # "NONE" /\ con[n].public_key = k}

(***************************************************************************)
(* A routing response, with tcp_response_callback: the connection's link is *)
(* registered under the id unless it is registered already.                 *)
(***************************************************************************)
HandleRoutingResponse(r, i, k) ==
    IF client[r][i].status # 0 THEN UNCHANGED <<relay, con, client>>
    ELSE LET takers == {n \in WithKey(k) : con[n].link[r].status \notin {"ABSENT", "REGISTERED"}}
             number == IF takers = {} THEN -1 ELSE Least(takers)
         IN  /\ takers \cap OnlineAt(r) # {} =>
                    relay[r].lock_count <= bound.count /\ relay[r].sleep_count <= bound.count
             /\ client' = [client EXCEPT ![r] = [@ EXCEPT ![i] = ClientEntry(1, number, k)]]
             /\ con' = [n \in Number |-> IF n \in takers THEN WithLink(n, r, Link("REGISTERED", i))
                                         ELSE con[n]]
             /\ UNCHANGED relay

\* The connection tcp_status_callback finds for an entry, if its link changes at all.
StatusOf(r, i, status) ==
    {n \in Number : /\ n = client[r][i].number
                    /\ con[n].status # "NONE"
                    /\ con[n].link[r].status \notin {"ABSENT", status}}

HandleConnect(r, i) ==
    IF client[r][i].status # 1 THEN UNCHANGED <<relay, con, client>>
    ELSE LET N == StatusOf(r, i, "ONLINE") IN
         /\ client' = [client EXCEPT ![r] = [@ EXCEPT ![i] = ClientEntry(2, @.number, @.public_key)]]
         /\ con' = [n \in Number |-> IF n \in N THEN WithLink(n, r, Link("ONLINE", i)) ELSE con[n]]
         /\ relay' = [q \in Slot |-> IF q = r /\ N # {} THEN Locked(r, Least(N)) ELSE relay[q]]

HandleDisconnect(r, i) ==
    IF client[r][i].status # 2 THEN UNCHANGED <<relay, con, client>>
    ELSE LET N == StatusOf(r, i, "REGISTERED") IN
         /\ client' = [client EXCEPT ![r] = [@ EXCEPT ![i] = ClientEntry(1, @.number, @.public_key)]]
         /\ con' = [n \in Number |-> IF n \in N THEN WithLink(n, r, Link("REGISTERED", i)) ELSE con[n]]
         /\ relay' = [q \in Slot |-> IF q = r /\ N # {} THEN Unlocked(r, Least(N)) ELSE relay[q]]

ClientReceive(r) ==
    /\ down[r] # <<>>
    /\ LET p == Head(down[r]) IN
       \/ p.kind = "response" /\ HandleRoutingResponse(r, p.id, p.public_key)
       \/ p.kind = "connect" /\ HandleConnect(r, p.id)
       \/ p.kind = "disconnect" /\ HandleDisconnect(r, p.id)
    /\ down' = [down EXCEPT ![r] = Tail(@)]
    /\ UNCHANGED <<onion_status, onion_num_conns, server, early>>

\* The peers send_packet_tcp_connection's data for n goes to, by the ids it uses.
SendsTo(n) ==
    {client[r][con[n].link[r].connection_id].public_key :
        r \in {q \in Online(n) : client[q][con[n].link[q].connection_id].status = 2}}

----------------------------------------------------------------------------
Relays ==
    \/ \E r \in Slot : \/ ClientReceive(r) \/ tcp_relay_on_online(r)
                       \/ Lost(r) \/ Sleep(r) \/ Unsleep(r)
    \/ \E R \in SUBSET Slot : kill_nonused_tcp(R)
    \/ \E r \in Slot, i \in Id : PeerConnects(r, i) \/ PeerDisconnects(r, i)

Owner ==
    \/ \E k \in Key : new_tcp_connection_to(k)
    \/ \E n \in Number : kill_tcp_connection_to(n) \/ Use(n) \/ Disuse(n) \/ AddNewRelay(n)
    \/ \E n \in Number, r \in Slot : add_tcp_number_relay_connection(n, r)
    \/ add_tcp_relay_global \/ OnionOn \/ OnionOff

Next == (Relays \/ Owner) /\ UNCHANGED bound

Spec == Init /\ [][Next]_vars

----------------------------------------------------------------------------
(* Properties. *)

RelayType ==
    [status : {"NONE", "VALID", "CONNECTED", "SLEEPING"}, lock_count : 0 .. bound.count + Cardinality(Key),
     sleep_count : 0 .. bound.count + Cardinality(Key), onion : BOOLEAN, unsleep : BOOLEAN]
LinkType == [status : {"ABSENT", "NONE", "REGISTERED", "ONLINE"}, connection_id : Id]
ConnectionType ==
    [status : {"NONE", "VALID", "SLEEPING"}, public_key : Key \cup {NoKey}, link : [Slot -> LinkType]]
PacketType ==
    [kind : {"response", "connect", "disconnect"}, id : Id, public_key : Key \cup {NoKey}]

\* The tables hold what their types say, and the counters of a relay, which are
\* unsigned, are never decremented below 0 (they would wrap to 2^32 - 1).
TypeOK ==
    /\ relay \in [Slot -> RelayType]
    /\ con \in [Number -> ConnectionType]
    /\ onion_status \in BOOLEAN
    /\ onion_num_conns \in Nat
    /\ client \in [Slot -> [Id -> [status : 0 .. 2, number : Number \cup {-1},
                                   public_key : Key \cup {NoKey}]]]
    /\ server \in [Slot -> [open : BOOLEAN,
                            table : [Id -> [status : 0 .. 2, public_key : Key \cup {NoKey}]]]]
    /\ \A r \in Slot : down[r] \in Seq(PacketType)
    /\ early \subseteq Slot
    /\ bound \in Bounds

\* onion_num_conns is the number of relays kept for the onion, all of them connected,
\* through every loss, sleep and kill of a relay and every switch of the onion status.
OnionCount ==
    LET onions == {r \in Slot : relay[r].onion} IN
    /\ onion_num_conns = Cardinality(onions)
    /\ onion_num_conns <= NUM_ONION_TCP_CONNECTIONS
    /\ onions \subseteq With("CONNECTED")
    /\ onions # {} => onion_status

\* A connection is linked to relays that exist only, and counts as registered only with
\* a connected one: a slot that is given to another relay has no links of the old one.
LinksHold ==
    \A n \in Number, r \in Slot : r \in Linked(n) =>
        /\ con[n].status # "NONE"
        /\ relay[r].status # "NONE"
        /\ con[n].link[r].status # "NONE" => relay[r].status = "CONNECTED"

\* A relay's lock count is at least the number of connections that are online through
\* it, so that kill_nonused_tcp never takes one that is in use.
InUse ==
    \A r \in Slot : relay[r].lock_count >= Cardinality(OnlineAt(r))

(***************************************************************************)
(* The rest holds for a relay as long as no connection linked to it was     *)
(* killed before the relay answered: the id of such a link is not known,    *)
(* and the disconnect request that is sent names id 0.                      *)
(***************************************************************************)
\* An id that a client's table assigns to a connection belongs to the connection with
\* that key, whose link has that id and status: after kills and reuse of slots and ids
\* no notification is applied to another connection (tcp_status_callback).
EntriesOwned ==
    \A r \in Slot \ early, i \in Id : LET e == client[r][i] IN
        e.status # 0 =>
            /\ e.number # -1
            /\ con[e.number].public_key = e.public_key
            /\ con[e.number].link[r] = Link(IF e.status = 1 THEN "REGISTERED" ELSE "ONLINE", i)

\* The lock count is exactly the number of connections online through the relay (a
\* relay nobody uses can be killed), and the sleep count at least the number of the
\* sleeping ones among them.
LocksExact ==
    \A r \in Slot \ early :
        /\ relay[r].lock_count = Cardinality(OnlineAt(r))
        /\ relay[r].sleep_count >= Cardinality({n \in OnlineAt(r) : Sleeping(n)})

\* No counter of the pool wraps; those of the relays kept for the onion and of the connections
\* that use a relay are exact, that of the connections asleep is not too low (it may be too
\* high: SleepsUnused).
CountersExact == TypeOK /\ OnionCount /\ InUse /\ LocksExact

\* Links name relays that are there, and ids the connections they were given to.
LinksOwned == LinksHold /\ EntriesOwned

\* When nothing is in flight the client's table and the relay's agree, and so do the
\* links: a route the relay has is known to the connection it was made for.
Synchronised ==
    \A r \in With("CONNECTED") \ early : down[r] = <<>> =>
        \A i \in Id :
            /\ client[r][i].status = server[r].table[i].status
            /\ client[r][i].status # 0 => client[r][i].public_key = server[r].table[i].public_key

\* What is sent for a connection goes to its peer only (send_packet_tcp_connection).
SendsToPeer ==
    early = {} => \A n \in Number : SendsTo(n) \subseteq {con[n].public_key}

\* The tables of the relay and of the client name the same peers, and data goes to no other.
TablesAgree == Synchronised /\ SendsToPeer

\* A relay is put to sleep only when no connection that is online through it is in use
\* (set_tcp_connection_to_status).
SleepsUnused ==
    [][\A r \in Slot : Sleep(r) => \A n \in OnlineAt(r) : con[n].status = "SLEEPING"]_vars
=============================================================================
