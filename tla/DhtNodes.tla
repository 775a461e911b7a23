------------------------------ MODULE DhtNodes ------------------------------
(***************************************************************************)
(* The nodes a DHT node knows (toxcore/DHT.c, toxcore/ping.c): the list of *)
(* nodes close to itself, in buckets by their distance; the list of nodes  *)
(* close to a friend it looks for; the nodes it will ask next, and those   *)
(* that contacted it and will be pinged.  A node gets into a list only by  *)
(* answering a request.                                                    *)
(*                                                                         *)
(* A key is a tuple of bits, an address a model value.  The unit of time   *)
(* is PING_INTERVAL; an address has the age of the last answer from it.    *)
(* Requests are answered within the unit, if at all (PING_TIMEOUT is       *)
(* shorter).  The network is a function from addresses to the keys of the  *)
(* nodes that have them; a node that starts anew has another key.          *)
(***************************************************************************)
EXTENDS Integers, Sequences, FiniteSets, FiniteSetsExt, SequencesExt

CONSTANTS
    Keys, Self, Friend,
    V4, V6, Lan,            \* the addresses, and those of the local network
    None,
    LCLIENT_LENGTH, LCLIENT_NODES, MAX_FRIEND_CLIENTS,
    MAX_CLOSE_TO_BOOTSTRAP_NODES, MAX_SENT_NODES, MAX_TO_PING,
    BAD_NODE_TIMEOUT, KILL_NODE_TIMEOUT,
    U8,             \* the values of a uint8_t (256)
    Bounds          \* records, one of which is chosen at the start:
                    \*   world: the nodes at the start
                    \*   boot: the nodes we bootstrap from
                    \*   moves: the nodes that come to an address, in this order
                    \*   reliable: the keys of nodes that never miss two pings in a row
                    \*   contacts, tells: whether nodes contact us, and tell of others

VARIABLES
    dhtBound,           \* the chosen member of Bounds
    close_clientlist, client_list,
    to_bootstrap, friend_to_bootstrap,
    to_ping,
    asked,              \* the nodes with a request under way
    world, moved,
    missed,             \* the reliable nodes that missed the last ping
    answered,           \* the nodes that ever answered
    found,              \* the address last given to the callback of the friend
    wrapped             \* the live nodes were once a multiple of U8, and counted as none

vars == <<dhtBound, close_clientlist, client_list, to_bootstrap, friend_to_bootstrap, to_ping, asked, world, moved,
          missed, answered, found, wrapped>>
lists == <<close_clientlist, client_list, to_bootstrap, friend_to_bootstrap, to_ping>>

Ips == V4 \cup V6
Family(ip) == IF ip \in V4 THEN "v4" ELSE "v6"
Node(key, ip) == [key |-> key, ip |-> ip]
NoNode == Node(None, None)

\* IPPTsPng and Client_data
Assoc(ip, age, pinged) == [ip |-> ip, age |-> age, pinged |-> pinged]
NoAssoc == Assoc(None, KILL_NODE_TIMEOUT, FALSE)
Nobody == [key |-> None, v4 |-> NoAssoc, v6 |-> NoAssoc]
Families == {"v4", "v6"}

\* id_closest: whether a is closer to pk than b.
Closer(pk, a, b) == \E i \in DOMAIN pk : a[i] # b[i] /\ a[i] = pk[i] /\ \A j \in 1 .. i - 1 : a[j] = b[j]
bit_by_bit_cmp(a, b) == Cardinality({i \in DOMAIN a : \A j \in 1 .. i : a[j] = b[j]})
Bucket(key) == Min({bit_by_bit_cmp(key, Self), LCLIENT_LENGTH - 1})
Slots(key) == Bucket(key) * LCLIENT_NODES + 1 .. Bucket(key) * LCLIENT_NODES + LCLIENT_NODES

assoc_timeout(assoc) == assoc.age >= BAD_NODE_TIMEOUT
Timedout(client) == \A f \in Families : assoc_timeout(client[f])
Known(list, key) == \E i \in DOMAIN list : list[i].key = key

Init ==
    /\ dhtBound \in Bounds
    /\ close_clientlist = [i \in 1 .. LCLIENT_LENGTH * LCLIENT_NODES |-> Nobody]
    /\ client_list = [i \in 1 .. MAX_FRIEND_CLIENTS |-> Nobody]
    /\ to_bootstrap = <<>> /\ friend_to_bootstrap = <<>>
    /\ to_ping = [i \in 1 .. MAX_TO_PING |-> NoNode]
    /\ asked = dhtBound.boot
    /\ world = dhtBound.world /\ moved = 0
    /\ missed = {} /\ answered = {} /\ found = None /\ wrapped = FALSE
-----------------------------------------------------------------------------
(* Lists of clients *)

\* An address of the local network replaces none that is not.
update_client(client, ip) ==
    LET old == client[Family(ip)]
    IN  IF old.ip \notin Lan /\ ip \in Lan THEN client ELSE [client EXCEPT ![Family(ip)] = Assoc(ip, 0, old.pinged)]

\* A known key gets the address; a known address gets the key, and is forgotten.
SameIp(list, ip) == {i \in DOMAIN list : list[i][Family(ip)].ip = ip}

InList(list, n) == Known(list, n.key) \/ SameIp(list, n.ip) # {}
client_or_ip_port_in_list(list, n) ==
    IF Known(list, n.key)
    THEN [i \in DOMAIN list |-> IF list[i].key = n.key THEN update_client(list[i], n.ip) ELSE list[i]]
    ELSE [list EXCEPT ![Min(SameIp(list, n.ip))] = [@ EXCEPT !.key = n.key, ![Family(n.ip)] = NoAssoc]]

update_client_with_reset(client, n) ==
    [[Nobody EXCEPT !.key = n.key] EXCEPT ![Family(n.ip)] = Assoc(n.ip, 0, client[Family(n.ip)].pinged)]

\* add_to_close: the first place of the bucket without a good node.
Room(list, key) == {i \in Slots(key) : Timedout(list[i])}
add_to_close(list, n) ==
    IF Room(list, n.key) = {} THEN list
    ELSE [list EXCEPT ![Min(Room(list, n.key))] = update_client_with_reset(@, n)]

\* dht_cmp_entry, and what qsort may make of a list with it.
Before(a, b) ==
    \/ Timedout(a) /\ ~Timedout(b)
    \/ ~Timedout(a) /\ ~Timedout(b) /\ Closer(Friend, b.key, a.key)
sort_client_list(list) ==
    {s \in {[i \in DOMAIN list |-> list[p[i]]] : p \in {q \in [DOMAIN list -> DOMAIN list] : IsInjective(q)}} :
        \A i, j \in DOMAIN list : i < j => ~Before(s[j], s[i])}

\* replace_all: a timed out node or the one farthest from the friend.
store_node_ok(client, key) == Timedout(client) \/ Closer(Friend, key, client.key)

replace_all(list, n) ==
    IF ~store_node_ok(list[2], n.key) /\ ~store_node_ok(list[1], n.key) THEN {list}
    ELSE {[s EXCEPT ![1] = update_client_with_reset(@, n)] : s \in sort_client_list(list)}

\* addto_lists
NewClose(list, n) == IF InList(list, n) THEN client_or_ip_port_in_list(list, n) ELSE add_to_close(list, n)
NewClients(list, n) == IF InList(list, n) THEN {client_or_ip_port_in_list(list, n)} ELSE replace_all(list, n)
addto_lists(n) ==
    /\ close_clientlist' = NewClose(close_clientlist, n)
    /\ client_list' \in NewClients(client_list, n)
    /\ found' = IF n.key = Friend THEN n.ip ELSE found

RECURSIVE add_to_list(_, _, _)
add_to_list(nodes, n, base) ==
    LET farther == {i \in DOMAIN nodes : Closer(base, n.key, nodes[i].key)}
        at == Min(farther)
    IN  IF farther = {} THEN nodes
        ELSE IF at = Len(nodes) THEN [nodes EXCEPT ![at] = n]
        ELSE add_to_list([nodes EXCEPT ![at] = n], nodes[at], base)
-----------------------------------------------------------------------------
(* Answers *)

\* is_pk_in_client_list
Current(list, n) == \E i \in DOMAIN list : list[i].key = n.key /\ ~assoc_timeout(list[i][Family(n.ip)])

Queued(queue, n, size, base) ==
    IF Known(queue, n.key) THEN queue
    ELSE IF Len(queue) < size THEN Append(queue, n) ELSE add_to_list(queue, n, base)

\* ping_node_from_getnodes_ok, of the lists as they are after the answer
Told(n, close, clients) ==
    LET bucket == [i \in Slots(n.key) |-> close[i]]
    IN  /\ to_bootstrap' =
               IF Room(close, n.key) # {} /\ ~Current(bucket, n)
               THEN Queued(to_bootstrap, n, MAX_CLOSE_TO_BOOTSTRAP_NODES, Self) ELSE to_bootstrap
        /\ friend_to_bootstrap' =
               IF (store_node_ok(clients[2], n.key) \/ store_node_ok(clients[1], n.key)) /\ ~Current(clients, n)
               THEN Queued(friend_to_bootstrap, n, MAX_SENT_NODES, Friend) ELSE friend_to_bootstrap

\* handle_ping_response, or handle_sendnodes_ipv6 with at most one node told of
Answer(n, told) ==
    /\ n \in asked /\ world[n.ip] = n.key
    /\ asked' = asked \ {n}
    /\ addto_lists(n)
    /\ IF told = NoNode THEN UNCHANGED <<to_bootstrap, friend_to_bootstrap>>
       ELSE Told(told, close_clientlist', client_list')
    /\ answered' = answered \cup {n}
    /\ missed' = missed \ {n.key}
    /\ UNCHANGED <<dhtBound, to_ping, world, moved, wrapped>>

\* The nodes that another node may tell us of.
Tellable == {n \in [key : Keys, ip : Ips] : world[n.ip] = n.key}

\* ping_add: a node contacts us.
dht_getfriendip ==
    IF ~Known(client_list, Friend) THEN 0
    ELSE IF \E i \in DOMAIN client_list : client_list[i].key = Friend /\ ~Timedout(client_list[i]) THEN 1 ELSE -1
in_list(n) ==
    \E i \in DOMAIN close_clientlist :
        LET assoc == close_clientlist[i][Family(n.ip)]
        IN  close_clientlist[i].key = n.key /\ ~assoc_timeout(assoc) /\ assoc.ip = n.ip
Placed(n) ==
    LET at == {i \in DOMAIN to_ping : to_ping[i] = NoNode \/ to_ping[i].key = n.key}
    IN  IF at = {} THEN add_to_list(to_ping, n, Self)
        ELSE IF to_ping[Min(at)] = NoNode THEN [to_ping EXCEPT ![Min(at)] = n] ELSE to_ping

Contact(n) ==
    /\ dhtBound.contacts /\ world[n.ip] = n.key
    /\ Room(close_clientlist, n.key) # {} /\ ~in_list(n)
    /\ IF n.key = Friend /\ dht_getfriendip = 0 THEN asked' = asked \cup {n} /\ UNCHANGED to_ping
       ELSE to_ping' = Placed(n) /\ UNCHANGED asked
    /\ UNCHANGED <<dhtBound, close_clientlist, client_list, to_bootstrap, friend_to_bootstrap, world, moved, missed,
                   answered, found, wrapped>>
-----------------------------------------------------------------------------
(* do_dht *)

Each(list, Op(_)) == [i \in DOMAIN list |-> [key |-> list[i].key, v4 |-> Op(list[i].v4), v6 |-> Op(list[i].v6)]]
Aged(list, elapsed) ==
    Each(list, LAMBDA a : Assoc(a.ip, Min({a.age + elapsed, KILL_NODE_TIMEOUT}), a.pinged /\ elapsed = 0))

\* do_ping_and_sendnode_requests: who is asked, and the list afterwards.  (The node that is
\* asked for nodes at random is good; it was pinged before.)
Killed(assoc) == assoc.age >= KILL_NODE_TIMEOUT

Due(list) ==
    UNION {{Node(c.key, c[f].ip) : f \in {g \in Families : ~Killed(c[g]) /\ ~c[g].pinged}} : c \in ToSet(list)}
Pinged(list) == Each(list, LAMBDA a : Assoc(a.ip, a.age, a.pinged \/ ~Killed(a)))
SortOk(list) ==
    \E i \in DOMAIN list : (\A f \in Families : Killed(list[i][f])) /\ (i = 1 \/ ~Killed(list[i - 1].v4))
Mute(list) == \A i \in DOMAIN list : \A f \in Families : Killed(list[i][f])

\* The number of nodes that are not dead, in the uint8_t that counts them.
not_kill(list) == Cardinality({<<i, f>> \in (DOMAIN list) \X Families : ~Killed(list[i][f])}) % U8

\* Mutant: they stay dead.
Revived_Never(list) == list

\* do_Close: if no node is counted as alive they are all only bad from now on.
Revived(list) == Each(list, LAMBDA a : IF a.ip = None THEN a ELSE Assoc(a.ip, BAD_NODE_TIMEOUT, a.pinged))

\* ping_iterate: the nodes up to the first place that is empty, if they can be added.
ToPing(close) ==
    {i \in DOMAIN to_ping : (\A j \in 1 .. i : to_ping[j] # NoNode) /\ Room(close, to_ping[i].key) # {}}

\* A reliable node that did not answer did so the time before.
Unanswered == {n.key : n \in {m \in asked : world[m.ip] = m.key}} \cap dhtBound.reliable

Iterate(elapsed) ==
    \E close \in {Aged(close_clientlist, elapsed)}, clients \in {Aged(client_list, elapsed)} :
        /\ elapsed = 1 => Unanswered \cap missed = {}
        /\ missed' = IF elapsed = 1 THEN Unanswered ELSE missed
        /\ close_clientlist' = IF not_kill(close) = 0 THEN Revived(Pinged(close)) ELSE Pinged(close)
        /\ wrapped' = (wrapped \/ (not_kill(close) = 0 /\ ~Mute(close)))
        /\ client_list' \in IF SortOk(clients) THEN sort_client_list(Pinged(clients)) ELSE {Pinged(clients)}
        /\ to_bootstrap' = <<>> /\ friend_to_bootstrap' = <<>>
        /\ \E pings \in {ToPing(close_clientlist')} :
            /\ to_ping' = [i \in DOMAIN to_ping |-> IF i \in pings THEN NoNode ELSE to_ping[i]]
            /\ asked' = (IF elapsed = 1 THEN {} ELSE asked)
                            \cup ToSet(to_bootstrap) \cup ToSet(friend_to_bootstrap)
                            \cup Due(close) \cup Due(clients) \cup {to_ping[i] : i \in pings}
        /\ UNCHANGED <<dhtBound, world, moved, answered, found>>

\* The network: another node gets an address.
Move ==
    /\ moved < Len(dhtBound.moves)
    /\ moved' = moved + 1
    /\ world' = [world EXCEPT ![dhtBound.moves[moved'].ip] = dhtBound.moves[moved'].key]
    /\ UNCHANGED <<dhtBound, lists, asked, missed, answered, found, wrapped>>

Next ==
    \/ \E n \in asked : \E told \in {NoNode} \cup (IF dhtBound.tells THEN Tellable ELSE {}) : Answer(n, told)
    \/ \E n \in Tellable : Contact(n)
    \/ \E elapsed \in {0, 1} : Iterate(elapsed)
    \/ Move

Spec == Init /\ [][Next]_vars

\* get_close_nodes: of the good nodes of both lists those closest to a key.
Better(client) == IF client.v4.age <= client.v6.age THEN client.v4 ELSE client.v6
Sendable(client, lan) == ~assoc_timeout(Better(client)) /\ (lan \/ Better(client).ip \notin Lan)
get_close_nodes(base, lan) ==
    LET clients == SelectSeq(close_clientlist \o client_list, LAMBDA c : Sendable(c, lan))
    IN  FoldLeft(LAMBDA nodes, c : Queued(nodes, Node(c.key, Better(c).ip), MAX_SENT_NODES, base), <<>>, clients)
-----------------------------------------------------------------------------
(* Properties *)

KeysIn(list) == {list[i].key : i \in DOMAIN list} \ {None}
GoodIn(list) == {list[i].key : i \in {j \in DOMAIN list : ~Timedout(list[j])}}
Once(list) == \A i, j \in DOMAIN list : list[i].key = list[j].key /\ i # j => list[i].key = None
AddressesIn(list) == UNION {{Node(c.key, c[f].ip) : f \in Families} : c \in ToSet(list)}

\* A node is in a list once, however often it changes its address, comes back after it timed
\* out or is told of: the lists are not crowded out by one node.
KeysOnce == Once(close_clientlist) /\ Once(client_list) /\ Once(to_bootstrap) /\ Once(friend_to_bootstrap)

\* Nobody gets into the lists by contacting us or because others tell of it.
OnlyAnswered == KeysIn(close_clientlist) \cup KeysIn(client_list) \subseteq {n.key : n \in answered}

\* A good node stays in its bucket whoever else comes, unless its address is another's now.
GoodKept ==
    [][\A k \in GoodIn(close_clientlist) :
        k \in KeysIn(close_clientlist') \/ \E n \in answered' : n.key # k /\ Node(k, n.ip) \in AddressesIn(close_clientlist)]_vars

\* A good node leaves the list of a friend only for one that is closer to the friend, and not
\* before those that timed out, or when its address is another's.
CloserOnly ==
    [][\A k \in GoodIn(client_list) \ KeysIn(client_list') :
        \/ \E n \in answered' : n.key # k /\ Node(k, n.ip) \in AddressesIn(client_list)
        \/ /\ \A i \in DOMAIN client_list : ~Timedout(client_list[i])
           /\ \E new \in KeysIn(client_list') \ KeysIn(client_list) : Closer(Friend, new, k)]_vars

\* A node that answers stays good although a ping gets lost now and then: it is pinged often
\* enough, and early enough.  (Not when the live nodes were a multiple of 256: NotAgedEarly.)
StaysGood ==
    moved = 0 /\ ~wrapped =>
        \A k \in dhtBound.reliable : k \in KeysIn(close_clientlist) => k \in GoodIn(close_clientlist)

\* A friend that answered is found, for as long as it answers, whoever else is close to it.
FriendKnown ==
    moved = 0 /\ Friend \in dhtBound.reliable /\ found # None => dht_getfriendip = 1

\* We keep trying to reach the nodes we once knew when the network is gone (do_Close): there
\* is always one that is pinged again.
KeepsTrying == answered # {} /\ moved = 0 => ~Mute(close_clientlist)

\* Others are told of the good nodes that are closest to what they look for.
ClosestSent ==
    \A base \in Keys, lan \in BOOLEAN :
        \E sent \in {KeysIn(get_close_nodes(base, lan))},
           good \in {{c.key : c \in {d \in ToSet(close_clientlist \o client_list) : Sendable(d, lan)}}} :
            /\ sent \subseteq good
            /\ Cardinality(sent) = Min({Cardinality(good), MAX_SENT_NODES})
            /\ \A a \in sent, b \in good \ sent : Closer(base, a, b)

\* do_Close resets the nodes when "all existing nodes are at least KILL_NODE_TIMEOUT": no node
\* is older than the time since its answer.
NotAgedEarly ==
    [][\A i \in DOMAIN close_clientlist : \A f \in Families :
        LET old == close_clientlist[i][f]
            new == close_clientlist'[i][f]
        IN  new.ip = old.ip => new.age <= old.age + 1]_vars

\* The node at an address that answers is known to be there.
AnswerKept ==
    [][\A n \in asked : (\E told \in {NoNode} : Answer(n, told)) /\ n.key \in KeysIn(close_clientlist')
            => n.key \in GoodIn(close_clientlist')]_vars
=============================================================================
