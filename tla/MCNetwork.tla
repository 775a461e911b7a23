----------------------------- MODULE MCNetwork ------------------------------
(***************************************************************************)
(* Instances, for TLC, of what finds and keeps the nodes of the network:   *)
(* the pings that wait for an answer, the lists of DHT nodes, and friends  *)
(* with the connections they share.  One run covers them: the initial      *)
(* state chooses the module that moves, the variables of the others stay   *)
(* as they are.                                                            *)
(***************************************************************************)
EXTENDS PingArray, TLC

CONSTANTS a, b, c, d,       \* addresses, the first three also users
          Parts,            \* the modules that move
          DhtBounds, Users, PresenceBounds

VARIABLES part,
          dhtBound, close_clientlist, client_list, to_bootstrap, friend_to_bootstrap, to_ping, asked, world, moved,
          missed, replied, found, wrapped,
          left, conns, friendlist, held, wire, delivered, name, refused, astray, arrived, seen, read

pingVars == <<entries, last_deleted, last_added, now, added, sent, answered, noMemory>>
dhtVars == <<dhtBound, close_clientlist, client_list, to_bootstrap, friend_to_bootstrap, to_ping, asked, world, moved,
             missed, replied, found, wrapped>>
presenceVars == <<left, conns, friendlist, held, wire, delivered, name, refused, astray, arrived, seen, read>>

\* Keys of three bits; two buckets of two nodes.  PING_INTERVAL is 60 s, so that the 122 s of
\* BAD_NODE_TIMEOUT and the 182 s of KILL_NODE_TIMEOUT are over after three and four of them.
K(x, y, z) == <<x, y, z>>
near == K(1, 0, 1)
far == K(1, 1, 0)
other == K(0, 1, 0)
friend == K(1, 0, 0)
At(key, ip) == [key |-> key, ip |-> ip]
World(ka, kb, kc, kd) == (a :> ka) @@ (b :> kb) @@ (c :> kc) @@ (d :> kd)
Dht(w, boot, moves, reliable, contacts, tells) ==
    [world |-> w, boot |-> boot, moves |-> moves, reliable |-> reliable, contacts |-> contacts, tells |-> tells]

\* Nodes that contact us; nodes we hear of; more nodes close to the friend than are kept; a
\* node that starts anew, here and on the local network; a friend with two addresses.
MCDhtBounds ==
    {Dht(World(friend, near, far, None), {}, <<>>, {friend}, TRUE, FALSE),
     Dht(World(friend, near, far, None), {At(friend, a)}, <<>>, {friend}, FALSE, TRUE),
     Dht(World(friend, near, far, other), {At(friend, a), At(near, b), At(far, c), At(other, d)}, <<>>, {friend}, FALSE, FALSE),
     Dht(World(friend, None, None, None), {At(friend, a)}, <<At(near, a)>>, {}, TRUE, FALSE),
     Dht(World(None, friend, None, None), {At(friend, b)}, <<At(near, b)>>, {}, TRUE, FALSE),
     Dht(World(friend, far, None, friend), {At(friend, a), At(friend, d)}, <<>>, {friend}, TRUE, TRUE)}
\* A node of the local network that starts anew.
LanBounds == {Dht(World(None, friend, None, None), {At(friend, b)}, <<At(near, b)>>, {}, TRUE, FALSE)}
D == INSTANCE DhtNodes WITH
        Keys <- {friend, near, far, other}, Self <- K(0, 0, 0), Friend <- friend, V4 <- {a, b, c}, V6 <- {d}, Lan <- {b},
        LCLIENT_LENGTH <- 2, LCLIENT_NODES <- 2, MAX_FRIEND_CLIENTS <- 3, MAX_CLOSE_TO_BOOTSTRAP_NODES <- 2,
        MAX_SENT_NODES <- 2, MAX_TO_PING <- 2, BAD_NODE_TIMEOUT <- 3, KILL_NODE_TIMEOUT <- 4, U8 <- 256,
        Bounds <- DhtBounds, answered <- replied

\* Two nodes with two addresses each, and a count that ends at two.
WrapBounds == {Dht(World(friend, near, None, friend), {At(friend, a), At(near, b), At(friend, d)}, <<>>, {friend}, FALSE, FALSE)}
W == INSTANCE DhtNodes WITH
        Keys <- {friend, near, far, other}, Self <- K(0, 0, 0), Friend <- friend, V4 <- {a, b, c}, V6 <- {d}, Lan <- {b},
        LCLIENT_LENGTH <- 2, LCLIENT_NODES <- 2, MAX_FRIEND_CLIENTS <- 3, MAX_CLOSE_TO_BOOTSTRAP_NODES <- 2,
        MAX_SENT_NODES <- 2, MAX_TO_PING <- 2, BAD_NODE_TIMEOUT <- 3, KILL_NODE_TIMEOUT <- 4, U8 <- 2,
        Bounds <- WrapBounds, answered <- replied

\* Two friends who write and lose their connection; one of whom deletes the other and adds
\* it again while a conference uses the connection; one of whom is no friend yet; one of
\* whom shares a conference, and the connection that came with it, with a third user.
Presence(friends, conferences, may, adds, dels, holds, losses, messages, names) ==
    [friends |-> friends, held |-> conferences, may |-> may, adds |-> adds, dels |-> dels, holds |-> holds,
     losses |-> losses, messages |-> messages, names |-> names]
Mutual == {<<a, b>>, <<b, a>>}
MCPresenceBounds ==
    {Presence(Mutual, {}, {<<a, b>>, <<a, a>>}, 0, 0, 0, 1, 2, 1),
     Presence(Mutual, {<<a, b>>}, {<<a, b>>, <<a, a>>}, 1, 1, 1, 0, 1, 1),
     Presence({<<b, a>>}, Mutual, Mutual, 1, 1, 0, 1, 1, 0),
     Presence({<<c, b>>}, {<<b, c>>, <<a, b>>}, Mutual, 3, 1, 0, 0, 0, 0)}
\* A member of two conferences becomes the friend of another member.
MemberBounds == {Presence({}, {<<b, c>>, <<a, b>>}, Mutual, 2, 0, 0, 0, 0, 0)}
P == INSTANCE Presence WITH CRYPTO_PACKET_BUFFER_SIZE <- 3, Bounds <- PresenceBounds

MCInit ==
    /\ part \in Parts
    /\ Init /\ P!Init
    /\ IF part = "wraps" THEN W!Init ELSE D!Init
    /\ part # "pings" => last_added = CHOOSE n \in Starts : TRUE
    /\ part \notin {"dht", "wraps"} => dhtBound = CHOOSE n \in DhtBounds : TRUE
    /\ part # "presence" => left = CHOOSE n \in PresenceBounds : TRUE

MCNext ==
    /\ \/ part = "pings" /\ Next /\ UNCHANGED <<dhtVars, presenceVars>>
       \/ part = "dht" /\ D!Next /\ UNCHANGED <<pingVars, presenceVars>>
       \/ part = "wraps" /\ W!Next /\ UNCHANGED <<pingVars, presenceVars>>
       \/ part = "presence" /\ P!Next /\ UNCHANGED <<pingVars, dhtVars>>
    /\ UNCHANGED part

MCSpec == MCInit /\ [][MCNext]_<<part, pingVars, dhtVars, presenceVars>>
-----------------------------------------------------------------------------
\* The properties are stated in the modules, those of the pings in PingArray; here one
\* definition joins those of a part.

\* The lists of DHT nodes (DHT.c) hold a node once and only nodes that answered, keep nodes
\* that are good and a friend that is there, go on trying, hand out the closest, and replace
\* nodes by closer ones only.  A count of live nodes that wraps (part "wraps") costs no more
\* than that the nodes are bad until they answer again.
NodesSound ==
    /\ [](part \in {"dht", "wraps"} =>
             D!KeysOnce /\ D!OnlyAnswered /\ D!StaysGood /\ D!FriendKnown /\ D!KeepsTrying /\ D!ClosestSent)
    /\ D!GoodKept
    /\ D!CloserOnly

\* A node that answers is kept with the address it answered from.
AnswerKept == D!AnswerKept

\* A node is not taken for bad before its time.
NotAgedEarly == D!NotAgedEarly

\* Friends who are connected see each other online.
BothOnline == part = "presence" => P!BothOnline

\* Friends have a connection however often they are deleted and added, see each other online
\* once all is quiet and no ONLINE packet went to another, know each other's names and get
\* receipts for what arrived only: Messenger.c over friend_connection.c.
FriendsInTouch ==
    part = "presence" => P!FriendsConnected /\ P!ReadArrived /\ P!OnlineIfFriends /\ P!NamesKnown
=============================================================================
