-------------------------- MODULE CryptoHandshake --------------------------
(***************************************************************************)
(* How two friends set up a crypto connection: the cookie and handshake    *)
(* packets of net_crypto.c together with friend_connection.c, which opens, *)
(* accepts and drops the connection.  A peer may restart: it then has a    *)
(* new DHT key, a new key for its cookies, and no connection; its friend   *)
(* list survives.                                                          *)
(*                                                                         *)
(* A session stands for the session key pair and the base nonce drawn when *)
(* a crypto connection is created, and for the number of its cookie        *)
(* request; a shared key is the set of the two sessions (or DHT keys) it   *)
(* is computed from.  Encryption is perfect.  The network is the set of    *)
(* packets ever sent: they are lost, repeated, delayed and reordered       *)
(* freely.  A cookie that has expired is a handshake that is lost.         *)
(***************************************************************************)
EXTENDS Naturals

CONSTANTS
    Peer,
    None,
    MaxSessions,    \* bounds: crypto connections a peer creates,
    MaxRestarts     \* and times it restarts

\* States of a crypto connection, and of a friend connection.
COOKIE_REQUESTING == "COOKIE_REQUESTING"
HANDSHAKE_SENT == "HANDSHAKE_SENT"
NOT_CONFIRMED == "NOT_CONFIRMED"
ESTABLISHED == "ESTABLISHED"

STATUS_NONE == "NONE"
CONNECTING == "CONNECTING"
CONNECTED == "CONNECTED"

DhtKey == Peer \X Nat
Session == Peer \X Nat \X Nat
Connection ==
    [status : {COOKIE_REQUESTING, HANDSHAKE_SENT, NOT_CONFIRMED, ESTABLISHED},
     dht : DhtKey, session : Session, peer_session : Session \union {None},
     recv_nonce : Session \union {None}, key : SUBSET (Session \union DhtKey)]
FriendConnection ==
    [status : {STATUS_NONE, CONNECTING, CONNECTED},
     dht_temp_pk : DhtKey \union {None}, crypt : BOOLEAN]

ASSUME CryptoHandshakeAssumption ==
    /\ \A p \in Peer : \E q \in Peer : Peer = {p, q} /\ p # q
    /\ Peer # {}
    /\ None \notin Connection \union DhtKey \union Session
    /\ MaxSessions \in [Peer -> Nat]
    /\ MaxRestarts \in [Peer -> Nat]

VARIABLES
    inc,      \* which incarnation of p runs
    made,     \* crypto connections p has created
    conn,     \* p's crypto connection to the other peer, or None
    friend,   \* p's friend connection
    net,      \* packets ever sent
    keyed     \* history: <<p, key>> for every session key p computed

vars == <<inc, made, conn, friend, net, keyed>>

Other(p) == CHOOSE q \in Peer : q # p

Dht(p) == <<p, inc[p]>>
NewSession(p) == <<p, inc[p], made[p]>>
OwnerOf(session) == <<session[1], session[2]>>
KeyOf(x, y) == {x, y}

\* A cookie is readable only to the incarnation that made it.
Cookie == [maker : DhtKey, dht : DhtKey]
create_cookie(p, d) == [maker |-> Dht(p), dht |-> d]
open_cookie(p, cookie) == cookie.maker = Dht(p)

NewFriend == [status |-> CONNECTING, dht_temp_pk |-> None, crypt |-> FALSE]

Init ==
    /\ inc = [p \in Peer |-> 0]
    /\ made = [p \in Peer |-> 0]
    /\ conn = [p \in Peer |-> None]
    /\ friend = [p \in Peer |-> NewFriend]
    /\ net = {}
    /\ keyed = {}

----------------------------------------------------------------------------
\* Packets.
CookieRequest(p, d, session) ==
    [kind |-> "cookie_request", from |-> Dht(p), to |-> d, number |-> session]

CookieResponse(p, request) ==
    [kind |-> "cookie_response", key |-> KeyOf(request.from, request.to),
     number |-> request.number, cookie |-> create_cookie(p, request.from)]

\* The other peer's cookie, this peer's session, and a cookie for the answer.
Handshake(p, cookie, session, d) ==
    [kind |-> "handshake", to |-> Other(p), cookie |-> cookie, session |-> session,
     answer |-> create_cookie(p, d)]

Data(p, c, kill) ==
    [kind |-> "data", to |-> Other(p), key |-> c.key, nonce |-> c.session, kill |-> kill]

----------------------------------------------------------------------------
\* Parts of the handlers.  A step ends with p's connection c, its friend
\* connection f, and the packets sent.
Step(p, c, f, packets) ==
    /\ conn' = [conn EXCEPT ![p] = c]
    /\ friend' = [friend EXCEPT ![p] = f]
    /\ net' = net \union packets

Creates(p) == made' = [made EXCEPT ![p] = @ + 1]
CanCreate(p) == made[p] < MaxSessions[p]
Computes(p, key) == keyed' = keyed \union {<<p, key>>}

\* crypto_kill tells the other peer if the connection was established.
KillPackets(p) ==
    IF conn[p] # None /\ conn[p].status = ESTABLISHED THEN {Data(p, conn[p], TRUE)} ELSE {}

\* Mutant: the id of the killed connection is kept.
WentOffline_KeepsId(f) == [f EXCEPT !.status = CONNECTING]

\* handle_status: the crypto connection came up, or went away.
WentOnline(f) == [f EXCEPT !.status = CONNECTED]
WentOffline(f) == [f EXCEPT !.status = CONNECTING, !.crypt = FALSE]

new_crypto_connection(p, d) ==
    [status |-> COOKIE_REQUESTING, dht |-> d, session |-> NewSession(p),
     peer_session |-> None, recv_nonce |-> None, key |-> KeyOf(Dht(p), d)]

\* The connection once the peer's session is known.
WithPeerSession(c, session) ==
    [c EXCEPT !.peer_session = session, !.recv_nonce = session,
              !.key = KeyOf(c.session, session), !.status = NOT_CONFIRMED]

\* friend_new_connection: the friend connection takes a crypto connection to d.
\* new_crypto_connection would return a connection that exists already.
OpenConnection(p, f, d, packets) ==
    /\ CanCreate(p)
    /\ Step(p, new_crypto_connection(p, d), [f EXCEPT !.crypt = TRUE],
            packets \union {CookieRequest(p, d, NewSession(p))})
    /\ Creates(p)

\* dht_pk_callback: the friend has the DHT key d, heard from the onion or from a
\* handshake, when p's connection is c.  A connection to another key is given up
\* for a new one.
dht_pk_callback(p, c, d) ==
    LET f == friend[p]
    IN  /\ IF f.dht_temp_pk = d
           THEN Step(p, c, f, {}) /\ UNCHANGED made
           ELSE OpenConnection(
                    p, [(IF f.crypt THEN WentOffline(f) ELSE f) EXCEPT !.dht_temp_pk = d],
                    d, IF f.crypt THEN KillPackets(p) ELSE {})
        /\ UNCHANGED <<inc, keyed>>

\* accept_crypto_connection for handle_new_connections: p takes part in the
\* handshake h, after giving up the connection it had (the packets).
Accept(p, h, f, packets) ==
    LET d == h.cookie.dht
        c == WithPeerSession(new_crypto_connection(p, d), h.session)
    IN  /\ CanCreate(p)
        /\ Step(p, c, [f EXCEPT !.crypt = TRUE, !.dht_temp_pk = d],
                packets \union {Handshake(p, h.answer, c.session, d)})
        /\ Creates(p)
        /\ Computes(p, c.key)
        /\ UNCHANGED inc

----------------------------------------------------------------------------
\* The actions.

\* A DHT key of the friend, possibly an old one, is learned from the onion.
LearnDhtKey(p, d) ==
    /\ friend[p].status # STATUS_NONE
    /\ dht_pk_callback(p, conn[p], d)

\* do_friend_connections while the friend is not connected: the DHT key expires,
\* or a connection is opened if there is none.
ForgetDhtKey(p) ==
    /\ friend[p].status = CONNECTING
    /\ friend[p].dht_temp_pk # None
    /\ Step(p, conn[p], [friend[p] EXCEPT !.dht_temp_pk = None], {})
    /\ UNCHANGED <<inc, made, keyed>>

Reconnect(p) ==
    /\ friend[p].status = CONNECTING
    /\ friend[p].dht_temp_pk # None
    /\ ~friend[p].crypt
    /\ OpenConnection(p, friend[p], friend[p].dht_temp_pk, {})
    /\ UNCHANGED <<inc, keyed>>

\* udp_handle_cookie_request and its TCP variants: answered without any state.
HandleCookieRequest(p, m) ==
    /\ m.kind = "cookie_request"
    /\ m.to = Dht(p)
    /\ CookieResponse(p, m) \notin net
    /\ net' = net \union {CookieResponse(p, m)}
    /\ UNCHANGED <<inc, made, conn, friend, keyed>>

HandleCookieResponse(p, m) ==
    /\ m.kind = "cookie_response"
    /\ conn[p] # None
    /\ conn[p].status = COOKIE_REQUESTING
    /\ m.key = conn[p].key
    /\ m.number = conn[p].session
    /\ Step(p, [conn[p] EXCEPT !.status = HANDSHAKE_SENT], friend[p],
            {Handshake(p, m.cookie, conn[p].session, conn[p].dht)})
    /\ UNCHANGED <<inc, made, keyed>>

\* handle_crypto_handshake succeeds.
ValidHandshake(p, m) == m.kind = "handshake" /\ m.to = p /\ open_cookie(p, m.cookie)

\* Mutant: the DHT key is not compared.
HandleHandshake_AnyKey(p, m) ==
    LET c == WithPeerSession(conn[p], m.session)
    IN  /\ conn[p] # None
        /\ conn[p].status \in {COOKIE_REQUESTING, HANDSHAKE_SENT, NOT_CONFIRMED}
        /\ ValidHandshake(p, m)
        /\ Step(p, c, friend[p],
                IF conn[p].status = COOKIE_REQUESTING
                THEN {Handshake(p, m.answer, c.session, c.dht)}
                ELSE {})
        /\ Computes(p, c.key)
        /\ UNCHANGED <<inc, made>>

\* handle_packet_crypto_hs: the packet came from the address of the connection.
HandleHandshake(p, m) ==
    LET c == WithPeerSession(conn[p], m.session)
    IN  /\ conn[p] # None
        /\ conn[p].status \in {COOKIE_REQUESTING, HANDSHAKE_SENT, NOT_CONFIRMED}
        /\ ValidHandshake(p, m)
        /\ m.cookie.dht = conn[p].dht
        /\ Step(p, c, friend[p],
                IF conn[p].status = COOKIE_REQUESTING
                THEN {Handshake(p, m.answer, c.session, c.dht)}
                ELSE {})
        /\ Computes(p, c.key)
        /\ UNCHANGED <<inc, made>>

\* The same when the friend has another DHT key than expected.  The nonce and the
\* session key were already overwritten; the callback replaces the connection,
\* unless the friend connection knew that key.
HandleHandshakeNewKey(p, m) ==
    /\ conn[p] # None
    /\ conn[p].status \in {COOKIE_REQUESTING, HANDSHAKE_SENT, NOT_CONFIRMED}
    /\ ValidHandshake(p, m)
    /\ m.cookie.dht # conn[p].dht
    /\ dht_pk_callback(
           p, [conn[p] EXCEPT !.recv_nonce = m.session, !.peer_session = m.session],
           m.cookie.dht)

\* Mutant: a handshake is taken whatever the status of the connection.
HandleNewConnection_AnyStatus(p, m) ==
    /\ ValidHandshake(p, m)
    /\ conn[p] # None
    /\ m.cookie.dht = conn[p].dht
    /\ Step(p, WithPeerSession(conn[p], m.session), friend[p],
            {Handshake(p, m.answer, conn[p].session, m.cookie.dht)})
    /\ Computes(p, KeyOf(conn[p].session, m.session))
    /\ UNCHANGED <<inc, made>>

\* handle_new_connection_handshake: the packet came from an unknown address.
HandleNewConnection(p, m) ==
    /\ ValidHandshake(p, m)
    /\ \/ /\ conn[p] = None
          /\ friend[p].status # STATUS_NONE
          /\ ~friend[p].crypt
          /\ Accept(p, m, friend[p], {})
       \/ /\ conn[p] # None
          /\ m.cookie.dht # conn[p].dht
          /\ Accept(p, m, WentOffline(friend[p]), KillPackets(p))
       \/ /\ conn[p] # None
          /\ m.cookie.dht = conn[p].dht
          /\ conn[p].status \in {COOKIE_REQUESTING, HANDSHAKE_SENT}
          /\ Step(p, WithPeerSession(conn[p], m.session), friend[p],
                  {Handshake(p, m.answer, conn[p].session, m.cookie.dht)})
          /\ Computes(p, KeyOf(conn[p].session, m.session))
          /\ UNCHANGED <<inc, made>>

\* The periodic request packet; every data packet confirms a connection.
SendData(p) ==
    /\ conn[p] # None
    /\ conn[p].status \in {NOT_CONFIRMED, ESTABLISHED}
    /\ Data(p, conn[p], FALSE) \notin net
    /\ net' = net \union {Data(p, conn[p], FALSE)}
    /\ UNCHANGED <<inc, made, conn, friend, keyed>>

Decrypts(p, m) ==
    /\ m.kind = "data"
    /\ m.to = p
    /\ conn[p] # None
    /\ conn[p].status \in {NOT_CONFIRMED, ESTABLISHED}
    /\ m.key = conn[p].key
    /\ m.nonce = conn[p].recv_nonce

HandleData(p, m) ==
    /\ Decrypts(p, m)
    /\ ~m.kill
    /\ conn[p].status = NOT_CONFIRMED
    /\ Step(p, [conn[p] EXCEPT !.status = ESTABLISHED], WentOnline(friend[p]), {})
    /\ UNCHANGED <<inc, made, keyed>>

\* connection_kill after a kill packet.
HandleKill(p, m) ==
    /\ Decrypts(p, m)
    /\ m.kill
    /\ Step(p, None, WentOffline(friend[p]), KillPackets(p))
    /\ UNCHANGED <<inc, made, keyed>>

\* kill_timedout: MAX_NUM_SENDPACKET_TRIES packets went unanswered.
HandshakeTimeout(p) ==
    /\ conn[p] # None
    /\ conn[p].status # ESTABLISHED
    /\ Step(p, None, WentOffline(friend[p]), {})
    /\ UNCHANGED <<inc, made, keyed>>

\* do_friend_connections: no ping for FRIEND_CONNECTION_TIMEOUT.
PingTimeout(p) ==
    /\ friend[p].status = CONNECTED
    /\ Step(p, None, WentOffline(friend[p]), KillPackets(p))
    /\ UNCHANGED <<inc, made, keyed>>

\* kill_friend_connection by its last user, and new_friend_connection.
RemoveFriend(p) ==
    /\ friend[p].status # STATUS_NONE
    /\ Step(p, IF friend[p].crypt THEN None ELSE conn[p],
            [NewFriend EXCEPT !.status = STATUS_NONE],
            IF friend[p].crypt THEN KillPackets(p) ELSE {})
    /\ UNCHANGED <<inc, made, keyed>>

AddFriend(p) ==
    /\ friend[p].status = STATUS_NONE
    /\ Step(p, conn[p], NewFriend, {})
    /\ UNCHANGED <<inc, made, keyed>>

\* The process ends and starts again, at any moment.
Restart(p) ==
    /\ inc[p] < MaxRestarts[p]
    /\ inc' = [inc EXCEPT ![p] = @ + 1]
    /\ Step(p, None, IF friend[p].status = STATUS_NONE THEN friend[p] ELSE NewFriend, {})
    /\ UNCHANGED <<made, keyed>>

FriendKeys(p) == {<<Other(p), i>> : i \in 0 .. inc[Other(p)]}

Receive(p, m) ==
    \/ HandleCookieRequest(p, m)
    \/ HandleCookieResponse(p, m)
    \/ HandleHandshake(p, m)
    \/ HandleHandshakeNewKey(p, m)
    \/ HandleNewConnection(p, m)
    \/ HandleData(p, m)
    \/ HandleKill(p, m)

Next ==
    \E p \in Peer :
        \/ \E d \in FriendKeys(p) : LearnDhtKey(p, d)
        \/ ForgetDhtKey(p)
        \/ Reconnect(p)
        \/ \E m \in net : Receive(p, m)
        \/ SendData(p)
        \/ HandshakeTimeout(p)
        \/ PingTimeout(p)
        \/ RemoveFriend(p)
        \/ AddFriend(p)
        \/ Restart(p)

Spec == Init /\ [][Next]_vars

\* The system once nothing goes wrong but restarts.  Packets of connections that
\* are gone are not received any more (a cookie is good for COOKIE_TIMEOUT only),
\* except for kill packets; the onion delivers the DHT key in use; and a timeout
\* hits only a connection whose peer does not have its end of it.
SessionOf(p) == IF conn[p] = None THEN None ELSE conn[p].session

Fresh(m) ==
    CASE m.kind \in {"cookie_request", "cookie_response"} ->
            \E p \in Peer : m.number = SessionOf(p)
      [] m.kind = "handshake" -> m.session = SessionOf(Other(m.to))
      [] m.kind = "data" -> m.kill \/ m.nonce = SessionOf(Other(m.to))

Stale(p) ==
    /\ conn[p] # None
    /\ conn[p].peer_session # None
    /\ \/ conn[p].peer_session # SessionOf(Other(p))
       \/ /\ conn[Other(p)] # None
          /\ conn[Other(p)].peer_session \notin {None, conn[p].session}

ReceiveFresh(p) == \E m \in net : Fresh(m) /\ Receive(p, m)
LearnCurrentKey(p) == LearnDhtKey(p, Dht(Other(p)))
StaleTimeout(p) == Stale(p) /\ (HandshakeTimeout(p) \/ PingTimeout(p))

CalmNext ==
    \E p \in Peer :
        \/ LearnCurrentKey(p)
        \/ Reconnect(p)
        \/ ReceiveFresh(p)
        \/ SendData(p)
        \/ StaleTimeout(p)
        \/ Restart(p)

CalmSpec ==
    /\ Init
    /\ [][CalmNext]_vars
    /\ \A p \in Peer :
        /\ WF_vars(LearnCurrentKey(p))
        /\ WF_vars(Reconnect(p))
        /\ WF_vars(ReceiveFresh(p))
        /\ WF_vars(SendData(p))
        /\ WF_vars(StaleTimeout(p))

----------------------------------------------------------------------------
\* Properties.

TypeOK ==
    /\ inc \in [Peer -> Nat]
    /\ made \in [Peer -> Nat]
    /\ conn \in [Peer -> Connection \union {None}]
    /\ friend \in [Peer -> FriendConnection]

\* A crypto connection exists exactly as long as the friend connection holds it,
\* and the friend is shown as connected exactly while it is established: no
\* callback, timeout or late packet leaves one without the other.
ConnectionOwned ==
    \A p \in Peer :
        /\ friend[p].crypt <=> conn[p] # None
        /\ friend[p].status = CONNECTED <=> conn[p] # None /\ conn[p].status = ESTABLISHED

\* The DHT key a connection was made for is the one the friend connection has, if
\* it has not forgotten it.  dht_pk_callback relies on this to replace every
\* connection whose nonce a handshake from a new DHT key has overwritten.
DhtKeyTracked ==
    \A p \in Peer : conn[p] # None => friend[p].dht_temp_pk \in {None, conn[p].dht}

\* Crypto connection and friend connection agree, on each other and on the DHT key.
OwnersAgree == ConnectionOwned /\ DhtKeyTracked

\* Once keys are exchanged, the nonce and the shared key come from one and the
\* same session of the peer, made by the incarnation that has the DHT key the
\* connection is for.
KeysConsistent ==
    \A p \in Peer : conn[p] # None /\ conn[p].status \in {NOT_CONFIRMED, ESTABLISHED} =>
        LET s == conn[p].peer_session
        IN  /\ conn[p].recv_nonce = s
            /\ conn[p].key = KeyOf(conn[p].session, s)
            /\ conn[p].dht = OwnerOf(s)
            /\ s[1] = Other(p)

\* An established connection has a key its peer has computed too: packets sent
\* under it can have been read.
MutualKey ==
    \A p \in Peer : conn[p] # None /\ conn[p].status = ESTABLISHED =>
        <<Other(p), conn[p].key>> \in keyed

\* The keys of a connection come from one session of the peer, and the peer has them.
KeysAgree == KeysConsistent /\ MutualKey

\* No late or repeated handshake changes the keys of an established connection.
KeepsKeys(c, d) ==
    c # None /\ c.status = ESTABLISHED /\ d # None /\ d.session = c.session => d = c
EstablishedKeysFixed == [][\A p \in Peer : KeepsKeys(conn[p], conn'[p])]_vars

\* Two friends that know each other and stay up end up connected to each other
\* under one key, and stay so, however their handshakes cross, whichever of them
\* restarts, and with no message but those of the handshake to tell them.
BothConnected ==
    \A p \in Peer :
        /\ friend[p].status = CONNECTED
        /\ conn[p].key = KeyOf(SessionOf(p), SessionOf(Other(p)))
EventuallyConnected == <>[]BothConnected

=============================================================================
