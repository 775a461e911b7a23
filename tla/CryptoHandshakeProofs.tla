----------------------- MODULE CryptoHandshakeProofs -----------------------
(***************************************************************************)
(* Safety of the handshake for any number of connections and restarts.     *)
(*                                                                         *)
(* The inductive invariant says, of each peer by itself, that its two      *)
(* records fit (PeerOK), and of every packet ever sent, that the cookies   *)
(* and the session in it belong together (PacketOK).  A handshake is then  *)
(* only answered with a session of the incarnation its cookie was made     *)
(* for, which is what keeps old incarnations out.                          *)
(***************************************************************************)
EXTENDS CryptoHandshake, TLAPS

\* Peer p of incarnation i, having created n connections, has connection c and
\* friend connection f; K are the keys computed so far.
ExchangedOK(p, c, K) ==
    /\ c.peer_session \in Session
    /\ c.recv_nonce = c.peer_session
    /\ c.key = KeyOf(c.session, c.peer_session)
    /\ c.dht = OwnerOf(c.peer_session)
    /\ <<p, c.key>> \in K
    /\ c.status = ESTABLISHED => <<Other(p), c.key>> \in K

ConnOK(p, i, n, c, K) ==
    /\ c \in Connection
    /\ c.session[1] = p
    /\ c.session[2] = i
    /\ c.session[3] < n
    /\ c.dht[1] = Other(p)
    /\ c.status = COOKIE_REQUESTING => c.key = KeyOf(<<p, i>>, c.dht)
    /\ c.status \in {NOT_CONFIRMED, ESTABLISHED} => ExchangedOK(p, c, K)

FriendOK(p, c, f) ==
    /\ f \in FriendConnection
    /\ f.crypt <=> c # None
    /\ f.status = CONNECTED <=> c # None /\ c.status = ESTABLISHED
    /\ f.status = STATUS_NONE => f = [NewFriend EXCEPT !.status = STATUS_NONE]
    /\ f.dht_temp_pk # None => f.dht_temp_pk[1] = Other(p)
    /\ c # None => f.dht_temp_pk \in {None, c.dht}

PeerOK(p, i, n, c, f, K) ==
    /\ FriendOK(p, c, f)
    /\ c # None => ConnOK(p, i, n, c, K)

PacketOK(m, K) ==
    /\ m.kind = "cookie_request" =>
        /\ m.number \in Session
        /\ m.from = OwnerOf(m.number)
        /\ m.to \in DhtKey
        /\ m.to[1] = Other(m.from[1])
    /\ m.kind = "cookie_response" =>
        /\ m.number \in Session
        /\ m.cookie.dht = OwnerOf(m.number)
        /\ m.cookie.maker \in DhtKey
        /\ m.cookie.maker[1] = Other(m.cookie.dht[1])
        /\ m.key = KeyOf(m.cookie.dht, m.cookie.maker)
    /\ m.kind = "handshake" =>
        /\ m.to \in Peer
        /\ m.session \in Session
        /\ m.session[1] = Other(m.to)
        /\ m.cookie.dht = OwnerOf(m.session)
        /\ m.cookie.maker \in DhtKey
        /\ m.answer.dht = m.cookie.maker
        /\ m.answer.maker = m.cookie.dht
    /\ m.kind = "data" =>
        /\ m.to \in Peer
        /\ <<Other(m.to), m.key>> \in K

IInv ==
    /\ inc \in [Peer -> Nat]
    /\ made \in [Peer -> Nat]
    /\ conn \in [Peer -> Connection \union {None}]
    /\ friend \in [Peer -> FriendConnection]
    /\ \A p \in Peer : PeerOK(p, inc[p], made[p], conn[p], friend[p], keyed)
    /\ \A m \in net : PacketOK(m, keyed)

\* What a step must do.
StepOK == IInv' /\ \A p \in Peer : KeepsKeys(conn[p], conn'[p])

----------------------------------------------------------------------------
\* There are two peers.
LEMMA OtherPeer ==
    ASSUME NEW p \in Peer
    PROVE  Other(p) \in Peer /\ Other(p) # p /\ Other(Other(p)) = p
<1>1. PICK q \in Peer : Peer = {p, q} /\ p # q
  BY CryptoHandshakeAssumption
<1>2. Other(p) = q /\ Other(q) = p
  BY <1>1 DEF Other
<1> QED BY <1>1, <1>2

LEMMA NoneDistinct ==
    /\ \A c \in Connection : c # None
    /\ \A d \in DhtKey : d # None
    /\ \A s \in Session : s # None
BY CryptoHandshakeAssumption

\* More computed keys and more connections invalidate nothing.
LEMMA PacketOKMonotone ==
    ASSUME NEW K, NEW L, K \subseteq L, NEW m, PacketOK(m, K)
    PROVE  PacketOK(m, L)
BY DEF PacketOK

LEMMA ConnOKMonotone ==
    ASSUME NEW K, NEW L, K \subseteq L, NEW p \in Peer, NEW i \in Nat,
           NEW k \in Nat, NEW n \in Nat, k <= n, NEW c, ConnOK(p, i, k, c, K)
    PROVE  ConnOK(p, i, n, c, L)
<1>1. c.session[3] \in Nat
  BY DEF ConnOK, Connection, Session
<1>2. c.session[3] < n
  BY <1>1 DEF ConnOK
<1>3. ExchangedOK(p, c, K) => ExchangedOK(p, c, L)
  BY DEF ExchangedOK
<1> QED BY <1>2, <1>3, Zenon DEF ConnOK

\* A step of p that keeps p's part of the invariant and sends good packets keeps
\* the invariant.
LEMMA StepPreserves ==
    ASSUME IInv, NEW p \in Peer, NEW c, NEW f, NEW S, Step(p, c, f, S),
           NEW n \in Nat, made' = [made EXCEPT ![p] = n], made[p] <= n,
           NEW i \in Nat, inc' = [inc EXCEPT ![p] = i], keyed \subseteq keyed',
           PeerOK(p, i, n, c, f, keyed'),
           \A m \in S : PacketOK(m, keyed'),
           KeepsKeys(conn[p], c)
    PROVE  StepOK
<1>1. /\ inc \in [Peer -> Nat] /\ made \in [Peer -> Nat]
      /\ conn \in [Peer -> Connection \union {None}]
      /\ friend \in [Peer -> FriendConnection]
  BY Zenon DEF IInv
<1>2. /\ conn' = [conn EXCEPT ![p] = c]
      /\ friend' = [friend EXCEPT ![p] = f]
      /\ net' = net \union S
  BY Zenon DEF Step
<1>3. c \in Connection \union {None} /\ f \in FriendConnection
  BY Zenon DEF PeerOK, ConnOK, FriendOK
<1>4. /\ inc' \in [Peer -> Nat] /\ made' \in [Peer -> Nat]
      /\ conn' \in [Peer -> Connection \union {None}]
      /\ friend' \in [Peer -> FriendConnection]
  BY <1>1, <1>2, <1>3
<1>5. \A q \in Peer : PeerOK(q, inc[q], made[q], conn[q], friend[q], keyed)
  BY Zenon DEF IInv
<1>6. ASSUME NEW q \in Peer
      PROVE  PeerOK(q, inc'[q], made'[q], conn'[q], friend'[q], keyed')
  <2>1. CASE q = p
    <3>1. inc'[q] = i /\ made'[q] = n /\ conn'[q] = c /\ friend'[q] = f
      BY <1>1, <1>2, <2>1
    <3> QED BY <2>1, <3>1, Zenon
  <2>2. CASE q # p
    <3>1. /\ inc'[q] = inc[q] /\ made'[q] = made[q]
          /\ conn'[q] = conn[q] /\ friend'[q] = friend[q]
      BY <1>1, <1>2, <2>2
    <3>2. inc[q] \in Nat /\ made[q] \in Nat /\ made[q] <= made[q]
      BY <1>1
    <3>3. conn[q] # None => ConnOK(q, inc[q], made[q], conn[q], keyed)
      BY <1>5, Zenon DEF PeerOK
    <3>4. conn[q] # None => ConnOK(q, inc[q], made[q], conn[q], keyed')
      BY <3>2, <3>3, ConnOKMonotone, Zenon
    <3> QED BY <1>5, <3>1, <3>4, Zenon DEF PeerOK
  <2> QED BY <2>1, <2>2
<1>7. ASSUME NEW m \in net'
      PROVE  PacketOK(m, keyed')
  <2>1. CASE m \in S
    BY <2>1
  <2>2. CASE m \in net
    BY <2>2, PacketOKMonotone, Zenon DEF IInv
  <2> QED BY <1>2, <2>1, <2>2
<1>8. ASSUME NEW q \in Peer
      PROVE  KeepsKeys(conn[q], conn'[q])
  <2>1. CASE q = p
    <3>1. conn'[q] = c
      BY <1>1, <1>2, <2>1
    <3> QED BY <2>1, <3>1, Zenon
  <2>2. CASE q # p
    <3>1. conn'[q] = conn[q]
      BY <1>1, <1>2, <2>2
    <3> QED BY <3>1, Zenon DEF KeepsKeys
  <2> QED BY <2>1, <2>2
<1>9. IInv'
  BY <1>4, <1>6, <1>7, Zenon DEF IInv
<1> QED BY <1>8, <1>9 DEF StepOK

----------------------------------------------------------------------------
\* The connections a handler makes.
LEMMA NewConnection ==
    ASSUME IInv, NEW p \in Peer, NEW d \in DhtKey, d[1] = Other(p), NEW K
    PROVE  LET c == new_crypto_connection(p, d)
           IN  /\ ConnOK(p, inc[p], made[p] + 1, c, K)
               /\ c \in Connection /\ c # None
               /\ c.status = COOKIE_REQUESTING /\ c.dht = d /\ c.session = NewSession(p)
<1> DEFINE c == new_crypto_connection(p, d)
<1>1. inc[p] \in Nat /\ made[p] \in Nat
  BY DEF IInv
<1>2. NewSession(p) \in Session /\ Dht(p) \in DhtKey
  BY <1>1 DEF NewSession, Session, Dht, DhtKey
<1>3. NewSession(p)[1] = p /\ NewSession(p)[2] = inc[p] /\ NewSession(p)[3] = made[p]
  BY DEF NewSession
<1>4. KeyOf(Dht(p), d) \in SUBSET (Session \union DhtKey)
  BY <1>2 DEF KeyOf
<1>5. /\ c.status = COOKIE_REQUESTING /\ c.dht = d /\ c.session = NewSession(p)
      /\ c.key = KeyOf(Dht(p), d)
  BY DEF new_crypto_connection
<1>6. c \in Connection
  BY <1>2, <1>4 DEF new_crypto_connection, Connection
<1>7. made[p] < made[p] + 1
  BY <1>1
<1>8. c.status \notin {NOT_CONFIRMED, ESTABLISHED}
  BY <1>5 DEF COOKIE_REQUESTING, NOT_CONFIRMED, ESTABLISHED
<1>9. c.key = KeyOf(<<p, inc[p]>>, c.dht)
  BY <1>5 DEF Dht
<1>10. c # None
  BY <1>6, NoneDistinct
<1> HIDE DEF c
<1>11. ConnOK(p, inc[p], made[p] + 1, c, K)
  BY <1>3, <1>5, <1>6, <1>7, <1>8, <1>9, Zenon DEF ConnOK
<1> QED BY <1>5, <1>6, <1>10, <1>11 DEF c

LEMMA PeerSessionKnown ==
    ASSUME NEW p \in Peer, NEW i \in Nat, NEW n \in Nat, NEW K, NEW c,
           ConnOK(p, i, n, c, K), NEW s \in Session, OwnerOf(s) = c.dht,
           <<p, KeyOf(c.session, s)>> \in K
    PROVE  LET w == WithPeerSession(c, s)
           IN  /\ ConnOK(p, i, n, w, K)
               /\ w # None
               /\ w.status = NOT_CONFIRMED /\ w.dht = c.dht /\ w.session = c.session
               /\ w.key = KeyOf(c.session, s)
<1> DEFINE w == WithPeerSession(c, s)
<1>1. c \in Connection
  BY Zenon DEF ConnOK
<1>2. KeyOf(c.session, s) \in SUBSET (Session \union DhtKey)
  BY <1>1 DEF KeyOf, Connection
<1>3. w \in Connection
  BY <1>1, <1>2, Zenon DEF WithPeerSession, Connection
<1>4. /\ w.status = NOT_CONFIRMED /\ w.dht = c.dht /\ w.session = c.session
      /\ w.peer_session = s /\ w.recv_nonce = s /\ w.key = KeyOf(c.session, s)
  BY <1>1 DEF WithPeerSession, Connection
<1>5. w.status # COOKIE_REQUESTING /\ w.status # ESTABLISHED
  BY <1>4 DEF COOKIE_REQUESTING, NOT_CONFIRMED, ESTABLISHED
<1>6. w # None
  BY <1>3, NoneDistinct
<1> HIDE DEF w
<1>7. ExchangedOK(p, w, K)
  BY <1>4, <1>5, Zenon DEF ExchangedOK
<1>8. ConnOK(p, i, n, w, K)
  BY <1>3, <1>4, <1>5, <1>7, Zenon DEF ConnOK
<1> QED BY <1>4, <1>6, <1>8 DEF w

LEMMA ConfirmedOK ==
    ASSUME NEW p \in Peer, NEW i \in Nat, NEW n \in Nat, NEW K, NEW c,
           ConnOK(p, i, n, c, K), c.status = NOT_CONFIRMED, <<Other(p), c.key>> \in K
    PROVE  LET w == [c EXCEPT !.status = ESTABLISHED]
           IN  ConnOK(p, i, n, w, K) /\ w # None /\ w.status = ESTABLISHED /\ w.dht = c.dht
<1> DEFINE w == [c EXCEPT !.status = ESTABLISHED]
<1>1. c \in Connection /\ ExchangedOK(p, c, K)
  BY Zenon DEF ConnOK
<1>2. w \in Connection
  BY <1>1 DEF Connection
<1>3. /\ w.status = ESTABLISHED /\ w.dht = c.dht /\ w.session = c.session
      /\ w.peer_session = c.peer_session /\ w.recv_nonce = c.recv_nonce /\ w.key = c.key
  BY <1>1 DEF Connection
<1>4. w.status # COOKIE_REQUESTING
  BY <1>3 DEF COOKIE_REQUESTING, ESTABLISHED
<1>5. w # None
  BY <1>2, NoneDistinct
<1> HIDE DEF w
<1>6. ExchangedOK(p, w, K)
  BY <1>1, <1>3, Zenon DEF ExchangedOK
<1>7. ConnOK(p, i, n, w, K)
  BY <1>2, <1>3, <1>4, <1>6, Zenon DEF ConnOK
<1> QED BY <1>3, <1>5, <1>7 DEF w

LEMMA SentOK ==
    ASSUME NEW p \in Peer, NEW i \in Nat, NEW n \in Nat, NEW K, NEW c,
           ConnOK(p, i, n, c, K), c.status = COOKIE_REQUESTING
    PROVE  LET w == [c EXCEPT !.status = HANDSHAKE_SENT]
           IN  /\ ConnOK(p, i, n, w, K) /\ w # None
               /\ w.status = HANDSHAKE_SENT /\ w.dht = c.dht
<1> DEFINE w == [c EXCEPT !.status = HANDSHAKE_SENT]
<1>1. c \in Connection
  BY Zenon DEF ConnOK
<1>2. w \in Connection
  BY <1>1 DEF Connection
<1>3. w.status = HANDSHAKE_SENT /\ w.dht = c.dht /\ w.session = c.session
  BY <1>1 DEF Connection
<1>4. w.status \notin {COOKIE_REQUESTING, NOT_CONFIRMED, ESTABLISHED}
  BY <1>3 DEF COOKIE_REQUESTING, HANDSHAKE_SENT, NOT_CONFIRMED, ESTABLISHED
<1>5. w # None
  BY <1>2, NoneDistinct
<1> HIDE DEF w
<1>6. ConnOK(p, i, n, w, K)
  BY <1>2, <1>3, <1>4, Zenon DEF ConnOK
<1> QED BY <1>3, <1>5, <1>6 DEF w

----------------------------------------------------------------------------
\* What the invariant says of one peer.
LEMMA OfPeer ==
    ASSUME IInv, NEW p \in Peer
    PROVE  /\ inc[p] \in Nat /\ made[p] \in Nat /\ Dht(p) \in DhtKey
           /\ inc = [inc EXCEPT ![p] = inc[p]]
           /\ made = [made EXCEPT ![p] = made[p]]
           /\ FriendOK(p, conn[p], friend[p]) /\ friend[p] \in FriendConnection
           /\ conn[p] # None => ConnOK(p, inc[p], made[p], conn[p], keyed)
<1>1. inc \in [Peer -> Nat] /\ made \in [Peer -> Nat]
  BY Zenon DEF IInv
<1>2. PeerOK(p, inc[p], made[p], conn[p], friend[p], keyed)
  BY Zenon DEF IInv
<1>3. FriendOK(p, conn[p], friend[p]) /\ friend[p] \in FriendConnection
  BY <1>2, Zenon DEF PeerOK, FriendOK
<1>4. conn[p] # None => ConnOK(p, inc[p], made[p], conn[p], keyed)
  BY <1>2, Zenon DEF PeerOK
<1>5. /\ inc[p] \in Nat /\ made[p] \in Nat
      /\ inc = [inc EXCEPT ![p] = inc[p]] /\ made = [made EXCEPT ![p] = made[p]]
  BY <1>1
<1>6. Dht(p) \in DhtKey
  BY <1>5 DEF Dht, DhtKey
<1> QED BY <1>3, <1>4, <1>5, <1>6

LEMMA OwnSession ==
    ASSUME NEW p \in Peer, NEW i \in Nat, NEW n \in Nat, NEW K, NEW c, ConnOK(p, i, n, c, K)
    PROVE  /\ c.session \in Session /\ OwnerOf(c.session) = <<p, i>>
           /\ c.dht \in DhtKey /\ c.dht[1] = Other(p)
<1>1. c \in Connection /\ c.session[1] = p /\ c.session[2] = i /\ c.dht[1] = Other(p)
  BY Zenon DEF ConnOK
<1>2. c.session \in Session /\ c.dht \in DhtKey
  BY <1>1 DEF Connection
<1> QED BY <1>1, <1>2 DEF OwnerOf

\* The packets a handler sends.
LEMMA DataOK ==
    ASSUME NEW p \in Peer, NEW i, NEW n, NEW K, NEW c, ConnOK(p, i, n, c, K),
           c.status \in {NOT_CONFIRMED, ESTABLISHED}, NEW kill
    PROVE  PacketOK(Data(p, c, kill), K)
<1>1. <<p, c.key>> \in K
  BY Zenon DEF ConnOK, ExchangedOK
<1>2. Other(p) \in Peer /\ Other(Other(p)) = p
  BY OtherPeer, Zenon
<1>3. /\ Data(p, c, kill).kind = "data" /\ Data(p, c, kill).to = Other(p)
      /\ Data(p, c, kill).key = c.key
  BY DEF Data
<1> HIDE DEF Data
<1> QED BY <1>1, <1>2, <1>3 DEF PacketOK

LEMMA KillPacketsOK ==
    ASSUME IInv, NEW p \in Peer, NEW m \in KillPackets(p)
    PROVE  PacketOK(m, keyed)
<1>1. conn[p] # None /\ conn[p].status = ESTABLISHED /\ m = Data(p, conn[p], TRUE)
  BY Zenon DEF KillPackets
<1>2. ConnOK(p, inc[p], made[p], conn[p], keyed)
  BY <1>1, OfPeer, Zenon
<1> QED BY <1>1, <1>2, DataOK, Zenon

LEMMA CookieRequestOK ==
    ASSUME NEW p \in Peer, NEW s \in Session, OwnerOf(s) = Dht(p),
           NEW d \in DhtKey, d[1] = Other(p), NEW K
    PROVE  PacketOK(CookieRequest(p, d, s), K)
<1> DEFINE m == CookieRequest(p, d, s)
<1>1. m.kind = "cookie_request" /\ m.number = s /\ m.from = Dht(p) /\ m.to = d
  BY DEF CookieRequest
<1>2. Dht(p)[1] = p
  BY DEF Dht
<1> HIDE DEF m
<1>3. PacketOK(m, K)
  BY <1>1, <1>2 DEF PacketOK
<1> QED BY <1>3 DEF m

\* cookie was made for p's incarnation by d, to which the answer goes.
LEMMA HandshakeOK ==
    ASSUME NEW p \in Peer, NEW s \in Session, OwnerOf(s) = Dht(p), NEW cookie,
           cookie.dht = Dht(p), NEW d \in DhtKey, cookie.maker = d, NEW K
    PROVE  PacketOK(Handshake(p, cookie, s, d), K)
<1> DEFINE m == Handshake(p, cookie, s, d)
<1>1. /\ m.kind = "handshake" /\ m.to = Other(p) /\ m.cookie = cookie /\ m.session = s
      /\ m.answer.maker = Dht(p) /\ m.answer.dht = d
  BY DEF Handshake, create_cookie
<1>2. s[1] = p
  BY DEF OwnerOf, Dht
<1>3. Other(p) \in Peer /\ Other(Other(p)) = p
  BY OtherPeer, Zenon
<1> HIDE DEF m
<1>4. PacketOK(m, K)
  BY <1>1, <1>2, <1>3 DEF PacketOK
<1> QED BY <1>4 DEF m

----------------------------------------------------------------------------
\* Steps that create no connection, and steps that do.
LEMMA PlainStep ==
    ASSUME IInv, NEW p \in Peer, NEW c, NEW f, NEW S, Step(p, c, f, S),
           UNCHANGED <<inc, made>>, keyed \subseteq keyed',
           FriendOK(p, c, f), c # None => ConnOK(p, inc[p], made[p], c, keyed'),
           \A m \in S : PacketOK(m, keyed'), KeepsKeys(conn[p], c)
    PROVE  StepOK
<1>1. /\ inc[p] \in Nat /\ made[p] \in Nat /\ made[p] <= made[p]
      /\ inc' = [inc EXCEPT ![p] = inc[p]] /\ made' = [made EXCEPT ![p] = made[p]]
  BY OfPeer
<1>2. PeerOK(p, inc[p], made[p], c, f, keyed')
  BY Zenon DEF PeerOK
<1> QED BY <1>1, <1>2, StepPreserves, Zenon

LEMMA CreatingStep ==
    ASSUME IInv, NEW p \in Peer, NEW c, NEW f, NEW S, Step(p, c, f, S),
           Creates(p), UNCHANGED inc, keyed \subseteq keyed',
           FriendOK(p, c, f), ConnOK(p, inc[p], made[p] + 1, c, keyed'),
           c.session = NewSession(p), \A m \in S : PacketOK(m, keyed')
    PROVE  StepOK
<1>1. /\ inc[p] \in Nat /\ made[p] \in Nat /\ made[p] + 1 \in Nat /\ made[p] <= made[p] + 1
      /\ inc' = [inc EXCEPT ![p] = inc[p]] /\ made' = [made EXCEPT ![p] = made[p] + 1]
  BY OfPeer DEF Creates
<1>2. PeerOK(p, inc[p], made[p] + 1, c, f, keyed')
  BY Zenon DEF PeerOK
<1>3. ASSUME conn[p] # None
      PROVE  conn[p].session # c.session
  <2>1. ConnOK(p, inc[p], made[p], conn[p], keyed)
    BY <1>3, OfPeer, Zenon
  <2>2. conn[p].session[3] \in Nat /\ conn[p].session[3] < made[p]
    BY <2>1 DEF ConnOK, Connection, Session
  <2>3. c.session[3] = made[p]
    BY DEF NewSession
  <2> QED BY <1>1, <2>2, <2>3
<1>4. KeepsKeys(conn[p], c)
  BY <1>3, Zenon DEF KeepsKeys
<1> QED BY <1>1, <1>2, <1>4, StepPreserves, Zenon

\* The fields of a friend connection that went offline.
LEMMA OfflineFields ==
    ASSUME NEW f \in FriendConnection
    PROVE  /\ WentOffline(f) \in FriendConnection
           /\ WentOffline(f).status = CONNECTING /\ WentOffline(f).crypt = FALSE
           /\ WentOffline(f).dht_temp_pk = f.dht_temp_pk
BY Zenon DEF FriendConnection, WentOffline

LEMMA StatusesDiffer ==
    CONNECTING # CONNECTED /\ CONNECTING # STATUS_NONE /\ CONNECTED # STATUS_NONE
BY DEF CONNECTING, CONNECTED, STATUS_NONE

LEMMA OfflineOK ==
    ASSUME NEW p \in Peer, NEW c, NEW f \in FriendConnection, FriendOK(p, c, f)
    PROVE  FriendOK(p, None, WentOffline(f))
<1>1. f.dht_temp_pk # None => f.dht_temp_pk[1] = Other(p)
  BY Zenon DEF FriendOK
<1> QED BY <1>1, OfflineFields, StatusesDiffer, Zenon DEF FriendOK

\* A friend connection that holds a connection which is not established.
LEMMA HoldsOK ==
    ASSUME NEW p \in Peer, NEW c, c # None, c.status # ESTABLISHED, c.dht[1] = Other(p),
           NEW f \in FriendConnection, f.status = CONNECTING, f.crypt = TRUE,
           f.dht_temp_pk = c.dht
    PROVE  FriendOK(p, c, f)
BY StatusesDiffer, Zenon DEF FriendOK

LEMMA GoesOffline ==
    ASSUME IInv, NEW p \in Peer, NEW S, Step(p, None, WentOffline(friend[p]), S),
           S \subseteq KillPackets(p), UNCHANGED <<inc, made, keyed>>
    PROVE  StepOK
<1>1. \A m \in S : PacketOK(m, keyed')
  BY KillPacketsOK, Zenon
<1>2. FriendOK(p, None, WentOffline(friend[p]))
  BY OfPeer, OfflineOK, Zenon
<1>3. KeepsKeys(conn[p], None)
  BY Zenon DEF KeepsKeys
<1> QED BY <1>1, <1>2, <1>3, PlainStep, Zenon

\* A friend connection without a crypto connection opens one.
LEMMA Opens ==
    ASSUME IInv, NEW p \in Peer, NEW f \in FriendConnection, f.status = CONNECTING,
           NEW d \in DhtKey, d[1] = Other(p), f.dht_temp_pk = d,
           NEW S, \A m \in S : PacketOK(m, keyed),
           OpenConnection(p, f, d, S), UNCHANGED <<inc, keyed>>
    PROVE  StepOK
<1> DEFINE c == new_crypto_connection(p, d)
           g == [f EXCEPT !.crypt = TRUE]
           T == S \union {CookieRequest(p, d, NewSession(p))}
<1>1. Step(p, c, g, T) /\ Creates(p)
  BY Zenon DEF OpenConnection
<1>2. /\ ConnOK(p, inc[p], made[p] + 1, c, keyed) /\ c # None
      /\ c.status = COOKIE_REQUESTING /\ c.dht = d /\ c.session = NewSession(p)
      /\ c \in Connection
  BY NewConnection, Zenon
<1>3. c.status # ESTABLISHED
  BY <1>2 DEF COOKIE_REQUESTING, ESTABLISHED
<1>4. /\ g \in FriendConnection /\ g.status = CONNECTING /\ g.crypt = TRUE
      /\ g.dht_temp_pk = d
  BY Zenon DEF FriendConnection
<1>5. NewSession(p) \in Session /\ OwnerOf(NewSession(p)) = Dht(p)
  <2>1. inc[p] \in Nat /\ made[p] \in Nat
    BY OfPeer, Zenon
  <2> QED BY <2>1 DEF NewSession, Session, OwnerOf, Dht
<1>6. PacketOK(CookieRequest(p, d, NewSession(p)), keyed)
  BY <1>5, CookieRequestOK, Zenon
<1>7. \A m \in T : PacketOK(m, keyed)
  BY <1>6, Zenon
<1> HIDE DEF c, g, T
<1>8. FriendOK(p, c, g)
  BY <1>2, <1>3, <1>4, HoldsOK, Zenon
<1>9. UNCHANGED inc /\ keyed' = keyed /\ keyed \subseteq keyed'
  BY Zenon
<1> QED BY <1>1, <1>2, <1>7, <1>8, <1>9, CreatingStep, Zenon

----------------------------------------------------------------------------
\* The actions.
LEMMA CallbackOK ==
    ASSUME IInv, NEW p \in Peer, friend[p].status # STATUS_NONE,
           NEW d \in DhtKey, d[1] = Other(p), friend[p].dht_temp_pk # d,
           NEW c, dht_pk_callback(p, c, d)
    PROVE  StepOK
<1> DEFINE h == IF friend[p].crypt THEN WentOffline(friend[p]) ELSE friend[p]
           f == [h EXCEPT !.dht_temp_pk = d]
           S == IF friend[p].crypt THEN KillPackets(p) ELSE {}
<1>1. OpenConnection(p, f, d, S) /\ UNCHANGED <<inc, keyed>>
  BY Zenon DEF dht_pk_callback
<1>2. friend[p] \in FriendConnection /\ FriendOK(p, conn[p], friend[p])
  BY OfPeer, Zenon
<1>3. h \in FriendConnection /\ h.status = CONNECTING
  <2>1. CASE friend[p].crypt
    BY <1>2, <2>1, OfflineFields, Zenon
  <2>2. CASE ~friend[p].crypt
    <3>1. friend[p].status # CONNECTED
      BY <1>2, <2>2, Zenon DEF FriendOK
    <3>2. friend[p].status = CONNECTING
      BY <1>2, <3>1 DEF FriendConnection
    <3> QED BY <1>2, <2>2, <3>2, Zenon
  <2> QED BY <2>1, <2>2, Zenon
<1> HIDE DEF h
<1>4. f \in FriendConnection /\ f.status = CONNECTING /\ f.dht_temp_pk = d
  BY <1>3 DEF FriendConnection
<1>5. \A m \in S : PacketOK(m, keyed)
  BY KillPacketsOK, Zenon
<1> HIDE DEF f, S
<1> QED BY <1>1, <1>4, <1>5, Opens, Zenon

LEMMA LearnDhtKeyOK ==
    ASSUME IInv, NEW p \in Peer, NEW d \in FriendKeys(p), LearnDhtKey(p, d)
    PROVE  StepOK
<1>1. friend[p].status # STATUS_NONE /\ dht_pk_callback(p, conn[p], d)
  BY Zenon DEF LearnDhtKey
<1>2. d \in DhtKey /\ d[1] = Other(p)
  <2>1. PICK i \in 0 .. inc[Other(p)] : d = <<Other(p), i>>
    BY DEF FriendKeys
  <2>2. i \in Nat /\ Other(p) \in Peer
    BY OtherPeer
  <2> QED BY <2>1, <2>2 DEF DhtKey
<1>3. CASE friend[p].dht_temp_pk # d
  BY <1>1, <1>2, <1>3, CallbackOK, Zenon
<1>4. CASE friend[p].dht_temp_pk = d
  <2>1. Step(p, conn[p], friend[p], {}) /\ UNCHANGED <<inc, made, keyed>>
    BY <1>1, <1>4 DEF dht_pk_callback
  <2>2. KeepsKeys(conn[p], conn[p])
    BY Zenon DEF KeepsKeys
  <2>3. \A m \in {} : PacketOK(m, keyed')
    BY Zenon
  <2>4. keyed' = keyed /\ UNCHANGED <<inc, made>> /\ keyed \subseteq keyed'
    BY <2>1
  <2> QED BY <2>1, <2>2, <2>3, <2>4, OfPeer, PlainStep
<1> QED BY <1>3, <1>4

LEMMA ForgetDhtKeyOK ==
    ASSUME IInv, NEW p \in Peer, ForgetDhtKey(p)
    PROVE  StepOK
<1> DEFINE f == [friend[p] EXCEPT !.dht_temp_pk = None]
<1>1. /\ Step(p, conn[p], f, {}) /\ UNCHANGED <<inc, made>> /\ keyed' = keyed
      /\ friend[p].status = CONNECTING
  BY DEF ForgetDhtKey
<1>2. friend[p] \in FriendConnection /\ FriendOK(p, conn[p], friend[p])
  BY OfPeer, Zenon
<1>3. /\ f \in FriendConnection /\ f.status = friend[p].status
      /\ f.crypt = friend[p].crypt /\ f.dht_temp_pk = None
  BY <1>2 DEF FriendConnection
<1> HIDE DEF f
<1>4. FriendOK(p, conn[p], f)
  BY <1>1, <1>2, <1>3, StatusesDiffer, Zenon DEF FriendOK
<1>5. KeepsKeys(conn[p], conn[p]) /\ \A m \in {} : PacketOK(m, keyed')
  BY Zenon DEF KeepsKeys
<1>6. keyed \subseteq keyed'
  BY <1>1
<1> QED BY <1>1, <1>4, <1>5, <1>6, OfPeer, PlainStep

LEMMA ReconnectOK ==
    ASSUME IInv, NEW p \in Peer, Reconnect(p)
    PROVE  StepOK
<1> DEFINE d == friend[p].dht_temp_pk
<1>1. /\ friend[p].status = CONNECTING /\ d # None
      /\ OpenConnection(p, friend[p], d, {}) /\ UNCHANGED <<inc, keyed>>
  BY Zenon DEF Reconnect
<1>2. friend[p] \in FriendConnection /\ FriendOK(p, conn[p], friend[p])
  BY OfPeer, Zenon
<1>3. d \in DhtKey
  BY <1>1, <1>2 DEF FriendConnection
<1>4. d[1] = Other(p)
  BY <1>1, <1>2, Zenon DEF FriendOK
<1>5. \A m \in {} : PacketOK(m, keyed)
  BY Zenon
<1> HIDE DEF d
<1>6. friend[p].dht_temp_pk = d
  BY DEF d
<1> QED BY <1>1, <1>2, <1>3, <1>4, <1>5, <1>6, Opens

LEMMA HandleCookieRequestOK ==
    ASSUME IInv, NEW p \in Peer, NEW m \in net, HandleCookieRequest(p, m)
    PROVE  StepOK
<1> DEFINE r == CookieResponse(p, m)
<1>1. /\ m.kind = "cookie_request" /\ m.to = Dht(p) /\ net' = net \union {r}
      /\ UNCHANGED <<inc, made, conn, friend, keyed>>
  BY Zenon DEF HandleCookieRequest
<1>2. m.number \in Session /\ m.from = OwnerOf(m.number) /\ m.to[1] = Other(m.from[1])
  BY <1>1, Zenon DEF IInv, PacketOK
<1>3. /\ r.kind = "cookie_response" /\ r.number = m.number /\ r.key = KeyOf(m.from, m.to)
      /\ r.cookie.dht = m.from /\ r.cookie.maker = Dht(p)
  BY DEF CookieResponse, create_cookie
<1> HIDE DEF r
<1>4. Dht(p) \in DhtKey
  BY OfPeer, Zenon
<1>5. PacketOK(r, keyed)
  BY <1>1, <1>2, <1>3, <1>4 DEF PacketOK
<1>6. \A n \in net' : PacketOK(n, keyed)
  BY <1>1, <1>5, Zenon DEF IInv
<1>7. IInv'
  BY <1>1, <1>6, Zenon DEF IInv
<1>8. \A q \in Peer : KeepsKeys(conn[q], conn'[q])
  BY <1>1, Zenon DEF KeepsKeys
<1> QED BY <1>7, <1>8 DEF StepOK

LEMMA HandleCookieResponseOK ==
    ASSUME IInv, NEW p \in Peer, NEW m \in net, HandleCookieResponse(p, m)
    PROVE  StepOK
<1> DEFINE c == conn[p]
           w == [c EXCEPT !.status = HANDSHAKE_SENT]
           h == Handshake(p, m.cookie, c.session, c.dht)
<1>1. /\ m.kind = "cookie_response" /\ c # None /\ c.status = COOKIE_REQUESTING
      /\ m.key = c.key /\ m.number = c.session
      /\ Step(p, w, friend[p], {h}) /\ UNCHANGED <<inc, made, keyed>>
  BY Zenon DEF HandleCookieResponse
<1>2. /\ inc[p] \in Nat /\ made[p] \in Nat /\ ConnOK(p, inc[p], made[p], c, keyed)
      /\ FriendOK(p, c, friend[p])
  BY <1>1, OfPeer, Zenon
<1>3. /\ ConnOK(p, inc[p], made[p], w, keyed) /\ w # None
      /\ w.status = HANDSHAKE_SENT /\ w.dht = c.dht
  BY <1>1, <1>2, SentOK
<1>4. c.status # ESTABLISHED /\ w.status # ESTABLISHED
  BY <1>1, <1>3 DEF COOKIE_REQUESTING, HANDSHAKE_SENT, ESTABLISHED
<1>5. /\ m.cookie.dht = OwnerOf(m.number) /\ m.cookie.maker \in DhtKey
      /\ m.cookie.maker[1] = Other(m.cookie.dht[1])
      /\ m.key = KeyOf(m.cookie.dht, m.cookie.maker)
  BY <1>1, Zenon DEF IInv, PacketOK
<1>6. /\ c.session \in Session /\ OwnerOf(c.session) = <<p, inc[p]>>
      /\ c.dht \in DhtKey /\ c.dht[1] = Other(p)
  BY <1>2, OwnSession
<1>7. m.cookie.dht = Dht(p)
  BY <1>1, <1>5, <1>6, Zenon DEF Dht
<1>8. KeyOf(Dht(p), m.cookie.maker) = KeyOf(Dht(p), c.dht)
  BY <1>1, <1>2, <1>5, <1>7, Zenon DEF ConnOK, Dht
<1>9. m.cookie.maker = c.dht
  <2>1. Dht(p)[1] = p /\ Other(p) # p
    BY OtherPeer DEF Dht
  <2>2. m.cookie.maker # Dht(p) /\ c.dht # Dht(p)
    BY <1>5, <1>6, <1>7, <2>1
  <2> QED BY <1>8, <2>2 DEF KeyOf
<1> HIDE DEF c, w, h
<1>10. PacketOK(h, keyed)
  BY <1>6, <1>7, <1>9, HandshakeOK, Zenon DEF h, Dht
<1>11. FriendOK(p, w, friend[p])
  BY <1>1, <1>2, <1>3, <1>4, Zenon DEF FriendOK
<1>12. KeepsKeys(conn[p], w)
  BY <1>4, Zenon DEF KeepsKeys, c
<1>13. keyed' = keyed /\ UNCHANGED <<inc, made>> /\ keyed \subseteq keyed'
  BY <1>1
<1>14. \A n \in {h} : PacketOK(n, keyed')
  BY <1>10, <1>13, Zenon
<1> QED BY <1>1, <1>3, <1>11, <1>12, <1>13, <1>14, PlainStep

\* What a valid handshake says.
LEMMA HandshakeFacts ==
    ASSUME IInv, NEW p \in Peer, NEW m \in net, ValidHandshake(p, m)
    PROVE  /\ m.session \in Session /\ m.cookie.dht = OwnerOf(m.session)
           /\ m.cookie.dht \in DhtKey /\ m.cookie.dht[1] = Other(p)
           /\ m.answer.dht = Dht(p) /\ m.answer.maker = m.cookie.dht
<1>1. m.kind = "handshake" /\ m.to = p /\ m.cookie.maker = Dht(p)
  BY DEF ValidHandshake, open_cookie
<1>2. /\ m.session \in Session /\ m.session[1] = Other(m.to)
      /\ m.cookie.dht = OwnerOf(m.session)
      /\ m.answer.dht = m.cookie.maker /\ m.answer.maker = m.cookie.dht
  BY <1>1, Zenon DEF IInv, PacketOK
<1>3. m.cookie.dht \in DhtKey /\ m.cookie.dht[1] = Other(p)
  BY <1>1, <1>2 DEF OwnerOf, Session, DhtKey
<1> QED BY <1>1, <1>2, <1>3

\* p's connection, which is not established, takes part in the handshake m.
LEMMA TakesHandshake ==
    ASSUME IInv, NEW p \in Peer, NEW m \in net, ValidHandshake(p, m),
           conn[p] # None, conn[p].status # ESTABLISHED, m.cookie.dht = conn[p].dht,
           NEW S, S \subseteq {Handshake(p, m.answer, conn[p].session, conn[p].dht)},
           Step(p, WithPeerSession(conn[p], m.session), friend[p], S),
           Computes(p, KeyOf(conn[p].session, m.session)), UNCHANGED <<inc, made>>
    PROVE  StepOK
<1> DEFINE c == conn[p]
           w == WithPeerSession(c, m.session)
           h == Handshake(p, m.answer, c.session, c.dht)
<1>1. /\ inc[p] \in Nat /\ made[p] \in Nat /\ ConnOK(p, inc[p], made[p], c, keyed)
      /\ FriendOK(p, c, friend[p])
  BY OfPeer, Zenon
<1>2. /\ c.session \in Session /\ OwnerOf(c.session) = Dht(p)
      /\ c.dht \in DhtKey /\ c.dht[1] = Other(p)
  BY <1>1, OwnSession DEF Dht
<1>3. keyed \subseteq keyed' /\ <<p, KeyOf(c.session, m.session)>> \in keyed'
  BY DEF Computes
<1>4. /\ m.session \in Session /\ OwnerOf(m.session) = c.dht
      /\ m.answer.dht = Dht(p) /\ m.answer.maker = c.dht
  BY HandshakeFacts, Zenon
<1> HIDE DEF c, h
<1>5. /\ ConnOK(p, inc[p], made[p], w, keyed') /\ w # None
      /\ w.status = NOT_CONFIRMED /\ w.dht = c.dht
  <2>1. ConnOK(p, inc[p], made[p], c, keyed')
    BY <1>1, <1>3, ConnOKMonotone
  <2> QED BY <1>1, <1>3, <1>4, <2>1, PeerSessionKnown
<1>6. PacketOK(h, keyed')
  BY <1>2, <1>4, HandshakeOK, Zenon DEF h
<1>7. \A n \in S : PacketOK(n, keyed')
  BY <1>6, Zenon DEF h, c
<1>8. w.status # ESTABLISHED /\ c.status # ESTABLISHED /\ c # None
  BY <1>5 DEF NOT_CONFIRMED, ESTABLISHED, c
<1> HIDE DEF w
<1>9. FriendOK(p, w, friend[p])
  BY <1>1, <1>5, <1>8, Zenon DEF FriendOK
<1>10. KeepsKeys(conn[p], w)
  BY <1>8, Zenon DEF KeepsKeys, c
<1>11. Step(p, w, friend[p], S)
  BY Zenon DEF w, c
<1> QED BY <1>3, <1>5, <1>7, <1>9, <1>10, <1>11, PlainStep

LEMMA HandleHandshakeOK ==
    ASSUME IInv, NEW p \in Peer, NEW m \in net, HandleHandshake(p, m)
    PROVE  StepOK
<1> DEFINE c == conn[p]
           w == WithPeerSession(c, m.session)
           S == IF c.status = COOKIE_REQUESTING
                THEN {Handshake(p, m.answer, w.session, w.dht)} ELSE {}
<1>1. /\ c # None /\ c.status \in {COOKIE_REQUESTING, HANDSHAKE_SENT, NOT_CONFIRMED}
      /\ ValidHandshake(p, m) /\ m.cookie.dht = c.dht
      /\ Step(p, w, friend[p], S) /\ Computes(p, w.key) /\ UNCHANGED <<inc, made>>
  BY Zenon DEF HandleHandshake
<1>2. c.status # ESTABLISHED
  BY <1>1 DEF COOKIE_REQUESTING, HANDSHAKE_SENT, NOT_CONFIRMED, ESTABLISHED
<1>3. c \in Connection
  BY <1>1, OfPeer, Zenon DEF ConnOK
<1> HIDE DEF c
<1>4. w.session = c.session /\ w.dht = c.dht /\ w.key = KeyOf(c.session, m.session)
  BY <1>3 DEF WithPeerSession, Connection
<1> HIDE DEF w
<1>5. S \subseteq {Handshake(p, m.answer, c.session, c.dht)}
  BY <1>4, Zenon
<1> HIDE DEF S
<1> QED BY <1>1, <1>2, <1>4, <1>5, TakesHandshake, Zenon DEF c, w

LEMMA HandleHandshakeNewKeyOK ==
    ASSUME IInv, NEW p \in Peer, NEW m \in net, HandleHandshakeNewKey(p, m)
    PROVE  StepOK
<1>1. /\ conn[p] # None /\ ValidHandshake(p, m) /\ m.cookie.dht # conn[p].dht
  BY Zenon DEF HandleHandshakeNewKey
<1>2. PICK c : dht_pk_callback(p, c, m.cookie.dht)
  BY Zenon DEF HandleHandshakeNewKey
<1>3. m.cookie.dht \in DhtKey /\ m.cookie.dht[1] = Other(p)
  BY <1>1, HandshakeFacts, Zenon
<1>4. FriendOK(p, conn[p], friend[p])
  BY OfPeer, Zenon
<1>5. m.cookie.dht # None
  BY <1>3, NoneDistinct, Zenon
<1>6. friend[p].dht_temp_pk # m.cookie.dht
  BY <1>1, <1>4, <1>5, Zenon DEF FriendOK
<1>7. friend[p].status # STATUS_NONE
  <2>1. friend[p].crypt
    BY <1>1, <1>4, Zenon DEF FriendOK
  <2>2. [NewFriend EXCEPT !.status = STATUS_NONE].crypt = FALSE
    BY DEF NewFriend
  <2>3. friend[p] # [NewFriend EXCEPT !.status = STATUS_NONE]
    BY <2>1, <2>2, Zenon
  <2> QED BY <1>4, <2>3, Zenon DEF FriendOK
<1> QED BY <1>2, <1>3, <1>6, <1>7, CallbackOK, Zenon

LEMMA AcceptOK ==
    ASSUME IInv, NEW p \in Peer, NEW m \in net, ValidHandshake(p, m),
           NEW f \in FriendConnection, f.status = CONNECTING,
           NEW S, \A n \in S : PacketOK(n, keyed), Accept(p, m, f, S)
    PROVE  StepOK
<1> DEFINE d == m.cookie.dht
           b == new_crypto_connection(p, d)
           w == WithPeerSession(b, m.session)
           g == [f EXCEPT !.crypt = TRUE, !.dht_temp_pk = d]
           h == Handshake(p, m.answer, w.session, d)
           T == S \union {h}
<1>1. Step(p, w, g, T) /\ Creates(p) /\ Computes(p, w.key) /\ UNCHANGED inc
  BY Zenon DEF Accept
<1>2. /\ m.session \in Session /\ d = OwnerOf(m.session) /\ d \in DhtKey
      /\ d[1] = Other(p) /\ m.answer.dht = Dht(p) /\ m.answer.maker = d
  BY HandshakeFacts, Zenon
<1> HIDE DEF d
<1>3. /\ ConnOK(p, inc[p], made[p] + 1, b, keyed) /\ b \in Connection
      /\ b.dht = d /\ b.session = NewSession(p)
  BY <1>2, NewConnection, Zenon
<1>4. inc[p] \in Nat /\ made[p] \in Nat /\ made[p] + 1 \in Nat
  BY OfPeer
<1> HIDE DEF b
<1>5. w.key = KeyOf(b.session, m.session)
  BY <1>3 DEF WithPeerSession, Connection
<1>6. keyed \subseteq keyed' /\ <<p, KeyOf(b.session, m.session)>> \in keyed'
  BY <1>1, <1>5, Zenon DEF Computes
<1>7. /\ ConnOK(p, inc[p], made[p] + 1, w, keyed') /\ w # None
      /\ w.status = NOT_CONFIRMED /\ w.dht = d /\ w.session = NewSession(p)
  <2>1. ConnOK(p, inc[p], made[p] + 1, b, keyed')
    BY <1>3, <1>4, <1>6, ConnOKMonotone
  <2> QED BY <1>2, <1>3, <1>4, <1>6, <2>1, PeerSessionKnown
<1>8. w.status # ESTABLISHED
  BY <1>7 DEF NOT_CONFIRMED, ESTABLISHED
<1>9. /\ g \in FriendConnection /\ g.status = CONNECTING /\ g.crypt = TRUE
      /\ g.dht_temp_pk = d
  BY <1>2, Zenon DEF FriendConnection
<1>10. NewSession(p) \in Session /\ OwnerOf(NewSession(p)) = Dht(p)
  BY <1>4 DEF NewSession, Session, OwnerOf, Dht
<1> HIDE DEF w, g
<1>11. PacketOK(h, keyed')
  BY <1>2, <1>7, <1>10, HandshakeOK, Zenon
<1> HIDE DEF h
<1>12. \A n \in T : PacketOK(n, keyed')
  BY <1>6, <1>11, PacketOKMonotone, Zenon
<1> HIDE DEF T
<1>13. FriendOK(p, w, g)
  BY <1>2, <1>7, <1>8, <1>9, HoldsOK, Zenon
<1> QED BY <1>1, <1>6, <1>7, <1>12, <1>13, CreatingStep

LEMMA HandleNewConnectionOK ==
    ASSUME IInv, NEW p \in Peer, NEW m \in net, HandleNewConnection(p, m)
    PROVE  StepOK
<1>1. ValidHandshake(p, m)
  BY Zenon DEF HandleNewConnection
<1>2. friend[p] \in FriendConnection /\ FriendOK(p, conn[p], friend[p])
  BY OfPeer, Zenon
<1>3. CASE /\ conn[p] = None /\ friend[p].status # STATUS_NONE
           /\ Accept(p, m, friend[p], {})
  <2>1. friend[p].status # CONNECTED
    BY <1>2, <1>3, Zenon DEF FriendOK
  <2>2. friend[p].status = CONNECTING
    BY <1>2, <1>3, <2>1 DEF FriendConnection
  <2>3. \A n \in {} : PacketOK(n, keyed)
    BY Zenon
  <2> QED BY <1>1, <1>2, <1>3, <2>2, <2>3, AcceptOK
<1>4. CASE Accept(p, m, WentOffline(friend[p]), KillPackets(p))
  <2>1. \A n \in KillPackets(p) : PacketOK(n, keyed)
    BY KillPacketsOK, Zenon
  <2>2. /\ WentOffline(friend[p]) \in FriendConnection
        /\ WentOffline(friend[p]).status = CONNECTING
    BY <1>2, OfflineFields, Zenon
  <2> QED BY <1>1, <1>4, <2>1, <2>2, AcceptOK, Zenon
<1>5. CASE /\ conn[p] # None /\ m.cookie.dht = conn[p].dht
           /\ conn[p].status \in {COOKIE_REQUESTING, HANDSHAKE_SENT}
           /\ Step(p, WithPeerSession(conn[p], m.session), friend[p],
                   {Handshake(p, m.answer, conn[p].session, m.cookie.dht)})
           /\ Computes(p, KeyOf(conn[p].session, m.session))
           /\ UNCHANGED <<inc, made>>
  <2>1. conn[p].status # ESTABLISHED
    BY <1>5 DEF COOKIE_REQUESTING, HANDSHAKE_SENT, ESTABLISHED
  <2> DEFINE S == {Handshake(p, m.answer, conn[p].session, conn[p].dht)}
  <2>2. S \subseteq {Handshake(p, m.answer, conn[p].session, conn[p].dht)}
    BY Zenon
  <2>3. Step(p, WithPeerSession(conn[p], m.session), friend[p], S)
    BY <1>5, Zenon
  <2> HIDE DEF S
  <2> QED BY <1>1, <1>5, <2>1, <2>2, <2>3, TakesHandshake, Zenon
<1> QED BY <1>3, <1>4, <1>5, Zenon DEF HandleNewConnection

LEMMA SendDataOK ==
    ASSUME IInv, NEW p \in Peer, SendData(p)
    PROVE  StepOK
<1>1. /\ conn[p] # None /\ conn[p].status \in {NOT_CONFIRMED, ESTABLISHED}
      /\ net' = net \union {Data(p, conn[p], FALSE)}
      /\ UNCHANGED <<inc, made, conn, friend, keyed>>
  BY Zenon DEF SendData
<1>2. PacketOK(Data(p, conn[p], FALSE), keyed)
  BY <1>1, OfPeer, DataOK, Zenon
<1>3. \A n \in net' : PacketOK(n, keyed)
  BY <1>1, <1>2, Zenon DEF IInv
<1>4. IInv'
  BY <1>1, <1>3, Zenon DEF IInv
<1>5. \A q \in Peer : KeepsKeys(conn[q], conn'[q])
  BY <1>1, Zenon DEF KeepsKeys
<1> QED BY <1>4, <1>5 DEF StepOK

LEMMA HandleDataOK ==
    ASSUME IInv, NEW p \in Peer, NEW m \in net, HandleData(p, m)
    PROVE  StepOK
<1> DEFINE c == conn[p]
           w == [c EXCEPT !.status = ESTABLISHED]
           f == WentOnline(friend[p])
<1>1. /\ m.kind = "data" /\ m.to = p /\ c # None /\ m.key = c.key
      /\ c.status = NOT_CONFIRMED /\ Step(p, w, f, {}) /\ UNCHANGED <<inc, made, keyed>>
  BY Zenon DEF HandleData, Decrypts
<1>2. /\ inc[p] \in Nat /\ made[p] \in Nat /\ ConnOK(p, inc[p], made[p], c, keyed)
      /\ FriendOK(p, c, friend[p]) /\ friend[p] \in FriendConnection
  BY <1>1, OfPeer, Zenon
<1>3. <<Other(p), c.key>> \in keyed
  BY <1>1, Zenon DEF IInv, PacketOK
<1> HIDE DEF c
<1>4. /\ ConnOK(p, inc[p], made[p], w, keyed) /\ w # None
      /\ w.status = ESTABLISHED /\ w.dht = c.dht
  BY <1>1, <1>2, <1>3, ConfirmedOK
<1>5. /\ f \in FriendConnection /\ f.status = CONNECTED /\ f.crypt = friend[p].crypt
      /\ f.dht_temp_pk = friend[p].dht_temp_pk
  BY <1>2 DEF FriendConnection, WentOnline
<1> HIDE DEF w, f
<1>6. FriendOK(p, w, f)
  BY <1>1, <1>2, <1>4, <1>5, StatusesDiffer, Zenon DEF FriendOK
<1>7. c.status # ESTABLISHED
  BY <1>1 DEF NOT_CONFIRMED, ESTABLISHED
<1>8. KeepsKeys(conn[p], w)
  BY <1>7, Zenon DEF KeepsKeys, c
<1>9. keyed' = keyed /\ UNCHANGED <<inc, made>> /\ keyed \subseteq keyed'
  BY <1>1
<1>10. \A n \in {} : PacketOK(n, keyed')
  BY Zenon
<1> QED BY <1>1, <1>4, <1>6, <1>8, <1>9, <1>10, PlainStep

\* A peer without a connection starts over.
LEMMA NewFriendOK ==
    ASSUME NEW p \in Peer
    PROVE  /\ FriendOK(p, None, NewFriend)
           /\ FriendOK(p, None, [NewFriend EXCEPT !.status = STATUS_NONE])
<1> DEFINE g == [NewFriend EXCEPT !.status = STATUS_NONE]
<1>1. /\ NewFriend \in FriendConnection /\ NewFriend.status = CONNECTING
      /\ NewFriend.crypt = FALSE /\ NewFriend.dht_temp_pk = None
  BY DEF NewFriend, FriendConnection
<1>2. /\ g \in FriendConnection /\ g.status = STATUS_NONE
      /\ g.crypt = FALSE /\ g.dht_temp_pk = None
  BY Zenon DEF NewFriend, FriendConnection
<1>3. FriendOK(p, None, NewFriend)
  BY <1>1, StatusesDiffer, Zenon DEF FriendOK
<1>4. FriendOK(p, None, g)
  <2>1. g = [NewFriend EXCEPT !.status = STATUS_NONE]
    OBVIOUS
  <2> HIDE DEF g
  <2> QED BY <1>2, <2>1, StatusesDiffer, Zenon DEF FriendOK
<1> QED BY <1>3, <1>4

LEMMA RemoveAndAddOK ==
    ASSUME IInv, NEW p \in Peer, RemoveFriend(p) \/ AddFriend(p)
    PROVE  StepOK
<1>1. FriendOK(p, conn[p], friend[p])
  BY OfPeer, Zenon
<1>2. KeepsKeys(conn[p], None)
  BY Zenon DEF KeepsKeys
<1>3. CASE RemoveFriend(p)
  <2> DEFINE S == IF friend[p].crypt THEN KillPackets(p) ELSE {}
             f == [NewFriend EXCEPT !.status = STATUS_NONE]
  <2>1. Step(p, IF friend[p].crypt THEN None ELSE conn[p], f, S)
        /\ UNCHANGED <<inc, made, keyed>>
    BY <1>3, Zenon DEF RemoveFriend
  <2>2. (IF friend[p].crypt THEN None ELSE conn[p]) = None
    BY <1>1, Zenon DEF FriendOK
  <2>3. Step(p, None, f, S)
    BY <2>1, <2>2, Zenon
  <2>4. keyed' = keyed /\ UNCHANGED <<inc, made>> /\ keyed \subseteq keyed'
    BY <2>1
  <2>5. \A n \in S : PacketOK(n, keyed')
    BY <2>4, KillPacketsOK, Zenon
  <2>6. FriendOK(p, None, f)
    BY NewFriendOK, Zenon
  <2> HIDE DEF f, S
  <2> QED BY <1>2, <2>3, <2>4, <2>5, <2>6, PlainStep, Zenon
<1>4. CASE AddFriend(p)
  <2>1. /\ friend[p].status = STATUS_NONE /\ Step(p, conn[p], NewFriend, {})
        /\ UNCHANGED <<inc, made, keyed>>
    BY <1>4, Zenon DEF AddFriend
  <2>2. [NewFriend EXCEPT !.status = STATUS_NONE].crypt = FALSE
    BY DEF NewFriend
  <2>3. conn[p] = None
    BY <1>1, <2>1, <2>2, Zenon DEF FriendOK
  <2>4. Step(p, None, NewFriend, {})
    BY <2>1, <2>3, Zenon
  <2>5. keyed' = keyed /\ UNCHANGED <<inc, made>> /\ keyed \subseteq keyed'
    BY <2>1
  <2>6. (\A n \in {} : PacketOK(n, keyed')) /\ FriendOK(p, None, NewFriend)
    BY NewFriendOK, Zenon
  <2> QED BY <1>2, <2>4, <2>5, <2>6, PlainStep
<1> QED BY <1>3, <1>4

LEMMA RestartOK ==
    ASSUME IInv, NEW p \in Peer, Restart(p)
    PROVE  StepOK
<1> DEFINE f == IF friend[p].status = STATUS_NONE THEN friend[p] ELSE NewFriend
           i == inc[p] + 1
           S == {}
<1>1. /\ inc' = [inc EXCEPT ![p] = i] /\ Step(p, None, f, S)
      /\ UNCHANGED <<made, keyed>>
  BY DEF Restart
<1>2. /\ i \in Nat /\ made[p] \in Nat /\ made[p] <= made[p]
      /\ made' = [made EXCEPT ![p] = made[p]] /\ keyed \subseteq keyed'
  BY <1>1, OfPeer
<1>3. FriendOK(p, conn[p], friend[p])
  BY OfPeer, Zenon
<1>4. FriendOK(p, None, f)
  BY <1>3, NewFriendOK, Zenon DEF FriendOK
<1>5. PeerOK(p, i, made[p], None, f, keyed')
  BY <1>4, Zenon DEF PeerOK
<1>6. KeepsKeys(conn[p], None) /\ \A n \in S : PacketOK(n, keyed')
  BY Zenon DEF KeepsKeys
<1> HIDE DEF f, i, S
<1> QED BY <1>1, <1>2, <1>5, <1>6, StepPreserves, Zenon

LEMMA EndsOK ==
    ASSUME IInv, NEW p \in Peer,
           \/ HandshakeTimeout(p)
           \/ PingTimeout(p)
           \/ \E m \in net : HandleKill(p, m)
    PROVE  StepOK
<1>1. {} \subseteq KillPackets(p) /\ KillPackets(p) \subseteq KillPackets(p)
  BY Zenon
<1>2. CASE HandshakeTimeout(p)
  BY <1>1, <1>2, GoesOffline DEF HandshakeTimeout
<1>3. CASE PingTimeout(p)
  BY <1>1, <1>3, GoesOffline, Zenon DEF PingTimeout
<1>4. CASE \E m \in net : HandleKill(p, m)
  BY <1>1, <1>4, GoesOffline, Zenon DEF HandleKill
<1> QED BY <1>2, <1>3, <1>4

----------------------------------------------------------------------------
LEMMA InitOK == Init => IInv
<1> SUFFICES ASSUME Init
             PROVE  IInv
  OBVIOUS
<1>1. /\ inc \in [Peer -> Nat] /\ made \in [Peer -> Nat]
      /\ conn \in [Peer -> Connection \union {None}] /\ net = {}
      /\ \A p \in Peer : conn[p] = None /\ friend[p] = NewFriend
  BY DEF Init
<1>2. NewFriend \in FriendConnection
  BY DEF NewFriend, FriendConnection
<1>3. friend \in [Peer -> FriendConnection]
  BY <1>2 DEF Init
<1>4. \A p \in Peer : PeerOK(p, inc[p], made[p], conn[p], friend[p], keyed)
  BY <1>1, NewFriendOK, Zenon DEF PeerOK
<1> QED BY <1>1, <1>3, <1>4, Zenon DEF IInv

LEMMA NextOK ==
    ASSUME IInv, [Next]_vars
    PROVE  StepOK
<1>1. CASE UNCHANGED vars
  <2>1. UNCHANGED <<inc, made, conn, friend, net, keyed>>
    BY <1>1 DEF vars
  <2>2. IInv'
    BY <2>1, Zenon DEF IInv
  <2>3. \A q \in Peer : KeepsKeys(conn[q], conn'[q])
    BY <2>1, Zenon DEF KeepsKeys
  <2> QED BY <2>2, <2>3 DEF StepOK
<1>2. ASSUME NEW p \in Peer, NEW d \in FriendKeys(p), LearnDhtKey(p, d)
      PROVE  StepOK
  BY <1>2, LearnDhtKeyOK
<1>3. ASSUME NEW p \in Peer, NEW m \in net, Receive(p, m)
      PROVE  StepOK
  BY <1>3, HandleCookieRequestOK, HandleCookieResponseOK, HandleHandshakeOK,
     HandleHandshakeNewKeyOK, HandleNewConnectionOK, HandleDataOK, EndsOK, Zenon DEF Receive
<1>4. ASSUME NEW p \in Peer,
             \/ ForgetDhtKey(p) \/ Reconnect(p) \/ SendData(p) \/ HandshakeTimeout(p)
             \/ PingTimeout(p) \/ RemoveFriend(p) \/ AddFriend(p) \/ Restart(p)
      PROVE  StepOK
  BY <1>4, ForgetDhtKeyOK, ReconnectOK, SendDataOK, EndsOK, RemoveAndAddOK, RestartOK, Zenon
<1> QED BY <1>1, <1>2, <1>3, <1>4, Zenon DEF Next

\* The inductive invariant.
THEOREM Invariance == Spec => []IInv
<1>1. IInv /\ [Next]_vars => IInv'
  BY NextOK DEF StepOK
<1> QED BY InitOK, <1>1, PTL DEF Spec

\* Every variable keeps its type.
THEOREM TypeCorrect == Spec => []TypeOK
<1>1. IInv => TypeOK
  BY DEF IInv, TypeOK
<1> QED BY Invariance, <1>1, PTL

\* However often the peers reconnect and restart, a crypto connection exists exactly
\* as long as its friend connection holds it, is established exactly while the friend
\* is shown as connected, and never has another DHT key than the friend connection, so
\* dht_pk_callback replaces every connection a foreign handshake has touched.
THEOREM Ownership == Spec => []OwnersAgree
<1>1. IInv => ConnectionOwned
  BY Zenon DEF IInv, PeerOK, FriendOK, ConnectionOwned
<1>2. IInv => DhtKeyTracked
  BY Zenon DEF IInv, PeerOK, FriendOK, DhtKeyTracked
<1> QED BY Invariance, <1>1, <1>2, PTL DEF OwnersAgree

\* Nonce and key of a connection come from one session of the incarnation of the
\* friend that the connection is for, and the key of an established connection was
\* computed by the friend as well.
THEOREM Agreement == Spec => []KeysAgree
<1>1. ASSUME IInv, NEW p \in Peer, conn[p] # None,
             conn[p].status \in {NOT_CONFIRMED, ESTABLISHED}
      PROVE  LET s == conn[p].peer_session
             IN  /\ conn[p].recv_nonce = s
                 /\ conn[p].key = KeyOf(conn[p].session, s)
                 /\ conn[p].dht = OwnerOf(s)
                 /\ s[1] = Other(p)
  <2>1. ConnOK(p, inc[p], made[p], conn[p], keyed)
    BY <1>1, OfPeer, Zenon
  <2>2. ExchangedOK(p, conn[p], keyed) /\ conn[p].dht[1] = Other(p)
    BY <1>1, <2>1, Zenon DEF ConnOK
  <2>3. conn[p].dht[1] = conn[p].peer_session[1]
    BY <2>2 DEF ExchangedOK, OwnerOf
  <2> QED BY <2>2, <2>3, Zenon DEF ExchangedOK
<1>2. IInv => KeysConsistent
  BY <1>1, Zenon DEF KeysConsistent
<1>3. IInv => MutualKey
  BY Zenon DEF IInv, PeerOK, ConnOK, ExchangedOK, MutualKey
<1> QED BY Invariance, <1>2, <1>3, PTL DEF KeysAgree

\* No packet changes the keys of an established connection.
THEOREM KeysFixed == Spec => EstablishedKeysFixed
<1>1. IInv /\ [Next]_vars => [\A p \in Peer : KeepsKeys(conn[p], conn'[p])]_vars
  BY NextOK DEF StepOK
<1> QED BY Invariance, <1>1, PTL DEF Spec, EstablishedKeysFixed
=============================================================================
