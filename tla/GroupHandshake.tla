--------------------------- MODULE GroupHandshake ---------------------------
(***************************************************************************)
(* How two peers of a group become connected, lose one another and connect *)
(* again (the handshakes, the key rotation and the peer timeouts of        *)
(* toxcore/group_chats.c), over a network that loses, repeats and reorders *)
(* packets.                                                                *)
(*                                                                         *)
(* The lossless packets of GroupLossless appear as far as the handshake    *)
(* meddles with them: ids are far from the end of the arrays, a packet is  *)
(* one of those that the handshake and the rotation send, or a data packet,*)
(* which stands for all that follows (the answer to an invite as well).    *)
(***************************************************************************)
EXTENDS Naturals, Sequences, FiniteSets

CONSTANTS
    Peer,           \* the two peers
    Closer,         \* the one whose key is closer to the chat id
    None,
    Bounds          \* how much happens; a record of the set is chosen at the start:
                    \*   keys: session keys made        deletes: connections given up
                    \*   data: data packets each peer writes    ids: message ids that
                    \*   handshakes use up    rotations: key rotations
                    \*   learns: who hears of the other peer, whether out of band, and
                    \*   what for: an invite or an exchange of peer infos
                    \*   wire: packets under way at the same time

VARIABLES
    bound,          \* the chosen member of Bounds
    gconn,          \* gconn[p]: p's connection to the other peer, or None
    out,            \* out[p]: its send array: the entries that are not empty
    early,          \* early[p]: its receive array
    wire,           \* packets under way
    keys,           \* number of session keys made so far
    deletes,        \* connections given up so far
    rotations,      \* key rotations begun so far
    wrote,          \* wrote[p]: data packets p wrote
    handled,        \* handled[p]: data packets p's connection handed over, in order
    rewound         \* rewound[p]: p's receive id was set over packets it has had

vars == <<bound, gconn, out, early, wire, keys, deletes, rotations, wrote, handled, rewound>>

Other(p) == CHOOSE q \in Peer : q # p

\* peer_add: a connection with session key sk.
peer_add(sk, oob, type) ==
    [handshaked |-> FALSE, pending |-> FALSE, type |-> type, oob |-> oob, rotating |-> FALSE,
     send_id |-> 1, start |-> 1, recv_id |-> 0, sk |-> sk, key |-> {}]

Init ==
    /\ bound \in Bounds
    /\ gconn = [p \in Peer |-> None]
    /\ out = [p \in Peer |-> {}]
    /\ early = [p \in Peer |-> {}]
    /\ wire = {}
    /\ keys = 0
    /\ deletes = 0
    /\ rotations = 0
    /\ wrote = [p \in Peer |-> 0]
    /\ handled = [p \in Peer |-> <<>>]
    /\ rewound = [p \in Peer |-> FALSE]

Packet(p, c, entry) == [kind |-> "lossless", to |-> Other(p), key |-> c.key, entry |-> entry]
Handshake(p, kind, c) == [kind |-> kind, to |-> Other(p), sk |-> c.sk, type |-> c.type]

\* The connection, send array, packets and outcome of a handler that may send.
Result(c, array, packets, ok) == [c |-> c, out |-> array, sent |-> packets, ok |-> ok]

\* send_lossless_group_packet: nothing is sent before the handshake, nor when the
\* place of the next id is taken.
send_lossless_group_packet(p, r, entry) ==
    LET e == [entry EXCEPT !.id = r.c.send_id]
    IN  IF ~r.c.handshaked \/ \E x \in r.out : x.id = e.id
        THEN [r EXCEPT !.ok = FALSE]
        ELSE Result([r.c EXCEPT !.send_id = @ + 1], r.out \cup {e}, r.sent \cup {Packet(p, r.c, e)}, r.ok)

Typed(type, value) == [id |-> 0, type |-> type, value |-> value]
Unchanged(p) == Result(gconn[p], out[p], {}, TRUE)

\* Of the packets that are sent any may be lost.
Send(left, packets) ==
    \E arriving \in SUBSET packets :
        /\ Cardinality(left \cup arriving) <= bound.wire
        /\ wire' = left \cup arriving

\* The step that leaves connection p as r says, with the packets left on the wire.
Apply(p, r, left) ==
    /\ gconn' = [gconn EXCEPT ![p] = r.c]
    /\ out' = [out EXCEPT ![p] = r.out]
    /\ Send(left, r.sent)

\* The same, and p sends acknowledgements for ids, with the key of r.  They are lost,
\* or they arrive at once (GroupLossless has the late ones): the other side takes
\* them when it has the key and is connected.
ApplyAcked(p, r, left, ids) ==
    LET q == Other(p)
        arrives == r.c.handshaked /\ gconn[q] # None /\ gconn[q].handshaked /\ gconn[q].key = r.c.key
    IN  /\ gconn' = [gconn EXCEPT ![p] = r.c]
        /\ out' \in {[out EXCEPT ![p] = r.out, ![q] = {x \in @ : ~arrives \/ x.id \notin acked}] : acked \in {{}, ids}}
        /\ Send(left, r.sent)
-----------------------------------------------------------------------------
(* Connections *)

\* load_gc_peers, gc_add_peers_from_announces, unpack_gc_sync_announce: p learns of the
\* other peer.
AddPeer(p, oob, type) ==
    /\ gconn[p] = None
    /\ <<p, oob, type>> \in bound.learns
    /\ keys < bound.keys
    /\ gconn' = [gconn EXCEPT ![p] = peer_add(keys, oob, type)]
    /\ keys' = keys + 1
    /\ UNCHANGED <<out, early, wire, deletes, rotations, wrote, handled, rewound>>

\* gcc_set_send_message_id
SetSendId(c, id) == [c EXCEPT !.send_id = id, !.start = id]

\* send_pending_handshake: a response if one is owed, else a request.  One that goes
\* out of band leaves the message id alone.
SendHandshake(p) ==
    /\ gconn[p] # None
    /\ ~gconn[p].handshaked
    /\ LET c == gconn[p]
           kind == IF c.pending THEN "response" ELSE "request"
           id == IF c.pending THEN 3 ELSE 2
       IN  /\ gconn' = [gconn EXCEPT ![p] = IF c.oob /\ ~c.pending THEN c ELSE SetSendId(c, id)]
           /\ Send(wire, {Handshake(p, kind, c)})
    /\ UNCHANGED <<out, early, keys, deletes, rotations, wrote, handled, rewound>>

\* gcc_make_session_shared_key
SharedKey(c, sk) == [c EXCEPT !.key = {c.sk, sk}]

\* gcc_set_recv_message_id goes over packets that were received or stored.
Rewinds(p, id) == gconn[p] # None /\ (gconn[p].recv_id > id \/ (gconn[p].recv_id # id /\ early[p] # {}))


\* handle_gc_handshake_request.  A peer with which p is connected only loses its
\* connection; when both sent a request the closer one ignores the other's.
ReceiveRequest(p, m) ==
    /\ m.kind = "request"
    /\ LET Answer(c) == [SharedKey(c, m.sk) EXCEPT !.recv_id = 1, !.pending = TRUE, !.type = m.type]
       IN  \/ /\ gconn[p] = None
              /\ keys < bound.keys
              /\ gconn' = [gconn EXCEPT ![p] = Answer(peer_add(keys, FALSE, m.type))]
              /\ keys' = keys + 1
           \/ /\ gconn[p] # None
              /\ \/ /\ gconn[p].handshaked
                    /\ gconn' = [gconn EXCEPT ![p].handshaked = FALSE]
                 \/ /\ ~gconn[p].handshaked
                    /\ p # Closer
                    /\ gconn' = [gconn EXCEPT ![p] = Answer(gconn[p])]
              /\ UNCHANGED keys
    /\ rewound' = [rewound EXCEPT ![p] = @ \/ Rewinds(p, gconn'[p].recv_id)]
    /\ wire' = wire \ {m}
    /\ UNCHANGED <<out, early, deletes, rotations, wrote, handled>>

\* send_gc_peer_exchange: the peer's own info, and if that was sent the request for
\* the other's.
send_gc_peer_exchange(p, r) ==
    LET s == send_lossless_group_packet(p, r, Typed("info", 0))
    IN  IF s.ok THEN send_lossless_group_packet(p, s, Typed("info_request", 0)) ELSE s

\* handle_gc_handshake_response, with the invite request or the exchange of infos that
\* follows, whether or not the acknowledgement was sent.
ReceiveResponse(p, m) ==
    /\ m.kind = "response"
    /\ gconn[p] # None
    /\ gconn[p].send_id < bound.ids
    /\ LET c == [SharedKey(gconn[p], m.sk) EXCEPT !.recv_id = 2, !.handshaked = TRUE]
           acked == [send_lossless_group_packet(p, Result(c, out[p], {}, TRUE), Typed("hs_ack", 0)) EXCEPT !.ok = TRUE]
       IN  Apply(p, IF m.type = "invite" THEN send_lossless_group_packet(p, acked, Typed("invite", 0))
                                         ELSE send_gc_peer_exchange(p, acked), wire \ {m})
    /\ rewound' = [rewound EXCEPT ![p] = @ \/ Rewinds(p, 2)]
    /\ UNCHANGED <<early, keys, deletes, rotations, wrote, handled>>

\* The peer times out, leaves or is given up: gcc_mark_for_deletion, peer_delete.
DeletePeer(p) ==
    /\ gconn[p] # None
    /\ deletes < bound.deletes
    /\ gconn' = [gconn EXCEPT ![p] = None]
    /\ out' = [out EXCEPT ![p] = {}]
    /\ early' = [early EXCEPT ![p] = {}]
    /\ deletes' = deletes + 1
    /\ UNCHANGED <<rotations, wire, keys, wrote, handled, rewound>>
-----------------------------------------------------------------------------
(* Lossless packets *)

\* A data packet is sent.
WriteData(p) ==
    LET r == send_lossless_group_packet(p, Unchanged(p), Typed("data", wrote[p] + 1))
    IN  /\ gconn[p] # None
        /\ wrote[p] < bound.data[p]
        /\ r.ok
        /\ Apply(p, r, wire)
        /\ wrote' = [wrote EXCEPT ![p] = @ + 1]
        /\ UNCHANGED <<early, keys, deletes, rotations, handled, rewound>>

\* send_peer_key_rotation_request: the closer peer makes a new session key, which
\* stays when the request cannot be sent.
RotateKey(p) ==
    /\ p = Closer
    /\ gconn[p] # None
    /\ gconn[p].handshaked
    /\ keys < bound.keys
    /\ rotations < bound.rotations
    /\ LET c == [gconn[p] EXCEPT !.sk = keys]
           r == send_lossless_group_packet(p, Result(c, out[p], {}, TRUE), Typed("rotate", keys))
       IN  Apply(p, IF r.ok THEN [r EXCEPT !.c.rotating = TRUE] ELSE r, wire)
    /\ keys' = keys + 1
    /\ rotations' = rotations + 1
    /\ UNCHANGED <<early, deletes, wrote, handled, rewound>>

\* gcc_resend_packets: the entries from the start of the array to the last id, with
\* the key of now.
Resend(p) ==
    /\ gconn[p] # None
    /\ LET c == gconn[p]
       IN Send(wire, {Packet(p, c, e) : e \in {x \in out[p] : x.id \in c.start .. c.send_id - 1}})
    /\ UNCHANGED <<gconn, out, early, keys, deletes, rotations, wrote, handled, rewound>>

\* handle_gc_key_exchange, for a request that does not come too soon after the last
\* one: the answer goes out with the old key, then the new one is taken.
Rotate(p, r, sk) ==
    LET s == send_lossless_group_packet(p, r, Typed("rotated", keys))
    IN  IF s.ok THEN [s EXCEPT !.c = SharedKey([s.c EXCEPT !.sk = keys], sk)] ELSE s

\* handle_gc_lossless_helper: the handler of entry e, run on the connection of r.
Handle(p, r, e, soon) ==
    CASE e.type = "hs_ack" ->
            LET s == send_lossless_group_packet(p, [r EXCEPT !.c.handshaked = TRUE], Typed("invite", 0))
            IN  IF s.ok THEN s ELSE [s EXCEPT !.c.handshaked = FALSE]
      [] e.type = "info_request" -> send_lossless_group_packet(p, r, Typed("info", 0))
      [] e.type = "rotate" -> IF soon THEN r ELSE Rotate(p, r, e.value)
      [] e.type = "rotated" ->
            IF r.c.rotating THEN [r EXCEPT !.c = [SharedKey(r.c, e.value) EXCEPT !.rotating = FALSE]] ELSE r
      [] OTHER -> r

\* The bookkeeping of the handler: the key a rotation made, the data handed over.
Bookkeeping(p, e, soon) ==
    /\ IF e.type = "rotate" /\ ~soon
       THEN keys < bound.keys /\ keys' = keys + 1
       ELSE UNCHANGED keys
    /\ handled' = IF e.type = "data" THEN [handled EXCEPT ![p] = Append(@, e.value)] ELSE handled
    /\ UNCHANGED <<deletes, rotations, wrote, rewound>>

\* handle_gc_lossless_packet accepts m: its key is p's, and before the handshake it
\* is one of the first two packets, the invite request not before the other.
Accepts(p, m) ==
    /\ gconn[p] # None
    /\ m.kind = "lossless"
    /\ m.key = gconn[p].key
    /\ gconn[p].handshaked \/ m.entry.type \in {"hs_ack", "invite"}
    /\ ~(m.entry.id = 3 /\ m.entry.type = "invite" /\ gconn[p].recv_id <= 1)

\* An invite request before the handshake counts as received and is not handled.
Ignored(p, e) == e.type = "invite" /\ ~gconn[p].handshaked

ReceiveDuplicate(p, m) ==
    /\ Accepts(p, m)
    /\ m.entry.id <= gconn[p].recv_id
    /\ ApplyAcked(p, Unchanged(p), wire \ {m}, IF Ignored(p, m.entry) THEN {} ELSE {m.entry.id})
    /\ UNCHANGED <<early, keys, deletes, rotations, wrote, handled, rewound>>

ReceiveEarly(p, m) ==
    /\ Accepts(p, m)
    /\ m.entry.id > gconn[p].recv_id + 1
    /\ ~\E x \in early[p] : x.id = m.entry.id
    /\ early' = [early EXCEPT ![p] = @ \cup {m.entry}]
    /\ wire' = wire \ {m}
    /\ UNCHANGED <<gconn, out, keys, deletes, rotations, wrote, handled, rewound>>

ReceiveNext(p, m, soon) ==
    /\ Accepts(p, m)
    /\ m.entry.id = gconn[p].recv_id + 1
    /\ LET taken == [Unchanged(p) EXCEPT !.c.recv_id = @ + 1]
           r == Handle(p, taken, m.entry, soon)
       IN  IF Ignored(p, m.entry)
           THEN Apply(p, taken, wire \ {m}) /\ UNCHANGED <<keys, deletes, rotations, wrote, handled, rewound>>
           ELSE /\ ApplyAcked(p, r, wire \ {m}, IF r.ok THEN {m.entry.id} ELSE {})
                /\ Bookkeeping(p, m.entry, soon)
    /\ UNCHANGED early

\* gcc_check_recv_array: the stored packet in the place of the next id.
CheckRecvArray(p, soon) ==
    /\ gconn[p] # None
    /\ \E e \in early[p] :
        /\ e.id = gconn[p].recv_id + 1
        /\ LET r == Handle(p, Unchanged(p), e, soon)
           IN  Apply(p, IF r.ok THEN [r EXCEPT !.c.recv_id = @ + 1] ELSE r, wire)
        /\ early' = [early EXCEPT ![p] = @ \ {e}]
        /\ Bookkeeping(p, e, soon)
-----------------------------------------------------------------------------
Receive(p, m) ==
    \/ ReceiveRequest(p, m)
    \/ ReceiveResponse(p, m)
    \/ ReceiveDuplicate(p, m)
    \/ ReceiveEarly(p, m)
    \/ \E soon \in BOOLEAN : ReceiveNext(p, m, soon)

Next ==
    /\ \E p \in Peer :
        \/ \E oob \in BOOLEAN, type \in {"invite", "exchange"} : AddPeer(p, oob, type)
        \/ SendHandshake(p)
        \/ DeletePeer(p)
        \/ WriteData(p)
        \/ RotateKey(p)
        \/ Resend(p)
        \/ \E soon \in BOOLEAN : CheckRecvArray(p, soon)
        \/ \E m \in wire : m.to = p /\ Receive(p, m)
    /\ UNCHANGED bound

Spec == Init /\ [][Next]_vars
-----------------------------------------------------------------------------
(* Properties *)

\* The type of the state.
TypeOK ==
    /\ bound \in Bounds
    /\ keys \in 0 .. bound.keys
    /\ deletes \in 0 .. bound.deletes
    /\ \A p \in Peer :
        /\ wrote[p] \in 0 .. bound.data[p]
        /\ gconn[p] # None => /\ gconn[p].send_id \in Nat
                              /\ gconn[p].recv_id \in Nat
                              /\ gconn[p].key \subseteq 0 .. keys - 1

Increasing(s) == \A i, j \in 1 .. Len(s) : i < j => s[i] < s[j]

\* Data packets are handed over in the order they were written, none twice, even by
\* a connection that is set up a second time, unless its receive id was set back
\* over packets it has had.
HandledInOrder == \A p \in Peer : rewound[p] \/ Increasing(handled[p])

\* A peer that answered a request takes the connection for established only when
\* the other side has the key: it has made a packet with it (handle_gc_hs_response_ack).
ResponderSure ==
    \A p \in Peer :
        gconn[p] # None /\ gconn[p].handshaked /\ gconn[p].pending /\ deletes = 0 /\ rotations = 0 =>
            gconn[Other(p)] # None /\ gconn[Other(p)].key = gconn[p].key

\* Two peers take one another for connected and have different keys.
Split(p, q) ==
    /\ gconn[p] # None /\ gconn[q] # None
    /\ gconn[p].handshaked /\ gconn[q].handshaked
    /\ gconn[p].key # gconn[q].key

\* A packet of this type is sent again until it is acknowledged or the connection is given up.
Unacknowledged(p, type) == \E x \in out[p] : x.type = type /\ x.id \in gconn[p].start .. gconn[p].send_id - 1

\* While only one peer asks for the connection and nobody gives the other up, the keys
\* of two connected peers differ only between the two halves of a rotation, and then
\* neither takes it for done: each keeps its half, which the other cannot acknowledge, so
\* that the timer of gcc_resend_packets gives up a connection whose rotation does not end
\* (handle_gc_key_exchange).
RotationOwed ==
    deletes = 0 /\ Cardinality(bound.learns) = 1 /\ Split(Closer, Other(Closer)) =>
        /\ gconn[Closer].rotating
        /\ Unacknowledged(Closer, "rotate")
        /\ Unacknowledged(Other(Closer), "rotated")

\* The answer of a rotation is sent before the new key is taken ("AFTER sending response
\* packet with old key", group_chats.c): the peer that waits for it can read it.
AnswerReadable ==
    deletes = 0 /\ Cardinality(bound.learns) = 1 /\ Split(Closer, Other(Closer)) =>
        \/ \E m \in wire : m.kind = "lossless" /\ m.to = Closer /\ m.key = gconn[Closer].key /\ m.entry.type = "rotated"
        \/ \E x \in early[Closer] : x.type = "rotated"

\* gcc_set_send_message_id "should only be used to initialize a new lossless
\* connection" (group_connection.h): the ids do not start again over packets that
\* wait for their acknowledgement.
NewConnectionOnly ==
    [][\A p \in Peer :
        gconn[p] # None /\ gconn'[p] # None /\ gconn'[p].send_id < gconn[p].send_id => out[p] = {}]_vars
=============================================================================
