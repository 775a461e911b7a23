---------------------------- MODULE Conferences ----------------------------
(***************************************************************************)
(* Conferences (toxcore/group.c): messages that members pass on to one     *)
(* another, the list of peers with those that are frozen, and the          *)
(* connections between members, lost and found again.                      *)
(*                                                                         *)
(* The number of a peer stands for its key, too.  Linked clients are       *)
(* friends, so their friend connection outlives what the conference does   *)
(* with it; there are at most DESIRED_CLOSEST others, so all are close.    *)
(* Titles are left out.                                                    *)
(***************************************************************************)
EXTENDS Integers, Sequences, FiniteSets, SequencesExt

CONSTANTS
    Clients,
    MAX_LAST_MESSAGE_INFOS,
    U32,                            \* 2^32 in the program
    SAVE_OFFSET_MESSAGE_NUMBER,
    Bounds          \* what happens; a record of the set is chosen at the start:
                    \*   links: the pairs of clients that are friends
                    \*   down: those whose connection is lost at the start
                    \*   members: the clients that are in the conference at the start
                    \*   first: the message number of each
                    \*   sends, names, joins, leaves, losses, timeouts, restarts: how often
                    \*   actors: the clients that do it
                    \*   pings: whether it lasts long enough for pings

VARIABLES
    bound,          \* the chosen member of Bounds
    client,         \* what each client knows: see Member
    name,           \* the name of each client, a number; 0 is no name
    chan,           \* the packets of each friend connection, in order
    linked,         \* the friend connections there are
    did,            \* how often it happened
    left,           \* the clients that left for good
    pinged          \* the clients that sent a ping since the last disturbance

vars == <<bound, client, name, chan, linked, did, left, pinged>>
links == <<linked, did, left>>

Kinds == {"sends", "names", "joins", "leaves", "losses", "timeouts", "restarts"}

\* Group_Peer and Groupchat_Connection
Peer(infos, nick, updated) == [infos |-> infos, nick |-> nick, nick_updated |-> updated]
Info(number, kind) == [number |-> number, kind |-> kind]
Conn(type, reasons) == [type |-> type, reasons |-> reasons]
NoConn == Conn("none", {})

\* Group_c.  up: the friends that are connected; heard: those with callbacks of conferences.
\* out: what a handler sends.  handled, twice, reordered, gone: the messages the client got,
\* whether one came twice or after a later one of the same peer, and who it saw leave.
Member(status, number, group, frozen, connections, up, heard) ==
    [status |-> status, number |-> number, group |-> group, frozen |-> frozen, connections |-> connections,
     changed |-> "none", need_send_name |-> FALSE, up |-> up, heard |-> heard,
     out |-> [d \in Clients |-> <<>>], handled |-> {}, twice |-> FALSE, reordered |-> FALSE, gone |-> {}]

Link(c, d) == {c, d}
Friends(c) == {d \in Clients : d # c /\ Link(c, d) \in bound.links}

Init ==
    /\ bound \in Bounds
    /\ client = [c \in Clients |->
         LET others == Friends(c) \cap bound.members
             up == {d \in Friends(c) : Link(c, d) \notin bound.down}
         IN  IF c \in bound.members
             THEN Member("connected", bound.first,
                         [p \in bound.members |-> Peer(<<Info(bound.first, "name")>>, 1, TRUE)], <<>>,
                         [d \in Friends(c) |-> IF d \notin others THEN NoConn
                                               ELSE Conn(IF d \in up THEN "online" ELSE "connecting", {"closest"})],
                         up, others)
             ELSE Member("none", 0, <<>>, <<>>, [d \in Friends(c) |-> NoConn], up, {})]
    /\ name = [c \in Clients |-> 1]
    /\ chan = [cd \in Clients \X Clients |-> <<>>]
    /\ linked = bound.links \ bound.down
    /\ did = [k \in Kinds |-> 0]
    /\ left = {}
    /\ pinged = bound.members

Counts(kind) == did[kind] < bound[kind] /\ did' = [did EXCEPT ![kind] = @ + 1]

\* The client takes state s, and what it sends is under way if there is a connection.
Becomes(c, s, chans) ==
    /\ client' = [client EXCEPT ![c] = [s EXCEPT !.out = [d \in Clients |-> <<>>]]]
    /\ chan' = [cd \in Clients \X Clients |->
                  IF cd[1] = c /\ Link(c, cd[2]) \in linked THEN chans[cd] \o s.out[cd[2]] ELSE chans[cd]]

Drop(f, p) == [q \in DOMAIN f \ {p} |-> f[q]]
Put(f, p, value) == [q \in DOMAIN f \cup {p} |-> IF q = p THEN value ELSE f[q]]
-----------------------------------------------------------------------------
(* Packets *)

Sends(s, to, packet) ==
    [s EXCEPT !.out = [d \in Clients |-> IF d \in to THEN Append(@[d], packet) ELSE @[d]]]

Online == [type |-> "online"]
Rejoin == [type |-> "rejoin"]
Accept == [type |-> "accept"]
Invitee == [type |-> "member"]      \* INVITE_MEMBER_ID
Query == [type |-> "query"]
Peers(s) == [type |-> "peers", nicks |-> [p \in DOMAIN s.group |-> s.group[p].nick]]
Message(c, number, kind, arg) == [type |-> "message", from |-> c, number |-> number, kind |-> kind, arg |-> arg]

Onlines(s) == {d \in DOMAIN s.connections : s.connections[d].type = "online"}

Succ(number) == IF (number + 1) % U32 = 0 THEN 1 ELSE number + 1

send_message_group(c, s, kind, arg) ==
    IF s.status # "connected" \/ Onlines(s) = {} THEN s
    ELSE Sends([s EXCEPT !.number = Succ(@)], Onlines(s), Message(c, Succ(s.number), kind, arg))
-----------------------------------------------------------------------------
(* Connections *)

add_conn_to_groupchat(s, d, reason) ==
    LET k == s.connections[d]
        new == IF k.type = "none" THEN Conn("connecting", {reason}) ELSE [k EXCEPT !.reasons = @ \cup {reason}]
    IN  [s EXCEPT !.connections[d] = new, !.heard = @ \cup {d}]

\* purge_closest and add_closest_connections
connect_to_closest(c, s) ==
    LET close == DOMAIN s.group \ {c}
        purged(k) == IF k.reasons = {"closest"} THEN NoConn ELSE [k EXCEPT !.reasons = @ \ {"closest"}]
        added(k) == IF k.type = "none" THEN Conn("connecting", {"closest"}) ELSE [k EXCEPT !.reasons = @ \cup {"closest"}]
        t == [s EXCEPT !.connections = [d \in DOMAIN @ |-> IF d \in close THEN added(@[d]) ELSE purged(@[d])],
                       !.heard = @ \cup (close \cap DOMAIN s.connections),
                       !.changed = "none"]
        waiting == {d \in close \cap s.up : t.connections[d].type = "connecting"}
    IN  Sends(t, waiting, Online)

\* try_send_rejoin
try_send_rejoin(s, p) ==
    IF p \in s.up THEN Sends(add_conn_to_groupchat(s, p, "introducer"), {p}, Rejoin) ELSE s
-----------------------------------------------------------------------------
(* The list of peers *)

Closer(s) == [s EXCEPT !.changed = IF @ = "none" THEN "added" ELSE @]

delpeer(c, s, p) ==
    [s EXCEPT !.group = Drop(@, p),
              !.connections = [d \in DOMAIN @ |-> IF d = p THEN NoConn ELSE @[d]],
              !.changed = IF p # c THEN "removed" ELSE @]

freeze_peer(c, s, p) ==
    try_send_rejoin([delpeer(c, s, p) EXCEPT !.frozen = Put(@, p, s.group[p])], p)

\* note_peer_active, of a peer that is frozen
Thaw(s, p) ==
    IF p \notin DOMAIN s.frozen THEN s
    ELSE [Closer(s) EXCEPT !.group = Put(@, p, s.frozen[p]), !.frozen = Drop(@, p), !.need_send_name = TRUE]

\* addpeer, of one that is not frozen
Add(c, s, p) ==
    IF p \in DOMAIN s.group THEN s
    ELSE [(IF p = c THEN s ELSE Closer(s)) EXCEPT !.group = Put(@, p, Peer(<<>>, 0, FALSE))]

setnick(s, p, nick) == [s EXCEPT !.group[p] = [@ EXCEPT !.nick = nick, !.nick_updated = TRUE]]
-----------------------------------------------------------------------------
(* Message numbers *)

\* Whether number is newer than that of info.
Newer(number, info) == (number - (info.number + 1)) % U32 <= U32 \div 2

\* The number of infos that are newer than the message.
Slot(number, infos) ==
    Cardinality({i \in DOMAIN infos : \A j \in 1 .. i : ~Newer(number, infos[j])})

\* Mutant: a message that is known is taken unless it is a name.
Rejected_Older(number, kind, infos) == \E i \in 1 .. Slot(number, infos) : kind = "name" /\ infos[i].kind = "name"

Rejected(number, kind, infos) ==
    \E i \in 1 .. Slot(number, infos) : infos[i].number = number \/ (kind = "name" /\ infos[i].kind = "name")

\* check_message_info
check_message_info(number, kind, infos) ==
    ~Rejected(number, kind, infos) /\ Slot(number, infos) # MAX_LAST_MESSAGE_INFOS

Inserted(number, kind, infos) ==
    LET all == InsertAt(infos, Slot(number, infos) + 1, Info(number, kind))
    IN  IF Len(all) > MAX_LAST_MESSAGE_INFOS THEN Front(all) ELSE all

\* handle_message_packet_group: the message is new.
Handled(c, s, m) ==
    CASE m.kind = "ping" -> s
      [] m.kind = "new_peer" -> Add(c, Thaw(s, m.arg), m.arg)
      [] m.kind = "kill" -> [delpeer(c, s, m.from) EXCEPT !.gone = @ \cup {m.from}]
      [] m.kind = "freeze" -> freeze_peer(c, s, m.from)
      [] m.kind = "name" -> setnick(s, m.from, m.arg)
      [] m.kind = "text" -> [s EXCEPT !.handled = @ \cup {<<m.from, m.arg>>},
                                      !.twice = @ \/ <<m.from, m.arg>> \in s.handled,
                                      !.reordered = @ \/ \E h \in s.handled : h[1] = m.from /\ h[2] > m.arg]

\* Passed on to all but the one it comes from, unless that is who sent it.
Relayed(s, d, m) == Sends(s, IF m.from = d THEN Onlines(s) ELSE Onlines(s) \ {d}, m)

handle_message_packet_group(c, s, d, m) ==
    LET t == IF m.kind = "freeze" THEN s ELSE Thaw(s, m.from)
        infos == t.group[m.from].infos
    IN  IF m.from \notin DOMAIN t.group
        THEN IF m.kind # "freeze" /\ d \in Onlines(s) THEN Sends(s, {d}, Query) ELSE s
        ELSE IF ~check_message_info(m.number, m.kind, infos) THEN t
             ELSE Relayed(Handled(c, [t EXCEPT !.group[m.from] = [@ EXCEPT !.infos = Inserted(m.number, m.kind, infos)]], m), d, m)
-----------------------------------------------------------------------------
(* The other packets *)

\* ping_groupchat, at the end of handle_packet_online.  One that was isolated for long is
\* overdue, for its pings failed; others have do_groupchats send them when they are due.
Overdue(c, s) == bound.pings /\ c \notin pinged /\ Onlines(s) = {}
ping_groupchat(c, s, overdue) == {s} \cup (IF overdue THEN {send_message_group(c, s, "ping", 0)} ELSE {})

handle_packet_online(c, s, d) ==
    LET k == s.connections[d]
        asked == IF Onlines(s) = {} \/ "introducer" \in k.reasons THEN Sends(s, {d}, Query) ELSE s
        t == Sends([asked EXCEPT !.connections[d] = [@ EXCEPT !.type = "online"]], {d}, Online)
        told == IF d \in DOMAIN t.group THEN send_message_group(c, t, "new_peer", d) ELSE t
    IN  IF k.type # "connecting" THEN {s}
        ELSE ping_groupchat(c, IF "introducing" \in k.reasons THEN [told EXCEPT !.need_send_name = TRUE] ELSE t, Overdue(c, s))

handle_packet_rejoin(c, s, d) ==
    IF d \notin DOMAIN s.group \cup DOMAIN s.frozen THEN s
    ELSE Sends(add_conn_to_groupchat(Thaw(s, d), d, "introducing"), {d}, Online)

\* Mutant: one who has joined does not say the own name.
Known_Nameless(c, s, nicks, ps) ==
    LET t == IF s.status = "valid" /\ c \in ps THEN [s EXCEPT !.status = "connected"] ELSE s
        new == ps \ DOMAIN s.group
        named == {p \in ps : p \in new \/ ~s.group[p].nick_updated}
    IN  [(IF new \ {c} = {} THEN t ELSE Closer(t)) EXCEPT
            !.group = [p \in DOMAIN @ \cup ps |-> IF p \in named THEN Peer(IF p \in new THEN <<>> ELSE @[p].infos, nicks[p], TRUE)
                                                  ELSE @[p]]]

\* handle_send_peers: the names of peers that are not known yet; one that is frozen ends it,
\* so with such a peer any of the others may come before it.
Known(c, s, nicks, ps) ==
    LET t == IF s.status = "valid" /\ c \in ps THEN [s EXCEPT !.status = "connected", !.need_send_name = TRUE] ELSE s
        new == ps \ DOMAIN s.group
        named == {p \in ps : p \in new \/ ~s.group[p].nick_updated}
    IN  [(IF new \ {c} = {} THEN t ELSE Closer(t)) EXCEPT
            !.group = [p \in DOMAIN @ \cup ps |-> IF p \in named THEN Peer(IF p \in new THEN <<>> ELSE @[p].infos, nicks[p], TRUE)
                                                  ELSE @[p]]]

handle_send_peers(c, s, nicks) ==
    LET found == DOMAIN nicks \ DOMAIN s.frozen
    IN  IF found = DOMAIN nicks THEN {Known(c, s, nicks, found)} ELSE {Known(c, s, nicks, ps) : ps \in SUBSET found}

\* Connected to d, who introduces or is introduced, or both.
Introduced(s, d, reasons) ==
    LET t == FoldSet(LAMBDA r, u : add_conn_to_groupchat(u, d, r), s, reasons)
    IN  [t EXCEPT !.connections[d] = [@ EXCEPT !.type = "online"]]

\* handle_friend_invite_packet and send_invite_response: one who is not in the conference joins
\* at once; a member says so, and each introduces the other.
Invited(s, d) ==
    CASE s.status = "none" -> Sends(Sends(Introduced([s EXCEPT !.status = "valid"], d, {"introducer"}), {d}, Accept), {d}, Query)
      [] s.status = "valid" -> s
      [] s.status = "connected" -> Sends(Sends(Introduced(s, d, {"introducer", "introducing"}), {d}, Invitee), {d}, Query)

\* An acceptance, and the answer of a member.
Accepted(c, s, d, member) ==
    LET t == Add(c, Thaw(s, d), d)
        u == IF member THEN Sends(Introduced(t, d, {"introducing", "introducer"}), {d}, Query)
             ELSE Introduced(t, d, {"introducing"})
    IN  IF s.status = "none" THEN s ELSE send_message_group(c, u, "new_peer", d)

\* g_handle_packet: the states after a packet.
g_handle_packet(c, s, d, m) ==
    CASE m.type = "online" -> handle_packet_online(c, s, d)
      [] m.type = "rejoin" -> {handle_packet_rejoin(c, s, d)}
      [] m.type = "query" -> {IF d \in Onlines(s) THEN Sends(s, {d}, Peers(s)) ELSE s}
      [] m.type = "peers" -> IF s.connections[d].type = "none" THEN {s} ELSE handle_send_peers(c, s, m.nicks)
      [] m.type = "message" -> {IF s.connections[d].type = "none" THEN s ELSE handle_message_packet_group(c, s, d, m)}

Handle(c, s, d, m) ==
    CASE m.type = "invite" -> {Invited(s, d)}
      [] m.type \in {"accept", "member"} -> {Accepted(c, s, d, m.type = "member")}
      [] OTHER -> IF s.status = "none" \/ d \notin s.heard THEN {s} ELSE g_handle_packet(c, s, d, m)
-----------------------------------------------------------------------------
(* Actions *)

Receive(c, d) ==
    LET m == Head(chan[<<d, c>>])
    IN  /\ chan[<<d, c>>] # <<>> /\ d \in client[c].up
        /\ \E s \in Handle(c, client[c], d, m) : Becomes(c, s, [chan EXCEPT ![<<d, c>>] = Tail(@)])
        /\ pinged' = IF m.type = "message" /\ m.kind \in {"freeze", "kill", "new_peer"} THEN {} ELSE pinged
        /\ UNCHANGED <<bound, name, links>>

\* do_groupchats: what is pending.
Iterate(c) ==
    LET s == client[c]
        t == IF s.changed # "none" THEN connect_to_closest(c, s) ELSE s
        u == IF s.need_send_name THEN [send_message_group(c, t, "name", name[c]) EXCEPT !.need_send_name = FALSE] ELSE t
    IN  /\ s.status = "connected" /\ (s.changed # "none" \/ s.need_send_name)
        /\ Becomes(c, u, chan)
        /\ UNCHANGED <<bound, name, links, pinged>>

\* group_message_send; the text is its number.
SendText(c) ==
    LET s == client[c]
    IN  /\ c \in bound.actors
        /\ s.status = "connected" /\ Onlines(s) # {}
        /\ Counts("sends")
        /\ Becomes(c, send_message_group(c, s, "text", did.sends + 1), chan)
        /\ UNCHANGED <<bound, name, linked, left, pinged>>

\* send_name_all_groups
SetName(c) ==
    LET s == client[c]
    IN  /\ c \in bound.actors
        /\ Counts("names")
        /\ name' = [name EXCEPT ![c] = @ + 1]
        /\ s.status = "connected"
        /\ Becomes(c, [send_message_group(c, s, "name", name[c] + 1) EXCEPT !.need_send_name = FALSE], chan)
        /\ UNCHANGED <<bound, linked, left, pinged>>

\* Nothing is under way or pending, and all friends are connected.
Settled ==
    /\ \A cd \in Clients \X Clients : chan[cd] = <<>>
    /\ linked = bound.links
    /\ \A c \in Clients : /\ client[c].changed = "none" /\ ~client[c].need_send_name
                          /\ client[c].up = Friends(c)

Members == {c \in Clients : client[c].status = "connected"}

\* ping_groupchat, in do_groupchats: the interval is long.
Ping(c) ==
    /\ bound.pings /\ Settled
    /\ c \notin pinged /\ client[c].status = "connected"
    /\ pinged' = pinged \cup {c}
    /\ Becomes(c, send_message_group(c, client[c], "ping", 0), chan)
    /\ UNCHANGED <<bound, name, links>>

\* groupchat_freeze_timedout: nothing was heard of p for long.
Timeout(c, p) ==
    /\ client[c].status = "connected" /\ p \in DOMAIN client[c].group \ {c} /\ c \in bound.actors
    /\ Counts("timeouts")
    /\ pinged' = {}
    /\ Becomes(c, freeze_peer(c, client[c], p), chan)
    /\ UNCHANGED <<bound, name, linked, left>>

\* invite_friend: of anyone, a member too.
Invite(c, d) ==
    /\ client[c].status = "connected" /\ d \in client[c].up \ left /\ c \in bound.actors
    /\ Counts("joins")
    /\ pinged' = {}
    /\ Becomes(c, Sends(client[c], {d}, [type |-> "invite"]), chan)
    /\ UNCHANGED <<bound, name, linked, left>>

\* del_groupchat, after group_leave
Leave(c) ==
    LET s == send_message_group(c, client[c], "kill", c)
    IN  /\ client[c].status = "connected" /\ c \in bound.actors
        /\ Counts("leaves")
        /\ left' = left \cup {c}
        /\ pinged' = {}
        /\ Becomes(c, [Member("none", 0, <<>>, <<>>, [d \in Friends(c) |-> NoConn], s.up, s.heard) EXCEPT !.out = s.out], chan)
        /\ UNCHANGED <<bound, name, linked>>
-----------------------------------------------------------------------------
(* Friend connections *)

Lose(c, d) ==
    /\ Link(c, d) \in linked /\ c \in bound.actors
    /\ Counts("losses")
    /\ linked' = linked \ {Link(c, d)}
    /\ pinged' = {}
    /\ UNCHANGED <<bound, client, name, chan, left>>

\* check_disconnected
check_disconnected(c, s) ==
    IF Onlines(s) # {} THEN s ELSE FoldSet(LAMBDA p, t : freeze_peer(c, t, p), s, DOMAIN s.group \ {c})

\* g_handle_status, offline: what was under way is lost.
Offline(c, d) ==
    LET s == [client[c] EXCEPT !.up = @ \ {d}]
        t == [s EXCEPT !.connections[d] = [@ EXCEPT !.type = "connecting"]]
    IN  /\ Link(c, d) \notin linked /\ d \in client[c].up
        /\ Becomes(c, IF s.connections[d].type = "none" THEN s ELSE check_disconnected(c, t), [chan EXCEPT ![<<d, c>>] = <<>>])
        /\ pinged' = {}
        /\ UNCHANGED <<bound, name, links>>

Reconnect(c, d) ==
    /\ Link(c, d) \in bound.links \ linked
    /\ c \notin client[d].up /\ d \notin client[c].up
    /\ linked' = linked \cup {Link(c, d)}
    /\ UNCHANGED <<bound, client, name, chan, did, left, pinged>>

\* rejoin_frozen_friend, then g_handle_status, online
BackOnline(c, d) ==
    LET s == [client[c] EXCEPT !.up = @ \cup {d}]
        t == IF d \in DOMAIN s.frozen THEN try_send_rejoin(s, d) ELSE s
    IN  /\ Link(c, d) \in linked /\ d \notin client[c].up
        /\ Becomes(c, IF t.connections[d].type # "none" THEN Sends(t, {d}, Online) ELSE t, chan)
        /\ pinged' = {}
        /\ UNCHANGED <<bound, name, links>>

\* save_conf: "Save a future message number."
SavedNumber(number) == (number + SAVE_OFFSET_MESSAGE_NUMBER) % U32

\* kill_groupchats, or a crash, and conferences_load_state_section: the number that was
\* saved may be an older one.
Restart(c) ==
    LET s == client[c]
        ps == (DOMAIN s.group \cup DOMAIN s.frozen) \ {c}
        saved(p) == Peer(<<>>, IF p \in DOMAIN s.group THEN s.group[p].nick ELSE s.frozen[p].nick, FALSE)
        loaded(number) ==
            [Member("connected", SavedNumber(number), [p \in {c} |-> Peer(<<>>, name[c], TRUE)],
                    [p \in ps |-> saved(p)], [d \in Friends(c) |-> NoConn], {}, {}) EXCEPT
                !.handled = s.handled, !.twice = s.twice, !.reordered = s.reordered, !.gone = s.gone]
    IN  /\ s.status = "connected" /\ c \in bound.actors
        /\ Counts("restarts")
        /\ linked' = {l \in linked : c \notin l}
        /\ pinged' = {}
        /\ \E quit \in BOOLEAN, ago \in 0 .. SAVE_OFFSET_MESSAGE_NUMBER - 1 :
             LET last == IF quit THEN send_message_group(c, s, "freeze", c) ELSE s
             IN  /\ last.number > ago
                 /\ Becomes(c, [loaded(last.number - ago) EXCEPT !.out = last.out],
                            [cd \in Clients \X Clients |-> IF cd[2] = c THEN <<>> ELSE chan[cd]])
        /\ UNCHANGED <<bound, name, left>>

Next ==
    \E c \in Clients :
        \/ Iterate(c) \/ SendText(c) \/ SetName(c) \/ Ping(c) \/ Leave(c) \/ Restart(c)
        \/ \E d \in Friends(c) : Receive(c, d) \/ Invite(c, d)
        \/ \E d \in Friends(c) : Lose(c, d) \/ Offline(c, d) \/ Reconnect(c, d) \/ BackOnline(c, d)
        \/ \E p \in Clients : Timeout(c, p)

Spec == Init /\ [][Next]_vars
-----------------------------------------------------------------------------
(* Properties *)

\* The type of the state.
TypeOK ==
    \A c \in Clients :
        /\ client[c].status \in {"none", "valid", "connected"}
        /\ DOMAIN client[c].group \cap DOMAIN client[c].frozen = {}
        /\ \A p \in DOMAIN client[c].group : Len(client[c].group[p].infos) <= MAX_LAST_MESSAGE_INFOS
        /\ \A d \in Friends(c) : (client[c].connections[d].type = "none") <=> (client[c].connections[d].reasons = {})

\* Nothing disturbs the conference.
Undisturbed == bound.down = {} /\ did.losses = 0 /\ did.timeouts = 0 /\ did.restarts = 0

\* No message is shown twice, although members pass every message on to one another, and
\* connections come and go (check_message_info).
HandledOnce == \A c \in Clients : did.restarts = 0 => ~client[c].twice

\* As long as no connection is lost the messages of a member are shown in the order in
\* which they were sent, on whichever way they come.
InOrder == Undisturbed => \A c \in Clients : ~client[c].reordered

\* Everyone, the sender included, gets every message: the sender gets the own from those
\* it is connected to (handle_message_packet_group: "relay it back").
AllHandled ==
    Undisturbed /\ Settled /\ did.joins = 0 /\ left = {} =>
        \A c \in Members : Cardinality(client[c].handled) = did.sends

\* Who has left is not listed again because of what is still under way, or because
\* another member is asked for its list.
GoneStaysGone == Undisturbed => \A c \in Clients : client[c].gone \cap DOMAIN client[c].group = {}

\* When all is quiet the names that members show are the names they have, those of a
\* newcomer and of who was renamed meanwhile included.
NamesAgree ==
    Undisturbed /\ Settled /\ left = {} =>
        \A c, d \in Members : d \in DOMAIN client[c].group => client[c].group[d].nick = name[d]

\* A name is not replaced by an older one, whatever is lost (find_message_slot_or_reject:
\* ignore_older).
NamesForward ==
    [][\A c \in Clients : \A p \in DOMAIN client[c].group \cap DOMAIN client'[c].group :
          client'[c].group[p].nick >= client[c].group[p].nick \/ did' # did]_vars

\* When all is quiet two members agree on whether they are connected, after losses,
\* time-outs and restarts of either.
ConnectionsAgree ==
    Settled => \A c \in Members : \A d \in Friends(c) \cap Members : d \in Onlines(client[c]) => c \in Onlines(client[d])

\* When all is quiet, and all have sent a ping since, everyone lists everyone: nobody stays
\* frozen or unknown.
Near(c, d) == d \in Friends(c) \/ Friends(c) \cap Friends(d) \cap Members # {}
GroupWhole ==
    Settled /\ pinged = Members => \A c, d \in Members : c = d \/ Near(c, d) => d \in DOMAIN client[c].group

\* No member has seen a number of a client that the client has still to use: after a
\* restart its messages are not taken for old ones (SAVE_OFFSET_MESSAGE_NUMBER).
NumbersAhead ==
    \A c \in Members, d \in Clients : c \in DOMAIN client[d].group =>
        \A i \in DOMAIN client[d].group[c].infos :
            ~Newer(client[d].group[c].infos[i].number, Info(client[c].number, "text"))
=============================================================================
