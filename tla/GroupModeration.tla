-------------------------- MODULE GroupModeration --------------------------
(***************************************************************************)
(* Moderators, sanctions and the topic of a group                          *)
(* (toxcore/group_moderation.c and the roles, the shared state, the topic  *)
(* and their synchronisation in group_chats.c).                            *)
(* Peers send one another lossless packets (GroupLossless); a connection   *)
(* that is lost loses what is under way, and is set up again with an       *)
(* invite and a synchronisation.                                           *)
(*                                                                         *)
(* A hash stands for what it is made of, so signatures are the keys that   *)
(* made them.  A checksum is a number that tells hashes apart.             *)
(***************************************************************************)
EXTENDS Integers, Sequences, FiniteSets, SequencesExt

CONSTANTS
    Peer,                       \* 1 .. n: the first is the founder
    MOD_MAX_NUM_MODERATORS,
    MOD_MAX_NUM_SANCTIONS,
    Bounds                      \* what happens; a record of the set is chosen at the start:
                                \*   roles: changes of a role    states: other changes of the
                                \*   shared state    topics: topics set    locks: changes of
                                \*   the topic lock    drops: connections lost
                                \*   mods, sanctions: the lists at the start; they may name
                                \*   peers that are offline all the time
                                \*   joiner: peers that are not in the group yet
                                \*   order: 1 or -1, how checksums compare
                                \*   syncs: synchronisations asked for after a ping
                                \*   endless: no bound on them; one at a time, never too soon

VARIABLES
    bound,      \* the chosen member of Bounds
    chat,       \* chat[p]: the group as p sees it
    chan,       \* chan[<<p, q>>]: packets from p to q, in order
    done        \* how much of the bound is used up

vars == <<bound, chat, chan, done>>

Founder == 1
GR_FOUNDER == 0
GR_MODERATOR == 1
GR_USER == 2
GR_OBSERVER == 3
GC_TOPIC_LOCK_ENABLED == 0

Pairs == {pq \in Peer \X Peer : pq[1] # pq[2]}

\* mod_list_remove_index, sanctions_list_remove_index: the last entry takes the place.
Without(s, i) == SubSeq([s EXCEPT ![i] = s[Len(s)]], 1, Len(s) - 1)
IndexOf(s, x) == CHOOSE i \in DOMAIN s : s[i] = x
-----------------------------------------------------------------------------
(* group_moderation.c *)

\* sanctions_list_make_hash: the empty list has the zero hash whatever its version.
sanctions_list_make_hash(sanctions, version) ==
    IF sanctions = <<>> THEN <<>> ELSE <<version, sanctions>>

\* sanctions_creds_get_checksum
Checksum(hash) ==
    IF hash = <<>> THEN 0
    ELSE bound.order * 1000 * (10000 * hash[1]
        + FoldLeft(LAMBDA n, e : 100 * n + 10 * e.target + e.setter, 0, hash[2]))

Creds(version, p, sanctions) ==
    [version |-> version, sig_pk |-> p, hash |-> sanctions_list_make_hash(sanctions, version)]

mod_list_verify_sig_pk(c, p) == p = Founder \/ \E i \in DOMAIN c.mods : c.mods[i] = p

sanctions_list_is_observer(c, p) == \E i \in DOMAIN c.sanctions : c.sanctions[i].target = p
SanctionOf(c, p) == CHOOSE i \in DOMAIN c.sanctions : c.sanctions[i].target = p

sanctions_list_validate_entry(c, entry) == mod_list_verify_sig_pk(c, entry.setter)

\* Mutant: the version is not compared with the own one.
sanctions_creds_validate_AnyVersion(c, sanctions, creds) ==
    /\ mod_list_verify_sig_pk(c, creds.sig_pk)
    /\ creds.hash = sanctions_list_make_hash(sanctions, creds.version)

sanctions_creds_validate(c, sanctions, creds) ==
    /\ mod_list_verify_sig_pk(c, creds.sig_pk)
    /\ creds.hash = sanctions_list_make_hash(sanctions, creds.version)
    /\ c.version > 0 => creds.version >= c.creds.version

\* sanctions_list_make_creds
sanctions_list_make_creds(p, c) == [c EXCEPT !.creds = Creds(@.version + 1, p, c.sanctions)]

\* sanctions_list_replace_sig, by the founder.
Replaced(c, setter) ==
    LET list == [i \in DOMAIN c.sanctions |->
                    IF c.sanctions[i].setter = setter THEN [c.sanctions[i] EXCEPT !.setter = Founder] ELSE c.sanctions[i]]
    IN  IF list = c.sanctions THEN c ELSE sanctions_list_make_creds(Founder, [c EXCEPT !.sanctions = list])
-----------------------------------------------------------------------------
(* Roles *)

Observers(c) == {q \in c.confirmed \ {Founder} : sanctions_list_is_observer(c, q)}
Moderators(c) == {q \in c.confirmed \ {Founder} : mod_list_verify_sig_pk(c, q)}

\* update_gc_peer_roles: a peer that is both makes the shared state void.
update_gc_peer_roles(p, c) ==
    [c EXCEPT
        !.role = [q \in Peer |-> CASE q \notin c.confirmed -> @[q]
                                   [] q = Founder -> GR_FOUNDER
                                   [] q \in Moderators(c) -> GR_MODERATOR
                                   [] q \in Observers(c) -> GR_OBSERVER
                                   [] OTHER -> GR_USER],
        !.version = IF Observers(c) \cap Moderators(c) # {} /\ p # Founder THEN 0 ELSE @]

\* The sum of the roles, with the first byte of each key.
RolesChecksum(c) ==
    Checksum(c.creds.hash) + FoldLeft(LAMBDA n, q : IF q \in c.confirmed THEN n + 10 * q + c.role[q] ELSE n,
                                 0, [i \in 1 .. Cardinality(Peer) |-> i])
-----------------------------------------------------------------------------
(* Packets *)

SharedState(c) ==
    [type |-> "shared_state", version |-> c.version, hash |-> c.hash, value |-> c.value, lock |-> c.lock]
ModList(c) == [type |-> "mod_list", mods |-> c.mods]
SanctionsList(c) == [type |-> "sanctions_list", sanctions |-> c.sanctions, creds |-> c.creds]
SetMod(p, add) == [type |-> "set_mod", target |-> p, add |-> add]
SetObserver(p, add, setter, creds) ==
    [type |-> "set_observer", target |-> p, add |-> add, setter |-> setter, creds |-> creds]
Plain(type) == [type |-> type]
Topic(c) == [type |-> "topic", version |-> c.topic.version, setter |-> c.topic.setter, text |-> c.topic.text]
SyncRequest(flags) == [type |-> "sync_request", flags |-> flags]

\* send_gc_lossless_packet_all_peers: what p sends to every confirmed peer.
Broadcast(p, packets) ==
    chan' = [pq \in Pairs |-> IF pq[1] = p /\ pq[2] \in chat[p].confirmed THEN chan[pq] \o packets ELSE chan[pq]]

\* p takes a packet of q and sends packets back.
Reply(p, q, packets) ==
    chan' = [chan EXCEPT ![<<q, p>>] = Tail(@), ![<<p, q>>] = @ \o packets]

Use(what) == done' = [done EXCEPT ![what] = @ + 1]
Left(what) == done[what] < bound[what]

Fresh(p, members) ==
    [version |-> 0, hash |-> <<>>, value |-> 0, lock |-> GC_TOPIC_LOCK_ENABLED,
     topic |-> [version |-> 0, setter |-> 0, text |-> 0, prev |-> 0], joined |-> FALSE, mods |-> <<>>, sanctions |-> <<>>,
     creds |-> [version |-> 0, sig_pk |-> 0, hash |-> <<>>],
     role |-> [q \in Peer |-> IF p = Founder /\ q = Founder THEN GR_FOUNDER ELSE GR_USER],
     list |-> members, confirmed |-> members]

\* The members of the group agree on the state the founder made: version 1 and first
\* credentials (init_gc_shared_state_founder, init_gc_sanctions_creds), moderators.
Init ==
    /\ bound \in Bounds
    /\ chat = [p \in Peer |->
                LET members == Peer \ bound.joiner
                IN  IF p \in bound.joiner THEN Fresh(p, {p})
                    ELSE update_gc_peer_roles(p, [Fresh(p, members) EXCEPT
                            !.topic.version = 1, !.topic.setter = Founder, !.joined = TRUE,
                            !.version = 1 + Len(bound.mods), !.hash = bound.mods, !.mods = bound.mods,
                            !.sanctions = bound.sanctions, !.creds = Creds(1, Founder, bound.sanctions)])]
    /\ chan = [pq \in Pairs |-> <<>>]
    /\ done = [roles |-> 0, states |-> 0, topics |-> 0, locks |-> 0, drops |-> 0, syncs |-> 0]
-----------------------------------------------------------------------------
(* Changes.  A result is the group as it is afterwards, what is sent, and whether it
   succeeded. *)

Result(c, packets, ok) == [c |-> c, sent |-> packets, ok |-> ok]
Then(r, next) == Result(next.c, r.sent \o next.sent, next.ok)

sign_gc_shared_state(c) == [c EXCEPT !.version = @ + 1]

\* The topic keeps its version while the lock is off.
gc_set_topic(p, c, text) ==
    LET locked == c.lock = GC_TOPIC_LOCK_ENABLED
        set == [c EXCEPT !.topic = [version |-> @.version + IF locked THEN 1 ELSE 0,
                                    setter |-> p, text |-> text, prev |-> @.text]]
    IN  IF c.role[p] > IF locked THEN GR_MODERATOR ELSE GR_USER THEN Result(c, <<>>, FALSE)
        ELSE Result(set, <<Topic(set)>>, TRUE)

\* A topic that q set is signed again by p.
update_gc_topic(p, c, q) == IF c.topic.setter = q THEN gc_set_topic(p, c, c.topic.text) ELSE Result(c, <<>>, TRUE)

update_gc_sanctions_list(c, setter) ==
    LET signed == Replaced(c, setter)
    IN  Result(signed, IF signed = c THEN <<>> ELSE <<SanctionsList(signed)>>, TRUE)

\* What q signed as a moderator is signed by the founder, sanctions and topic.
SignedAgain(r, q) ==
    LET list == Then(r, update_gc_sanctions_list(r.c, q))
    IN  Then(list, update_gc_topic(Founder, list.c, q))

\* prune_gc_mod_list: the first moderator that is not in the peer list goes.
prune_gc_mod_list(c) ==
    LET offline == {i \in DOMAIN c.mods : c.mods[i] \notin c.list}
        i == CHOOSE i \in offline : \A j \in offline : i <= j
        pruned == sign_gc_shared_state([c EXCEPT !.mods = Without(@, i), !.hash = Without(c.mods, i)])
    IN  IF offline = {} THEN Result(c, <<>>, FALSE)
        ELSE SignedAgain(Result(pruned, <<SharedState(pruned), ModList(pruned)>>, TRUE), c.mods[i])

\* The end of founder_gc_set_moderator.
Announced(r, target, add) ==
    LET final == sign_gc_shared_state([r.c EXCEPT !.hash = r.c.mods])
    IN  Result(final, r.sent \o <<SharedState(final), SetMod(target, add)>>, TRUE)

AddModerator(room, target) ==
    IF ~room.ok THEN room ELSE Announced([room EXCEPT !.c.mods = Append(@, target)], target, TRUE)

RemoveModerator(c, target) ==
    IF ~\E i \in DOMAIN c.mods : c.mods[i] = target THEN Result(c, <<>>, FALSE)
    ELSE LET fewer == [c EXCEPT !.mods = Without(@, IndexOf(@, target))]
         IN  Announced(SignedAgain(Result(fewer, <<>>, TRUE), target), target, FALSE)

founder_gc_set_moderator(c, target, add) ==
    CASE ~add -> RemoveModerator(c, target)
      [] Len(c.mods) >= MOD_MAX_NUM_MODERATORS -> AddModerator(prune_gc_mod_list(c), target)
      [] OTHER -> AddModerator(Result(c, <<>>, TRUE), target)

\* prune_gc_sanctions_list: the first sanctioned peer that is not confirmed goes.
prune_gc_sanctions_list(p, c) ==
    LET offline == {i \in DOMAIN c.sanctions : c.sanctions[i].target \notin c.confirmed}
        i == CHOOSE i \in offline : \A j \in offline : i <= j
        pruned == sanctions_list_make_creds(p, [c EXCEPT !.sanctions = Without(@, i)])
    IN  IF offline = {} THEN Result(c, <<>>, FALSE)
        ELSE Result(pruned, <<SetObserver(c.sanctions[i].target, FALSE, c.sanctions[i].setter, pruned.creds)>>, TRUE)

\* The end of mod_gc_set_observer.
Sanctioned(p, r, target, add) ==
    LET made == sanctions_list_make_creds(p, r.c)
    IN  Result(update_gc_peer_roles(p, made), r.sent \o <<SetObserver(target, add, p, made.creds)>>, TRUE)

\* The topic of the target is signed again, then the entry is made.
AddEntry(p, r, target) ==
    LET entry == [target |-> target, setter |-> p]
    IN  IF ~r.ok \/ ~sanctions_list_validate_entry(r.c, entry) \/ sanctions_list_is_observer(r.c, target)
        THEN Result(r.c, r.sent, FALSE)
        ELSE Sanctioned(p, [r EXCEPT !.c.sanctions = Append(@, entry)], target, TRUE)

AddObserver(p, room, target) ==
    IF ~room.ok THEN room ELSE AddEntry(p, Then(room, update_gc_topic(p, room.c, target)), target)

RemoveObserver(p, c, target) ==
    IF ~sanctions_list_is_observer(c, target) THEN Result(c, <<>>, FALSE)
    ELSE Sanctioned(p, Result([c EXCEPT !.sanctions = Without(@, SanctionOf(c, target))], <<>>, TRUE), target, FALSE)

mod_gc_set_observer(p, c, target, add) ==
    CASE c.role[p] >= GR_USER -> Result(c, <<>>, FALSE)
      [] ~add -> RemoveObserver(p, c, target)
      [] Len(c.sanctions) >= MOD_MAX_NUM_SANCTIONS -> AddObserver(p, prune_gc_sanctions_list(p, c), target)
      [] OTHER -> AddObserver(p, Result(c, <<>>, TRUE), target)

\* apply_new_gc_role: the old role is taken away, then the new one given.
TakeRole(p, c, target) ==
    CASE c.role[target] = GR_MODERATOR -> founder_gc_set_moderator(c, target, FALSE)
      [] c.role[target] = GR_OBSERVER -> mod_gc_set_observer(p, c, target, FALSE)
      [] OTHER -> Result(c, <<>>, TRUE)

GiveRole(p, c, target, role) ==
    CASE role = GR_MODERATOR -> founder_gc_set_moderator(c, target, TRUE)
      [] role = GR_OBSERVER -> mod_gc_set_observer(p, c, target, TRUE)
      [] OTHER -> Result(c, <<>>, TRUE)

Given(p, taken, target, role) ==
    IF ~taken.ok THEN taken ELSE Then(taken, GiveRole(p, update_gc_peer_roles(p, taken.c), target, role))

apply_new_gc_role(p, c, target, role) == Given(p, TakeRole(p, c, target), target, role)

\* gc_set_peer_role
SetPeerRole(p, target, role) ==
    LET c == chat[p]
    IN  /\ Left("roles")
        /\ target \in c.confirmed \ {p}
        /\ role # c.role[target]
        /\ c.role[target] # GR_FOUNDER
        /\ c.role[p] < GR_USER
        /\ p = Founder \/ GR_MODERATOR \notin {role, c.role[target]}
        /\ \E r \in {apply_new_gc_role(p, c, target, role)} :
            /\ chat' = [chat EXCEPT ![p] = IF r.ok THEN update_gc_peer_roles(p, r.c) ELSE r.c]
            /\ Broadcast(p, r.sent)
        /\ Use("roles")

\* gc_founder_set_password, ..._privacy_state, ..._voice_state, ..._max_peers: another
\* value in the shared state.
SetState ==
    /\ Left("states")
    /\ LET c == sign_gc_shared_state([chat[Founder] EXCEPT !.value = @ + 1])
       IN  chat' = [chat EXCEPT ![Founder] = c] /\ Broadcast(Founder, <<SharedState(c)>>)
    /\ Use("states")

\* gc_set_topic, by the user of p: a topic that was not set before.
SetTopic(p) ==
    LET r == gc_set_topic(p, chat[p], done.topics + 1)
    IN  /\ Left("topics")
        /\ r.ok
        /\ chat' = [chat EXCEPT ![p] = r.c]
        /\ Broadcast(p, r.sent)
        /\ Use("topics")

\* gc_founder_set_topic_lock: the topic is signed again before the lock is on.
SetTopicLock ==
    LET c == chat[Founder]
        r == IF c.lock = GC_TOPIC_LOCK_ENABLED THEN Result([c EXCEPT !.lock = c.topic.version], <<>>, TRUE)
             ELSE gc_set_topic(Founder, [c EXCEPT !.lock = GC_TOPIC_LOCK_ENABLED], c.topic.text)
        final == sign_gc_shared_state(r.c)
    IN  /\ Left("locks")
        /\ chat' = [chat EXCEPT ![Founder] = final]
        /\ Broadcast(Founder, Append(r.sent, SharedState(final)))
        /\ Use("locks")
-----------------------------------------------------------------------------
(* Handlers of the packets.  Most leave the group as it is when the packet does not
   fit: a sender that moved on brings it up to date later. *)

\* handle_gc_shared_state: the signature is the founder's.
handle_gc_shared_state(c, m) ==
    IF m.version = 0 \/ m.version < c.version THEN c
    ELSE [c EXCEPT !.version = m.version, !.hash = m.hash, !.value = m.value, !.lock = m.lock]

\* handle_gc_mod_list, validate_unpack_mod_list
handle_gc_mod_list(p, c, m) ==
    IF p = Founder \/ (c.version > 0 /\ m.mods # c.hash) THEN c
    ELSE update_gc_peer_roles(p, [c EXCEPT !.mods = m.mods])

sanctions_list_check_integrity(c, m) ==
    /\ \A i \in DOMAIN m.sanctions : sanctions_list_validate_entry(c, m.sanctions[i])
    /\ sanctions_creds_validate(c, m.sanctions, m.creds)

\* Of two lists of the same version the one with the greater checksum stays.
Supersedes(creds, own) ==
    \/ creds.version > own.version
    \/ creds.version = own.version /\ Checksum(creds.hash) > Checksum(own.hash)

handle_gc_sanctions_list(p, c, m) ==
    IF sanctions_list_check_integrity(c, m) /\ Supersedes(m.creds, c.creds)
    THEN update_gc_peer_roles(p, [c EXCEPT !.sanctions = m.sanctions, !.creds = m.creds])
    ELSE c

\* validate_unpack_gc_set_mod, for a packet of the founder.
handle_gc_set_mod(p, q, c, m) ==
    LET known == m.target \in c.list
    IN  CASE c.role[q] # GR_FOUNDER \/ ~known -> c
          [] m.add /\ c.role[m.target] = GR_USER /\ Len(c.mods) < MOD_MAX_NUM_MODERATORS ->
                update_gc_peer_roles(p, [c EXCEPT !.mods = Append(@, m.target)])
          [] ~m.add /\ c.role[m.target] = GR_MODERATOR ->
                update_gc_peer_roles(p, [c EXCEPT !.mods = Without(@, IndexOf(@, m.target))])
          [] OTHER -> c

\* The sanctions once the change of m is made, or the old ones when it cannot be
\* (sanctions_list_add_entry, sanctions_list_remove_observer).
Changed(c, m) ==
    LET entry == [target |-> m.target, setter |-> m.setter]
    IN  CASE m.add /\ ~sanctions_list_is_observer(c, m.target) /\ Len(c.sanctions) < MOD_MAX_NUM_SANCTIONS
             /\ sanctions_list_validate_entry(c, entry) -> Append(c.sanctions, entry)
          [] ~m.add /\ sanctions_list_is_observer(c, m.target) -> Without(c.sanctions, SanctionOf(c, m.target))
          [] OTHER -> c.sanctions

\* handle_gc_set_observer, validate_unpack_observer_entry.  The version may be lower
\* than the own one here as long as the shared state is void.
handle_gc_set_observer(p, q, c, m) ==
    LET list == Changed(c, m)
    IN  IF /\ c.role[q] <= GR_MODERATOR
           /\ m.target # q
           /\ m.target \in c.list => c.role[m.target] = IF m.add THEN GR_USER ELSE GR_OBSERVER
           /\ m.creds.version = c.creds.version => Supersedes(m.creds, c.creds)
           /\ list # c.sanctions
           /\ sanctions_creds_validate(c, list, m.creds)
        THEN update_gc_peer_roles(p, [c EXCEPT !.sanctions = list, !.creds = m.creds])
        ELSE c

\* handle_gc_topic_validate.  With the lock off a topic that was replaced a short time
\* ago does not come back.
handle_gc_topic_validate(q, c, m, soon) ==
    IF c.lock = GC_TOPIC_LOCK_ENABLED THEN mod_list_verify_sig_pk(c, m.setter) /\ m.version >= c.topic.version
    ELSE /\ ~(m.setter \in c.list /\ sanctions_list_is_observer(c, m.setter))
         /\ IF m.version = c.lock THEN ~(soon /\ m.text = c.topic.prev)
            ELSE c.role[q] = GR_FOUNDER /\ m.version = c.lock + 1

handle_gc_topic(q, c, m, soon) ==
    IF ~handle_gc_topic_validate(q, c, m, soon) THEN c
    ELSE [c EXCEPT !.topic = [version |-> m.version, setter |-> m.setter, text |-> m.text, prev |-> @.text]]

\* handle_gc_peer_info_response
Confirm(p, q, c) == update_gc_peer_roles(p, [c EXCEPT !.confirmed = @ \cup {q}])

\* Broadcasts of a peer that is not confirmed are not handled.
Handled(p, q, c, m, soon) ==
    CASE m.type = "shared_state" -> handle_gc_shared_state(c, m)
      [] m.type = "mod_list" -> handle_gc_mod_list(p, c, m)
      [] m.type = "sanctions_list" -> handle_gc_sanctions_list(p, c, m)
      [] m.type = "set_mod" /\ q \in c.confirmed -> handle_gc_set_mod(p, q, c, m)
      [] m.type = "set_observer" /\ q \in c.confirmed -> handle_gc_set_observer(p, q, c, m)
      [] m.type = "topic" -> handle_gc_topic(q, c, m, soon)
      [] m.type = "info" -> Confirm(p, q, c)
      [] m.type = "sync_response" -> [c EXCEPT !.joined = TRUE]
      [] OTHER -> c

\* sync_response_send_state
SyncState(c, flags) ==
    (IF "state" \in flags
     THEN <<SharedState(c), ModList(c)>> \o IF c.creds.version = 0 THEN <<>> ELSE <<SanctionsList(c)>> ELSE <<>>)
    \o (IF "topic" \in flags /\ c.joined /\ c.topic.version > 0 THEN <<Topic(c)>> ELSE <<>>)
    \o (IF "peers" \in flags THEN <<Plain("sync_response")>> ELSE <<>>)

\* What a packet is answered with.  Requests and answers are limited in time: one that
\* comes too soon has no answer.
Answer(c, m, soon) ==
    CASE m.type = "invite_request" -> IF c.version = 0 THEN <<>> ELSE <<Plain("invite_response")>>
      [] m.type = "invite_response" -> IF soon THEN <<>> ELSE <<SyncRequest({"state", "topic", "peers"})>>
      [] m.type = "sync_request" -> IF soon \/ c.version = 0 THEN <<>> ELSE SyncState(c, m.flags)
      [] m.type = "sync_response" -> <<Plain("info"), Plain("info_request")>>
      [] m.type = "info_request" -> <<Plain("info")>>
      [] OTHER -> <<>>

\* handle_gc_sanctions_list_error: a peer without a list asks again.
AsksAgain(c, m) ==
    /\ m.type = "sanctions_list"
    /\ ~sanctions_list_check_integrity(c, m)
    /\ c.creds.version = 0
    /\ c.version > 0

\* handle_gc_lossless_helper
Receive(p, q, soon) ==
    /\ chan[<<q, p>>] # <<>>
    /\ LET m == Head(chan[<<q, p>>])
           again == AsksAgain(chat[p], m) /\ chat[p].confirmed # {p}
       IN  /\ soon => \/ m.type \in {"invite_response", "sync_request"} /\ ~bound.endless
                      \/ m.type = "topic" /\ chat[p].lock # GC_TOPIC_LOCK_ENABLED
                      \/ again
           /\ chat' = [chat EXCEPT ![p] = Handled(p, q, @, m, soon)]
           /\ IF again /\ ~soon
              THEN \E r \in chat[p].confirmed \ {p} :     \* send_gc_random_sync_request
                    /\ chan' = [chan EXCEPT ![<<q, p>>] = Tail(@), ![<<p, r>>] = Append(@, SyncRequest({"state"}))]
                    /\ Left("syncs") /\ Use("syncs")
              ELSE Reply(p, q, Answer(chat[p], m, soon)) /\ UNCHANGED done

\* Mutant: of lists of the same version the roles are not compared.
NeedsState_VersionsOnly(p, q) ==
    LET c == chat[p]
        d == chat[q]
    IN  d.version > 0 /\ (d.version > c.version \/ d.creds.version > c.creds.version)

\* get_sync_flags, GF_STATE: what p makes of a ping of q.
NeedsState(p, q) ==
    LET c == chat[p]
        d == chat[q]
    IN  /\ d.version > 0
        /\ \/ d.version > c.version
           \/ d.creds.version > c.creds.version
           \/ d.creds.version = c.creds.version /\ RolesChecksum(d) # RolesChecksum(c)

\* A checksum of the topic's text.
TopicSum(topic) == bound.order * topic.text

\* get_sync_flags, GF_TOPIC.
NeedsTopic(p, q) ==
    LET c == chat[p]
        own == c.topic
        new == chat[q].topic
    IN  IF c.lock = GC_TOPIC_LOCK_ENABLED
        THEN new.version > own.version \/ (new.version = own.version /\ TopicSum(new) > TopicSum(own))
        ELSE TopicSum(new) > TopicSum(own)

Flags(p, q) == {f \in {"state", "topic"} : IF f = "state" THEN NeedsState(p, q) ELSE NeedsTopic(p, q)}

Pings(p, q) == q \in chat[p].confirmed /\ p \in chat[q].confirmed

\* handle_gc_ping, do_gc_peer_state_sync, send_gc_sync_request
Ping(p, q) ==
    /\ Pings(p, q)
    /\ Flags(p, q) # {}
    /\ chan' = [chan EXCEPT ![<<p, q>>] = Append(@, SyncRequest(Flags(p, q)))]
    /\ IF bound.endless THEN chan[<<p, q>>] \o chan[<<q, p>>] = <<>> /\ UNCHANGED done
                        ELSE Left("syncs") /\ Use("syncs")
    /\ UNCHANGED chat

\* A handshake between p and q ends; both ask for an invite.
Connect(p, q) ==
    /\ p < q
    /\ q \notin chat[p].list
    /\ chat' = [chat EXCEPT ![p].list = @ \cup {q}, ![q].list = @ \cup {p}]
    /\ chan' = [chan EXCEPT ![<<p, q>>] = <<Plain("invite_request")>>, ![<<q, p>>] = <<Plain("invite_request")>>]
    /\ UNCHANGED done

\* peer_delete on both sides: what is under way is lost.  The role is that of a new
\* peer when it comes back (peer_add).
Forget(c, q) == [c EXCEPT !.list = @ \ {q}, !.confirmed = @ \ {q}, !.role[q] = GR_USER]

Disconnect(p, q) ==
    /\ p < q
    /\ q \in chat[p].list
    /\ Left("drops")
    /\ chat' = [chat EXCEPT ![p] = Forget(@, q), ![q] = Forget(@, p)]
    /\ chan' = [chan EXCEPT ![<<p, q>>] = <<>>, ![<<q, p>>] = <<>>]
    /\ Use("drops")
-----------------------------------------------------------------------------
Next ==
    /\ \/ \E p \in Peer, target \in Peer, role \in {GR_MODERATOR, GR_USER, GR_OBSERVER} : SetPeerRole(p, target, role)
       \/ SetState
       \/ \E p \in Peer : SetTopic(p)
       \/ SetTopicLock
       \/ \E pq \in Pairs :
            \/ \E soon \in BOOLEAN : Receive(pq[1], pq[2], soon)
            \/ Ping(pq[1], pq[2])
            \/ Connect(pq[1], pq[2])
            \/ Disconnect(pq[1], pq[2])
    /\ UNCHANGED bound

Spec == Init /\ [][Next]_vars

\* do_gc handles what arrives and pings every confirmed peer again and again.
Fairness ==
    \A pq \in Pairs : /\ WF_vars(Receive(pq[1], pq[2], FALSE) /\ UNCHANGED bound)
                      /\ SF_vars(Ping(pq[1], pq[2]) /\ UNCHANGED bound)
-----------------------------------------------------------------------------
(* Properties *)

\* The type of the state.
TypeOK ==
    /\ bound \in Bounds
    /\ \A p \in Peer :
        /\ chat[p].version \in Nat
        /\ chat[p].role \in [Peer -> GR_FOUNDER .. GR_OBSERVER]
        /\ chat[p].confirmed \subseteq chat[p].list
        /\ Len(chat[p].mods) <= MOD_MAX_NUM_MODERATORS
        /\ Len(chat[p].sanctions) <= MOD_MAX_NUM_SANCTIONS

\* The founder "can never be out of sync" (handle_gc_mod_list): nobody has a later
\* shared state, one of the same version is the founder's, and its hash is that of the
\* founder's list.
FounderInSync ==
    LET f == chat[Founder]
    IN  /\ f.hash = f.mods
        /\ \A p \in Peer :
            /\ chat[p].version <= f.version
            /\ chat[p].version = f.version => chat[p].hash = f.hash /\ chat[p].value = f.value

\* The credentials of every peer are those of its list: what it sends to a peer that
\* asks passes the check there (sanctions_list_make_creds, sanctions_apply_new).
CredsMatch ==
    \A p \in Peer : chat[p].creds.hash = sanctions_list_make_hash(chat[p].sanctions, chat[p].creds.version)

\* The sanctions list of a peer with a valid shared state is never replaced by an older
\* one (sanctions_creds_validate, which does not look at the version otherwise).
CredsForward ==
    [][\A p \in Peer : chat[p].version > 0 => chat'[p].creds.version >= chat[p].creds.version]_vars

\* Nothing is under way and no ping makes anybody ask for the state.
Settled ==
    /\ \A pq \in Pairs : chan[pq] = <<>>
    /\ \A pq \in Pairs : Pings(pq[1], pq[2]) => Flags(pq[1], pq[2]) = {}

\* When everything is quiet, two peers that know one another give every peer they both
\* know the same role (get_sync_flags).
SettledAgree ==
    Settled =>
        \A pq \in Pairs : Pings(pq[1], pq[2]) =>
            \A r \in chat[pq[1]].confirmed \cap chat[pq[2]].confirmed : chat[pq[1]].role[r] = chat[pq[2]].role[r]

\* While the lock is on the founder's topic is signed by a moderator of now, whoever
\* was removed from the list and however: a peer that joins can check it
\* (update_gc_topic, gc_founder_set_topic_lock).
FounderTopicSigned ==
    LET f == chat[Founder]
    IN  f.lock = GC_TOPIC_LOCK_ENABLED => mod_list_verify_sig_pk(f, f.topic.setter)

\* A conflict of roles voids the shared state "in order to force a sync update"
\* (update_gc_peer_roles): in the end every peer has a valid one again.
StateRestored == <>[](\A p \in Peer : chat[p].version > 0)
=============================================================================
