------------------------------ MODULE MCGroups ------------------------------
(***************************************************************************)
(* Instances of the group modules for TLC.  One run covers the modules:    *)
(* the initial state chooses the one that moves, the variables of the      *)
(* others stay as they are.                                                *)
(***************************************************************************)
EXTENDS GroupLossless, TLC

CONSTANTS a, b, Peer, Closer, None, Members, MOD_MAX_NUM_MODERATORS, MOD_MAX_NUM_SANCTIONS,
          Parts,        \* the modules that move
          Cases         \* the instances of GroupModeration

VARIABLES part, bound, gconn, out, early, wire, keys, deletes, rotations, wrote, handled, rewound,
          case, chat, chan, done

handshakeVars == <<bound, gconn, out, early, wire, keys, deletes, rotations, wrote, handled, rewound>>
moderationVars == <<case, chat, chan, done>>

HandshakeBound(keys_, learns, deletes_, data, rotations_, wire_) ==
    [keys |-> keys_, learns |-> learns, deletes |-> deletes_, data |-> (a :> data @@ b :> 0),
     ids |-> 3, rotations |-> rotations_, wire |-> wire_]

\* Both peers ask for the connection and one is given up and comes back; one asks, is
\* given up and comes back, with packets that overtake one another; a key rotation; an
\* exchange of peer infos.
HandshakeBounds ==
    LET asks == <<b, FALSE, "invite">>
    IN  {HandshakeBound(3, {<<a, TRUE, "invite">>, asks}, 1, 1, 0, 2),
         HandshakeBound(3, {asks}, 1, 2, 0, 2),
         HandshakeBound(4, {asks}, 0, 1, 1, 2),
         HandshakeBound(4, {asks}, 0, 2, 1, 1),
         HandshakeBound(2, {<<b, FALSE, "exchange">>}, 0, 0, 0, 2)}

H == INSTANCE GroupHandshake WITH Bounds <- HandshakeBounds

\* One moderator and no other activity, unless said otherwise.
Quiet(roles) ==
    [roles |-> roles, states |-> 0, topics |-> 0, locks |-> 0, drops |-> 0, mods |-> <<2>>, sanctions |-> <<>>, joiner |-> {},
     order |-> 1, syncs |-> 1, endless |-> FALSE]
Sanction(target, setter) == [target |-> target, setter |-> setter]

\* Two changes of roles that cross; a connection lost; a peer that joins; lists that
\* are full and name peers that are offline; topics and the topic lock; pings
\* without end.
ModerationBound(name) ==
    CASE name = "crossing" -> Quiet(2)
      [] name = "checksums" -> [Quiet(2) EXCEPT !.order = -1]
      [] name = "loss" -> [Quiet(1) EXCEPT !.drops = 1, !.syncs = 0]
      [] name = "join" -> [Quiet(1) EXCEPT !.joiner = {3}, !.syncs = 0]
      [] name = "full" -> [Quiet(1) EXCEPT !.states = 1, !.mods = <<2, 4>>, !.sanctions = <<Sanction(5, 2), Sanction(6, 1)>>]
      [] name = "topics" -> [Quiet(1) EXCEPT !.topics = 2, !.syncs = 0]
      [] name = "locks" -> [Quiet(1) EXCEPT !.topics = 1, !.locks = 2, !.syncs = 0]
      [] name = "pings" -> [Quiet(1) EXCEPT !.endless = TRUE]
      [] name = "conflict" -> [Quiet(2) EXCEPT !.endless = TRUE]
ModerationBounds == {ModerationBound(name) : name \in Cases}

M == INSTANCE GroupModeration WITH Peer <- Members, Bounds <- ModerationBounds, bound <- case

MCInit ==
    /\ part \in Parts
    /\ Init
    /\ H!Init
    /\ M!Init
    /\ part # "handshake" => bound = CHOOSE x \in HandshakeBounds : TRUE
    /\ part # "moderation" => case = CHOOSE x \in ModerationBounds : TRUE

MCNext ==
    /\ \/ part = "lossless" /\ Next /\ UNCHANGED <<handshakeVars, moderationVars>>
       \/ part = "handshake" /\ H!Next /\ UNCHANGED <<vars, moderationVars>>
       \/ part = "moderation" /\ M!Next /\ UNCHANGED <<vars, handshakeVars>>
    /\ UNCHANGED part

MCSpec == MCInit /\ [][MCNext]_<<part, vars, handshakeVars, moderationVars>>
MCFairSpec == MCSpec /\ M!Fairness

\* A packet that can no longer change anything is left out of the view: an
\* acknowledgement of what is not in the send array, a packet the receiver has had
\* and the sender no longer keeps.
Effective ==
    {m \in net :
        IF m.kind = "ack" THEN ~pending_delete /\ m.id # 0 /\ send_array[gcc_get_array_index(m.id)].id = m.id
        ELSE \/ m.entry.id > received_message_id
             \/ m.entry.id # 0 /\ ~pending_delete /\ send_array[gcc_get_array_index(m.entry.id)].id = m.entry.id}
StateView == <<part, senderVars, receiverVars, Effective, handshakeVars, moderationVars>>

\* The properties are stated in the modules, those of lossless packets in GroupLossless; here
\* one definition joins those of a part.


\* A peer that waits for the answer of a key rotation can still read it: handle_gc_key_exchange
\* sends it with the old key.  It does not say that a copy sent again has the new one.
AnswerReadable == H!AnswerReadable

\* The ids of a connection start again only where no packet waits for its acknowledgement.
NewConnectionOnly == H!NewConnectionOnly

\* The lists of the founder and of moderators carry the credentials that belong to them, and
\* once all is quiet all peers agree on roles and on the lists they come from, the founder's
\* topic being one that peers accept: group_moderation.c, group_chats.c.  (Topics are not
\* compared, and a founder and a moderator that contradict one another never come to rest:
\* StateRestored.)
RolesAgree == part = "moderation" => M!TypeOK /\ M!FounderInSync /\ M!CredsMatch /\ M!SettledAgree /\ M!FounderTopicSigned

\* A peer never goes back to older credentials of the sanctions list
\* (sanctions_creds_validate).
CredsForward == M!CredsForward

\* Peers whose lists contradict each other agree again in the end.
StateRestored == M!StateRestored
=============================================================================
