------------------------------- MODULE Calls -------------------------------
(***************************************************************************)
(* Calls between two friends: the signalling of toxav/msi.c and the call   *)
(* objects of toxav/toxav.c, each with a pointer to the other.             *)
(*                                                                         *)
(* Packets of a friend arrive in order; those under way are lost with the  *)
(* connection.  Handlers and API functions run on one thread (toxav.h,     *)
(* "Threading implications"); the thread of toxav_iterate is in CallLocks. *)
(***************************************************************************)
EXTENDS Integers, Sequences, FiniteSets

CONSTANTS
    Friend,         \* the two
    Media,          \* {"audio"} or {"audio", "video"}
    Bounds          \* what happens; a record of the set is chosen at the start:
                    \*   ops: calls of the API    drops: connections lost
                    \*   clients: the callbacks a client may have registered, subsets of Callbacks

VARIABLES
    bound,          \* the chosen member of Bounds
    client,         \* client[p]: the callbacks of p
    msi,            \* msi[p]: the MSICall of p, if any
    av,             \* av[p]: the ToxAVCall of p, if any
    chan,           \* chan[p]: packets from p to the other
    conn,           \* whether the two are connected
    online,         \* online[p]: whether p knows it is connected
    crossed,        \* whether somebody called or hung up when packets of an ended call, or a
                    \* call not yet seen, were under way
    done            \* how much of the bound is used up

vars == <<bound, client, msi, av, chan, conn, online, crossed, done>>

Callbacks == {"call", "state", "frames"}

Other(p) == CHOOSE q \in Friend : q # p
S(m) == <<"send", m>>
R(m) == <<"receive", m>>
Cap == {"send", "receive"} \X Media

\* No object.  msi_call and av_call are the pointers between the two: NULL, valid, or to
\* an object that was freed.
NoMsi == [state |-> "none", self |-> {}, peer |-> {}, av_call |-> "null"]
NoAv == [there |-> FALSE, active |-> FALSE, prev |-> {}, rate |-> {}, msi_call |-> "null"]

Init ==
    /\ bound \in Bounds
    /\ client \in [Friend -> bound.clients]
    /\ msi = [p \in Friend |-> NoMsi]
    /\ av = [p \in Friend |-> NoAv]
    /\ chan = [p \in Friend |-> <<>>]
    /\ conn = TRUE
    /\ online = [p \in Friend |-> TRUE]
    /\ crossed = FALSE
    /\ done = [ops |-> 0, drops |-> 0]
-----------------------------------------------------------------------------
(* A result is the two objects of a friend and the packets that it sends. *)

Result(m, a, packets) == [msi |-> m, av |-> a, sent |-> packets]

Init_(caps) == [request |-> "init", caps |-> caps]
Push(caps) == [request |-> "push", caps |-> caps]
Pop(error) == [request |-> "pop", error |-> error]

\* kill_call: the ToxAVCall is not told.
kill_call(r) ==
    Result(NoMsi, IF r.av.msi_call = "valid" THEN [r.av EXCEPT !.msi_call = "freed"] ELSE r.av, r.sent)

\* call_remove, with call_kill_transmission before it.
call_remove(r) ==
    Result(IF r.av.msi_call = "valid" THEN [r.msi EXCEPT !.av_call = "null"] ELSE r.msi, NoAv, r.sent)

\* callback_end, callback_error: the client is told and the ToxAVCall goes.
callback_end(r) == IF r.msi.av_call = "valid" THEN call_remove(r) ELSE r

\* send_error and kill_call at the end of a handler that failed.
Fail(r) == kill_call([r EXCEPT !.sent = Append(@, Pop(TRUE))])

\* call_prepare_transmission
CanPrepare(p) == "frames" \in client[p]

\* callback_start, and the answer of the handler when it succeeds: a failure
\* removes the ToxAVCall.
callback_start(p, r, answer) ==
    CASE ~r.av.there -> Fail(r)
      [] ~CanPrepare(p) -> Fail(callback_end(r))
      [] "state" \notin client[p] -> Fail(callback_end([r EXCEPT !.av.active = TRUE]))
      [] OTHER -> [r EXCEPT !.av.active = TRUE, !.sent = @ \o answer]

\* callback_invite: there may be a ToxAVCall already.
callback_invite(p, r) ==
    IF r.av.there \/ ~online[p] THEN Fail(r)
    ELSE LET linked == [r EXCEPT !.av = [NoAv EXCEPT !.there = TRUE, !.msi_call = "valid"], !.msi.av_call = "valid"]
         IN  IF "call" \in client[p] THEN linked ELSE Fail(linked)
-----------------------------------------------------------------------------
(* Packets *)

handle_init(p, r, caps) ==
    LET taken == [r EXCEPT !.msi.peer = caps]
        answer == <<Push(r.msi.self)>>
    IN  CASE r.msi.state = "none" -> callback_invite(p, [taken EXCEPT !.msi.state = "requested"])
          [] r.msi.state = "requesting" -> callback_start(p, [taken EXCEPT !.msi.state = "active"], answer)
          [] r.msi.state = "active" -> [r EXCEPT !.sent = @ \o answer]
          [] r.msi.state = "requested" -> Fail(r)

handle_push(p, r, caps) ==
    LET taken == [r EXCEPT !.msi.peer = caps, !.msi.state = "active"]
    IN  CASE r.msi.state = "requesting" -> callback_start(p, taken, <<>>)
          [] r.msi.state = "active" -> taken              \* callback_capabilites does not fail
          [] OTHER -> r

\* Mutant: a call that rings is not ended.
handle_pop_Active(r) == IF r.msi.state # "active" THEN r ELSE kill_call(callback_end(r))

handle_pop(r) == IF r.msi.state = "none" THEN r ELSE kill_call(callback_end(r))

\* m_msi_packet: what is sent while the friend is offline is lost.
Send(p, packets) == IF conn THEN [chan EXCEPT ![p] = @ \o packets] ELSE chan

\* handle_msi_packet
Receive(p) ==
    LET q == Other(p)
        m == Head(chan[q])
        r == Result(msi[p], av[p], <<>>)
    IN  /\ chan[q] # <<>>
        /\ \E x \in {CASE m.request = "init" -> handle_init(p, r, m.caps)
                       [] m.request = "push" -> handle_push(p, r, m.caps)
                       [] m.request = "pop" -> handle_pop(r)} :
            /\ msi' = [msi EXCEPT ![p] = x.msi]
            /\ av' = [av EXCEPT ![p] = x.av]
            /\ chan' = [chan EXCEPT ![p] = @ \o x.sent, ![q] = Tail(@)]
        /\ UNCHANGED <<bound, client, conn, online, crossed, done>>
-----------------------------------------------------------------------------
(* The API *)

BecomesWhen(p, r, crosses) ==
    /\ done.ops < bound.ops
    /\ done' = [done EXCEPT !.ops = @ + 1]
    /\ msi' = [msi EXCEPT ![p] = r.msi]
    /\ av' = [av EXCEPT ![p] = r.av]
    /\ chan' = Send(p, r.sent)
    /\ crossed' = (crossed \/ crosses)
    /\ UNCHANGED <<bound, client, conn, online>>

Becomes(p, r) == BecomesWhen(p, r, FALSE)

Requests(q) == {chan[q][i].request : i \in DOMAIN chan[q]}

\* What is received, and what is sent of the media with a bit rate.
Capabilities(rate) == {R(m) : m \in Media} \cup {S(m) : m \in rate}

\* toxav_call, msi_invite
Call(p, rate) ==
    /\ online[p]
    /\ ~av[p].there
    /\ msi[p] = NoMsi
    /\ BecomesWhen(p, Result([NoMsi EXCEPT !.state = "requesting", !.self = Capabilities(rate), !.av_call = "valid"],
                             [NoAv EXCEPT !.there = TRUE, !.prev = Capabilities(rate), !.rate = rate, !.msi_call = "valid"],
                             <<Init_(Capabilities(rate))>>),
                   \E q \in Friend : Requests(q) \ {"init"} # {})

\* toxav_answer, msi_answer: the transmission is prepared whatever the state is.
Answer(p, rate) ==
    LET caps == Capabilities(rate)
        prepared == [av[p] EXCEPT !.active = TRUE, !.rate = rate, !.prev = caps]
    IN  /\ av[p].there
        /\ CanPrepare(p)
        /\ av[p].msi_call = "valid"
        /\ Becomes(p, IF msi[p].state = "requested"
                      THEN Result([msi[p] EXCEPT !.state = "active", !.self = caps], prepared, <<Push(caps)>>)
                      ELSE Result(msi[p], prepared, <<>>))

\* TOXAV_CALL_CONTROL_CANCEL, msi_hangup
Cancel(p) ==
    /\ av[p].there
    /\ av[p].msi_call = "valid"
    /\ BecomesWhen(p, Result(NoMsi, NoAv, <<Pop(FALSE)>>), "init" \in Requests(Other(p)))

\* msi_change_capabilities
Change(p, a, caps) ==
    IF msi[p].state = "active" THEN Result([msi[p] EXCEPT !.self = caps], a, <<Push(caps)>>)
    ELSE Result(msi[p], a, <<>>)

Controls(p) == av[p].active /\ av[p].msi_call = "valid"

\* TOXAV_CALL_CONTROL_PAUSE, ..._RESUME, ..._MUTE_AUDIO and ..._HIDE_VIDEO,
\* ..._UNMUTE_AUDIO and ..._SHOW_VIDEO
Pause(p) ==
    /\ Controls(p)
    /\ msi[p].self # {}
    /\ Becomes(p, Change(p, [av[p] EXCEPT !.prev = msi[p].self], {}))

Resume(p) ==
    /\ Controls(p)
    /\ msi[p].self = {} /\ av[p].prev # {}
    /\ Becomes(p, Change(p, av[p], av[p].prev))

Mute(p, m) ==
    /\ Controls(p)
    /\ R(m) \in msi[p].self
    /\ Becomes(p, Change(p, av[p], msi[p].self \ {R(m)}))

Unmute(p, m) ==
    /\ Controls(p)
    /\ msi[p].self # {R(m)}
    /\ Becomes(p, Change(p, av[p], msi[p].self \cup {R(m)}))

\* toxav_audio_set_bit_rate, toxav_video_set_bit_rate: on, and off with an exclusive or.
SetBitRate(p, m) ==
    LET self == msi[p].self
        on == m \notin av[p].rate
    IN  /\ Controls(p)
        /\ msi[p].state = "active"
        /\ Becomes(p, IF on THEN Change(p, [av[p] EXCEPT !.rate = @ \cup {m}], self \cup {S(m)})
                      ELSE Change(p, [av[p] EXCEPT !.rate = @ \ {m}],
                                  IF S(m) \in self THEN self \ {S(m)} ELSE self \cup {S(m)}))

\* check_peer_offline_status, in toxav_iterate: of calls that are active only.
Iterate(p) ==
    /\ Controls(p)
    /\ ~online[p]
    /\ \E r \in {kill_call(callback_end(Result(msi[p], av[p], <<>>)))} :
        /\ msi' = [msi EXCEPT ![p] = r.msi]
        /\ av' = [av EXCEPT ![p] = r.av]
    /\ UNCHANGED <<bound, client, chan, conn, online, crossed, done>>
-----------------------------------------------------------------------------
(* The connection: both sides know that it is lost before there is another. *)

Lose ==
    /\ conn
    /\ done.drops < bound.drops
    /\ done' = [done EXCEPT !.drops = @ + 1]
    /\ conn' = FALSE
    /\ chan' = [p \in Friend |-> <<>>]
    /\ UNCHANGED <<bound, client, msi, av, online, crossed>>

Notice(p) ==
    /\ ~conn /\ online[p]
    /\ online' = [online EXCEPT ![p] = FALSE]
    /\ UNCHANGED <<bound, client, msi, av, chan, conn, crossed, done>>

Reconnect ==
    /\ ~conn /\ \A p \in Friend : ~online[p]
    /\ conn' = TRUE
    /\ online' = [p \in Friend |-> TRUE]
    /\ UNCHANGED <<bound, client, msi, av, chan, crossed, done>>

Next ==
    \/ \E p \in Friend :
        \/ Receive(p)
        \/ \E rate \in SUBSET Media : Call(p, rate) \/ Answer(p, rate)
        \/ Cancel(p)
        \/ Pause(p)
        \/ Resume(p)
        \/ \E m \in Media : Mute(p, m) \/ Unmute(p, m) \/ SetBitRate(p, m)
        \/ Iterate(p)
        \/ Notice(p)
    \/ Lose
    \/ Reconnect

Spec == Init /\ [][Next]_vars
-----------------------------------------------------------------------------
(* Properties *)

\* The type of the state.
TypeOK ==
    \A p \in Friend :
        /\ msi[p].state \in {"none", "requesting", "requested", "active"}
        /\ msi[p].self \subseteq Cap /\ msi[p].peer \subseteq Cap
        /\ av[p].active => av[p].there

\* A call that signalling takes for active has its transmission: callback_capabilites
\* uses the RTP sessions of the ToxAVCall without looking, whatever callbacks the client
\* has and however calls and losses of the connection cross.
ActiveTransmits == \A p \in Friend : msi[p].state = "active" => msi[p].av_call = "valid" /\ av[p].active

\* MSI_ON_ERROR is called "On protocol error" (msi.h): the client never keeps a call
\* that signalling has ended.
AvMatchesMsi == \A p \in Friend : av[p].there <=> (msi[p] # NoMsi /\ av[p].msi_call = "valid" /\ msi[p].av_call = "valid")

Quiet == conn /\ \A p \in Friend : chan[p] = <<>> /\ online[p]

\* While the connection holds, and until somebody calls when the end of another call is
\* under way or hangs up when a call of the friend is, both sides agree: once nothing is under
\* way both are in the call or neither is, one of them ringing before the answer, whatever
\* callbacks the clients have, also if both called at once (handle_init in state "requesting"
\* answers for both) or an answer, an end and a change of media cross; and with all callbacks
\* both objects of a call are always there together (handle_init, handle_push, handle_pop
\* against toxav_call, toxav_answer and toxav_call_control).
SidesAgree ==
    ~crossed /\ done.drops = 0 =>
        /\ (\A p \in Friend : client[p] = Callbacks) => AvMatchesMsi
        /\ Quiet => {msi[p].state : p \in Friend} \in {{"none"}, {"active"}, {"requesting", "requested"}}

\* And what one side is known to send and receive is what it announced last
\* (msi_change_capabilities, handle_push).
CapabilitiesAgree ==
    ~crossed /\ done.drops = 0 /\ Quiet =>
        \A p \in Friend : msi[p].state = "active" => msi[p].peer = msi[Other(p)].self
=============================================================================
