----------------------------- MODULE GroupAudio -----------------------------
(***************************************************************************)
(* The queue of the audio packets of a conference peer (toxav/groupav.c).  *)
(*                                                                         *)
(* Packet k has sequence number k modulo U16.  Differences of numbers are  *)
(* computed as int and compared as uint32_t.  A packet can be decoded or   *)
(* cannot; a decoder can be made, and conceals a lost packet once it has   *)
(* decoded one.                                                            *)
(***************************************************************************)
EXTENDS Integers, Sequences, FiniteSetsExt, SequencesExt

CONSTANTS
    capacity,       \* GROUP_JBUF_SIZE
    U16,            \* 2^16 in the program
    None,
    Bounds          \* what happens; a record of the set is chosen at the start:
                    \*   first, last: the packets    fresh: the peer is new, else packets
                    \*   0 to first - 1 were played    bad: the packets that cannot be decoded
                    \*   burst: packets lost in succession
                    \*   late: how far a late packet is behind
                    \*   pauses: silences of GROUP_JBUF_DEAD_SECONDS

VARIABLES
    bound,          \* the chosen member of Bounds
    q,              \* the queue: its packets by index, bottom and top
    dead,           \* the last packet was queued GROUP_JBUF_DEAD_SECONDS ago, or none was:
                    \* the packets refused since; None otherwise
    decoder,        \* whether a packet was decoded
    next,           \* the first packet after all that arrived
    late,           \* packets that were overtaken
    pauses,
    played,         \* the packets played
    refused,        \* the packets not queued
    clash           \* whether a packet ever went to the place of an earlier one that was
                    \* still waited for

vars == <<bound, q, dead, decoder, next, late, pauses, played, refused, clash>>

sequnum(k) == k % U16

\* create_queue: the power of two above the capacity.
size == CHOOSE n \in 1 .. 2 * capacity : n > capacity /\ \E e \in 0 .. capacity : n = 2 ^ e

\* (uint32_t)(a - b) > n
Beyond(a, b, n) == a - b < 0 \/ a - b > n

\* The packets of [bottom, top), as numbers.
Span(x) == {(x.bottom + i) % U16 : i \in 0 .. ((x.top - x.bottom) % U16) - 1}

\* create_queue, or the queue after packets 0 to first - 1.
Init ==
    /\ bound \in Bounds
    /\ \E start \in {IF bound.fresh THEN 0 ELSE sequnum(bound.first)} :
        q = [queue |-> [i \in 0 .. size - 1 |-> None], bottom |-> start, top |-> start]
    /\ dead = IF bound.fresh THEN 0 ELSE None
    /\ decoder = ~bound.fresh
    /\ next = bound.first
    /\ late = {}
    /\ pauses = 0
    /\ played = <<>>
    /\ refused = {}
    /\ clash = FALSE

clear_queue(x) ==
    [x EXCEPT !.queue = [i \in DOMAIN @ |-> IF i \in {n % size : n \in Span(x)} THEN None ELSE @[i]], !.bottom = x.top]

Put(x, k) == [x EXCEPT !.queue[sequnum(k) % size] = k]

\* "Drop old packet."
Old(x, k) == dead = None /\ Beyond(sequnum(k), x.bottom, U16 \div 2)

\* Mutant: the top follows the last packet.
Top_Last(x, k) == sequnum(k + 1)

Top(x, k) == IF sequnum(k) - x.bottom >= x.top - x.bottom THEN sequnum(k + 1) ELSE x.top

\* queue: the queue after it, None if the packet is refused.
queue(x, k) ==
    CASE Old(x, k) -> None
      [] ~Old(x, k) /\ Beyond(sequnum(k), x.bottom, size) ->
            [Put(clear_queue(x), k) EXCEPT !.bottom = (sequnum(k) - capacity) % U16, !.top = sequnum(k + 1)]
      [] ~Old(x, k) /\ ~Beyond(sequnum(k), x.bottom, size) ->
            IF x.queue[sequnum(k) % size] # None THEN None ELSE [Put(x, k) EXCEPT !.top = Top(x, k)]

Group_JitterBuffer == [queue : [0 .. size - 1 -> Nat \cup {None}], bottom : 0 .. U16 - 1, top : 0 .. U16 - 1]

Frames == Seq(Nat)

\* The loop of handle_group_audio_packet: dequeue and decode_audio_packet until there is
\* nothing, a packet cannot be decoded, or one is lost before there is a decoder for it.
Play[x \in Group_JitterBuffer, out \in Frames, decoded \in BOOLEAN] ==
    LET num == x.bottom % size
        up == [x EXCEPT !.queue[num] = None, !.bottom = (@ + 1) % U16]
    IN  CASE x.top = x.bottom -> <<x, out, decoded>>
          [] x.top # x.bottom /\ x.queue[num] # None ->
                IF x.queue[num] \in bound.bad THEN <<up, out, decoded>> ELSE Play[up, Append(out, x.queue[num]), TRUE]
          [] x.top # x.bottom /\ x.queue[num] = None ->
                IF ~Beyond(x.top, x.bottom, capacity) THEN <<x, out, decoded>>
                ELSE IF decoded THEN Play[up, out, decoded] ELSE <<up, out, decoded>>

\* handle_group_audio_packet
Handle(k) ==
    \E x \in {queue(q, k)} :
        /\ IF x = None
           THEN /\ refused' = refused \cup {k}
                /\ dead' = IF dead = None THEN None ELSE dead + 1
                /\ UNCHANGED <<q, decoder, played>>
           ELSE /\ \E r \in {Play[x, <<>>, decoder]} : q' = r[1] /\ played' = played \o r[2] /\ decoder' = r[3]
                /\ dead' = None
                /\ UNCHANGED refused
        /\ clash' = (clash \/ (x # None /\ sequnum(k) = q.bottom + size))
        /\ UNCHANGED <<bound, pauses>>

Arrive(k) ==
    /\ k \in next .. bound.last
    /\ k - next <= bound.burst
    /\ next' = k + 1
    /\ late' = {j \in late \cup (next .. k - 1) : j >= k - bound.late}
    /\ Handle(k)

ArriveLate(k) ==
    /\ k \in late
    /\ late' = late \ {k}
    /\ UNCHANGED next
    /\ Handle(k)

Pause ==
    /\ pauses < bound.pauses
    /\ pauses' = pauses + 1
    /\ dead' = 0
    /\ late' = {}
    /\ UNCHANGED <<bound, q, decoder, next, played, refused, clash>>

Next == (\E k \in 0 .. bound.last : Arrive(k) \/ ArriveLate(k)) \/ Pause

Spec == Init /\ [][Next]_vars
-----------------------------------------------------------------------------
(* Properties *)

Rollover == bound.last >= U16 - 1

\* Packets are played in the order of their numbers and once each, whatever is lost and
\* late, unless a packet is exactly as many ahead as the queue has places and goes to the
\* place of the one that is waited for (queue compares with > size), and unless numbers
\* start again from zero.
PlayedInOrder == ~Rollover /\ ~clash => \A i \in 1 .. Len(played) - 1 : played[i] < played[i + 1]

\* Every packet in the queue is one of those between bottom and top, at its place: none is
\* left behind that nobody will play or free (queue, clear_queue and dequeue).
QueueWithin ==
    (Rollover => bound.late = 0) /\ ~clash =>
        \A i \in DOMAIN q.queue : q.queue[i] # None => sequnum(q.queue[i]) \in Span(q) /\ sequnum(q.queue[i]) % size = i

\* As long as nothing is lost or late every packet that can be decoded is played, also where
\* numbers start again from zero: at once, or as many packets later as the first of a new
\* peer seems to be ahead, but no more than the capacity.
AllPlayed ==
    LET sent == [i \in 1 .. next - bound.first |-> bound.first + i - 1]
        good == SelectSeq(sent, LAMBDA k : k \notin bound.bad)
        behind == IF bound.fresh THEN Min({bound.first, capacity}) ELSE 0
    IN  bound.burst = 0 => refused = {} /\ IsPrefix(played, good) /\ Len(good) - Len(played) <= behind

\* A peer is heard again after GROUP_JBUF_DEAD_SECONDS without a packet, whatever its numbers
\* are now: at most one packet is refused (for the place of one that waits), not half of the
\* numbers.
GoesOnAfterPause == dead # None => dead <= 1
=============================================================================
