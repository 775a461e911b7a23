----------------------------- MODULE RtpFrames -----------------------------
(***************************************************************************)
(* Video frames in pieces: rtp_send_data cuts a frame into packets and     *)
(* handle_video_packet puts it together in one of a few slots              *)
(* (toxav/rtp.c).  Packets are lost, doubled and overtake one another.     *)
(*                                                                         *)
(* A frame is its index in what was sent; its data is the set of offsets   *)
(* from which something was copied.                                        *)
(***************************************************************************)
EXTENDS Integers, SequencesExt, FiniteSetsExt

CONSTANTS
    USED_RTP_WORKBUFFER_COUNT,  \* slots
    Piece,          \* what a packet holds
    Lengths,        \* of frames
    U16,            \* 2^16 in the program
    Bounds          \* what happens; a record of the set is chosen at the start:
                    \*   first: the sequence number of the first frame
                    \*   frames: sent    doubles: packets that come twice
                    \*   losses: packets lost
                    \*   ahead: frames under way at once

VARIABLES
    bound,          \* the chosen member of Bounds
    sent,           \* the lengths of the frames sent
    net,            \* packets under way
    doubles, losses,
    slots,          \* work_buffer: the frames that are put together
    handed          \* handed[f]: what was handed to vc_queue_message of frame f

vars == <<bound, sent, net, doubles, losses, slots, handed>>

MaxFrames == Max({b.frames : b \in Bounds})
Frame == 1 .. MaxFrames

sequnum(f) == (bound.first + f - 1) % U16

Init ==
    /\ bound \in Bounds
    /\ sent = <<>>
    /\ net = {}
    /\ doubles = 0
    /\ losses = 0
    /\ slots = <<>>
    /\ handed = [f \in Frame |-> <<>>]

\* The packets of a frame: full ones and the rest.
Packets(f, length) ==
    {[frame |-> f, offset |-> o, length |-> IF length - o < Piece THEN length - o ELSE Piece] :
        o \in {i \in 0 .. length - 1 : i % Piece = 0}}

\* rtp_send_data
Send(length) ==
    /\ Len(sent) < bound.frames
    /\ \A p \in net : Len(sent) + 1 - p.frame <= bound.ahead
    /\ sent' = Append(sent, length)
    /\ net' = net \cup Packets(Len(sent) + 1, length)
    /\ UNCHANGED <<bound, doubles, losses, slots, handed>>

Lose(p) ==
    /\ p \in net
    /\ losses < bound.losses
    /\ net' = net \ {p}
    /\ losses' = losses + 1
    /\ UNCHANGED <<bound, sent, doubles, slots, handed>>
-----------------------------------------------------------------------------
(* A state of the receiver is its slots and what it handed over. *)

State(s, h) == [slots |-> s, handed |-> h]

full_frame_length(p) == sent[p.frame]

\* process_frame, and the callback that takes the frame.
process_frame(r, i) ==
    LET m == r.slots[i]
    IN  State(RemoveAt(r.slots, i), [r.handed EXCEPT ![m.frame] = Append(@, [received |-> m.received, offsets |-> m.offsets])])

\* get_slot: the slot of the frame, or a new one after the others.
get_slot(p, s) ==
    LET same == {i \in DOMAIN s : s[i].frame = p.frame}
    IN  IF full_frame_length(p) # p.length /\ same # {} THEN Min(same) ELSE Len(s) + 1

fill_data_into_slot(p, r, i) ==
    IF i > Len(r.slots) THEN State(Append(r.slots, [frame |-> p.frame, received |-> p.length, offsets |-> {p.offset}]), r.handed)
    ELSE State([r.slots EXCEPT ![i].received = @ + p.length, ![i].offsets = @ \cup {p.offset}], r.handed)

\* Mutant: a frame that is two frames older is given up.
Complete_Hasty(r, i) ==
    IF i > 1 /\ sequnum(r.slots[1].frame) + 1 < sequnum(r.slots[i].frame) THEN process_frame(process_frame(r, i), 1)
    ELSE process_frame(r, i)

\* The frame in slot i is complete; one that is three frames older, in the first slot,
\* is given up as well.
Complete(r, i) ==
    IF i > 1 /\ sequnum(r.slots[1].frame) + 2 < sequnum(r.slots[i].frame) THEN process_frame(process_frame(r, i), 1)
    ELSE process_frame(r, i)

\* The packet goes to slot i.
Filled(p, r, i) ==
    IF r.slots[i].received = full_frame_length(p) THEN Complete(r, i) ELSE r

\* If no slot is free the frame in the first one is handed over as it is.
MakeRoom(p, r) ==
    IF get_slot(p, r.slots) > USED_RTP_WORKBUFFER_COUNT THEN process_frame(r, 1) ELSE r

Placed(p, r) == Filled(p, fill_data_into_slot(p, r, get_slot(p, r.slots)), get_slot(p, r.slots))

handle_video_packet(p) ==
    /\ \E r \in {Placed(p, MakeRoom(p, State(slots, handed)))} : slots' = r.slots /\ handed' = r.handed
    /\ UNCHANGED <<bound, sent, losses>>

Arrive(p) ==
    /\ p \in net
    /\ net' = net \ {p}
    /\ UNCHANGED doubles
    /\ handle_video_packet(p)

\* The packet will come once more.
ArriveDouble(p) ==
    /\ p \in net
    /\ doubles < bound.doubles
    /\ doubles' = doubles + 1
    /\ UNCHANGED net
    /\ handle_video_packet(p)

Next ==
    \/ \E length \in Lengths : Send(length)
    \/ \E p \in net : Lose(p) \/ Arrive(p) \/ ArriveDouble(p)

Spec == Init /\ [][Next]_vars
-----------------------------------------------------------------------------
(* Properties *)

Instances(f) == SelectSeq(slots, LAMBDA s : s.frame = f) \o handed[f]
All(f) == {p.offset : p \in Packets(f, sent[f])}

\* The asserts of process_frame and fill_data_into_slot, and that a frame is put together
\* in one slot only: no slot has the data of a complete frame, no two the same frame.
SlotsSound ==
    /\ Len(slots) <= USED_RTP_WORKBUFFER_COUNT
    /\ \A i, j \in DOMAIN slots : i # j => slots[i].frame # slots[j].frame
    /\ bound.doubles = 0 => \A i \in DOMAIN slots : slots[i].offsets # All(slots[i].frame)

\* No packet goes missing or is in two places: what arrived of a frame is in its slot until
\* the frame is handed over, and none of it is handed over twice (handle_video_packet with
\* eviction).  Packets that come after that are too old: TooOldDropped.
PacketsKept ==
    bound.doubles = 0 /\ bound.losses = 0 =>
        \A f \in 1 .. Len(sent) :
            LET there == {p.offset : p \in Packets(f, sent[f]) \ net}
                parts == Instances(f)
            IN  /\ handed[f] = <<>> => UNION {parts[i].offsets : i \in DOMAIN parts} = there
                /\ \A i, j \in DOMAIN parts : i # j => parts[i].offsets \cap parts[j].offsets = {}

\* "If the data packet is too old return GET_SLOT_RESULT_DROP_INCOMING." (get_slot): a frame
\* that was given up is not begun again with the packets that come late.
TooOldDropped == bound.doubles = 0 => \A f \in 1 .. Len(sent) : Len(Instances(f)) <= 1

\* With packets that overtake one another by up to `ahead` frames and no losses, every
\* frame is handed over whole and once, although slots are few and late frames give way
\* (where numbers start again from zero a frame is taken for an older one).
WholeFrames ==
    /\ bound.doubles = 0 /\ bound.losses = 0
    /\ bound.ahead < USED_RTP_WORKBUFFER_COUNT
    /\ bound.first + bound.frames <= U16
    =>
        \A f \in 1 .. Len(sent) : \A i \in DOMAIN handed[f] : handed[f][i].offsets = All(f)

\* A frame that is handed over with its full length has all its data, if no packet came
\* twice.
FullIsWhole ==
    bound.doubles = 0 =>
        \A f \in 1 .. Len(sent) : \A i \in DOMAIN handed[f] :
            handed[f][i].received = sent[f] => handed[f][i].offsets = All(f)
=============================================================================
