----------------------------- MODULE MediaQueue -----------------------------
(***************************************************************************)
(* Where the frames of a call wait until they are played: the queue and    *)
(* the rules on sequence numbers of toxav/audio.c and toxav/video.c over   *)
(* the buffer of toxav/ts_buffer.c.                                        *)
(*                                                                         *)
(* Frame k has sequence number k modulo U16 and the timestamp k.  Frames   *)
(* are lost and overtake one another.  When a frame is played depends on   *)
(* the clocks and the delays of both sides: any time is asked for.         *)
(***************************************************************************)
EXTENDS TSBuffer, FiniteSets

CONSTANTS
    Streams,        \* subset of {"audio", "video"}
    U16,            \* 2^16 in the program
    Span,           \* AUDIO_CURRENT_TS_SPAN_MS, tsb_range_ms
    Bounds          \* what happens; a record of the set is chosen at the start:
                    \*   first, last: the frames    burst: frames lost in succession
                    \*   late: how far a late frame is behind
                    \*   wants: the times that are asked for
                    \*   waiting: frames that may be in the queue when another arrives

VARIABLES
    bound,          \* the chosen member of Bounds
    stream,
    q,              \* the buffer: ac->j_buf, vc->vbuf_raw
    last,           \* lp_seqnum_new, last_seen_fragment_seqnum
    received_first, \* audio_received_first_frame, video_received_first_frame
    old,            \* count_old_video_frames_seen
    next,           \* the first frame after all that arrived
    late,           \* frames that were overtaken
    newest,         \* the newest frame that was read
    drops,          \* how many in succession were dropped although they were the newest
    taken,          \* the frame that was read last
    fate            \* what became of it: decoded, concealed (freed, with sound made up in its
                    \* place) or dropped

vars == <<bound, stream, q, last, received_first, old, next, late, newest, drops, taken, fate>>

sequnum(k) == k % U16

\* At the start of a call, when the number of the first frame is zero, or in the middle
\* of one.
Init ==
    /\ bound \in Bounds
    /\ stream \in Streams
    /\ q = tsb_new
    /\ last = IF bound.first > 0 THEN sequnum(bound.first - 1) ELSE IF stream = "audio" THEN -1 ELSE 0
    /\ received_first = (bound.first > 0)
    /\ old = 0
    /\ next = bound.first
    /\ late = {}
    /\ newest = bound.first - 1
    /\ drops = 0
    /\ taken = {}
    /\ fate = "none"

\* ac_queue_message and jbuf_write, vc_queue_message.
Queue(k) ==
    /\ tsb_size(q) <= bound.waiting
    /\ q' = tsb_write(q, k, k)
    /\ UNCHANGED <<bound, stream, last, received_first, old, newest, drops, taken, fate>>

Arrive(k) ==
    /\ k \in next .. bound.last
    /\ k - next <= bound.burst
    /\ next' = k + 1
    /\ late' = {j \in late \cup (next .. k - 1) : j >= k - bound.late}
    /\ Queue(k)

ArriveLate(k) ==
    /\ k \in late
    /\ late' = late \ {k}
    /\ UNCHANGED next
    /\ Queue(k)
-----------------------------------------------------------------------------
(* The rules on sequence numbers: what becomes of a message that was read. *)

\* In jbuf_read.
Dropped(s) == last # -1 /\ s > 5 /\ last < (U16 - 1) - 5 /\ s <= last

\* lost_frame: ac_iterate frees the first frame after a gap and lets the decoder conceal it.
AfterGap(s) == last # -1 /\ s > 8 /\ last < (U16 - 1) - 7 /\ s - last > 1

Uses(k, how) == drops' = 0 /\ fate' = how
Drops(k) == drops' = (IF k > newest THEN drops + 1 ELSE drops) /\ fate' = "dropped"

ReadAudio(k) ==
    /\ IF Dropped(sequnum(k)) THEN Drops(k) /\ UNCHANGED last
       ELSE Uses(k, IF AfterGap(sequnum(k)) THEN "concealed" ELSE "decoded") /\ last' = sequnum(k)
    /\ UNCHANGED old

\* In vc_iterate: after seven old frames in a row the number is taken over.
ReadVideo(k) ==
    IF sequnum(k) < last
    THEN /\ Drops(k)
         /\ IF old + 1 > 6 THEN last' = sequnum(k) /\ old' = 0
            ELSE old' = old + 1 /\ UNCHANGED last
    ELSE Uses(k, "decoded") /\ last' = sequnum(k) /\ old' = 0

\* The time that is asked for: everything as long as the streams are not in step.
Wants == {<<UINT32_MAX, UINT32_MAX>>} \cup (IF received_first THEN bound.wants \X {Span} ELSE {})

\* jbuf_read with ac_iterate, vc_iterate: the message is freed once it is decoded, concealed or
\* dropped.
Read(in, range) ==
    \E r \in {tsb_read(q, in, range)} :
        /\ r.p # NULL
        /\ q' = Freed(r.b, r.p)
        /\ taken' = {r.p}
        /\ received_first' = TRUE
        /\ newest' = IF r.p > newest THEN r.p ELSE newest
        /\ IF stream = "audio" THEN ReadAudio(r.p) ELSE ReadVideo(r.p)
        /\ UNCHANGED <<bound, stream, next, late>>

Next ==
    \/ \E k \in bound.first .. bound.last : Arrive(k) \/ ArriveLate(k)
    \/ \E w \in Wants : Read(w[1], w[2])

Spec == Init /\ [][Next]_vars
-----------------------------------------------------------------------------
(* Properties *)

\* The buffer holds every message that is allocated, once, and nothing else; nothing was
\* freed twice: the pointers that tsb_write and tsb_close_hole leave outside of the
\* entries are never used.
OwnedOnce ==
    /\ q.ok
    /\ Stored(q) = q.live
    /\ Cardinality(Elements(q)) = Cardinality(q.live)

\* The ring is the buffer that its callers rely on: a read takes the oldest message of
\* the time asked for, whatever the order of the entries is by then, and throws away what
\* is older and nothing else (tsb_read, "only delete old entries if we found a wanted
\* entry").
J == INSTANCE JitterBuffer WITH
        held <- Stored(q), TimestampOf <- LAMBDA f : f,
        Frames <- UNION {x.first .. x.last : x \in Bounds},
        Wants <- {<<UINT32_MAX, UINT32_MAX>>} \cup (UNION {x.wants : x \in Bounds}) \X {Span}
ImplementsJitterBuffer == J!Spec

\* A frame of the audio stream that is newer than all before is never taken for a late
\* one, also where numbers start again from zero, unless twelve frames in succession were not
\* read, a late one among them counted (jbuf_read; nothing makes the stream go on if it
\* happens); and it is decoded if it follows the one that was read before it, so that a gap
\* costs one frame more and not two (ac_iterate).
AudioNewerUsed ==
    [][\A k \in taken' : stream = "audio" /\ drops = 0 =>
            /\ k - newest \in 1 .. 12 - bound.late => drops' = 0
            /\ k - 1 = newest /\ newest \in taken => fate' = "decoded"]_vars

\* In the video stream at most seven newer frames in succession are taken for late ones:
\* "if we see more than 6 old video frames in a row, then either there was a seqnum
\* rollover or something else. just play those frames then" (vc_iterate).
VideoResumes == stream = "video" => drops <= 7
=============================================================================
