---------------------------- MODULE JitterBuffer ----------------------------
(***************************************************************************)
(* What a caller of toxav/ts_buffer.c relies on: a buffer from which the   *)
(* oldest message of a time is taken and what is older than that time is   *)
(* thrown away.  A message that is written to a full buffer takes the      *)
(* place of another.                                                       *)
(***************************************************************************)
EXTENDS Integers, FiniteSets

CONSTANTS
    Frames,         \* the messages
    Capacity,
    Wants,          \* pairs of a time and the span before it
    TimestampOf(_)  \* of a message

VARIABLES
    held,           \* the messages in the buffer
    taken           \* the message that was read last, {} before the first

Init == held = {} /\ taken = {}

Write(f) ==
    /\ IF Cardinality(held) < Capacity THEN held' = held \cup {f}
       ELSE \E g \in held : held' = (held \ {g}) \cup {f}
    /\ UNCHANGED taken

Wanted(in, span) == {f \in held : TimestampOf(f) \in in - span .. in + 1}

Read(in, span) ==
    \E f \in Wanted(in, span) :
        /\ \A g \in Wanted(in, span) : TimestampOf(f) <= TimestampOf(g)
        /\ taken' = {f}
        /\ held' = {g \in held \ {f} : TimestampOf(g) >= in - span}

Next ==
    \/ \E f \in Frames \ held : Write(f)
    \/ \E w \in Wants : Read(w[1], w[2])

Spec == Init /\ [][Next]_<<held, taken>>
=============================================================================
