------------------------------ MODULE TSBuffer ------------------------------
(***************************************************************************)
(* The timestamp buffer of toxav/ts_buffer.c: a ring of audio or video     *)
(* messages from which the caller takes the one of a time.                 *)
(*                                                                         *)
(* An operation takes a buffer and gives the buffer after it.  `live` is   *)
(* the heap: the messages that nobody freed.  The `type` of an entry and   *)
(* what is only counted for the log are left out.                          *)
(***************************************************************************)
EXTENDS Integers, SequencesExt

CONSTANTS
    Capacity,       \* of the buffer
    UINT32_MAX,     \* of a timestamp, in the unit of the instance
    NULL

\* One element stays empty.
Size == Capacity + 1
Index == 0 .. Size - 1

Buffer(start, end, data, timestamp, last, live, ok) ==
    [start |-> start, end |-> end, data |-> data, timestamp |-> timestamp,
     last_timestamp_out |-> last, live |-> live, ok |-> ok]

tsb_new == Buffer(0, 0, [i \in Index |-> NULL], [i \in Index |-> 0], 0, {}, TRUE)

tsb_full(b) == (b.end + 1) % Size = b.start
tsb_empty(b) == b.end = b.start
tsb_size(b) == (b.end - b.start) % Size

\* free: `ok` notes that only what is allocated was ever freed.
Freed(b, p) == [b EXCEPT !.live = @ \ {p}, !.ok = @ /\ (p = NULL \/ p \in b.live)]

\* The entries, from the first on.
Element(b, i) == (b.start + i) % Size
Elements(b) == {Element(b, i) : i \in 0 .. tsb_size(b) - 1}
Stored(b) == {b.data[i] : i \in Elements(b)}

\* tsb_write, of a message just allocated, and its callers, which free what it returns:
\* if the buffer is full the first entry gives way, and its pointer stays where it was.
tsb_write(b, p, timestamp) ==
    LET room == IF tsb_full(b) THEN Freed([b EXCEPT !.start = (@ + 1) % Size], b.data[b.start]) ELSE b
    IN  [room EXCEPT !.data[b.end] = p, !.timestamp[b.end] = timestamp, !.end = (@ + 1) % Size, !.live = @ \cup {p}]

Put(b, i, p, timestamp) == [b EXCEPT !.data[i] = p, !.timestamp[i] = timestamp]

tsb_move_delete_entry(b, src, dst) ==
    Put(Put(Freed(b, b.data[dst]), dst, b.data[src], b.timestamp[src]), src, NULL, 0)

\* From the hole back to the start, each entry is moved one up.
tsb_close_hole(b, hole) ==
    FoldLeft(LAMBDA x, i : tsb_move_delete_entry(x, (i - 1) % Size, i),
             b, [k \in 1 .. ((hole - b.start) % Size) + 1 |-> (hole - k + 1) % Size])

Old(b, i, threshold) == b.timestamp[i] < threshold

\* tsb_delete_old_entries: the threshold is unsigned, so a negative one is above every
\* timestamp.
tsb_delete_old_entries(b, threshold) ==
    LET limit == IF threshold < 0 THEN UINT32_MAX + 1 ELSE threshold
        step(x, k) ==
            IF Old(x.b, Element(b, k - 1), limit) THEN [b |-> tsb_close_hole(x.b, Element(b, k - 1)), removed |-> x.removed + 1]
            ELSE x
        all == FoldLeft(step, [b |-> b, removed |-> 0], [k \in 1 .. tsb_size(b) |-> k])
    IN  [all.b EXCEPT !.start = (@ + all.removed) % Size]

\* Mutant: the first in the order of the ring.
Oldest_First(b, S) == CHOOSE i \in S : \A j \in S : (i - b.start) % Size <= (j - b.start) % Size

\* The entries of a time, and the oldest of them.
InRange(b, in, range) == {i \in Elements(b) : b.timestamp[i] >= in - range /\ b.timestamp[i] <= in + 1 /\ b.timestamp[i] < UINT32_MAX}
Oldest(b, S) ==
    LET rank(i) == b.timestamp[i] * Size + ((i - b.start) % Size)
    IN  CHOOSE i \in S : \A j \in S : rank(i) <= rank(j)

\* tsb_return_oldest_entry_in_range: the first entry takes its place.
Taken(b, i) ==
    [Put(Put(b, i, b.data[b.start], b.timestamp[b.start]), b.start, NULL, 0) EXCEPT !.start = (@ + 1) % Size]

\* tsb_read: what is read, NULL if there is nothing, and the buffer after it.
tsb_read(b, in, range) ==
    IF InRange(b, in, range) = {} THEN [p |-> NULL, b |-> b]
    ELSE LET i == Oldest(b, InRange(b, in, range))
         IN  [p |-> b.data[i],
              b |-> [tsb_delete_old_entries(Taken(b, i), in - range) EXCEPT !.last_timestamp_out = b.timestamp[i]]]
=============================================================================
