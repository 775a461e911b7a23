--------------------------- MODULE PacketsArray ---------------------------
(***************************************************************************)
(* The Packets_Array of net_crypto.c: a ring of packet slots addressed by  *)
(* 32-bit packet numbers that wrap.  Each crypto connection has two: the   *)
(* send array (packets the peer has not acknowledged) and the receive      *)
(* array (packets not yet handed to the application).                      *)
(*                                                                         *)
(* An array is a record [buffer, start, end]: buffer maps the slot indexes *)
(* to a packet or Empty (a null pointer), start and end are buffer_start   *)
(* and buffer_end.  The operators return the array the C function leaves   *)
(* behind; the condition under which it returns success is an operator of  *)
(* its own, so that callers can use it as a guard.                         *)
(***************************************************************************)
EXTENDS Integers, FiniteSets

CONSTANTS
    CRYPTO_PACKET_BUFFER_SIZE,  \* slots of an array; 32768 in the code
    U32,                        \* packet numbers are 0 .. U32 - 1; 2^32 in the code
    RunMax,                     \* longest run one byte of a request spans; 255
    Empty                       \* the null pointer in a slot

\* The ring size divides the number space, so slots stay consistent when the
\* numbers wrap, and the number space has room for two windows and more, so a
\* number behind a window cannot be mistaken for one in it.
ASSUME PacketsArrayAssumption ==
    /\ CRYPTO_PACKET_BUFFER_SIZE \in Nat \ {0}
    /\ U32 \in Nat
    /\ RunMax \in Nat \ {0}
    /\ 2 * CRYPTO_PACKET_BUFFER_SIZE < U32
    /\ \E k \in 1 .. U32 : U32 = k * CRYPTO_PACKET_BUFFER_SIZE

Number == 0 .. (U32 - 1)
Slot == 0 .. (CRYPTO_PACKET_BUFFER_SIZE - 1)
SlotOf(n) == n % CRYPTO_PACKET_BUFFER_SIZE

\* uint32_t subtraction, increment and addition of an offset below U32.
Sub(m, n) == IF n <= m THEN m - n ELSE m - n + U32
Plus(n, k) == IF n + k < U32 THEN n + k ELSE n + k - U32
Inc(n) == Plus(n, 1)

ArrayOf(Packet) ==
    [buffer : [Slot -> Packet \union {Empty}], start : Number, end : Number]

EmptyArray == [buffer |-> [s \in Slot |-> Empty], start |-> 0, end |-> 0]

num_packets_array(a) == Sub(a.end, a.start)

\* The numbers from n up to, and not including, m.
Between(n, m) == {i \in Number : Sub(i, n) < Sub(m, n)}

Window(a) == Between(a.start, a.end)
At(a, n) == a.buffer[SlotOf(n)]
Occupied(a) == {n \in Window(a) : At(a, n) # Empty}
Holes(a) == {n \in Window(a) : At(a, n) = Empty}

\* The slots of the numbers in N freed and set to null.
Freed(a, N) ==
    [s \in Slot |-> IF \E n \in N : SlotOf(n) = s THEN Empty ELSE a.buffer[s]]

\* No array ever spans more numbers than it has slots, and no packet is left in
\* a slot outside the window: clear_buffer frees the window only, so such a
\* packet would be leaked and would block its slot.
WellFormed(a) ==
    /\ num_packets_array(a) <= CRYPTO_PACKET_BUFFER_SIZE
    /\ \A s \in Slot : a.buffer[s] # Empty => \E n \in Window(a) : SlotOf(n) = s

----------------------------------------------------------------------------
\* add_data_to_buffer: place a packet anywhere in the window or ahead of it.
CanAdd(a, n) ==
    /\ Sub(n, a.start) < CRYPTO_PACKET_BUFFER_SIZE
    /\ At(a, n) = Empty

add_data_to_buffer(a, n, d) ==
    [a EXCEPT !.buffer[SlotOf(n)] = d,
              !.end = IF Sub(n, a.start) >= num_packets_array(a) THEN Inc(n) ELSE @]

\* Mutant: one packet more than the ring has room for.
CanAppend_OffByOne(a) == num_packets_array(a) <= CRYPTO_PACKET_BUFFER_SIZE

\* add_data_end_of_buffer: the number of the packet is the old buffer_end.
CanAppend(a) == num_packets_array(a) < CRYPTO_PACKET_BUFFER_SIZE

add_data_end_of_buffer(a, d) ==
    [a EXCEPT !.buffer[SlotOf(a.end)] = d, !.end = Inc(@)]

\* get_data_pointer returns 1 exactly for these numbers.
HasData(a, n) ==
    /\ Sub(a.end, n) <= num_packets_array(a)
    /\ Sub(n, a.start) < num_packets_array(a)
    /\ At(a, n) # Empty

\* clear_buffer_until: forget everything before n.
CanClearUntil(a, n) ==
    /\ Sub(a.end, n) < num_packets_array(a)
    /\ Sub(n, a.start) <= num_packets_array(a)

clear_buffer_until(a, n) ==
    [a EXCEPT !.buffer = Freed(a, Between(a.start, n)), !.start = n]

\* Mutant: the window is emptied and its packets are not freed.
clear_buffer_NoFree(a) == [a EXCEPT !.start = a.end]

\* clear_buffer, run when a connection is killed: frees the window only.
clear_buffer(a) == [a EXCEPT !.buffer = Freed(a, Window(a)), !.start = a.end]

\* set_buffer_end leaves the array alone when the number is out of range.
set_buffer_end(a, n) ==
    IF /\ Sub(n, a.start) <= CRYPTO_PACKET_BUFFER_SIZE
       /\ Sub(n, a.end) <= CRYPTO_PACKET_BUFFER_SIZE
    THEN [a EXCEPT !.end = n]
    ELSE a

----------------------------------------------------------------------------
(***************************************************************************)
(* The delivery loop of handle_data_packet_core.  read_data_beg_buffer     *)
(* consumes the packet at buffer_start and returns its number as int64_t;  *)
(* the loop keeps the result in an int and stops when that is -1.  It      *)
(* therefore stops at the first hole, at the end of the window, and after  *)
(* consuming the packet numbered U32 - 1, whose number converts to -1.     *)
(***************************************************************************)
LoopStops(a, k) ==
    \/ k = num_packets_array(a)
    \/ At(a, Plus(a.start, k)) = Empty
    \/ k > 0 /\ Plus(a.start, k - 1) = U32 - 1

\* The loop consumes exactly k packets.
ReadsExactly(a, k) ==
    /\ k \in 0 .. num_packets_array(a)
    /\ LoopStops(a, k)
    /\ \A j \in 0 .. (k - 1) : ~LoopStops(a, j)

read_data_beg_buffer(a, k) ==
    [a EXCEPT !.buffer = Freed(a, Between(a.start, Plus(a.start, k))),
              !.start = Plus(@, k)]

----------------------------------------------------------------------------
(***************************************************************************)
(* What a request packet says of a receive array.  generate_request_packet *)
(* walks the window and writes one byte for each hole and one for each     *)
(* RunMax-th packet in a row that is present, until `room' bytes are used. *)
(* It thereby reports every number up to the last byte written as either   *)
(* requested or received.  RequestCodec.tla has the bytes themselves.      *)
(***************************************************************************)
Offset(a, n) == Sub(n, a.start)

EndsRun(a, n) ==
    /\ At(a, n) # Empty
    /\ \E h \in {Offset(a, m) : m \in Holes(a)} \union {-1} :
        /\ h < Offset(a, n)
        /\ \A m \in Holes(a) : Offset(a, m) < Offset(a, n) => Offset(a, m) <= h
        /\ (Offset(a, n) - h) % RunMax = 0

Written(a, room) ==
    LET marks == Holes(a) \union {n \in Window(a) : EndsRun(a, n)}
        before(n) == {m \in marks : Offset(a, m) < Offset(a, n)}
    IN  {n \in marks : Cardinality(before(n)) < room}

Reported(a, room) ==
    {n \in Window(a) : \E m \in Written(a, room) : Offset(a, n) <= Offset(a, m)}

\* Mutant: what did not fit in the packet counts as received.
generate_request_packet_Open(a, room) ==
    LET asked == Reported(a, room) \intersect Holes(a)
    IN  [requested |-> asked, received |-> Window(a) \ asked]

generate_request_packet(a, room) ==
    [requested |-> Reported(a, room) \intersect Holes(a),
     received  |-> Reported(a, room) \intersect Occupied(a)]
============================================================================
