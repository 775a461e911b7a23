-------------------------- MODULE ConferenceLossy --------------------------
(***************************************************************************)
(* The lossy packets of a conference, its audio, as one member receives    *)
(* them from one sender (toxcore/group.c): several others pass each packet *)
(* on, so copies come late, out of order or not at all.                    *)
(***************************************************************************)
EXTENDS Integers, FiniteSets

CONSTANTS
    MAX_LOSSY_COUNT,
    U16,            \* 2^16 in the program
    Bounds          \* records, one of which is chosen at the start:
                    \*   first: the first packet that comes
                    \*   last: the last packet
                    \*   burst: how many in a row may be lost
                    \*   late: how far behind the newest a copy may come

VARIABLES
    lossyBound,     \* the chosen member of Bounds
    top_lossy_number, bottom_lossy_number, recv_lossy,
    newest,         \* the newest packet that came, counted without end; -1 before that
    heard,          \* the packets that were handled and may come again
    again,          \* whether a packet was handled twice
    missed          \* whether a packet that came the first time was refused

vars == <<lossyBound, top_lossy_number, bottom_lossy_number, recv_lossy, newest, heard, again, missed>>

Init ==
    /\ lossyBound \in Bounds
    /\ top_lossy_number = 0 /\ bottom_lossy_number = 0 /\ recv_lossy = {}
    /\ newest = -1
    /\ heard = {}
    /\ again = FALSE /\ missed = FALSE

Slot(number) == number % MAX_LOSSY_COUNT
Distance(a, b) == (a - b) % U16

\* The window ends with number; recv are the slots that count as received.
Moved(number, recv) ==
    /\ top_lossy_number' = number
    /\ bottom_lossy_number' = (number - MAX_LOSSY_COUNT + 1) % U16
    /\ recv_lossy' = recv \cup {Slot(number)}

\* Mutant: what was received is forgotten whenever the window moves.
Kept_None(number) == {}

\* What is still received when the window moves on to number.
Kept(number) ==
    LET distance == Distance(number, top_lossy_number)
    IN  IF distance >= MAX_LOSSY_COUNT THEN {}
        ELSE recv_lossy \ {Slot(bottom_lossy_number + i) : i \in 0 .. distance - 1}

\* lossy_packet_not_received: the packet is new.
First(number) == bottom_lossy_number = top_lossy_number /\ Moved(number, recv_lossy)

Within(number) ==
    /\ bottom_lossy_number # top_lossy_number
    /\ Distance(number, bottom_lossy_number) < MAX_LOSSY_COUNT
    /\ Slot(number) \notin recv_lossy
    /\ recv_lossy' = recv_lossy \cup {Slot(number)}
    /\ UNCHANGED <<top_lossy_number, bottom_lossy_number>>

Beyond(number) ==
    /\ bottom_lossy_number # top_lossy_number
    /\ Distance(number, bottom_lossy_number) \in MAX_LOSSY_COUNT .. U16 \div 2
    /\ Moved(number, Kept(number))

\* It is not: it was received, or is too old.
Refused(number) ==
    /\ bottom_lossy_number # top_lossy_number
    /\ \/ Distance(number, bottom_lossy_number) < MAX_LOSSY_COUNT /\ Slot(number) \in recv_lossy
       \/ Distance(number, bottom_lossy_number) > U16 \div 2
    /\ UNCHANGED <<top_lossy_number, bottom_lossy_number, recv_lossy>>

\* handle_lossy
Take(n) ==
    /\ First(n % U16) \/ Within(n % U16) \/ Beyond(n % U16)
    /\ again' = (again \/ n \in heard)
    /\ UNCHANGED missed

Refuse(n) ==
    /\ Refused(n % U16)
    /\ missed' = (missed \/ (n \notin heard /\ newest - n < MAX_LOSSY_COUNT))
    /\ UNCHANGED again

\* A copy of packet n comes.
Receive(n) ==
    LET new == IF n > newest THEN n ELSE newest
    IN  /\ n <= lossyBound.last
        /\ Take(n) \/ Refuse(n)
        /\ newest' = new
        /\ heard' = {m \in heard \cup {n} : m >= new - lossyBound.late}
        /\ UNCHANGED lossyBound

Next ==
    \/ newest = -1 /\ Receive(lossyBound.first)
    \/ /\ newest # -1
       /\ \E n \in newest - lossyBound.late .. newest + 1 + lossyBound.burst : n >= 0 /\ Receive(n)

Spec == Init /\ [][Next]_vars
-----------------------------------------------------------------------------
\* No packet is handled twice, however late its copies come, and where numbers start again
\* from zero: what is heard is not heard again, and is not passed on for ever.
LossyOnce == ~again

\* The first copy of a packet is handled unless it is a whole window late, after whatever
\* was lost before it.
LossyTaken == ~missed
=============================================================================
