---------------------------- MODULE FifoChannel ----------------------------
(***************************************************************************)
(* What the lossless packets of a crypto connection promise to the two     *)
(* applications: each side receives the messages the other side wrote, in  *)
(* the order they were written, each once.  Nothing is said about how many *)
(* of them arrive: a connection may be killed at any time.                 *)
(***************************************************************************)
EXTENDS Naturals, Sequences

CONSTANT Peer

VARIABLES
    written,    \* written[p]: messages p wrote; they are the numbers below it
    delivered   \* delivered[p]: messages p received, in order

Source(p) == CHOOSE q \in Peer : q # p

Init ==
    /\ written = [p \in Peer |-> 0]
    /\ delivered = [p \in Peer |-> <<>>]

Write(p) ==
    /\ written' = [written EXCEPT ![p] = @ + 1]
    /\ UNCHANGED delivered

\* A batch of the next k messages is handed over.
Deliver(p, k) ==
    /\ Len(delivered[p]) + k <= written[Source(p)]
    /\ delivered' = [delivered EXCEPT ![p] = @ \o [i \in 1 .. k |-> Len(@) + i - 1]]
    /\ UNCHANGED written

Next ==
    \E p \in Peer : Write(p) \/ \E k \in 1 .. written[Source(p)] : Deliver(p, k)

Spec == Init /\ [][Next]_<<written, delivered>>
============================================================================
