------------------------- MODULE MCTcpConnections -------------------------
(***************************************************************************)
(* Instances of TcpConnections for TLC.                                     *)
(***************************************************************************)
EXTENDS TcpConnections, TLC

CONSTANTS k1, k2

TwoKeys == {k1, k2}
KeySymmetry == Permutations(Key)

Bound(relays, peers, count, maxdown) ==
    [relays |-> relays, peers |-> peers, count |-> count, down |-> maxdown]

\* Two peers at one relay with packets crossing, one peer with links to two relays, and
\* one with more relays than links.
PoolBounds == {Bound(1, 2, 1, 3), Bound(2, 1, 1, 1), Bound(3, 1, 0, 0)}
SleepBounds == {Bound(1, 2, 1, 2)}
=============================================================================
