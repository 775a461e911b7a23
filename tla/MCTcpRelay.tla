----------------------------- MODULE MCTcpRelay -----------------------------
EXTENDS TcpRelay, TLC

CONSTANTS a, b

\* Two clients that ask for each other.
PairFriends == a :> {b} @@ b :> {a}
PairNumber == a :> 0 @@ b :> 0
PairHasty == {<<a, 1>>}
=============================================================================
