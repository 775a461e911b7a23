------------------------- MODULE MCCryptoTransport -------------------------
(***************************************************************************)
(* An instance of CryptoTransport for TLC.                                  *)
(***************************************************************************)
EXTENDS CryptoTransport

CONSTANTS a, b

OneWriter == [p \in {a, b} |-> IF p = a THEN 3 ELSE 0]
FewPackets == [p \in {a, b} |-> IF p = a THEN 4 ELSE 3]
============================================================================
