------------------------- MODULE MCBridgeSettlement -------------------------
(* A small instance of BridgeSettlement for TLC: one user who locks and a  *)
(* relayer who starts with nothing.                                        *)
EXTENDS BridgeSettlement, TLC

CONSTANTS user, relayer

Holdings == [a \in {user, relayer} |-> IF a = user THEN 6 ELSE 0]

Symmetry == Permutations(Domains) \cup Permutations(Assets)
============================================================================
