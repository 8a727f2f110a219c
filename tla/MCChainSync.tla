---------------------------- MODULE MCChainSync ----------------------------
(* Instances of ChainSync: hashes are ordered by the order of the nodes.    *)
EXTENDS ChainSync, TLC

CONSTANTS n1, n2

HashOrder == [n \in Nodes |-> IF n = n1 THEN 1 ELSE IF n = n2 THEN 2 ELSE 3]
ThreeAndOne == [n \in Nodes |-> IF n = n1 THEN 3 ELSE 1]
FiveAndTwo == [n \in Nodes |-> IF n = n1 THEN 5 ELSE 2]
=============================================================================
