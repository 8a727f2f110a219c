-------------------------- MODULE MCRelayerWorker --------------------------
EXTENDS RelayerWorker

\* Both requests are in the first block.
SameBlock == [r \in Requests |-> 1]

\* The bridged request may have two results under way.
TwoOfBridged == [r \in Requests |-> IF r \in Bridged THEN 2 ELSE 1]
=============================================================================
