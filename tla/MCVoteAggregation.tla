-------------------------- MODULE MCVoteAggregation --------------------------
(* Instances of VoteAggregation for TLC: a faulty validator holds three     *)
(* units of stake and an honest one two.  The faulty ones are two-faced:    *)
(* they vote for A before the node of v1 and for B before the other.        *)
EXTENDS VoteAggregation, TLC

CONSTANTS v1, v2, A, B

FaultyHeavyStakeOf ==
    [S \in SUBSET Validators |-> 2 * Cardinality(S) + Cardinality(S \cap Faulty)]

\* Votes of other epochs are left out: a node refuses them.
TwoFaced ==
    [v \in Honest |-> {m \in FaultyVotes : /\ m.epoch = m.height \div EpochLen
                                           /\ m.hash = IF v = v1 THEN A ELSE B}]

\* The faulty validators are alike, and so are the two sides.
SwapSides ==
    [x \in {v1, v2, A, B} |->
        CASE x = v1 -> v2 [] x = v2 -> v1 [] x = A -> B [] x = B -> A]

Symmetry == Permutations(Faulty) \cup {SwapSides}
=============================================================================
