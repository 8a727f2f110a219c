------------------------ MODULE MCCheckpointFinality ------------------------
(***************************************************************************)
(* A small node: two kinds of block, three validators of stake 2, 2 and 1, *)
(* a checkpoint every second block.  The block "k" carries the             *)
(* transactions with which validator 1 unbonds, registers new keys and     *)
(* bonds again; it also weighs more than the block "p".                    *)
(***************************************************************************)
EXTENDS CheckpointFinality, TLC

MCStake == (1 :> 2) @@ (2 :> 2) @@ (3 :> 1)

(* Keys are numbered by how often they were changed, up to once. *)
MCValidatorsAfter(c) ==
    [v \in 1 .. 3 |-> IF v = 1 /\ \E i \in DOMAIN c : i > 1 /\ c[i] = "k" THEN 1 ELSE 0]

Weight(c) == Len(c) + Cardinality({i \in DOMAIN c : c[i] = "k"})

MCIsBetterChain(current, candidate) == Weight(candidate) > Weight(current)
=============================================================================
