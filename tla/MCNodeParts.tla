---------------------------- MODULE MCNodeParts ----------------------------
(***************************************************************************)
(* Checkpoint finality, the storage deals, and the bridge's tables called  *)
(* in any order, in one run.  No variable belongs to two of them and no    *)
(* property speaks of two, so their interleavings add nothing: each moves  *)
(* while the others are as they started.  Finality and the deals may never *)
(* get stuck; the tables stop where the bound on the chain's height does.  *)
(***************************************************************************)
EXTENDS MCCheckpointFinality, MCStorageDeals, BridgeCustody

FinalityMoves == Next /\ UNCHANGED <<dealVars, bridgeVars>>
DealsMove     == DealNext /\ UNCHANGED <<vars, bridgeVars>>
BridgeMoves   == BridgeNext /\ UNCHANGED <<vars, dealVars>>

AtMaxHeight ==
    chain_height = MaxHeight /\ UNCHANGED <<vars, dealVars, bridgeVars>>

PartsInit == Init /\ DealInit /\ BridgeInit

PartsNext == \/ DealInit /\ BridgeInit /\ FinalityMoves
             \/ Init /\ BridgeInit /\ DealsMove
             \/ Init /\ DealInit /\ BridgeMoves
             \/ AtMaxHeight

PartsSpec == PartsInit /\ [][PartsNext]_<<vars, dealVars, bridgeVars>>

PartsSymmetry == Symmetry \cup Permutations(Assets)
=============================================================================
