--------------------------- MODULE BridgeCustody ---------------------------
(***************************************************************************)
(* BridgeState implements AssetCustody.  Where an asset is, is read off    *)
(* the transfer rows; the asset location is used only for an asset no row  *)
(* holds.  That the two always tell the same story is the content of the   *)
(* refinement.                                                             *)
(***************************************************************************)
EXTENDS BridgeState

Holds(m, a) == Live(m) /\ transfers[m].asset = a

\* The row that holds the asset.
Holder(a) == CHOOSE m \in DOMAIN transfers : Holds(m, a)

PlaceOf(kind) == CASE kind = "Locked" -> "leaving"
                   [] kind = "Minted" -> "away"
                   [] OTHER           -> "returning"

custodyOf ==
  [a \in DOMAIN asset_locations |->
     IF \E m \in DOMAIN transfers : Holds(m, a)
     THEN [place |-> PlaceOf(transfers[Holder(a)].status.kind),
           home  |-> Source(Holder(a)),
           away  |-> Target(Holder(a))]
     ELSE [place |-> "home",
           home  |-> asset_locations[a].domain,
           away  |-> asset_locations[a].domain]]

Custody == INSTANCE AssetCustody WITH custody <- custodyOf

\* The bridge keeps the promise of AssetCustody: every step of lock, mint,
\* burn_with_event, unlock, register_asset and of a block's sweep is a step
\* of it, or leaves every asset where it is.
ImplementsCustody == Custody!CustodySpec
============================================================================
