------------------------------ MODULE MCLedger ------------------------------
(***************************************************************************)
(* Stake and bonds, and the transaction pool, in one run.  They share no   *)
(* variable and no property speaks of both, so their interleavings add     *)
(* nothing: each moves while the other is as it started.                   *)
(***************************************************************************)
EXTENDS MCStaking, MCMempool

LedgerInit == Init /\ PoolInit

LedgerNext == \/ PoolInit /\ Next /\ UNCHANGED poolVars
              \/ Init /\ PoolNext /\ UNCHANGED vars

LedgerSpec == LedgerInit /\ [][LedgerNext]_<<vars, poolVars>>
=============================================================================
