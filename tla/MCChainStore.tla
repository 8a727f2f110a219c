---------------------------- MODULE MCChainStore ----------------------------
(* Small instances of ChainStore. *)
EXTENDS ChainStore
=============================================================================
