------------------------------ MODULE MCMiner -------------------------------
(***************************************************************************)
(* The trees of MCChain, with a miner that may find any of their blocks.   *)
(***************************************************************************)
EXTENDS MCChain, Miner
=============================================================================
