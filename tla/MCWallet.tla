------------------------------- MODULE MCWallet -------------------------------
(* A wallet with two coins, and a copy of the wallet that spends the first.       *)
EXTENDS Wallet

MCForeign == {100}
MCForeignIns == [t \in MCForeign |-> {1}]
================================================================================
