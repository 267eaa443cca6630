----------------------------- MODULE BestChain ------------------------------
(***************************************************************************)
(* What the chain code promises: there is one best branch and one ledger,  *)
(* the outputs that branch leaves unspent.  The branch is always valid, it *)
(* is only ever replaced by a valid branch with more work, and the ledger  *)
(* follows it in the same step.  ChainState implements this with an index, *)
(* undo records and a transaction of the database.                         *)
(***************************************************************************)
EXTENDS Naturals

CONSTANTS
  GenesisBlock,     \* the branch every node starts from
  ChainWork,        \* the work of each branch
  ValidBranches,    \* the branches on which every block is valid
  Unspent(_)        \* the outputs that a branch leaves unspent

VARIABLES
  tip,      \* the block that ends the best branch
  ledger    \* the unspent outputs

TipInit ==
  /\ tip = GenesisBlock
  /\ ledger = {}

Advance(b) ==
  /\ ChainWork[b] > ChainWork[tip]
  /\ tip' = b
  /\ ledger' = Unspent(b)

TipNext == \E b \in ValidBranches : Advance(b)

TipSpec == TipInit /\ [][TipNext]_<<tip, ledger>>
=============================================================================
