----------------------------- MODULE Confirmations -----------------------------
(***************************************************************************)
(* How a wallet knows how deep its transactions are (main.cpp, wallet.cpp): *)
(* each keeps the block it was last seen in and the branch that proves it,  *)
(* while the chain goes back and forth; and what it takes along to be able  *)
(* to give a payment to those who lack what it spends.                      *)
(*                                                                         *)
(* c is the chain with the wallet.  Transactions and blocks are numbered in *)
(* the order they came up: a transaction has those it spends of, whether    *)
(* it pays us, and whether it is ours or a coinbase; a block has the one    *)
(* before, its transactions, and whether it can be connected.  The entry of *)
(* the wallet has where a transaction was seen, and vtxPrev.                *)
(***************************************************************************)
EXTENDS Merkle, Functions

CONSTANTS
  COINBASE_MATURITY,
  MaturityMargin,  \* the 20 of GetBlocksToMaturity
  COPY_DEPTH       \* 3: how deep a transaction needs no supporting ones

ASSUME ConfirmationsAssumption == {COINBASE_MATURITY, MaturityMargin, COPY_DEPTH} \subseteq Nat \ {0}

GenesisOnly == [prev |-> 0, vtx |-> <<1>>, valid |-> TRUE]
Unseen == [hashBlock |-> 0, nIndex |-> -1, vMerkleBranch |-> <<>>]
StartOfChain ==
  [txs |-> <<[vin |-> {}, mine |-> FALSE, ours |-> FALSE, coinbase |-> TRUE]>>,
   blocks |-> <<GenesisOnly>>, best |-> 1, mapWallet |-> <<>>]

nHeight(c, b) ==
  LET h[k \in 0..Len(c.blocks)] == IF k = 0 THEN -1 ELSE h[c.blocks[k].prev] + 1 IN h[b]
ChainOf(c, b) ==
  LET chain[k \in 0..Len(c.blocks)] == IF k = 0 THEN {} ELSE {k} \cup chain[c.blocks[k].prev]
  IN chain[b]
MainChain(c) == ChainOf(c, c.best)
ContainedIn(c, b) == ToSet(c.blocks[b].vtx)
hashMerkleRoot(c, b) ==
  LET vtx == c.blocks[b].vtx IN Last(BuildMerkleTree([i \in DOMAIN vtx |-> <<vtx[i]>>]))

\* ReadTxIndex: the block of the main chain that has the transaction, 0 when none has.
ReadTxIndex(c, t) == Max({b \in MainChain(c) : t \in ContainedIn(c, b)} \cup {0})
\* CTxIndex::GetDepthInMainChain, and what SetMerkleBranch returns.
IndexDepth(c, t) ==
  LET b == ReadTxIndex(c, t) IN IF b = 0 THEN 0 ELSE nHeight(c, c.best) - nHeight(c, b) + 1

SetMerkleBranch(c, t, b) ==
  LET vtx == c.blocks[b].vtx
      i == CHOOSE k \in DOMAIN vtx : vtx[k] = t
  IN [hashBlock |-> b, nIndex |-> i - 1,
      vMerkleBranch |-> GetMerkleBranch([k \in DOMAIN vtx |-> <<vtx[k]>>], i - 1)]
IsProved(c, t, seen) ==
  CheckMerkleBranch(<<t>>, seen.vMerkleBranch, seen.nIndex) = hashMerkleRoot(c, seen.hashBlock)
\* fMerkleVerified only spares the work: IsProved is an invariant of the wallet's entries.
GetDepthInMainChain(c, t, seen) ==
  IF seen.hashBlock \in MainChain(c) /\ seen.nIndex # -1 /\ IsProved(c, t, seen)
  THEN nHeight(c, c.best) - nHeight(c, seen.hashBlock) + 1 ELSE 0
InWallet(c, t) == t \in DOMAIN c.mapWallet
DepthOf(c, t) == GetDepthInMainChain(c, t, c.mapWallet[t].seen)
GetBlocksToMaturity(c, t) ==
  IF c.txs[t].coinbase THEN Max({0, COINBASE_MATURITY + MaturityMargin - DepthOf(c, t)}) ELSE 0

-----------------------------------------------------------------------------
\* AddToWallet: what is seen is merged; mutant: the block is, but not the branch.
MergedBlock(old, new) == IF new.hashBlock # 0 THEN [old EXCEPT !.hashBlock = new.hashBlock] ELSE old
MergedSeen(old, new) ==
  [hashBlock |-> IF new.hashBlock # 0 THEN new.hashBlock ELSE old.hashBlock,
   nIndex |-> IF new.nIndex # -1 THEN new.nIndex ELSE old.nIndex,
   vMerkleBranch |-> IF new.nIndex # -1 THEN new.vMerkleBranch ELSE old.vMerkleBranch]
AddToWallet(c, t, seen, vtxPrev) ==
  LET new == IF InWallet(c, t) THEN [c.mapWallet[t] EXCEPT !.seen = MergedSeen(@, seen)]
             ELSE [seen |-> seen, vtxPrev |-> vtxPrev, made |-> c.best]
  IN [c EXCEPT !.mapWallet = [u \in {t} \cup DOMAIN @ |-> IF u = t THEN new ELSE @[u]]]
IsInvolved(c, t) ==
  InWallet(c, t) \/ c.txs[t].mine \/ \E p \in c.txs[t].vin : InWallet(c, p) /\ c.txs[p].mine
AddToWalletIfInvolvingMe(c, t, seen) == IF IsInvolved(c, t) THEN AddToWallet(c, t, seen, <<>>) ELSE c

\* The wallet is told of a block as it is connected, and of nothing when it is disconnected.
SyncBlock(c, b) ==
  FoldLeft(LAMBDA d, t : AddToWalletIfInvolvingMe(d, t, SetMerkleBranch(d, t, b)), c, c.blocks[b].vtx)

\* SetBestChain to a block that is higher than the best: the blocks from the fork are connected
\* in turn, and when one cannot be the chain stays, but what the wallet was told stays too.
SetBestChain(c, b) ==
  LET vConnect == SortSeq(SetToSeq(ChainOf(c, b) \ MainChain(c)), <)
      fails == {k \in DOMAIN vConnect : ~c.blocks[vConnect[k]].valid}
      told == IF fails = {} THEN vConnect ELSE SubSeq(vConnect, 1, Min(fails) - 1)
      synced == FoldLeft(SyncBlock, c, told)
  IN IF fails = {} THEN [synced EXCEPT !.best = b] ELSE synced
AddBlock(c, block) ==
  LET d == [c EXCEPT !.blocks = Append(@, block)]
      b == Len(d.blocks)
  IN IF nHeight(d, b) > nHeight(d, d.best) THEN SetBestChain(d, b) ELSE d
AddTx(c, tx) == [c EXCEPT !.txs = Append(@, tx)]

-----------------------------------------------------------------------------
\* The copies of transactions that one took along.
Copies(vtxPrev) == [t \in {v.tx : v \in ToSet(vtxPrev)} |-> (CHOOSE v \in ToSet(vtxPrev) : v.tx = t).seen]

\* AddSupportingTransactions: what a new transaction spends, and what that spends, until it is
\* deep enough; from the wallet, from what the wallet's transactions took along, or from disk.
RECURSIVE Supporting(_, _, _, _)
Supporting(c, vWorkQueue, mapWalletPrev, vtxPrev) ==
  IF vWorkQueue = <<>> THEN Reverse(vtxPrev)
  ELSE LET t == Head(vWorkQueue)
           b == ReadTxIndex(c, t)
           prev == (IF InWallet(c, t) THEN Copies(c.mapWallet[t].vtxPrev) ELSE <<>>) @@ mapWalletPrev
           seen == CASE b # 0 -> SetMerkleBranch(c, t, b)
                     [] b = 0 /\ InWallet(c, t) -> c.mapWallet[t].seen
                     [] OTHER -> mapWalletPrev[t]
           before == IF IndexDepth(c, t) < COPY_DEPTH THEN SetToSeq(c.txs[t].vin) ELSE <<>>
       IN IF t \in DOMAIN Copies(vtxPrev) \/ ~(b # 0 \/ InWallet(c, t) \/ t \in DOMAIN mapWalletPrev)
          THEN Supporting(c, Tail(vWorkQueue), mapWalletPrev, vtxPrev)
          ELSE Supporting(c, Tail(vWorkQueue) \o before, prev, Append(vtxPrev, [tx |-> t, seen |-> seen]))
\* Mutant: what is in a block needs no support.
AddSupportingUnconfirmed(c, vin) ==
  SetToSeq({[tx |-> t, seen |-> c.mapWallet[t].seen] : t \in {u \in vin : IndexDepth(c, u) = 0}})
AddSupportingTransactions(c, vin) == Supporting(c, SetToSeq(vin), {}, <<>>)

\* IsConfirmed: in a block, or ours with all that it spends, as far as the copies know.
IsConfirmedByCopies(c, t) ==
  LET copies == (t :> c.mapWallet[t].seen) @@ Copies(c.mapWallet[t].vtxPrev)
      confirmed[u \in DOMAIN c.txs] ==
        /\ u \in DOMAIN copies
        /\ \/ GetDepthInMainChain(c, u, copies[u]) >= 1
           \/ c.txs[u].ours /\ \A p \in c.txs[u].vin : confirmed[p]
  IN confirmed[t]
\* What a payment may spend: it is ours and mature, and if somebody else's, in a block.
MaySpend(c, t) ==
  /\ InWallet(c, t) /\ c.txs[t].mine /\ GetBlocksToMaturity(c, t) = 0
  /\ IsConfirmedByCopies(c, t) /\ (c.txs[t].ours \/ DepthOf(c, t) >= 1)
CommitTransaction(c, vin) ==
  LET d == AddTx(c, [vin |-> vin, mine |-> TRUE, ours |-> TRUE, coinbase |-> FALSE])
  IN AddToWallet(d, Len(d.txs), Unseen, AddSupportingTransactions(c, vin))
\* Somebody's transaction arrives, and is taken into the pool.
ReceiveTx(c, vin, mine) ==
  LET d == AddTx(c, [vin |-> vin, mine |-> mine, ours |-> FALSE, coinbase |-> FALSE])
  IN AddToWalletIfInvolvingMe(d, Len(d.txs), Unseen)

\* RelayWalletTransaction, and what AcceptWalletTransaction puts into a pool that is empty.
RelayWalletTransaction(c, t) ==
  {u \in DOMAIN Copies(c.mapWallet[t].vtxPrev) \cup {t} : ~c.txs[u].coinbase /\ ReadTxIndex(c, u) = 0}

\* ConnectInputs: a coinbase may be spent in a block that comes after this one.
IsSpendableAfter(c, t, b) ==
  \E a \in ChainOf(c, b) : t \in ContainedIn(c, a) /\ nHeight(c, b) + 1 - nHeight(c, a) >= COINBASE_MATURITY
================================================================================
