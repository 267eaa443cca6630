------------------------------- MODULE Miner --------------------------------
(***************************************************************************)
(* A miner thread (BitcoinMiner, CreateNewBlock, CheckWork in main.cpp)    *)
(* beside the message thread of ChainState.  It reads pindexBest twice     *)
(* without any lock, at any point of a handler, and takes cs_main only to  *)
(* collect transactions and to hand in what it found.                      *)
(*                                                                         *)
(* The block it finds is one of Blocks; what it collects is any selection  *)
(* of the pool that connects, since priorities, sizes and fees may leave   *)
(* out any transaction.  Left out: nonces, times and the reserved key      *)
(* (KeyPool).                                                              *)
(***************************************************************************)
EXTENDS ChainState, Functions

VARIABLES
  mpc,             \* where the miner is
  pindexPrevLoop,  \* BitcoinMiner's pindexPrev
  pindexPrev,      \* CreateNewBlock's pindexPrev
  vtx,             \* the transactions it collected, the coinbase left out
  fees,            \* and what they pay
  hashPrevBlock    \* the parent in the header of the block it works on

minerVars == <<mpc, pindexPrevLoop, pindexPrev, vtx, fees, hashPrevBlock>>

MinerPoints == {"start", "create", "lock", "collect", "header", "search"}

\* fees is not bounded: see CollectTx.
MinerTypeOK ==
  /\ mpc \in MinerPoints
  /\ pindexPrevLoop \in Blocks /\ pindexPrev \in Blocks /\ hashPrevBlock \in Blocks
  /\ vtx \in Seq(Txs)

MinerStart ==
  /\ mpc = "start"
  /\ pindexPrevLoop = GenesisBlock /\ pindexPrev = GenesisBlock
  /\ vtx = <<>> /\ fees = 0
  /\ hashPrevBlock = GenesisBlock

\* The block is freed, or the process dies.
MinerRestart ==
  /\ mpc' = "start"
  /\ pindexPrevLoop' = GenesisBlock /\ pindexPrev' = GenesisBlock
  /\ vtx' = <<>> /\ fees' = 0
  /\ hashPrevBlock' = GenesisBlock

MinerInit == Init /\ MinerStart

-----------------------------------------------------------------------------
\* BitcoinMiner's loop starts over, and then CreateNewBlock is called: each reads the
\* best block, whatever the message thread is doing.
ReadBest ==
  /\ mpc = "start"
  /\ pindexPrevLoop' = pindexBest
  /\ mpc' = "create"
  /\ UNCHANGED <<vars, pindexPrev, vtx, fees, hashPrevBlock>>

\* Mutant: the loop compares with a block it reads last.
ReadBestAgain ==
  /\ mpc = "create"
  /\ pindexPrev' = pindexPrevLoop
  /\ pindexPrevLoop' = pindexBest
  /\ mpc' = "lock"
  /\ UNCHANGED <<vars, vtx, fees, hashPrevBlock>>

StartNewBlock ==
  /\ mpc = "create"
  /\ pindexPrev' = pindexBest
  /\ mpc' = "lock"
  /\ UNCHANGED <<vars, pindexPrevLoop, vtx, fees, hashPrevBlock>>

\* CreateNewBlock takes cs_main and cs_mapTransactions.
LockMain ==
  /\ mpc = "lock"
  /\ pc = "idle"
  /\ mpc' = "collect"
  /\ UNCHANGED <<vars, pindexPrevLoop, pindexPrev, vtx, fees, hashPrevBlock>>

\* ConnectInputs with fMiner: the transactions ts are in mapTestPool, with what they spend.
ConnectsInTestPool(t, ts, b) ==
  /\ \A o \in Ins[t] : /\ o \in OutPoints
                       /\ db.pos[o[1]] # NoBlock \/ o[1] \in ts
                       /\ Matured(o[1], b)
                       /\ db.spent[o] = NoTx
                       /\ \A u \in ts : o \notin Ins[u]
  /\ t \notin Unsigned
  /\ MoneyRange(GetValueIn(t))
  /\ GetValueIn(t) >= GetValueOut(t)

\* One more transaction of the pool: its maturity is that on top of the block that was
\* read before.  A fee that takes the sum out of range leaves it out and stays in the sum.
CollectTx(t) ==
  /\ mpc = "collect"
  /\ t \in mapTransactions \ Range(vtx)
  /\ ConnectsInTestPool(t, Range(vtx), pindexPrev)
  /\ fees' = fees + (GetValueIn(t) - GetValueOut(t))
  /\ vtx' = IF MoneyRange(fees') THEN Append(vtx, t) ELSE vtx
  /\ UNCHANGED <<vars, mpc, pindexPrevLoop, pindexPrev, hashPrevBlock>>

UnlockMain ==
  /\ mpc = "collect"
  /\ mpc' = "header"
  /\ UNCHANGED <<vars, pindexPrevLoop, pindexPrev, vtx, fees, hashPrevBlock>>

\* The header names the block that was read before the transactions were collected; the
\* locks are free again.  Mutant: it names the best block of now.
FillHeaderWithBest ==
  /\ mpc = "header"
  /\ hashPrevBlock' = pindexBest
  /\ mpc' = "search"
  /\ UNCHANGED <<vars, pindexPrevLoop, pindexPrev, vtx, fees>>
FillHeader ==
  /\ mpc = "header"
  /\ hashPrevBlock' = pindexPrev
  /\ mpc' = "search"
  /\ UNCHANGED <<vars, pindexPrevLoop, pindexPrev, vtx, fees>>

\* The loop gives the block up: the best block changed, or the nonces are used up, or
\* there are new transactions.
Rebuild ==
  /\ mpc = "search"
  /\ MinerRestart
  /\ UNCHANGED vars

\* b is the block the miner works on, with the reward that CreateNewBlock gives it.
IsMinedBlock(b) ==
  /\ Prev[b] = hashPrevBlock /\ b # GenesisBlock
  /\ Tail(Vtx[b]) = vtx
  /\ GetValueOut(Vtx[b][1]) = Subsidy(Height[hashPrevBlock] + 1) + fees

\* CheckWork, under cs_main: a block that is not stale is processed as if a peer had
\* sent it.
CheckWork(b) ==
  /\ mpc = "search"
  /\ pc = "idle"
  /\ IsMinedBlock(b)
  /\ IF hashPrevBlock = pindexBest THEN ReceiveBlock(b) ELSE UNCHANGED vars
  /\ MinerRestart

MinerCrash ==
  /\ \E n \in 1..Len(log) : CrashAndRestart(n)
  /\ MinerRestart

MinerStep ==
  \/ ReadBest \/ StartNewBlock
  \/ LockMain \/ (\E t \in Txs : CollectTx(t)) \/ UnlockMain
  \/ FillHeader \/ Rebuild
  \/ \E b \in Blocks : CheckWork(b)

\* The message thread, which needs cs_main.
MessageStep ==
  /\ mpc # "collect"
  /\ \/ \E b \in Blocks : ReceiveBlock(b)
     \/ \E t \in Txs : AcceptToMemoryPool(t)
     \/ HandlerStep

MinerNext ==
  \/ MinerStep
  \/ MessageStep /\ UNCHANGED minerVars
  \/ MinerCrash

MinerSpec == MinerInit /\ [][MinerNext]_<<vars, minerVars>>

-----------------------------------------------------------------------------
\* What a transaction leaves to the miner.
FeeOf == [t \in Txs |-> GetValueIn(t) - GetValueOut(t)]

\* What ConnectBlock will ask of t in a block after best, once the transactions ts of
\* that block are connected.
ConnectsOn(t, ts, best) ==
  /\ \A o \in Ins[t] :
       /\ o \in OutPoints
       /\ db.pos[o[1]] # NoBlock \/ o[1] \in ts
       /\ db.spent[o] = NoTx /\ \A u \in ts : o \notin Ins[u]
       /\ o[1] \in CoinBases => Height[db.pos[o[1]]] + CoinbaseMaturity <= Height[best] + 1
  /\ t \notin Unsigned
  /\ MoneyRange(GetValueIn(t))
  /\ GetValueIn(t) >= GetValueOut(t)

\* A block that passes CheckWork's stale check connects: its transactions, collected at
\* another moment, are still valid on the best block, one after the other, none of them
\* is confirmed, and their fees are what the reward was computed from.  The database may
\* have been through failed reorganizations, and pindexPrev was read without a lock.
MinedBlockConnects ==
  mpc = "search" /\ pc = "idle" /\ hashPrevBlock = pindexBest =>
    /\ \A i \in DOMAIN vtx :
         LET earlier == {vtx[j] : j \in 1..(i - 1)} IN
         /\ db.pos[vtx[i]] = NoBlock
         /\ ConnectsOn(vtx[i], earlier, pindexBest)
    /\ fees = SumOf(FeeOf, Range(vtx))

\* A miner never goes on with a stale block for want of noticing: when the block it works
\* on does not extend the best block, the loop's comparison (pindexPrev != pindexBest in
\* BitcoinMiner) says so, though CreateNewBlock read pindexBest once more.
StaleIsNoticed ==
  mpc = "search" /\ hashPrevBlock # pindexBest => pindexPrevLoop # pindexBest

\* Why: each of the miner's reads of the best block is at most as good as the next one,
\* and the last of them at most as good as the best block is now.
AtMost(a, b) == a = b \/ ChainWork[a] < ChainWork[b]
ReadsInOrder ==
  /\ mpc = "create" => AtMost(pindexPrevLoop, pindexBest)
  /\ mpc \in {"lock", "collect", "header"} =>
       AtMost(pindexPrevLoop, pindexPrev) /\ AtMost(pindexPrev, pindexBest)
  /\ mpc = "search" => AtMost(pindexPrevLoop, hashPrevBlock) /\ AtMost(hashPrevBlock, pindexBest)

-----------------------------------------------------------------------------
(* The inductive invariant behind MinedBlocksConnect of MinerProofs.       *)

\* The outputs that the branch of b leaves unspent once the transactions ts are on it too.
UnspentWith(b, ts) == {o \in OutPoints : /\ o[1] \in ChainTxs(b) \cup ts
                                         /\ \A t \in ChainTxs(b) \cup ts : o \notin Ins[t]}

\* t connects in a block after b, once the transactions ts of that block are connected.
ConnectsAfter(b, t, ts) ==
  /\ t \notin ChainTxs(b) \cup ts \cup CoinBases \cup Unsigned
  /\ Ins[t] \subseteq UnspentWith(b, ts)
  /\ \A o \in Ins[t] : \A q \in Places(b) :
       TxAt(q) = o[1] /\ o[1] \in CoinBases => Height[q[1]] + CoinbaseMaturity <= Height[b] + 1
  /\ MoneyRange(GetValueIn(t))
  /\ GetValueIn(t) >= GetValueOut(t)

\* What was collected connects after b, and pays the fees out of what b leaves unspent.
CollectedOn(b) ==
  /\ \A i \in DOMAIN vtx : ConnectsAfter(b, vtx[i], {vtx[j] : j \in 1..(i - 1)})
  /\ IsFiniteSet(UnspentWith(b, Range(vtx)))
  /\ fees \in Nat /\ fees = SumOf(FeeOf, Range(vtx))
  /\ fees + SumOfValues(UnspentWith(b, Range(vtx))) = SumOfValues(Unspent(b))

\* Nothing is collected before the lock is taken, and while it is held no handler runs; what
\* is collected connects after the block it was collected for, if that is the best one.
MinedInv ==
  /\ mapTransactions \cap CoinBases = {}
  /\ mpc \in {"start", "create", "lock"} => vtx = <<>> /\ fees = 0
  /\ mpc = "collect" => pc = "idle"
  /\ mpc \in {"collect", "header"} /\ pindexPrev = pindexBest => CollectedOn(pindexPrev)
  /\ mpc = "search" /\ hashPrevBlock = pindexBest => CollectedOn(hashPrevBlock)
=============================================================================
