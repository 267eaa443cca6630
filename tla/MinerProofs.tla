----------------------------- MODULE MinerProofs ----------------------------
(***************************************************************************)
(* What holds of Miner for every tree of blocks and every set of           *)
(* transactions.                                                           *)
(***************************************************************************)
EXTENDS Miner, ChainProofs

\* The message thread never makes the best block worse while the node runs.
LEMMA BestStep ==
  ASSUME PositionInv, Next, crashes' = crashes
  PROVE  pindexBest \in Blocks /\ pindexBest' \in Blocks /\ AtMost(pindexBest, pindexBest')
<1>1. pindexBest \in Blocks /\ pindexBest' \in Blocks
  BY PositionStep DEF PositionInv, TypeOK
<1>2. pindexBest' # pindexBest => ChainWork[pindexBest'] > ChainWork[pindexBest]
  BY BestImproves
<1>3. ChainWork[pindexBest'] \in Nat /\ ChainWork[pindexBest] \in Nat
  BY <1>1, TreeAssumption
<1> QED BY <1>1, <1>2, <1>3 DEF AtMost

\* AtMost is transitive.
LEMMA AtMostTrans ==
  ASSUME NEW a \in Blocks, NEW b \in Blocks, NEW c \in Blocks, AtMost(a, b), AtMost(b, c)
  PROVE  AtMost(a, c)
BY TreeAssumption DEF AtMost

-----------------------------------------------------------------------------
\* ChainState's invariant survives a miner, which changes nothing but by handing in a
\* block, and the miner's three reads of the best block are in order.
MinerInv == PositionInv /\ MinerTypeOK /\ ReadsInOrder

\* The invariant holds when the miner starts.
LEMMA MinerInitInv == MinerInit => MinerInv
BY PositionInit, TreeAssumption DEF MinerInit, MinerStart, MinerInv, MinerTypeOK,
     MinerPoints, ReadsInOrder

\* Every step of a machine with a miner is one that ChainState allows.
LEMMA MinerNextIsNext == MinerNext => [Next]_vars
<1>1. MinerStep => [Next]_vars
  BY DEF MinerStep, ReadBest, StartNewBlock, LockMain, CollectTx, UnlockMain, FillHeader,
         Rebuild, CheckWork, Next
<1>2. MessageStep => Next
  BY DEF MessageStep, Next
<1>3. MinerCrash => Next
  BY DEF MinerCrash, Next
<1> QED BY <1>1, <1>2, <1>3 DEF MinerNext

\* The message thread never crashes the node by itself.
LEMMA MessageStepKeepsCrashes == MessageStep => crashes' = crashes
<1>1. ASSUME NEW t \in Txs, AcceptToMemoryPool(t) PROVE crashes' = crashes
  BY <1>1 DEF AcceptToMemoryPool
<1> QED BY <1>1, BlocksKeepCrashes DEF MessageStep

\* Every step of the message thread and of the miner preserves it.
LEMMA MinerStepInv == MinerInv /\ [MinerNext]_<<vars, minerVars>> => MinerInv'
<1> SUFFICES ASSUME MinerInv, [MinerNext]_<<vars, minerVars>> PROVE MinerInv'
  OBVIOUS
<1>1. PositionInv'
  BY MinerNextIsNext, PositionStep DEF MinerInv
<1>2. pindexBest \in Blocks /\ pindexBest' \in Blocks /\ vtx \in Seq(Txs) /\ MinerTypeOK
  BY <1>1 DEF MinerInv, PositionInv, TypeOK, MinerTypeOK
<1>3. CASE mpc' = "start" /\ MinerRestart
  BY <1>1, <1>3, TreeAssumption DEF MinerRestart, MinerInv, MinerTypeOK, MinerPoints, ReadsInOrder
<1>4. CASE ReadBest
  BY <1>1, <1>2, <1>4 DEF ReadBest, vars, memory, MinerInv, MinerTypeOK, MinerPoints, ReadsInOrder, AtMost
<1>5. CASE StartNewBlock
  BY <1>1, <1>2, <1>5 DEF StartNewBlock, vars, memory, MinerInv, MinerTypeOK,
                          MinerPoints, ReadsInOrder, AtMost
<1>6. CASE LockMain \/ UnlockMain
  BY <1>1, <1>2, <1>6 DEF LockMain, UnlockMain, vars, memory, MinerInv, MinerTypeOK,
                          MinerPoints, ReadsInOrder
<1>7. CASE \E t \in Txs : CollectTx(t)
  <2>1. vtx' \in Seq(Txs)
    BY <1>2, <1>7, AppendProperties DEF CollectTx
  <2> QED BY <1>1, <1>2, <1>7, <2>1 DEF CollectTx, vars, memory, MinerInv, MinerTypeOK,
                                        MinerPoints, ReadsInOrder
<1>8. CASE FillHeader
  BY <1>1, <1>2, <1>8 DEF FillHeader, vars, memory, MinerInv, MinerTypeOK, MinerPoints, ReadsInOrder
<1>9. CASE MessageStep /\ UNCHANGED minerVars
  <2>1. Next /\ crashes' = crashes
    BY <1>9, MessageStepKeepsCrashes DEF MessageStep, Next
  <2>2. AtMost(pindexBest, pindexBest')
    BY <2>1, BestStep DEF MinerInv
  <2>3. \A a \in Blocks : AtMost(a, pindexBest) => AtMost(a, pindexBest')
    BY <1>2, <2>2, AtMostTrans
  <2>4. MinerTypeOK'
    BY <1>2, <1>9 DEF MinerTypeOK, minerVars
  <2>5. ReadsInOrder'
    BY <1>2, <1>9, <2>3 DEF minerVars, MinerInv, MinerTypeOK, ReadsInOrder
  <2> QED BY <1>1, <2>4, <2>5 DEF MinerInv
<1>10. CASE UNCHANGED <<vars, minerVars>>
  BY <1>1, <1>2, <1>10 DEF vars, memory, minerVars, MinerInv, MinerTypeOK, ReadsInOrder
<1>11. CASE MinerCrash \/ Rebuild \/ \E b \in Blocks : CheckWork(b)
  BY <1>3, <1>11 DEF MinerCrash, Rebuild, CheckWork, MinerRestart
<1> QED BY <1>4, <1>5, <1>6, <1>7, <1>8, <1>9, <1>10, <1>11 DEF MinerNext, MinerStep

\* In every run the miner's reads of the best block are in order.
THEOREM ReadsAreInOrder == MinerSpec => []ReadsInOrder
<1>1. MinerInv => ReadsInOrder
  BY DEF MinerInv
<1> QED BY <1>1, MinerInitInv, MinerStepInv, PTL DEF MinerSpec

\* However the message thread and the miner interleave, the loop's comparison of
\* pindexPrev with pindexBest (BitcoinMiner) notices a stale block: the loop's own read
\* comes first, so a block that is the best one again was the best one at every read.
THEOREM StaleBlockIsNoticed == MinerSpec => []StaleIsNoticed
<1>1. MinerInv => StaleIsNoticed
  <2> SUFFICES ASSUME MinerInv, mpc = "search", hashPrevBlock # pindexBest,
                      pindexPrevLoop = pindexBest
               PROVE  FALSE
    BY DEF StaleIsNoticed
  <2>1. AtMost(pindexPrevLoop, hashPrevBlock) /\ AtMost(hashPrevBlock, pindexBest)
    BY DEF MinerInv, ReadsInOrder
  <2>2. ChainWork[hashPrevBlock] \in Nat /\ ChainWork[pindexBest] \in Nat
    BY TreeAssumption DEF MinerInv, MinerTypeOK, PositionInv, TypeOK
  <2> QED BY <2>1, <2>2 DEF AtMost
<1> QED BY <1>1, MinerInitInv, MinerStepInv, PTL DEF MinerSpec

\* Every variable of the miner keeps its type, and beside a miner ChainState keeps the
\* invariant that PositionCorrect proves of it alone.
THEOREM MinerTypeCorrect == MinerSpec => [](PositionInv /\ MinerTypeOK)
<1>1. MinerInv => PositionInv /\ MinerTypeOK
  BY DEF MinerInv
<1> QED BY <1>1, MinerInitInv, MinerStepInv, PTL DEF MinerSpec

-----------------------------------------------------------------------------
(* What is collected connects.                                             *)

\* No coinbase is ever in the pool.
LEMMA PoolHasNoCoinbase ==
  ASSUME mapTransactions \cap CoinBases = {}, [Next]_vars
  PROVE  mapTransactions' \cap CoinBases = {}
<1>1. CASE \E t : Acceptable(t, TRUE) /\ AddToMemoryPoolUnchecked(t)
  BY <1>1 DEF Acceptable, AddToMemoryPoolUnchecked
<1>2. CASE ResurrectTx
  BY <1>2 DEF ResurrectTx, Acceptable, AddToMemoryPoolUnchecked, pool
<1>3. CASE DeleteTx
  BY <1>3 DEF DeleteTx, RemoveFromMemoryPool
<1>4. CASE \E n \in 1..Len(log) : CrashAndRestart(n)
  BY <1>4 DEF CrashAndRestart
<1>5. CASE mapTransactions' = mapTransactions
  BY <1>5
<1>6. CASE \E t \in Txs : AcceptToMemoryPool(t)
  BY <1>1, <1>6 DEF AcceptToMemoryPool
<1>7. CASE HandlerStep /\ ~ResurrectTx /\ ~DeleteTx
  BY <1>5, <1>7 DEF HandlerStep, RejectBlock, AddToBlockIndex, ExtendBestChain, StartReorganize,
     DisconnectTx, DisconnectBlock, ReachFork, ConnectTx, ConnectBlock, CommitBestChain,
     AbortBestChain, StartDelete, SetBestChain, AcceptOrphan, NextInQueue, pool
<1>8. CASE UNCHANGED vars \/ \E b \in Blocks : ReceiveBlock(b)
  BY <1>5, <1>8 DEF ReceiveBlock, DropBlock, HoldOrphanBlock, ProcessBlock, vars, pool
<1> QED BY <1>2, <1>3, <1>4, <1>6, <1>7, <1>8 DEF Next

\* One more transaction takes its inputs out of what is left unspent, and puts its outputs
\* in: nothing that is there already can spend them.
LEMMA UnspentWithStep ==
  ASSUME NEW b \in ValidBranches, NEW ts \in SUBSET Txs,
         \A u \in ts : \A o \in Ins[u] : o[1] \in ChainTxs(b) \cup ts,
         NEW t \in Txs, t \notin ChainTxs(b) \cup ts, Ins[t] \subseteq UnspentWith(b, ts)
  PROVE  /\ UnspentWith(b, ts \cup {t}) = (UnspentWith(b, ts) \ Ins[t]) \cup OutsOf(t)
         /\ OutsOf(t) \cap UnspentWith(b, ts) = {}
<1> DEFINE on == ChainTxs(b) \cup ts
<1>1. ASSUME NEW u \in on, NEW o \in Ins[u] PROVE o[1] \in on
  <2>1. CASE u \in ts
    BY <2>1
  <2>2. CASE u \in ChainTxs(b)
    <3>1. Consistent(Places(b))
      BY BranchIsConsistent
    <3>2. PICK p \in Places(b) : TxAt(p) = u
      BY <2>2 DEF ChainTxs
    <3>3. \E q \in Places(b) : TxAt(q) = o[1]
      BY <1>1, <3>1, <3>2 DEF Consistent
    <3> QED BY <3>3 DEF ChainTxs
  <2> QED BY <2>1, <2>2
<1>2. OutsOf(t) \subseteq OutPoints /\ \A o \in OutPoints : o \in OutsOf(t) <=> o[1] = t
  BY OutsAreFinite
<1>3. UnspentWith(b, ts) =
        {o \in OutPoints : o[1] \in on /\ \A u \in on : o \notin Ins[u]}
  BY DEF UnspentWith
<1>4. UnspentWith(b, ts \cup {t}) =
        {o \in OutPoints : o[1] \in on \cup {t} /\ \A u \in on \cup {t} : o \notin Ins[u]}
  BY DEF UnspentWith
<1>5. t \notin on
  OBVIOUS
<1> HIDE DEF on
<1>6. \A o \in Ins[t] : o[1] \in on
  BY <1>3
<1>7. ASSUME NEW o \in OutPoints, o[1] = t
      PROVE  o \notin Ins[t] /\ \A u \in on : o \notin Ins[u]
  BY <1>1, <1>5, <1>6, <1>7
<1>8. ASSUME NEW o \in OutPoints
      PROVE  o \in UnspentWith(b, ts \cup {t})
               <=> o \in (UnspentWith(b, ts) \ Ins[t]) \cup OutsOf(t)
  <2>1. CASE o[1] = t
    BY <1>2, <1>4, <1>7, <2>1
  <2>2. CASE o[1] # t
    BY <1>2, <1>3, <1>4, <2>2
  <2> QED BY <2>1, <2>2
<1>9. UnspentWith(b, ts \cup {t}) \subseteq OutPoints /\ UnspentWith(b, ts) \subseteq OutPoints
  BY <1>3, <1>4
<1>10. OutsOf(t) \cap UnspentWith(b, ts) = {}
  BY <1>2, <1>3, <1>5
<1> QED BY <1>2, <1>8, <1>9, <1>10

\* Before anything is collected, all is as the branch leaves it.
LEMMA NothingCollected ==
  ASSUME NEW b \in ValidBranches, vtx = <<>>, fees = 0
  PROVE  CollectedOn(b)
<1>1. Range(vtx) = {} /\ DOMAIN vtx = {}
  BY DEF Range
<1>2. UnspentWith(b, {}) = Unspent(b)
  BY DEF UnspentWith, Unspent
<1>3. IsFiniteSet(Unspent(b)) /\ SumOfValues(Unspent(b)) \in Nat
  BY BranchWorth
<1>4. SumOf(FeeOf, {}) = 0
  BY SumEmpty
<1> QED BY <1>1, <1>2, <1>3, <1>4 DEF CollectedOn

\* A transaction that ConnectInputs accepts into the test pool connects after the best block.
LEMMA TestPoolIsRight ==
  ASSUME ChainInv, pc = "idle", mapTransactions \cap CoinBases = {},
         NEW ts \in SUBSET Txs, ts \cap CoinBases = {},
         NEW t \in mapTransactions \ ts, ConnectsInTestPool(t, ts, pindexBest)
  PROVE  ConnectsAfter(pindexBest, t, ts) /\ t \in Txs
<1> DEFINE b == pindexBest
<1>1. /\ b \in ValidBranches /\ b \in Blocks /\ IsIndexOf(db, Places(b))
      /\ db.pos[t] = NoBlock /\ t \in Txs
  BY IdleIndex DEF ChainInv, PositionInv, TypeOK
<1> HIDE DEF b
<1>2. /\ \A u \in Txs : db.pos[u] # NoBlock <=> u \in ChainTxs(b)
      /\ \A o \in OutPoints : db.spent[o] = NoTx <=> \A u \in ChainTxs(b) : o \notin Ins[u]
      /\ \A q \in Places(b) : db.pos[TxAt(q)] = q[1] /\ q[1] \in Chain[b]
  BY <1>1, BestIndexTells
<1>3. t \notin ChainTxs(b) \cup ts \cup CoinBases \cup Unsigned
  BY <1>1, <1>2 DEF ConnectsInTestPool
<1>4. ASSUME NEW o \in Ins[t] PROVE o \in UnspentWith(b, ts)
  <2>1. o \in OutPoints /\ o[1] \in Txs
    BY <1>1, <1>4, Outputs DEF ConnectsInTestPool
  <2>2. o[1] \in ChainTxs(b) \cup ts /\ \A u \in ChainTxs(b) \cup ts : o \notin Ins[u]
    BY <1>2, <1>4, <2>1 DEF ConnectsInTestPool
  <2> QED BY <2>1, <2>2 DEF UnspentWith
<1>5. ASSUME NEW o \in Ins[t], NEW q \in Places(b), TxAt(q) = o[1], o[1] \in CoinBases
      PROVE  Height[q[1]] + CoinbaseMaturity <= Height[b] + 1
  <2>1. db.pos[o[1]] = q[1] /\ q[1] \in Chain[b] /\ q[1] \in Blocks
    BY <1>1, <1>2, <1>5, ChainClosed
  <2>2. Height[q[1]] + CoinbaseMaturity <= Height[b]
    BY <1>5, <2>1 DEF ConnectsInTestPool, Matured, b
  <2>3. Height[q[1]] \in Nat /\ Height[b] \in Nat /\ CoinbaseMaturity \in Nat
    BY <1>1, <2>1, HeightStep, TxAssumption
  <2> QED BY <2>2, <2>3
<1>6. MoneyRange(GetValueIn(t)) /\ GetValueIn(t) >= GetValueOut(t)
  BY DEF ConnectsInTestPool
<1>7. ConnectsAfter(b, t, ts)
  BY <1>3, <1>4, <1>5, <1>6 DEF ConnectsAfter
<1> QED BY <1>1, <1>7 DEF b

\* When no branch may issue more than MaxMoney, one more transaction is collected with its fee.
LEMMA CollectStep ==
  ASSUME \A x \in Blocks : Issued(x) <= MaxMoney,
         ChainInv, pc = "idle", mapTransactions \cap CoinBases = {},
         vtx \in Seq(Txs), pindexPrev = pindexBest, CollectedOn(pindexBest),
         NEW t \in Txs, CollectTx(t)
  PROVE  CollectedOn(pindexBest)'
<1> DEFINE b == pindexBest
           ts == Range(vtx)
           U == UnspentWith(b, ts)
           V == UnspentWith(b, ts \cup {t})
<1>1. /\ Len(vtx) \in Nat /\ DOMAIN vtx = 1..Len(vtx) /\ ts \in SUBSET Txs
      /\ ts = {vtx[j] : j \in 1..Len(vtx)}
      /\ \A i \in DOMAIN vtx : \A j \in 1..(i - 1) : j \in DOMAIN vtx
  BY DEF Range
<1>2. b \in ValidBranches /\ b \in Blocks /\ b' = b
  BY IdleIndex DEF CollectTx, vars, memory
<1>3. /\ \A i \in DOMAIN vtx : ConnectsAfter(b, vtx[i], {vtx[j] : j \in 1..(i - 1)})
      /\ IsFiniteSet(U) /\ fees \in Nat /\ fees = SumOf(FeeOf, ts)
      /\ fees + SumOf(Value, U) = SumOfValues(Unspent(b))
  BY DEF CollectedOn, SumOfValues
<1>4. ASSUME NEW u \in ts
      PROVE  u \notin CoinBases /\ GetValueIn(u) >= GetValueOut(u)
             /\ \A o \in Ins[u] : o[1] \in ChainTxs(b) \cup ts
  <2>1. PICK i \in DOMAIN vtx : u = vtx[i]
    BY <1>1
  <2>2. ConnectsAfter(b, u, {vtx[j] : j \in 1..(i - 1)})
    BY <1>3, <2>1
  <2>3. {vtx[j] : j \in 1..(i - 1)} \subseteq ts
    BY <1>1
  <2> QED BY <2>2, <2>3 DEF ConnectsAfter, UnspentWith
<1>5. ConnectsAfter(b, t, ts)
  <2>1. t \in mapTransactions \ ts /\ ConnectsInTestPool(t, ts, pindexBest)
    BY DEF CollectTx
  <2>2. ts \cap CoinBases = {}
    BY <1>4
  <2> HIDE DEF ts
  <2> QED BY <1>1, <2>1, <2>2, TestPoolIsRight
<1> HIDE DEF ts
<1>6. /\ t \notin ChainTxs(b) \cup ts /\ Ins[t] \subseteq U /\ GetValueIn(t) >= GetValueOut(t)
  BY <1>5 DEF ConnectsAfter
<1>7. V = (U \ Ins[t]) \cup OutsOf(t) /\ OutsOf(t) \cap U = {}
  BY <1>1, <1>2, <1>4, <1>6, UnspentWithStep
<1>8. U \in SUBSET OutPoints
  BY DEF UnspentWith
<1> HIDE DEF U, V
<1>9. /\ IsFiniteSet(V) /\ GetValueIn(t) \in Nat /\ GetValueOut(t) \in Nat
      /\ SumOf(Value, U) \in Nat /\ SumOf(Value, V) \in Nat
      /\ SumOf(Value, V) + GetValueIn(t) = SumOf(Value, U) + GetValueOut(t)
  BY <1>3, <1>6, <1>7, <1>8, WorthStep
<1>10. /\ fees' = fees + (GetValueIn(t) - GetValueOut(t))
       /\ fees' \in Nat /\ fees' + SumOf(Value, V) = SumOfValues(Unspent(b))
  <2>1. fees' = fees + (GetValueIn(t) - GetValueOut(t))
    BY DEF CollectTx
  <2> QED BY ONLY SMTT(30), <1>3, <1>6, <1>9, <2>1 DEF ConnectsAfter
<1>11. MoneyRange(fees')
  <2>1. SumOfValues(Unspent(b)) \in Nat /\ Issued(b) \in Nat /\ SumOfValues(Unspent(b)) <= Issued(b)
    BY <1>2, BranchWorth
  <2>2. Issued(b) <= MaxMoney /\ MaxMoney \in Nat
    BY <1>2, TxAssumption
  <2> QED BY <1>9, <1>10, <2>1, <2>2 DEF MoneyRange
<1>12. /\ vtx' = Append(vtx, t) /\ DOMAIN vtx' = 1..(Len(vtx) + 1)
       /\ \A j \in DOMAIN vtx : vtx'[j] = vtx[j]
       /\ vtx'[Len(vtx) + 1] = t
  <2>1. vtx' = Append(vtx, t)
    BY <1>11 DEF CollectTx
  <2> QED BY <1>1, <2>1
<1>13. Range(vtx') = ts \cup {t}
  BY <1>1, <1>12 DEF Range
<1>14. ASSUME NEW i \in DOMAIN vtx'
       PROVE  ConnectsAfter(b, vtx'[i], {vtx'[j] : j \in 1..(i - 1)})
  <2>1. CASE i \in DOMAIN vtx
    <3>1. {vtx'[j] : j \in 1..(i - 1)} = {vtx[j] : j \in 1..(i - 1)}
      BY <1>1, <1>12, <2>1
    <3> QED BY <1>3, <1>12, <2>1, <3>1
  <2>2. CASE i = Len(vtx) + 1
    <3>1. {vtx'[j] : j \in 1..(i - 1)} = ts
      BY <1>1, <1>12, <2>2
    <3> QED BY <1>5, <1>12, <2>2, <3>1
  <2>3. i \in DOMAIN vtx \/ i = Len(vtx) + 1
    BY ONLY <1>1, <1>12, i \in DOMAIN vtx'
  <2> QED BY <2>1, <2>2, <2>3
<1>15. SumOf(FeeOf, ts \cup {t}) = fees'
  <2>1. IsFiniteSet(ts)
    <3>1. IsFiniteSet(1..Len(vtx))
      BY <1>1, FS_Interval
    <3>2. vtx \in Surjection(1..Len(vtx), ts)
      BY <1>1 DEF Surjection
    <3> QED BY <3>1, <3>2, FS_Surjection
  <2> DEFINE S == ts \cup {t}
  <2>2. IsFiniteSet(S) /\ t \in S /\ S \ {t} = ts
    BY <1>6, <2>1, FS_AddElement
  <2>3. \A u \in S : FeeOf[u] \in Nat
    <3> SUFFICES ASSUME NEW u \in S PROVE FeeOf[u] \in Nat
      OBVIOUS
    <3>1. u \in Txs /\ GetValueIn(u) >= GetValueOut(u) /\ FeeOf[u] = GetValueIn(u) - GetValueOut(u)
      BY <1>1, <1>4, <1>6 DEF FeeOf
    <3>2. GetValueOut(u) \in Nat
      BY <3>1, OutsAreFinite
    <3>3. GetValueIn(u) \in Nat
      <4>1. CASE u = t
        BY <1>9, <4>1
      <4>2. CASE u \in ts
        <5>1. PICK i \in DOMAIN vtx : u = vtx[i]
          BY <1>1, <4>2
        <5> QED BY <1>3, <5>1, TxAssumption DEF ConnectsAfter, MoneyRange
      <4> QED BY <4>1, <4>2
    <3> QED BY <3>1, <3>2, <3>3
  <2> HIDE DEF S
  <2>4. SumOf(FeeOf, S) = FeeOf[t] + SumOf(FeeOf, ts)
    BY <2>2, <2>3, SumTake
  <2>5. FeeOf[t] = GetValueIn(t) - GetValueOut(t)
    BY DEF FeeOf
  <2> QED BY <1>3, <1>9, <1>10, <2>4, <2>5 DEF S
<1>16. UnspentWith(b, Range(vtx')) = V
  BY <1>13 DEF V
<1>17. \A i \in DOMAIN vtx' : ConnectsAfter(b', vtx'[i], {vtx'[j] : j \in 1..(i - 1)})
  BY <1>2, <1>14
<1> QED BY <1>2, <1>9, <1>10, <1>13, <1>15, <1>16, <1>17 DEF CollectedOn, SumOfValues

\* What is collected connects, in every state of a machine with a miner.
AllMined == MinerInv /\ ChainInv /\ MinedInv

\* It holds when the miner starts.
LEMMA MinedInit == MinerInit => AllMined
<1> SUFFICES ASSUME MinerInit PROVE AllMined
  OBVIOUS
<1>1. MinerInv /\ ChainInv
  BY MinerInitInv, ChainInit DEF MinerInit
<1>2. mapTransactions = {} /\ mpc = "start" /\ vtx = <<>> /\ fees = 0
  BY DEF MinerInit, MinerStart, Init
<1> QED BY <1>1, <1>2 DEF AllMined, MinedInv

\* Whether a selection connects after a block does not depend on the message thread.
LEMMA CollectedStays ==
  ASSUME NEW b, CollectedOn(b), vtx' = vtx, fees' = fees, NEW c, c' = b
  PROVE  CollectedOn(c)'
BY DEF CollectedOn, ConnectsAfter, UnspentWith

\* Every step preserves it: a best block that is the collected one again was so all along.
LEMMA MinedStep ==
  ASSUME \A x \in Blocks : Issued(x) <= MaxMoney
  PROVE  AllMined /\ [MinerNext]_<<vars, minerVars>> => AllMined'
<1> SUFFICES ASSUME AllMined, [MinerNext]_<<vars, minerVars>> PROVE MinedInv'
  BY MinerStepInv, MinerNextIsNext, ChainInvStep DEF AllMined, MinerInv, vars, minerVars
<1>1. mapTransactions' \cap CoinBases = {}
  BY MinerNextIsNext, PoolHasNoCoinbase DEF AllMined, MinedInv
<1>2. /\ vtx \in Seq(Txs) /\ pindexPrev \in Blocks /\ hashPrevBlock \in Blocks
      /\ pindexBest \in Blocks /\ mpc \in MinerPoints
  BY DEF AllMined, MinerInv, MinerTypeOK, PositionInv, TypeOK
<1>3. CASE MinerRestart
  BY <1>1, <1>3 DEF MinerRestart, MinedInv
<1>4. CASE ReadBest \/ StartNewBlock
  BY <1>1, <1>4 DEF ReadBest, StartNewBlock, AllMined, MinedInv
<1>5. CASE LockMain
  <2>1. /\ mpc' = "collect" /\ pc' = "idle" /\ vtx' = <<>> /\ fees' = 0
        /\ pindexBest' = pindexBest
    BY <1>5 DEF LockMain, vars, memory, AllMined, MinedInv
  <2>2. vtx = <<>> /\ fees = 0 /\ pindexBest \in ValidBranches
    BY <1>5 DEF LockMain, AllMined, MinedInv, ChainInv, LedgerInv, BranchesAreValid
  <2>3. CollectedOn(pindexBest)
    BY <2>2, NothingCollected
  <2>4. pindexPrev' = pindexBest' => CollectedOn(pindexPrev)'
    BY <2>1, <2>2, <2>3, CollectedStays
  <2> QED BY <1>1, <2>1, <2>4 DEF MinedInv
<1>6. CASE \E t \in Txs : CollectTx(t)
  <2>1. PICK t \in Txs : CollectTx(t)
    BY <1>6
  <2>2. /\ mpc = "collect" /\ mpc' = "collect" /\ pc = "idle" /\ pc' = pc
        /\ pindexBest' = pindexBest /\ pindexPrev' = pindexPrev
        /\ mapTransactions \cap CoinBases = {} /\ ChainInv
    BY <2>1 DEF CollectTx, vars, memory, AllMined, MinedInv
  <2>3. ASSUME pindexPrev = pindexBest PROVE CollectedOn(pindexPrev)'
    <3>1. CollectedOn(pindexBest)
      BY <2>2, <2>3 DEF AllMined, MinedInv
    <3>2. CollectedOn(pindexBest)'
      BY <1>2, <2>1, <2>2, <2>3, <3>1, CollectStep
    <3> QED BY <2>2, <2>3, <3>2
  <2> QED BY <1>1, <2>2, <2>3 DEF MinedInv
<1>7. CASE UnlockMain
  <2>1. /\ mpc = "collect" /\ mpc' = "header" /\ vtx' = vtx /\ fees' = fees
        /\ pindexBest' = pindexBest /\ pindexPrev' = pindexPrev
    BY <1>7 DEF UnlockMain, vars, memory
  <2>2. pindexPrev' = pindexBest' => CollectedOn(pindexPrev)'
    BY <2>1, CollectedStays DEF AllMined, MinedInv
  <2> QED BY <1>1, <2>1, <2>2 DEF MinedInv
<1>8. CASE FillHeader
  <2>1. /\ mpc = "header" /\ mpc' = "search" /\ vtx' = vtx /\ fees' = fees
        /\ pindexBest' = pindexBest /\ hashPrevBlock' = pindexPrev
    BY <1>8 DEF FillHeader, vars, memory
  <2>2. hashPrevBlock' = pindexBest' => CollectedOn(hashPrevBlock)'
    BY <2>1, CollectedStays DEF AllMined, MinedInv
  <2> QED BY <1>1, <2>1, <2>2 DEF MinedInv
<1>9. CASE MessageStep /\ UNCHANGED minerVars
  <2>1. /\ mpc # "collect" /\ mpc' = mpc /\ vtx' = vtx /\ fees' = fees
        /\ pindexPrev' = pindexPrev /\ hashPrevBlock' = hashPrevBlock
    BY <1>9 DEF MessageStep, minerVars
  <2>2. pindexBest' \in Blocks /\ AtMost(pindexBest, pindexBest')
    <3>1. Next /\ crashes' = crashes
      BY <1>9, MessageStepKeepsCrashes DEF MessageStep, Next
    <3> QED BY <3>1, BestStep DEF AllMined, MinerInv
  <2>3. ASSUME NEW a \in Blocks, AtMost(a, pindexBest), a = pindexBest' PROVE a = pindexBest
    <3>1. ChainWork[a] \in Nat /\ ChainWork[pindexBest] \in Nat
      BY <1>2, TreeAssumption
    <3> QED BY <2>2, <2>3, <3>1 DEF AtMost
  <2>4. /\ mpc = "header" => AtMost(pindexPrev, pindexBest)
        /\ mpc = "search" => AtMost(hashPrevBlock, pindexBest)
    BY DEF AllMined, MinerInv, ReadsInOrder
  <2>5. mpc' = "header" /\ pindexPrev' = pindexBest' => CollectedOn(pindexPrev)'
    <3>1. mpc = "header" /\ pindexPrev = pindexBest' => CollectedOn(pindexPrev)
      BY <1>2, <2>3, <2>4 DEF AllMined, MinedInv
    <3> QED BY <2>1, <3>1, CollectedStays
  <2>6. mpc' = "search" /\ hashPrevBlock' = pindexBest' => CollectedOn(hashPrevBlock)'
    <3>1. mpc = "search" /\ hashPrevBlock = pindexBest' => CollectedOn(hashPrevBlock)
      BY <1>2, <2>3, <2>4 DEF AllMined, MinedInv
    <3> QED BY <2>1, <3>1, CollectedStays
  <2> QED BY <1>1, <2>1, <2>5, <2>6 DEF AllMined, MinedInv
<1>10. CASE UNCHANGED <<vars, minerVars>>
  <2>1. /\ mpc' = mpc /\ pc' = pc /\ vtx' = vtx /\ fees' = fees /\ pindexBest' = pindexBest
        /\ pindexPrev' = pindexPrev /\ hashPrevBlock' = hashPrevBlock
    BY <1>10 DEF vars, memory, minerVars
  <2>2. mpc \in {"collect", "header"} /\ pindexPrev' = pindexBest' => CollectedOn(pindexPrev)'
    BY <2>1, CollectedStays DEF AllMined, MinedInv
  <2>3. mpc = "search" /\ hashPrevBlock' = pindexBest' => CollectedOn(hashPrevBlock)'
    BY <2>1, CollectedStays DEF AllMined, MinedInv
  <2> QED BY <1>1, <2>1, <2>2, <2>3 DEF AllMined, MinedInv
<1>11. CASE MinerCrash \/ Rebuild \/ \E b \in Blocks : CheckWork(b)
  BY <1>3, <1>11 DEF MinerCrash, Rebuild, CheckWork
<1> QED BY <1>4, <1>5, <1>6, <1>7, <1>8, <1>9, <1>10, <1>11 DEF MinerNext, MinerStep

\* What connects after the best block passes ConnectBlock's checks of it.
LEMMA MinedConnects ==
  ASSUME ChainInv, MinedInv, MinerTypeOK
  PROVE  MinedBlockConnects
<1> SUFFICES ASSUME mpc = "search", pc = "idle", hashPrevBlock = pindexBest
             PROVE  /\ \A i \in DOMAIN vtx :
                         /\ db.pos[vtx[i]] = NoBlock
                         /\ ConnectsOn(vtx[i], {vtx[j] : j \in 1..(i - 1)}, pindexBest)
                    /\ fees = SumOf(FeeOf, Range(vtx))
  BY DEF MinedBlockConnects
<1> DEFINE b == pindexBest
<1>1. CollectedOn(b)
  BY DEF MinedInv
<1>2. b \in ValidBranches /\ b \in Blocks /\ IsIndexOf(db, Places(b))
  BY IdleIndex
<1> HIDE DEF b
<1>3. /\ \A t \in Txs : db.pos[t] # NoBlock <=> t \in ChainTxs(b)
      /\ \A o \in OutPoints : db.spent[o] = NoTx <=> \A t \in ChainTxs(b) : o \notin Ins[t]
      /\ \A q \in Places(b) : db.pos[TxAt(q)] = q[1] /\ q[1] \in Chain[b]
  BY <1>2, BestIndexTells
<1>4. ASSUME NEW t \in Txs, NEW ts, ts \cap CoinBases = {}, ConnectsAfter(b, t, ts)
      PROVE  db.pos[t] = NoBlock /\ ConnectsOn(t, ts, b)
  <2>1. ASSUME NEW o \in Ins[t]
        PROVE  /\ o \in OutPoints
               /\ db.pos[o[1]] # NoBlock \/ o[1] \in ts
               /\ db.spent[o] = NoTx /\ \A u \in ts : o \notin Ins[u]
               /\ o[1] \in CoinBases =>
                    Height[db.pos[o[1]]] + CoinbaseMaturity <= Height[b] + 1
    <3>1. o \in UnspentWith(b, ts)
      BY <1>4, <2>1 DEF ConnectsAfter
    <3>2. o \in OutPoints /\ o[1] \in Txs /\ o[1] \in ChainTxs(b) \cup ts
          /\ \A u \in ChainTxs(b) \cup ts : o \notin Ins[u]
      BY <3>1, Outputs DEF UnspentWith
    <3>3. ASSUME o[1] \in CoinBases
          PROVE  Height[db.pos[o[1]]] + CoinbaseMaturity <= Height[b] + 1
      <4>1. o[1] \in ChainTxs(b)
        BY <1>4, <3>2, <3>3
      <4>2. PICK q \in Places(b) : TxAt(q) = o[1]
        BY <4>1 DEF ChainTxs
      <4>3. db.pos[o[1]] = q[1]
        BY <1>3, <4>2
      <4> QED BY <1>4, <2>1, <3>3, <4>2, <4>3 DEF ConnectsAfter
    <3> QED BY <1>3, <3>2, <3>3
  <2>2. db.pos[t] = NoBlock
    BY <1>3, <1>4 DEF ConnectsAfter
  <2> QED BY <1>4, <2>1, <2>2 DEF ConnectsOn, ConnectsAfter
<1>5. ASSUME NEW i \in DOMAIN vtx
      PROVE  /\ db.pos[vtx[i]] = NoBlock
             /\ ConnectsOn(vtx[i], {vtx[j] : j \in 1..(i - 1)}, b)
  <2>1. /\ vtx \in Seq(Txs) /\ vtx[i] \in Txs /\ i \in 1..Len(vtx) /\ Len(vtx) \in Nat
        /\ DOMAIN vtx = 1..Len(vtx)
    BY DEF MinerTypeOK
  <2>2. \A j \in 1..(i - 1) : j \in DOMAIN vtx
    BY <2>1
  <2>3. \A j \in DOMAIN vtx : vtx[j] \notin CoinBases
    BY <1>1 DEF CollectedOn, ConnectsAfter
  <2>4. {vtx[j] : j \in 1..(i - 1)} \cap CoinBases = {}
    BY <2>2, <2>3
  <2>5. ConnectsAfter(b, vtx[i], {vtx[j] : j \in 1..(i - 1)})
    BY <1>1 DEF CollectedOn
  <2> QED BY <1>4, <2>1, <2>4, <2>5
<1>6. fees = SumOf(FeeOf, Range(vtx))
  BY <1>1 DEF CollectedOn
<1> QED BY <1>5, <1>6 DEF b

\* As long as no branch may issue more than MAX_MONEY, a block that passes CheckWork's stale
\* check connects: however the message thread and the miner interleave, its transactions are
\* still valid on the best block, and the fees in its reward are those that they pay.
THEOREM MinedBlocksConnect ==
  ASSUME \A x \in Blocks : Issued(x) <= MaxMoney
  PROVE  MinerSpec => []MinedBlockConnects
<1>1. AllMined => MinedBlockConnects
  BY MinedConnects DEF AllMined, MinerInv
<1>2. AllMined /\ [MinerNext]_<<vars, minerVars>> => AllMined'
  BY MinedStep
<1> QED BY <1>1, <1>2, MinedInit, PTL DEF MinerSpec
=============================================================================
