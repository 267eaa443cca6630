---------------------------- MODULE OrphanProofs ----------------------------
(***************************************************************************)
(* What holds of the kept transactions for every tree of blocks and every  *)
(* set of transactions.                                                    *)
(***************************************************************************)
EXTENDS OrphanTx, ChainProofs

-----------------------------------------------------------------------------
(* The chain and the pool beside the kept transactions.                    *)

\* Every step of the "tx" message is a step that ChainState allows, or none.
LEMMA OrphanNextIsNext == [OrphanNext]_<<vars, orphanVars, txVars>> => [Next]_vars
<1>1. ASSUME NEW t \in Txs, ReceiveTx(t) PROVE [Next]_vars
  BY <1>1 DEF ReceiveTx, Next
<1>2. ASSUME NEW t \in Txs, TryOrphan(t) PROVE [Next]_vars
  BY <1>2 DEF TryOrphan, Next
<1>3. ASSUME NextPrev \/ EraseNext PROVE [Next]_vars
  BY <1>3 DEF NextPrev, EraseNext
<1>4. ASSUME BlockStep PROVE [Next]_vars
  BY <1>4 DEF BlockStep, Next
<1> QED BY <1>1, <1>2, <1>3, <1>4 DEF OrphanNext, TxStep

\* So the chain and the pool keep the invariant of ChainState.
LEMMA OrphanChainStep == ChainInv /\ [OrphanNext]_<<vars, orphanVars, txVars>> => ChainInv'
BY OrphanNextIsNext, ChainInvStep

-----------------------------------------------------------------------------
(* A queue that grows at its end and is taken from its head.               *)

\* What is in a queue after one more is put in.
LEMMA AppendValues ==
  ASSUME NEW T, NEW s \in Seq(T), NEW x \in T
  PROVE  /\ Append(s, x) \in Seq(T) /\ Len(Append(s, x)) = Len(s) + 1 /\ Append(s, x) # <<>>
         /\ Append(s, x)[Len(s) + 1] = x
         /\ \A i \in 1..Len(s) : Append(s, x)[i] = s[i]
         /\ Len(s) \in Nat
BY AppendProperties, LenProperties

\* What is in it after its head is taken.
LEMMA QueueTail ==
  ASSUME NEW T, NEW s \in Seq(T), s # <<>>
  PROVE  /\ Tail(s) \in Seq(T) /\ Len(Tail(s)) = Len(s) - 1 /\ Len(s) \in Nat \ {0}
         /\ Head(s) \in T
         /\ \A i \in 1..Len(Tail(s)) : Tail(s)[i] = s[i + 1] /\ i + 1 \in 1..Len(s)
BY HeadTailProperties, LenProperties, EmptySeq

-----------------------------------------------------------------------------
(* The maps.                                                               *)

\* The parents of a transaction are transactions.
LEMMA SpendsTxs == \A t \in Txs : Spends(t) \subseteq Txs
BY Outputs DEF Spends

\* A kept transaction is found under each of its parents.
LEMMA FoundUnderParents ==
  ASSUME OrphanTypeOK, ByPrevSound, NEW t \in mapOrphanTransactions, NEW p \in Spends(t)
  PROVE  t \in DependingOn(p)
BY DEF OrphanTypeOK, ByPrevSound, DependingOn

\* Keeping one more, or erasing one, leaves the entries those of what is kept.
LEMMA MapsStaySound ==
  ASSUME OrphanTypeOK, ByPrevSound, NEW t \in Txs, AddOrphanTx(t) \/ EraseOrphanTx(t)
  PROVE  /\ ByPrevSound' /\ mapOrphanTransactions' \subseteq Txs
         /\ mapOrphanTransactionsByPrev' \subseteq Txs \X Txs
<1>1. Spends(t) \subseteq Txs
  BY SpendsTxs
<1>2. CASE UNCHANGED orphanVars
  BY <1>2 DEF orphanVars, OrphanTypeOK, ByPrevSound
<1>3. CASE /\ mapOrphanTransactions' = mapOrphanTransactions \cup {t}
           /\ mapOrphanTransactionsByPrev' =
                mapOrphanTransactionsByPrev \cup {<<p, t>> : p \in Spends(t)}
  BY <1>1, <1>3 DEF OrphanTypeOK, ByPrevSound
<1>4. CASE /\ mapOrphanTransactions' = mapOrphanTransactions \ {t}
           /\ mapOrphanTransactionsByPrev' =
                mapOrphanTransactionsByPrev \ {<<p, t>> : p \in Spends(t)}
  BY <1>1, <1>4 DEF OrphanTypeOK, ByPrevSound
<1> QED BY <1>2, <1>3, <1>4 DEF AddOrphanTx, EraseOrphanTx

-----------------------------------------------------------------------------
(* What one more transaction in the pool changes for another.              *)

\* A transaction that can be accepted after another could be before, but for one that
\* spends the other; and it is not the other.
LEMMA AcceptedBefore ==
  ASSUME mapNextTx \in [PrevOuts -> Txs \cup {NoTx}], NEW u \in Txs, AddToMemoryPoolUnchecked(u),
         db' = db, pindexBest' = pindexBest,
         NEW t \in Txs, Acceptable(t, TRUE)'
  PROVE  t # u /\ (u \notin Spends(t) => Acceptable(t, TRUE))
<1>1. /\ t \notin CoinBases /\ t \in Standard /\ t \notin mapTransactions \cup {u}
      /\ db.pos[t] = NoBlock
  BY DEF Acceptable, AddToMemoryPoolUnchecked
<1>2. \A o \in Ins[t] : o \in PrevOuts /\ mapNextTx'[o] = NoTx
  BY DEF Acceptable, PrevOuts
<1>3. \A o \in Ins[t] : mapNextTx[o] = NoTx
  BY <1>2, TxAssumption DEF AddToMemoryPoolUnchecked
<1>4. ASSUME u \notin Spends(t) PROVE CanConnect(t, pindexBest, FALSE)
  <2>1. CanConnect(t, pindexBest, FALSE)'
    BY DEF Acceptable
  <2>2. ASSUME NEW o \in Ins[t], CanSpend(o, pindexBest, FALSE)'
        PROVE  CanSpend(o, pindexBest, FALSE)
    <3>1. o[1] # u
      BY <1>4 DEF Spends
    <3> QED BY <2>2, <3>1 DEF CanSpend, Matured, AddToMemoryPoolUnchecked
  <2> QED BY <2>1, <2>2 DEF CanConnect
<1> QED BY <1>1, <1>3, <1>4 DEF Acceptable

\* Whether one can be accepted depends on the pool, the database and the best block.
LEMMA SameAcceptable ==
  ASSUME UNCHANGED <<vars>>, NEW t
  PROVE  Acceptable(t, TRUE)' <=> Acceptable(t, TRUE)
BY DEF vars, pool, disk, memory, Acceptable, CanConnect, CanSpend, Matured

-----------------------------------------------------------------------------
(* Nothing that could be accepted is left behind.                          *)

\* When the node starts nothing is kept.
LEMMA SettledInit == OrphanInit => SettledInv
<1> SUFFICES ASSUME OrphanInit PROVE SettledInv
  OBVIOUS
<1>1. vTxQueue \in Seq(Txs) /\ Len(vTxQueue) = 0
  BY EmptySeq DEF OrphanInit
<1>2. OrphanTypeOK
  BY <1>1 DEF OrphanInit, OrphanTypeOK
<1> QED BY <1>2 DEF OrphanInit, SettledInv, ByPrevSound, LoopOverQueue, SettledSoFar, OrphansSettled

\* A message: what depends on the transaction is about to be tried.
LEMMA SettledReceive ==
  ASSUME ChainInv, SettledInv, NEW u \in Txs, ReceiveTx(u)
  PROVE  SettledInv'
<1>1. tpc = "idle" /\ pc = "idle" /\ OrphanTypeOK /\ ByPrevSound
  BY DEF ReceiveTx, SettledInv
<1>2. CASE /\ AcceptToMemoryPool(u) /\ UNCHANGED orphanVars
           /\ vTxQueue' = <<u>> /\ nQueue' = 1 /\ toTry' = DependingOn(u) /\ tpc' = "try"
  <2>1. vTxQueue' \in Seq(Txs) /\ Len(vTxQueue') = 1 /\ vTxQueue'[1] = u /\ vTxQueue' # <<>>
    BY <1>2
  <2>2. OrphanTypeOK' /\ ByPrevSound'
    BY <1>1, <1>2, <2>1 DEF OrphanTypeOK, orphanVars, ByPrevSound, DependingOn
  <2>3. LoopOverQueue'
    BY <1>2, <2>1 DEF LoopOverQueue, AcceptToMemoryPool
  <2>4. ASSUME NEW t \in mapOrphanTransactions', NEW i \in 1..Len(vTxQueue'),
               vTxQueue'[i] \in Spends(t)
        PROVE  t \in toTry'
    BY <1>1, <1>2, <2>1, <2>4, FoundUnderParents DEF orphanVars
  <2> QED BY <1>2, <2>2, <2>3, <2>4 DEF SettledInv, SettledSoFar, StillToTry, OrphansSettled
<1>3. CASE UNCHANGED <<vars, txVars>> /\ (AddOrphanTx(u) \/ UNCHANGED orphanVars)
  <2>1. /\ ByPrevSound' /\ mapOrphanTransactions' \subseteq Txs
        /\ mapOrphanTransactionsByPrev' \subseteq Txs \X Txs
    BY <1>1, <1>3, MapsStaySound DEF orphanVars, OrphanTypeOK, ByPrevSound
  <2>2. OrphanTypeOK'
    BY <1>1, <1>3, <2>1 DEF OrphanTypeOK, txVars
  <2> QED BY <1>1, <1>3, <2>1, <2>2 DEF txVars, SettledInv, LoopOverQueue, SettledSoFar,
       OrphansSettled
<1> QED BY <1>2, <1>3 DEF ReceiveTx

\* A kept transaction is tried: when it is accepted, what spends it is left to the end of
\* the queue, and nothing else becomes acceptable.
LEMMA SettledTry ==
  ASSUME ChainInv, SettledInv, NEW u \in Txs, TryOrphan(u)
  PROVE  SettledInv'
<1>1. /\ tpc = "try" /\ tpc' = "try" /\ u \in toTry /\ toTry' = toTry \ {u}
      /\ UNCHANGED <<orphanVars, nQueue>> /\ pc = "idle"
      /\ OrphanTypeOK /\ ByPrevSound /\ vTxQueue \in Seq(Txs) /\ nQueue \in 1..Len(vTxQueue)
  BY DEF TryOrphan, SettledInv, OrphanTypeOK, LoopOverQueue
<1>2. CASE Acceptable(u, TRUE) /\ AcceptToMemoryPool(u) /\ vTxQueue' = Append(vTxQueue, u)
  <2>1. /\ vTxQueue' \in Seq(Txs) /\ Len(vTxQueue') = Len(vTxQueue) + 1 /\ vTxQueue' # <<>>
        /\ vTxQueue'[Len(vTxQueue) + 1] = u /\ Len(vTxQueue) \in Nat
        /\ \A i \in 1..Len(vTxQueue) : vTxQueue'[i] = vTxQueue[i]
    BY <1>1, <1>2, AppendValues
  <2>2. OrphanTypeOK' /\ ByPrevSound'
    BY <1>1, <2>1 DEF OrphanTypeOK, orphanVars, ByPrevSound
  <2>3. LoopOverQueue'
    BY <1>1, <1>2, <2>1 DEF LoopOverQueue, AcceptToMemoryPool
  <2>4. ASSUME NEW t \in mapOrphanTransactions, NEW i \in 1..Len(vTxQueue'),
               vTxQueue'[i] \in Spends(t), Acceptable(t, TRUE)'
        PROVE  StillToTry(t)'
    <3>1. t \in Txs /\ mapNextTx \in [PrevOuts -> Txs \cup {NoTx}]
      BY <1>1 DEF OrphanTypeOK, ChainInv, PositionInv, TypeOK
    <3>2. t # u /\ (u \notin Spends(t) => Acceptable(t, TRUE))
      BY <1>2, <2>4, <3>1, AcceptedBefore DEF AcceptToMemoryPool, disk, memory
    <3>3. CASE u \in Spends(t)
      <4>1. Len(vTxQueue) + 1 \in (nQueue' + 1)..Len(vTxQueue')
        BY <1>1, <2>1
      <4> QED BY <2>1, <3>3, <4>1 DEF StillToTry, Spends
    <3>4. CASE u \notin Spends(t)
      <4>1. i \in 1..Len(vTxQueue) /\ vTxQueue[i] \in Spends(t)
        BY <2>1, <2>4, <3>4
      <4>2. StillToTry(t)
        BY <1>1, <2>4, <3>2, <3>4, <4>1 DEF SettledInv, SettledSoFar
      <4>3. CASE t \in toTry
        BY <1>1, <3>2, <4>3 DEF StillToTry
      <4>4. CASE \E j \in (nQueue + 1)..Len(vTxQueue) : vTxQueue[j] \in Spends(t)
        <5>1. PICK j \in (nQueue + 1)..Len(vTxQueue) : vTxQueue[j] \in Spends(t)
          BY <4>4
        <5>2. j \in (nQueue' + 1)..Len(vTxQueue') /\ vTxQueue'[j] = vTxQueue[j]
          BY <1>1, <2>1, <5>1
        <5> QED BY <5>1, <5>2 DEF StillToTry, Spends
      <4> QED BY <4>2, <4>3, <4>4 DEF StillToTry
    <3> QED BY <3>3, <3>4
  <2>5. SettledSoFar'
    BY <1>1, <2>4 DEF SettledSoFar, orphanVars, Spends
  <2> QED BY <1>1, <2>2, <2>3, <2>5 DEF SettledInv, OrphansSettled
<1>3. CASE ~Acceptable(u, TRUE) /\ UNCHANGED <<vars, vTxQueue>>
  <2>1. OrphanTypeOK' /\ ByPrevSound' /\ LoopOverQueue'
    BY <1>1, <1>3 DEF OrphanTypeOK, orphanVars, ByPrevSound, LoopOverQueue, vars
  <2>2. ASSUME NEW t \in mapOrphanTransactions, Acceptable(t, TRUE)', StillToTry(t)
        PROVE  StillToTry(t)'
    BY <1>1, <1>3, <2>2, SameAcceptable DEF StillToTry, Spends
  <2>3. SettledSoFar'
    BY <1>1, <1>3, <2>2, SameAcceptable DEF SettledInv, SettledSoFar, orphanVars, Spends
  <2> QED BY <1>1, <2>1, <2>3 DEF SettledInv, OrphansSettled
<1> QED BY <1>2, <1>3 DEF TryOrphan

\* The next of the queue, or its end: what depends on the next is found by the map.
LEMMA SettledNextPrev ==
  ASSUME SettledInv, NextPrev
  PROVE  SettledInv'
<1>1. /\ tpc = "try" /\ toTry = {} /\ UNCHANGED <<vars, orphanVars, vTxQueue>> /\ pc = "idle"
      /\ OrphanTypeOK /\ ByPrevSound /\ vTxQueue \in Seq(Txs) /\ nQueue \in 1..Len(vTxQueue)
      /\ vTxQueue # <<>> /\ Len(vTxQueue) \in Nat /\ pc' = "idle"
  BY LenProperties DEF NextPrev, SettledInv, OrphanTypeOK, LoopOverQueue, vars
<1>2. ASSUME NEW t \in mapOrphanTransactions, Acceptable(t, TRUE)',
             \E i \in 1..Len(vTxQueue) : vTxQueue[i] \in Spends(t)
      PROVE  \E i \in (nQueue + 1)..Len(vTxQueue) : vTxQueue[i] \in Spends(t)
  BY <1>1, <1>2, SameAcceptable DEF SettledInv, SettledSoFar, StillToTry
<1>3. ByPrevSound'
  BY <1>1 DEF orphanVars, ByPrevSound
<1>4. CASE /\ nQueue < Len(vTxQueue) /\ nQueue' = nQueue + 1 /\ UNCHANGED tpc
           /\ toTry' = DependingOn(vTxQueue[nQueue + 1])
  <2>1. OrphanTypeOK' /\ LoopOverQueue'
    BY <1>1, <1>4 DEF OrphanTypeOK, orphanVars, LoopOverQueue, DependingOn
  <2>2. ASSUME NEW t \in mapOrphanTransactions,
               \E i \in (nQueue + 1)..Len(vTxQueue) : vTxQueue[i] \in Spends(t)
        PROVE  StillToTry(t)'
    <3>1. PICK i \in (nQueue + 1)..Len(vTxQueue) : vTxQueue[i] \in Spends(t)
      BY <2>2
    <3>2. CASE i = nQueue + 1
      BY <1>1, <1>4, <3>1, <3>2, FoundUnderParents DEF StillToTry
    <3>3. CASE i # nQueue + 1
      <4>1. i \in (nQueue' + 1)..Len(vTxQueue')
        BY <1>1, <1>4, <3>1, <3>3
      <4> QED BY <1>1, <3>1, <4>1 DEF StillToTry, Spends
    <3> QED BY <3>2, <3>3
  <2>3. SettledSoFar'
    BY <1>1, <1>2, <2>2 DEF SettledSoFar, orphanVars, Spends
  <2> QED BY <1>1, <1>3, <1>4, <2>1, <2>3 DEF SettledInv, OrphansSettled
<1>5. CASE /\ ~(nQueue < Len(vTxQueue)) /\ tpc' = "erase" /\ UNCHANGED <<nQueue, toTry>>
  <2>1. OrphanTypeOK' /\ LoopOverQueue'
    BY <1>1, <1>5 DEF OrphanTypeOK, orphanVars, LoopOverQueue
  <2>2. \A i \in (nQueue + 1)..Len(vTxQueue) : FALSE
    BY <1>1, <1>5
  <2>3. OrphansSettled'
    BY <1>1, <1>2, <2>2 DEF OrphansSettled, orphanVars, Spends
  <2> QED BY <1>3, <1>5, <2>1, <2>3 DEF SettledInv, SettledSoFar
<1> QED BY <1>4, <1>5 DEF NextPrev

\* Those that were accepted are erased; the others stay as they are.
LEMMA SettledErase ==
  ASSUME SettledInv, EraseNext
  PROVE  SettledInv'
<1> DEFINE s == vTxQueue
<1>1. /\ tpc = "erase" /\ UNCHANGED <<vars, toTry>> /\ pc = "idle" /\ pc' = "idle"
      /\ OrphanTypeOK /\ ByPrevSound /\ s \in Seq(Txs) /\ s # <<>> /\ vTxQueue' = Tail(s)
      /\ nQueue' = Len(vTxQueue') /\ tpc' = IF vTxQueue' = <<>> THEN "idle" ELSE "erase"
  BY DEF EraseNext, SettledInv, OrphanTypeOK, LoopOverQueue, vars
<1> HIDE DEF s
<1>2. /\ Tail(s) \in Seq(Txs) /\ Len(Tail(s)) = Len(s) - 1 /\ Len(s) \in Nat \ {0} /\ Head(s) \in Txs
      /\ \A i \in 1..Len(Tail(s)) : Tail(s)[i] = s[i + 1] /\ i + 1 \in 1..Len(s)
  BY <1>1, QueueTail
<1>3. EraseOrphanTx(Head(s))
  BY DEF EraseNext, s
<1>4. /\ ByPrevSound' /\ mapOrphanTransactions' \subseteq Txs
      /\ mapOrphanTransactionsByPrev' \subseteq Txs \X Txs
  BY <1>1, <1>2, <1>3, MapsStaySound
<1>5. mapOrphanTransactions' \subseteq mapOrphanTransactions
  BY <1>3 DEF EraseOrphanTx, orphanVars
<1>6. OrphanTypeOK'
  BY <1>1, <1>2, <1>4 DEF OrphanTypeOK
<1>7. LoopOverQueue' /\ SettledSoFar'
  BY <1>1 DEF LoopOverQueue, SettledSoFar
<1>8. ASSUME NEW t \in mapOrphanTransactions', NEW i \in 1..Len(vTxQueue'), vTxQueue'[i] \in Spends(t)
      PROVE  ~Acceptable(t, TRUE)'
  <2>1. s[i + 1] \in Spends(t) /\ i + 1 \in 1..Len(s) /\ t \in mapOrphanTransactions
    BY <1>1, <1>2, <1>5, <1>8
  <2>2. ~Acceptable(t, TRUE)
    BY <1>1, <2>1 DEF SettledInv, OrphansSettled, s
  <2> QED BY <1>1, <2>2, SameAcceptable
<1>9. OrphansSettled'
  BY <1>8 DEF OrphansSettled, Spends
<1> QED BY <1>4, <1>6, <1>7, <1>9 DEF SettledInv

\* Every step keeps it: a block comes only between two messages.
LEMMA SettledStep ==
  ChainInv /\ SettledInv /\ [OrphanNext]_<<vars, orphanVars, txVars>> => SettledInv'
<1> SUFFICES ASSUME ChainInv, SettledInv, [OrphanNext]_<<vars, orphanVars, txVars>>
             PROVE  SettledInv'
  OBVIOUS
<1>1. CASE UNCHANGED <<vars, orphanVars, txVars>>
  <2>1. OrphanTypeOK' /\ ByPrevSound' /\ LoopOverQueue'
    BY <1>1 DEF SettledInv, orphanVars, txVars, vars, OrphanTypeOK, ByPrevSound, LoopOverQueue
  <2>2. SettledSoFar' /\ OrphansSettled'
    BY <1>1, SameAcceptable DEF SettledInv, SettledSoFar, StillToTry, OrphansSettled, Spends,
       orphanVars, txVars
  <2> QED BY <2>1, <2>2 DEF SettledInv
<1>2. CASE BlockStep
  BY <1>2 DEF BlockStep, SettledInv, orphanVars, txVars, OrphanTypeOK, ByPrevSound, LoopOverQueue,
     SettledSoFar, OrphansSettled
<1> QED BY <1>1, <1>2, SettledReceive, SettledTry, SettledNextPrev, SettledErase DEF OrphanNext, TxStep

\* When the message is done, no kept transaction that spends one it accepted could be
\* accepted now, whatever the transactions and in whatever order they came.
THEOREM SettledCorrect == OrphanSpec => []OrphansSettled
<1>1. OrphanInit => ChainInv
  BY ChainInit DEF OrphanInit
<1>2. SettledInv => OrphansSettled
  BY DEF SettledInv
<1> QED BY <1>1, <1>2, OrphanChainStep, SettledInit, SettledStep, PTL DEF OrphanSpec

-----------------------------------------------------------------------------
(* Kept transactions and blocks.                                           *)

\* What SetBestChain is to delete from the pool is on the branch it connects.
LEMMA DeletedStep == ChainInv /\ DeletedAreConnected /\ [Next]_vars => DeletedAreConnected'
<1> SUFFICES ASSUME ChainInv, DeletedAreConnected, [Next]_vars PROVE DeletedAreConnected'
  OBVIOUS
<1> USE DEF DeletedAreConnected
<1>1. PositionInv /\ IndexInv /\ LedgerInv /\ PoolInv /\ pindex \in Blocks /\ vDelete \in Seq(Txs)
  BY DEF ChainInv, PositionInv, TypeOK
<1>2. CASE UNCHANGED vars
  BY <1>2 DEF vars, locals
<1>3. CASE \E b \in Blocks : ReceiveBlock(b) \/ AcceptOrphan(b)
  BY <1>3 DEF ReceiveBlock, DropBlock, HoldOrphanBlock, ProcessBlock, AcceptOrphan, vars, locals
<1>4. CASE \E t \in Txs : AcceptToMemoryPool(t)
  BY <1>4 DEF AcceptToMemoryPool, locals
<1>5. CASE RejectBlock \/ AddToBlockIndex \/ NextInQueue
  BY <1>5 DEF RejectBlock, AddToBlockIndex, NextInQueue, AcceptReturns
<1>6. CASE ExtendBestChain \/ StartReorganize \/ DisconnectTx \/ DisconnectBlock \/ ReachFork
  <2>1. vDelete = <<>> /\ vDelete' = <<>> /\ pc' \in {"connect", "disconnect"}
    BY <1>6 DEF ExtendBestChain, StartReorganize, DisconnectTx, DisconnectBlock, ReachFork
  <2>2. \A i \in DOMAIN vDelete' : FALSE
    BY <2>1
  <2> QED BY <2>1, <2>2
<1>7. CASE ConnectTx \/ CommitBestChain \/ ResurrectTx \/ StartDelete
  BY <1>7 DEF ConnectTx, CommitBestChain, ResurrectTx, StartDelete, locals
<1>8. CASE ConnectBlock
  <2> DEFINE b == NextToConnect
             r == Vtx[b]
  <2>1. b \in Blocks \ {GenesisBlock} /\ Chain[b] = {b} \cup Chain[pindex] /\ r \in Seq(Txs)
        /\ b \in Chain[b]
    BY <1>1, <1>8, Connecting, ChainStep, TxAssumption DEF ConnectBlock
  <2>2. /\ pc = "connect" /\ pc' \in {"connect", "commit"} /\ pindex' = b
        /\ vDelete' = vDelete \o r
    BY <1>8 DEF ConnectBlock, DeletedWith
  <2> HIDE DEF r
  <2>3. \A i \in DOMAIN (vDelete \o r) : \/ i \in DOMAIN vDelete /\ (vDelete \o r)[i] = vDelete[i]
                                         \/ \E j \in DOMAIN r : (vDelete \o r)[i] = r[j]
    BY ONLY <1>1, <2>1, ConcatParts
  <2>4. ASSUME NEW i \in DOMAIN vDelete'
        PROVE  \E a \in Chain[pindex'] \ {GenesisBlock} : \E j \in DOMAIN Vtx[a] : vDelete'[i] = Vtx[a][j]
    <3>1. CASE i \in DOMAIN vDelete /\ vDelete'[i] = vDelete[i]
      BY <2>1, <2>2, <3>1
    <3>2. CASE \E j \in DOMAIN r : vDelete'[i] = r[j]
      BY <2>1, <2>2, <3>2 DEF r
    <3> QED BY <2>2, <2>3, <3>1, <3>2
  <2> QED BY <2>2, <2>4
<1>9. CASE DeleteTx
  <2>1. /\ vDelete # <<>> /\ vDelete' = Tail(vDelete) /\ pc = "delete" /\ pc' = "delete"
        /\ pindex' = pindex
    BY <1>9 DEF DeleteTx
  <2>2. \A i \in DOMAIN Tail(vDelete) : i + 1 \in DOMAIN vDelete /\ Tail(vDelete)[i] = vDelete[i + 1]
    BY ONLY <1>1, <2>1, TailValues
  <2> QED BY <2>1, <2>2
<1>10. CASE AbortBestChain \/ SetBestChain
  BY <1>10 DEF AbortBestChain, SetBestChain, AcceptReturns
<1>11. CASE \E n \in 1..Len(log) : CrashAndRestart(n)
  BY <1>11 DEF CrashAndRestart
<1> QED BY <1>2, <1>3, <1>4, <1>5, <1>6, <1>7, <1>8, <1>9, <1>10, <1>11 DEF Next, HandlerStep

\* The parents of a transaction on a valid branch are on it too.
LEMMA ParentsOnBranch ==
  ASSUME NEW b \in ValidBranches, NEW t \in ChainTxs(b), NEW p \in Spends(t)
  PROVE  p \in ChainTxs(b)
<1>1. PICK q \in Places(b) : TxAt(q) = t
  BY DEF ChainTxs
<1>2. PICK o \in Ins[t] : p = o[1]
  BY DEF Spends
<1>3. \E r \in Places(b) : TxAt(r) = o[1]
  BY <1>1, <1>2, BranchIsConsistent DEF Consistent
<1> QED BY <1>2, <1>3 DEF ChainTxs

\* What the last commit tells of a transaction: whether the branch it stands for has it.
LEMMA CommitTells ==
  ASSUME ChainInv
  PROVE  LET b == Last(log).hashBestChain
         IN  b \in ValidBranches /\ \A t \in Txs : Last(log).pos[t] # NoBlock <=> t \in ChainTxs(b)
<1>1. /\ Last(log).hashBestChain \in ValidBranches
      /\ IsIndexOf(Last(log), Places(Last(log).hashBestChain))
  BY LastIsIndex DEF ChainInv
<1> QED BY <1>1, BestIndexTells

\* A transaction that is ready, none of whose parents is in a block, is acceptable.
LEMMA ReadyIsAcceptable ==
  ASSUME ChainInv, pc = "idle", NEW t \in Txs, PoolReady(t),
         \A p \in Spends(t) : Last(log).pos[p] = NoBlock
  PROVE  Acceptable(t, TRUE)
<1> DEFINE b == Last(log).hashBestChain
<1>1. b \in ValidBranches /\ \A u \in Txs : db.pos[u] # NoBlock <=> u \in ChainTxs(b)
  BY CommitTells DEF ChainInv, IndexInv, CopiesAgree
<1>2. IsIndexOf(db, Places(b)) /\ db = Last(log)
  BY LastIsIndex DEF ChainInv, IndexInv, CopiesAgree
<1> HIDE DEF b
<1>3. \A o \in OutPoints : db.spent[o] = NoTx <=> \A u \in ChainTxs(b) : o \notin Ins[u]
  BY <1>1, <1>2, BestIndexTells
<1>4. ASSUME NEW o \in Ins[t]
      PROVE  /\ o \in OutPoints /\ o[1] \in mapTransactions /\ o[1] \in Txs
             /\ db.pos[o[1]] = NoBlock /\ o[1] \notin ChainTxs(b)
  <2>1. o[1] \in Spends(t) /\ o[1] \in Txs
    BY Outputs DEF Spends
  <2> QED BY <1>1, <1>2, <2>1 DEF PoolReady
<1>5. ASSUME NEW o \in Ins[t] PROVE db.spent[o] = NoTx
  <2> SUFFICES ASSUME NEW u \in ChainTxs(b), o \in Ins[u] PROVE FALSE
    BY <1>3, <1>4
  <2>1. o[1] \in Spends(u)
    BY DEF Spends
  <2> QED BY <1>1, <1>4, <2>1, ParentsOnBranch
<1>6. ASSUME NEW o \in Ins[t] PROVE CanSpend(o, pindexBest, FALSE)
  <2>1. pindexBest \in Blocks
    BY DEF ChainInv, PositionInv, TypeOK
  <2>2. NoBlock \notin Chain[pindexBest]
    BY <2>1, ChainClosed, TreeAssumption
  <2> QED BY <1>4, <1>5, <2>2 DEF CanSpend, Matured
<1>7. db.pos[t] = NoBlock
  <2>1. PICK o \in Ins[t] : TRUE
    BY CoinbaseAssumption DEF PoolReady
  <2>2. o[1] \in Spends(t)
    BY DEF Spends
  <2> QED BY <1>1, <1>4, <2>1, <2>2, ParentsOnBranch
<1> QED BY <1>6, <1>7 DEF Acceptable, CanConnect, PoolReady

\* An acceptable one none of whose parents is in a block has them in the pool.
LEMMA AcceptableIsReady ==
  ASSUME NEW t \in Txs, Acceptable(t, TRUE), \A p \in Spends(t) : db.pos[p] = NoBlock
  PROVE  PoolReady(t)
<1>1. ASSUME NEW o \in Ins[t] PROVE o \in OutPoints /\ o[1] \in mapTransactions
  BY DEF Acceptable, CanConnect, CanSpend, Spends
<1> QED BY <1>1 DEF Acceptable, CanConnect, PoolReady

\* One branch: no block has a competitor, so that the chain is never reorganized.
OneBranch == \A a, b \in Blocks : a \in Chain[b] \/ b \in Chain[a]

\* On one branch, a candidate extends the best block, and nothing is disconnected.
LEMMA NothingDisconnected ==
  ASSUME OneBranch, ChainInv, Activating
  PROVE  Chain[pindexBest] \subseteq Chain[pindexNew] /\ Disconnected = {} /\ vResurrect = <<>>
<1>1. /\ pindexBest \in Blocks /\ pindexNew \in Blocks /\ vResurrect \in Seq(Txs)
      /\ ChainWork[pindexNew] > ChainWork[pindexBest]
  BY DEF ChainInv, PositionInv, TypeOK, CandidateIsBetter
<1>2. pindexBest \in Chain[pindexNew]
  <2> SUFFICES ASSUME pindexNew \in Chain[pindexBest] PROVE FALSE
    BY <1>1 DEF OneBranch
  <2>1. ChainWork[pindexNew] <= ChainWork[pindexBest]
    BY <1>1, ChainWorkBound
  <2> QED BY <1>1, <2>1, TreeAssumption
<1>3. Chain[pindexBest] \subseteq Chain[pindexNew]
  BY <1>1, <1>2, ChainSubset
<1>4. Disconnected = {}
  BY <1>3 DEF Disconnected
<1>5. vResurrect = <<>>
  <2>1. CASE vResurrect # <<>>
    <3>1. 1 \in DOMAIN vResurrect
      BY <1>1, <2>1, EmptySeq, LenProperties
    <3> QED BY <1>4, <2>1, <3>1 DEF ChainInv, PoolInv
  <2> QED BY <2>1
<1> QED BY <1>3, <1>4, <1>5

\* On one branch a transaction that is in a block on disk stays in one.
LEMMA BlocksStay ==
  ASSUME OneBranch, ChainInv, (\E b \in Blocks : ReceiveBlock(b)) \/ HandlerStep,
         NEW t \in Txs, Last(log).pos[t] # NoBlock
  PROVE  Last(log)'.pos[t] # NoBlock
<1>1. crashes' = crashes /\ Next
  BY BlocksKeepCrashes DEF Next
<1>2. ~ \E n \in 1..Len(log) : CrashAndRestart(n)
  BY <1>1 DEF CrashAndRestart, ChainInv, PositionInv, TypeOK
<1>3. CASE ~CommitBestChain
  BY <1>1, <1>2, <1>3, LedgerStays DEF SameTxs
<1>4. CASE CommitBestChain
  <2>1. ChainInv'
    BY <1>1, ChainInvStep
  <2>2. /\ Last(log)'.hashBestChain \in ValidBranches
        /\ \A u \in Txs : Last(log)'.pos[u] # NoBlock <=> u \in ChainTxs(Last(log)'.hashBestChain)
    <3> DEFINE l == log'
    <3>1. l \in Seq(Database) /\ l # <<>> /\ RecoverableLedger'
      BY <2>1 DEF ChainInv, PositionInv, TypeOK, LedgerInv
    <3>2. /\ l[Len(l)].hashBestChain \in ValidBranches
          /\ IsIndexOf(l[Len(l)], Places(l[Len(l)].hashBestChain))
      <4>1. Len(l) \in DOMAIN l
        BY ONLY <3>1, LastOfLog
      <4> QED BY <3>1, <4>1 DEF RecoverableLedger
    <3> HIDE DEF l
    <3>3. \A u \in Txs : l[Len(l)].pos[u] # NoBlock <=> u \in ChainTxs(l[Len(l)].hashBestChain)
      BY <3>2, BestIndexTells
    <3> QED BY <3>2, <3>3 DEF Last, l
  <2>3. Last(log)'.hashBestChain = pindexNew /\ Last(log).hashBestChain = pindexBest
    <3>1. Last(log)'.hashBestChain = db'.hashBestChain /\ pc = "commit" /\ pc' = "resurrect"
          /\ pindexNew' = pindexNew
      BY <1>4, <2>1 DEF CommitBestChain, ChainInv, IndexInv, CopiesAgree, locals
    <3> QED BY <2>1, <3>1 DEF ChainInv, IndexInv, BranchOfDatabase, CopiesAgree
  <2>4. Chain[pindexBest] \subseteq Chain[pindexNew] /\ pindexBest \in Blocks /\ pindexNew \in Blocks
    BY <1>4, NothingDisconnected DEF CommitBestChain, Activating, ChainInv, PositionInv, TypeOK
  <2>5. Places(pindexBest) \subseteq Places(pindexNew)
    BY <2>4 DEF Places
  <2>6. t \in ChainTxs(pindexBest)
    BY <2>3, CommitTells
  <2> QED BY <2>2, <2>3, <2>5, <2>6 DEF ChainTxs
<1> QED BY <1>3, <1>4

\* What SetBestChain deletes from the pool is in a block on disk, and so are its parents.
LEMMA DeletedWasConnected ==
  ASSUME ChainInv, DeletedAreConnected, pc = "delete", vDelete # <<>>,
         NEW p \in Spends(Head(vDelete))
  PROVE  Last(log).pos[p] # NoBlock /\ Head(vDelete) \in Txs
<1>1. vDelete \in Seq(Txs) /\ vDelete # <<>> /\ pindex = pindexNew
      /\ Last(log).hashBestChain = pindexNew /\ pindexNew \in Blocks
  BY DEF ChainInv, PositionInv, TypeOK, IndexInv, BranchOfDatabase, CopiesAgree
<1>2. 1 \in DOMAIN vDelete /\ Head(vDelete) = vDelete[1] /\ Head(vDelete) \in Txs
  BY <1>1, HeadTailProperties, LenProperties, EmptySeq
<1>3. PICK a \in Chain[pindexNew] \ {GenesisBlock} : \E j \in DOMAIN Vtx[a] : vDelete[1] = Vtx[a][j]
  BY <1>1, <1>2 DEF DeletedAreConnected
<1>4. PICK j \in DOMAIN Vtx[a] : vDelete[1] = Vtx[a][j]
  BY <1>3
<1>5. <<a, j>> \in Places(pindexNew) /\ TxAt(<<a, j>>) = Head(vDelete)
  BY <1>1, <1>2, <1>3, <1>4, IsPlace DEF TxAt
<1>6. Head(vDelete) \in ChainTxs(pindexNew)
  BY <1>5 DEF ChainTxs
<1>7. p \in ChainTxs(pindexNew) /\ p \in Txs
  BY <1>1, <1>2, <1>6, CommitTells, ParentsOnBranch, SpendsTxs
<1> QED BY <1>1, <1>2, <1>7, CommitTells

\* A block makes no transaction ready but one of whose parents it has.
LEMMA ReadyBefore ==
  ASSUME OneBranch, ChainInv, DeletedAreConnected,
         (\E b \in Blocks : ReceiveBlock(b)) \/ HandlerStep,
         NEW t \in Txs, PoolReady(t)', \A p \in Spends(t) : Last(log)'.pos[p] = NoBlock
  PROVE  PoolReady(t) /\ \A p \in Spends(t) : Last(log).pos[p] = NoBlock
<1>1. \A p \in Spends(t) : Last(log).pos[p] = NoBlock
  BY BlocksStay, SpendsTxs
<1>2. CASE UNCHANGED pool
  BY <1>1, <1>2 DEF PoolReady, pool
<1>3. CASE ResurrectTx
  BY <1>1, <1>2, <1>3, NothingDisconnected DEF ResurrectTx, Activating
<1>4. CASE DeleteTx
  <2> DEFINE y == Head(vDelete)
  <2>1. /\ pc = "delete" /\ vDelete # <<>> /\ mapTransactions' = mapTransactions \ {y}
        /\ mapNextTx' = [o \in PrevOuts |-> IF o \in Ins[y] THEN NoTx ELSE mapNextTx[o]]
    BY <1>4 DEF DeleteTx, RemoveFromMemoryPool
  <2>2. \A p \in Spends(y) : Last(log).pos[p] # NoBlock
    BY <2>1, DeletedWasConnected
  <2> HIDE DEF y
  <2>3. Ins[t] # {}
    BY CoinbaseAssumption DEF PoolReady
  <2>4. t # y
    BY <1>1, <2>2, <2>3 DEF Spends
  <2>5. ASSUME NEW o \in Ins[t] PROVE mapNextTx[o] = NoTx
    <3>1. o \in PrevOuts /\ mapNextTx'[o] = NoTx
      BY DEF PrevOuts, PoolReady
    <3>2. o \notin Ins[y]
      BY <1>1, <2>2 DEF Spends
    <3> QED BY <2>1, <3>1, <3>2
  <2> QED BY <1>1, <2>1, <2>4, <2>5 DEF PoolReady
<1>5. CASE HandlerStep /\ ~ResurrectTx /\ ~DeleteTx
  <2>1. UNCHANGED pool
    BY <1>5 DEF HandlerStep, RejectBlock, AddToBlockIndex, ExtendBestChain, StartReorganize,
     DisconnectTx, DisconnectBlock, ReachFork, ConnectTx, ConnectBlock, CommitBestChain,
     AbortBestChain, StartDelete, SetBestChain, AcceptOrphan, NextInQueue
  <2> QED BY <1>2, <2>1
<1>6. CASE \E b \in Blocks : ReceiveBlock(b)
  BY <1>2, <1>6 DEF ReceiveBlock, DropBlock, HoldOrphanBlock, ProcessBlock, vars
<1> QED BY <1>3, <1>4, <1>5, <1>6

\* One more in the pool makes ready only what spends it; and it is not ready any more.
LEMMA ReadyBeforeAdded ==
  ASSUME mapNextTx \in [PrevOuts -> Txs \cup {NoTx}], NEW u \in Txs, AddToMemoryPoolUnchecked(u),
         NEW t \in Txs, PoolReady(t)'
  PROVE  t # u /\ (u \notin Spends(t) => PoolReady(t))
<1>1. t \notin mapTransactions \cup {u}
  BY DEF PoolReady, AddToMemoryPoolUnchecked
<1>2. ASSUME NEW o \in Ins[t] PROVE mapNextTx[o] = NoTx
  <2>1. o \in PrevOuts /\ mapNextTx'[o] = NoTx
    BY DEF PrevOuts, PoolReady
  <2> QED BY <2>1, TxAssumption DEF AddToMemoryPoolUnchecked
<1>3. ASSUME u \notin Spends(t), NEW o \in Ins[t] PROVE o[1] \in mapTransactions
  BY <1>3 DEF Spends, PoolReady, AddToMemoryPoolUnchecked
<1> QED BY <1>1, <1>2, <1>3 DEF PoolReady

\* While a message is handled the database stays as it is.
LEMMA UnreadyTry ==
  ASSUME ChainInv, SettledInv, UnreadyUntilTried, NEW u \in Txs, TryOrphan(u)
  PROVE  UnreadyUntilTried'
<1>1. /\ tpc = "try" /\ tpc' = "try" /\ u \in toTry /\ toTry' = toTry \ {u}
      /\ UNCHANGED <<mapOrphanTransactions, nQueue>> /\ pc = "idle"
      /\ mapOrphanTransactions \subseteq Txs
      /\ vTxQueue \in Seq(Txs) /\ nQueue \in 1..Len(vTxQueue)
  BY DEF TryOrphan, SettledInv, OrphanTypeOK, LoopOverQueue, orphanVars
<1> SUFFICES ASSUME NEW t \in mapOrphanTransactions, PoolReady(t)',
                    \A p \in Spends(t) : Last(log)'.pos[p] = NoBlock
             PROVE  StillToTry(t)'
  BY <1>1 DEF UnreadyUntilTried, Spends
<1>2. t \in Txs /\ mapNextTx \in [PrevOuts -> Txs \cup {NoTx}]
  BY <1>1 DEF ChainInv, PositionInv, TypeOK
<1>3. CASE Acceptable(u, TRUE) /\ AcceptToMemoryPool(u) /\ vTxQueue' = Append(vTxQueue, u)
  <2>1. /\ Len(vTxQueue') = Len(vTxQueue) + 1
        /\ vTxQueue'[Len(vTxQueue) + 1] = u /\ Len(vTxQueue) \in Nat
        /\ \A i \in 1..Len(vTxQueue) : vTxQueue'[i] = vTxQueue[i]
    BY <1>1, <1>3, AppendValues
  <2>2. t # u /\ (u \notin Spends(t) => PoolReady(t))
    BY <1>2, <1>3, ReadyBeforeAdded DEF AcceptToMemoryPool
  <2>3. \A p \in Spends(t) : Last(log).pos[p] = NoBlock
    BY <1>3 DEF AcceptToMemoryPool, disk, Last
  <2>4. CASE u \in Spends(t)
    <3>1. Len(vTxQueue) + 1 \in (nQueue' + 1)..Len(vTxQueue')
      BY <1>1, <2>1
    <3> QED BY <2>1, <2>4, <3>1 DEF StillToTry, Spends
  <2>5. CASE u \notin Spends(t)
    <3>1. StillToTry(t)
      BY <2>2, <2>3, <2>5 DEF UnreadyUntilTried
    <3>2. CASE t \in toTry
      BY <1>1, <2>2, <3>2 DEF StillToTry
    <3>3. CASE \E j \in (nQueue + 1)..Len(vTxQueue) : vTxQueue[j] \in Spends(t)
      <4>1. PICK j \in (nQueue + 1)..Len(vTxQueue) : vTxQueue[j] \in Spends(t)
        BY <3>3
      <4>2. j \in (nQueue' + 1)..Len(vTxQueue') /\ vTxQueue'[j] = vTxQueue[j]
        BY <1>1, <2>1, <4>1
      <4> QED BY <4>1, <4>2 DEF StillToTry, Spends
    <3> QED BY <3>1, <3>2, <3>3 DEF StillToTry
  <2> QED BY <2>4, <2>5
<1>4. CASE ~Acceptable(u, TRUE) /\ UNCHANGED <<vars, vTxQueue>>
  <2>1. PoolReady(t) /\ \A p \in Spends(t) : Last(log).pos[p] = NoBlock
    BY <1>4 DEF PoolReady, vars, pool, disk, Last
  <2>2. StillToTry(t)
    BY <2>1 DEF UnreadyUntilTried
  <2>3. t # u
    BY <1>1, <1>2, <1>4, <2>1, ReadyIsAcceptable
  <2> QED BY <1>1, <1>4, <2>2, <2>3 DEF StillToTry, Spends
<1> QED BY <1>3, <1>4 DEF TryOrphan

\* Every step, of the message and of the blocks in between, keeps it.
LEMMA UnreadyStep ==
  ASSUME OneBranch, ChainInv, SettledInv, DeletedAreConnected, UnreadyUntilTried,
         [OrphanNext]_<<vars, orphanVars, txVars>>
  PROVE  UnreadyUntilTried'
<1>1. mapOrphanTransactions \subseteq Txs
  BY DEF SettledInv, OrphanTypeOK
<1>2. ASSUME NEW u \in Txs, ReceiveTx(u) PROVE UnreadyUntilTried'
  <2>1. tpc = "idle" /\ pc = "idle"
    BY <1>2 DEF ReceiveTx
  <2>2. CASE /\ AcceptToMemoryPool(u) /\ UNCHANGED orphanVars
             /\ vTxQueue' = <<u>> /\ nQueue' = 1 /\ toTry' = DependingOn(u) /\ tpc' = "try"
    <3> SUFFICES ASSUME NEW t \in mapOrphanTransactions, PoolReady(t)',
                        \A p \in Spends(t) : Last(log)'.pos[p] = NoBlock
                 PROVE  t \in DependingOn(u)
      BY <2>2 DEF UnreadyUntilTried, StillToTry, orphanVars, Spends
    <3>1. u \notin Spends(t) => PoolReady(t)
      BY <1>1, <2>2, ReadyBeforeAdded DEF AcceptToMemoryPool, ChainInv, PositionInv, TypeOK
    <3>2. \A p \in Spends(t) : Last(log).pos[p] = NoBlock
      BY <2>2 DEF AcceptToMemoryPool, disk, Last
    <3>3. u \in Spends(t)
      BY <2>1, <3>1, <3>2 DEF UnreadyUntilTried
    <3> QED BY <3>3, FoundUnderParents DEF SettledInv
  <2>3. CASE UNCHANGED <<vars, txVars>> /\ UNCHANGED orphanVars
    BY <2>3 DEF UnreadyUntilTried, PoolReady, Spends, StillToTry, vars, pool, disk, Last,
       txVars, orphanVars
  <2>4. CASE UNCHANGED <<vars, txVars>> /\ MissingInputs(u) /\ AddOrphanTx(u)
    <3> SUFFICES ASSUME NEW t \in mapOrphanTransactions', PoolReady(t)',
                        \A p \in Spends(t) : Last(log)'.pos[p] = NoBlock
                 PROVE  FALSE
      BY DEF UnreadyUntilTried, Spends
    <3>1. PoolReady(t) /\ \A p \in Spends(t) : Last(log).pos[p] = NoBlock
      BY <2>4 DEF PoolReady, vars, pool, disk, Last
    <3>2. CASE t \in mapOrphanTransactions
      BY <2>1, <3>1, <3>2 DEF UnreadyUntilTried
    <3>3. CASE t = u
      BY <2>1, <2>4, <3>1, <3>3, ReadyIsAcceptable DEF MissingInputs, Acceptable
    <3> QED BY <2>4, <3>2, <3>3 DEF AddOrphanTx, orphanVars
  <2> QED BY <1>2, <2>2, <2>3, <2>4 DEF ReceiveTx
<1>3. CASE NextPrev
  <2>1. /\ tpc = "try" /\ toTry = {} /\ UNCHANGED <<vars, orphanVars, vTxQueue>>
        /\ vTxQueue \in Seq(Txs) /\ nQueue \in 1..Len(vTxQueue) /\ Len(vTxQueue) \in Nat
    BY <1>3, LenProperties DEF NextPrev, SettledInv, OrphanTypeOK, LoopOverQueue
  <2> SUFFICES ASSUME NEW t \in mapOrphanTransactions, PoolReady(t)',
                      \A p \in Spends(t) : Last(log)'.pos[p] = NoBlock
               PROVE  tpc' = "try" /\ StillToTry(t)'
    BY <2>1 DEF UnreadyUntilTried, orphanVars, Spends
  <2>2. PoolReady(t) /\ \A p \in Spends(t) : Last(log).pos[p] = NoBlock
    BY <2>1 DEF PoolReady, vars, pool, disk, Last
  <2>3. PICK i \in (nQueue + 1)..Len(vTxQueue) : vTxQueue[i] \in Spends(t)
    BY <2>1, <2>2 DEF UnreadyUntilTried, StillToTry
  <2>4. /\ nQueue' = nQueue + 1 /\ tpc' = "try"
        /\ toTry' = DependingOn(vTxQueue[nQueue + 1])
    BY <1>3, <2>1, <2>3 DEF NextPrev
  <2>5. CASE i = nQueue + 1
    BY <2>3, <2>4, <2>5, FoundUnderParents DEF StillToTry, SettledInv
  <2>6. CASE i # nQueue + 1
    <3>1. i \in (nQueue' + 1)..Len(vTxQueue')
      BY <2>1, <2>3, <2>4, <2>6
    <3> QED BY <2>1, <2>3, <2>4, <3>1 DEF StillToTry, Spends
  <2> QED BY <2>5, <2>6
<1>4. CASE EraseNext
  <2>1. tpc = "erase" /\ UNCHANGED vars /\ mapOrphanTransactions' \subseteq mapOrphanTransactions
    BY <1>4 DEF EraseNext, EraseOrphanTx, orphanVars
  <2> SUFFICES ASSUME NEW t \in mapOrphanTransactions, PoolReady(t)',
                      \A p \in Spends(t) : Last(log)'.pos[p] = NoBlock
               PROVE  FALSE
    BY <2>1 DEF UnreadyUntilTried, Spends
  <2>2. PoolReady(t) /\ \A p \in Spends(t) : Last(log).pos[p] = NoBlock
    BY <2>1 DEF PoolReady, vars, pool, disk, Last
  <2> QED BY <2>1, <2>2 DEF UnreadyUntilTried
<1>5. CASE BlockStep
  <2>1. /\ tpc = "idle" /\ UNCHANGED mapOrphanTransactions
        /\ (\E b \in Blocks : ReceiveBlock(b)) \/ HandlerStep
    BY <1>5 DEF BlockStep, orphanVars
  <2> SUFFICES ASSUME NEW t \in mapOrphanTransactions, PoolReady(t)',
                      \A p \in Spends(t) : Last(log)'.pos[p] = NoBlock
               PROVE  FALSE
    BY <2>1 DEF UnreadyUntilTried, Spends
  <2>2. PoolReady(t) /\ \A p \in Spends(t) : Last(log).pos[p] = NoBlock
    BY <1>1, <2>1, ReadyBefore
  <2> QED BY <2>1, <2>2 DEF UnreadyUntilTried
<1>6. CASE UNCHANGED <<vars, orphanVars, txVars>>
  BY <1>6 DEF UnreadyUntilTried, PoolReady, Spends, StillToTry, vars, pool, disk, Last,
     txVars, orphanVars
<1> QED BY <1>2, <1>3, <1>4, <1>5, <1>6, UnreadyTry DEF OrphanNext, TxStep

\* On one branch, what is kept is kept right, and between two messages a kept transaction that
\* could be accepted is one whose parent came in a block.
THEOREM OrphanCorrect ==
  ASSUME OneBranch
  PROVE  OrphanSpec => []OrphanInv
<1> DEFINE Inv == ChainInv /\ SettledInv /\ DeletedAreConnected /\ UnreadyUntilTried
<1>1. OrphanInit => Inv
  <2> SUFFICES ASSUME OrphanInit PROVE DeletedAreConnected /\ UnreadyUntilTried
    BY ChainInit, SettledInit DEF OrphanInit
  <2> QED BY DEF OrphanInit, Init, DeletedAreConnected, UnreadyUntilTried
<1>2. Inv /\ [OrphanNext]_<<vars, orphanVars, txVars>> => Inv'
  BY OrphanChainStep, SettledStep, OrphanNextIsNext, DeletedStep, UnreadyStep
<1>3. Inv => OrphanInv
  <2> SUFFICES ASSUME Inv, pc = "idle", tpc = "idle", NEW t \in mapOrphanTransactions,
                      Acceptable(t, TRUE), \A p \in Spends(t) : db.pos[p] = NoBlock
               PROVE  FALSE
    BY DEF OrphanInv, SettledInv, KeptAwaitsParent
  <2>1. db = Last(log) /\ t \in Txs
    BY DEF ChainInv, IndexInv, CopiesAgree, SettledInv, OrphanTypeOK
  <2>2. PoolReady(t)
    BY <2>1, AcceptableIsReady
  <2> QED BY <2>1, <2>2 DEF UnreadyUntilTried
<1> HIDE DEF Inv
<1> QED BY <1>1, <1>2, <1>3, PTL DEF OrphanSpec

=============================================================================
