------------------------------- MODULE OrphanTx -------------------------------
(***************************************************************************)
(* The "tx" message (ProcessMessage in main.cpp) on top of ChainState: a   *)
(* transaction whose inputs are missing is kept, by its hash and by the    *)
(* hash of every transaction it spends; one that is accepted pulls in the  *)
(* kept ones that depend on it, recursively.  The whole message runs under *)
(* cs_main; one step is one transaction tried, or one erased.              *)
(*                                                                         *)
(* A transaction stands for its hash and for the message that carried it.  *)
(* Two inputs that spend the same transaction make one entry, not two:     *)
(* the second of two equal entries is tried and refused.                   *)
(***************************************************************************)
EXTENDS ChainState

VARIABLES
  mapOrphanTransactions,
  mapOrphanTransactionsByPrev,  \* the pairs <<prevout.hash, transaction>>
  tpc,                          \* where the handler of the message is
  vTxQueue,                     \* its vWorkQueue: the transactions accepted
  nQueue,                       \* its i
  toTry                         \* what is left of the range of mapOrphanTransactionsByPrev

orphanVars == <<mapOrphanTransactions, mapOrphanTransactionsByPrev>>
txVars == <<tpc, vTxQueue, nQueue, toTry>>

OrphanTypeOK ==
  /\ mapOrphanTransactions \subseteq Txs
  /\ mapOrphanTransactionsByPrev \subseteq Txs \X Txs
  /\ tpc \in {"idle", "try", "erase"}
  /\ vTxQueue \in Seq(Txs)
  /\ nQueue \in 0..Len(vTxQueue) + 1
  /\ toTry \subseteq Txs

OrphanInit ==
  /\ Init
  /\ mapOrphanTransactions = {} /\ mapOrphanTransactionsByPrev = {}
  /\ tpc = "idle" /\ vTxQueue = <<>> /\ nQueue = 0 /\ toTry = {}

Spends(t) == {o[1] : o \in Ins[t]}
DependingOn(t) == {u \in Txs : <<t, u>> \in mapOrphanTransactionsByPrev}

-----------------------------------------------------------------------------
AddOrphanTx(t) ==
  IF t \in mapOrphanTransactions THEN UNCHANGED orphanVars
  ELSE /\ mapOrphanTransactions' = mapOrphanTransactions \cup {t}
       /\ mapOrphanTransactionsByPrev' =
            mapOrphanTransactionsByPrev \cup {<<p, t>> : p \in Spends(t)}

\* Mutant: the entry under the first input only is found.
EraseOrphanTxOnce(t) ==
  /\ mapOrphanTransactions' = mapOrphanTransactions \ {t}
  /\ mapOrphanTransactionsByPrev' =
       IF t \in mapOrphanTransactions
       THEN mapOrphanTransactionsByPrev \ {<<CHOOSE p \in Spends(t) : TRUE, t>>}
       ELSE mapOrphanTransactionsByPrev

EraseOrphanTx(t) ==
  IF t \notin mapOrphanTransactions THEN UNCHANGED orphanVars
  ELSE /\ mapOrphanTransactions' = mapOrphanTransactions \ {t}
       /\ mapOrphanTransactionsByPrev' =
            mapOrphanTransactionsByPrev \ {<<p, t>> : p \in Spends(t)}

\* AcceptToMemoryPool sets fMissingInputs when ConnectInputs fails, whatever it fails at.
MissingInputs(t) ==
  /\ t \notin CoinBases /\ t \in Standard
  /\ t \notin mapTransactions
  /\ db.pos[t] = NoBlock
  /\ \A o \in Ins[t] : mapNextTx[o] = NoTx
  /\ ~CanConnect(t, pindexBest, FALSE)

ReceiveTx(t) ==
  /\ pc = "idle" /\ tpc = "idle"
  /\ \/ /\ AcceptToMemoryPool(t)
        /\ vTxQueue' = <<t>> /\ nQueue' = 1 /\ toTry' = DependingOn(t)
        /\ tpc' = "try"
        /\ UNCHANGED orphanVars
     \/ /\ MissingInputs(t)
        /\ AddOrphanTx(t)
        /\ UNCHANGED <<vars, txVars>>
     \/ /\ ~Acceptable(t, TRUE) /\ ~MissingInputs(t)
        /\ UNCHANGED <<vars, orphanVars, txVars>>

\* One kept transaction that depends on the one at the head of the queue.
TryOrphan(t) ==
  /\ tpc = "try"
  /\ t \in toTry
  /\ toTry' = toTry \ {t}
  /\ IF Acceptable(t, TRUE)
     THEN AcceptToMemoryPool(t) /\ vTxQueue' = Append(vTxQueue, t)
     ELSE UNCHANGED <<vars, vTxQueue>>
  /\ UNCHANGED <<orphanVars, tpc, nQueue>>

\* Mutant: only what depends on the transaction of the message is tried.
NextPrevOnce ==
  /\ tpc = "try"
  /\ toTry = {}
  /\ tpc' = "erase"
  /\ UNCHANGED <<vars, orphanVars, vTxQueue, nQueue, toTry>>

NextPrev ==
  /\ tpc = "try"
  /\ toTry = {}
  /\ IF nQueue < Len(vTxQueue)
     THEN /\ nQueue' = nQueue + 1
          /\ toTry' = DependingOn(vTxQueue[nQueue + 1])
          /\ UNCHANGED tpc
     ELSE /\ tpc' = "erase"
          /\ UNCHANGED <<nQueue, toTry>>
  /\ UNCHANGED <<vars, orphanVars, vTxQueue>>

\* BOOST_FOREACH(uint256 hash, vWorkQueue) EraseOrphanTx(hash);
EraseNext ==
  /\ tpc = "erase"
  /\ EraseOrphanTx(Head(vTxQueue))
  /\ vTxQueue' = Tail(vTxQueue)
  /\ nQueue' = Len(vTxQueue')
  /\ tpc' = IF vTxQueue' = <<>> THEN "idle" ELSE "erase"
  /\ UNCHANGED <<vars, toTry>>

TxStep ==
  \/ \E t \in Txs : TryOrphan(t)
  \/ NextPrev
  \/ EraseNext

\* Blocks come in between two transactions.
BlockStep ==
  /\ tpc = "idle"
  /\ (\E b \in Blocks : ReceiveBlock(b)) \/ HandlerStep
  /\ UNCHANGED <<orphanVars, txVars>>

OrphanNext == (\E t \in Txs : ReceiveTx(t)) \/ TxStep \/ BlockStep

OrphanSpec == OrphanInit /\ [][OrphanNext]_<<vars, orphanVars, txVars>>

-----------------------------------------------------------------------------
\* Properties.

\* mapOrphanTransactionsByPrev, which holds pointers to the messages, has an entry for
\* every input of every kept transaction and none for a message that was deleted.
ByPrevSound ==
  mapOrphanTransactionsByPrev =
    UNION {{<<p, t>> : p \in Spends(t)} : t \in mapOrphanTransactions}

\* Between messages, a kept transaction that could be accepted is one whose parent came in
\* a block: blocks do not look for what depends on their transactions.  (On a chain that
\* is never reorganized.)
KeptAwaitsParent ==
  pc = "idle" /\ tpc = "idle" =>
    \A t \in mapOrphanTransactions :
      Acceptable(t, TRUE) => \E p \in Spends(t) : db.pos[p] # NoBlock

\* What is kept is kept right, and only for as long as its parents may still come.
OrphanInv == OrphanTypeOK /\ ByPrevSound /\ KeptAwaitsParent

\* "Recursively process any orphan transactions that depended on this one": when the
\* message is done, none of the kept transactions that spend one it accepted could be
\* accepted now, even when one needs several of them, accepted in any order.
OrphansSettled ==
  tpc = "erase" =>
    \A t \in mapOrphanTransactions :
      (\E i \in 1..Len(vTxQueue) : vTxQueue[i] \in Spends(t)) => ~Acceptable(t, TRUE)

-----------------------------------------------------------------------------
(* The inductive invariant behind the theorems of OrphanProofs.            *)

\* A parent of t is still to be handled: t is about to be tried, or will be when the
\* handler comes to the parent.
StillToTry(t) ==
  \/ t \in toTry
  \/ \E i \in (nQueue + 1)..Len(vTxQueue) : vTxQueue[i] \in Spends(t)

\* While the handler is in its loop, the transactions accepted so far leave behind only
\* kept ones that it has yet to come to.
SettledSoFar ==
  tpc = "try" =>
    \A t \in mapOrphanTransactions :
      (\E i \in 1..Len(vTxQueue) : vTxQueue[i] \in Spends(t)) /\ Acceptable(t, TRUE) =>
        StillToTry(t)

\* The loop runs between two messages, over a queue that is not empty.
LoopOverQueue ==
  /\ tpc # "idle" => pc = "idle" /\ vTxQueue # <<>>
  /\ tpc = "try" => nQueue \in 1..Len(vTxQueue)

\* All of it but for where the parents of a kept transaction are.
SettledInv == OrphanTypeOK /\ ByPrevSound /\ LoopOverQueue /\ SettledSoFar /\ OrphansSettled

\* The pool has all that t spends, and nothing that competes with it.
PoolReady(t) ==
  /\ t \in Standard \ (CoinBases \cup Unsigned \cup mapTransactions)
  /\ \A o \in Ins[t] : o \in OutPoints /\ o[1] \in mapTransactions /\ mapNextTx[o] = NoTx
  /\ MoneyRange(GetValueIn(t)) /\ GetValueIn(t) >= GetValueOut(t)

\* A kept transaction none of whose parents is in a block is not ready, or about to be
\* tried; so it was its last parent that made it so, and that came in a "tx" message.
UnreadyUntilTried ==
  \A t \in mapOrphanTransactions :
    (\A p \in Spends(t) : Last(log).pos[p] = NoBlock) /\ PoolReady(t) =>
      tpc = "try" /\ StillToTry(t)

\* What SetBestChain is to delete from the pool is on the branch it connects.
DeletedAreConnected ==
  /\ pc \in {"connect", "commit", "resurrect", "delete"} =>
       \A i \in DOMAIN vDelete :
         \E a \in Chain[pindex] \ {GenesisBlock} : \E j \in DOMAIN Vtx[a] : vDelete[i] = Vtx[a][j]
  /\ pc \notin {"connect", "commit", "resurrect", "delete"} => vDelete = <<>>

================================================================================
