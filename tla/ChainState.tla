----------------------------- MODULE ChainState -----------------------------
(***************************************************************************)
(* Blocks and loose transactions as a node takes them in (main.cpp):       *)
(* ProcessBlock with its orphan blocks, AddToBlockIndex, SetBestChain and  *)
(* Reorganize over the transaction database, the memory pool, and what a   *)
(* crash and a restart (CTxDB::LoadBlockIndex) leave of them.              *)
(*                                                                         *)
(* One handler runs at a time, under cs_main; pc says where it is.  Its    *)
(* steps are one (dis)connected transaction, one (dis)connected block, one *)
(* commit, so that a crash can fall between any two of them.               *)
(*                                                                         *)
(* Left out: the wallet calls in ConnectBlock and SetBestChain, relaying,  *)
(* user interface, storage errors (they stop the node), the fee floor and  *)
(* the rate limit of free transactions (part of Standard, and of which     *)
(* transactions arrive).                                                   *)
(***************************************************************************)
EXTENDS Ledger

CONSTANTS
  MaxCrashes,       \* bound: how often the node crashes
  MaxUnsynced       \* bound: how many commits the log buffer holds

ASSUME BoundAssumption == MaxCrashes \in Nat /\ MaxUnsynced \in Nat

VARIABLES
  mapBlockIndex,     \* the blocks in the index (pprev, nHeight and bnChainWork are
                     \* Prev, Height and ChainWork of the block)
  pnext,             \* pnext of every block, NoBlock for NULL
  pindexBest,        \* pindexBest, hashBestChain, nBestHeight and bnBestChainWork
  bnBestInvalidWork,
  mapOrphanBlocks,   \* and mapOrphanBlocksByPrev, the same blocks by Prev
  mapTransactions,   \* the memory pool
  mapNextTx,         \* the pool's spender of an outpoint (ptx), NoTx when no entry
  db,                \* blkindex.dat through the open transaction, see Database
  log,               \* the committed states of blkindex.dat that a crash may leave,
                     \* the last one being the current one
  pc,                \* where the handler that holds cs_main is
  pindexNew,         \* the block AcceptBlock works on
  vWorkQueue,        \* ProcessBlock's queue of accepted blocks
  pindex,            \* the end of the branch that db stands for
  nTx,               \* how many transactions of the current block are connected
  nFees,             \* ConnectBlock's fees so far
  vResurrect,        \* transactions of disconnected blocks
  vDelete,           \* transactions of connected blocks
  crashes            \* how often the node crashed (bounded by MaxCrashes)

memory == <<mapBlockIndex, pnext, pindexBest, bnBestInvalidWork>>
pool == <<mapTransactions, mapNextTx>>
disk == <<db, log>>
locals == <<pindexNew, vWorkQueue, pindex, nTx, nFees, vResurrect, vDelete>>
vars == <<memory, mapOrphanBlocks, pool, disk, pc, locals, crashes>>

Database ==
  [index : SUBSET Blocks,                          \* the "blockindex" records
   hashNext : [Blocks -> Blocks \cup {NoBlock}],   \* hashNext in each of them
   hashBestChain : Blocks,
   pos : [Txs -> Blocks \cup {NoBlock}],           \* the block of a "tx" record's pos,
                                                   \* NoBlock when there is no record
   spent : [OutPoints -> Txs \cup {NoTx}],         \* vSpent: the spender's position
   bnBestInvalidWork : Nat]

\* The points of the handler: waiting for a message; in AcceptBlock, SetBestChain,
\* Reorganize's two loops, ConnectBlock's end, before the commit; bringing the memory
\* pool up to date and setting the best block; in ProcessBlock's loop.
Points == {"idle", "accept", "setbest", "disconnect", "connect", "commit",
           "resurrect", "delete", "queue"}

\* The outpoints that transactions name, real or not.
PrevOuts == UNION {Ins[t] : t \in Txs}

Last(s) == s[Len(s)]

TypeOK ==
  /\ mapBlockIndex \subseteq Blocks
  /\ pnext \in [Blocks -> Blocks \cup {NoBlock}]
  /\ pindexBest \in Blocks
  /\ bnBestInvalidWork \in Nat
  /\ mapOrphanBlocks \subseteq Blocks
  /\ mapTransactions \subseteq Txs
  /\ mapNextTx \in [PrevOuts -> Txs \cup {NoTx}]
  /\ db \in Database
  /\ log \in Seq(Database) /\ log # <<>>
  /\ pc \in Points
  /\ pindexNew \in Blocks
  /\ vWorkQueue \in Seq(Blocks)
  /\ pindex \in Blocks
  /\ nTx \in Nat
  /\ nFees \in Nat
  /\ vResurrect \in Seq(Txs)
  /\ vDelete \in Seq(Txs)
  /\ crashes \in 0..MaxCrashes

\* A node that has created blkindex.dat: the genesis block is the best block, and
\* its transactions are not in the index (SetBestChain's first case).
GenesisDatabase ==
  [index |-> {GenesisBlock},
   hashNext |-> [b \in Blocks |-> NoBlock],
   hashBestChain |-> GenesisBlock,
   pos |-> [t \in Txs |-> NoBlock],
   spent |-> [o \in OutPoints |-> NoTx],
   bnBestInvalidWork |-> 0]

Init ==
  /\ mapBlockIndex = {GenesisBlock}
  /\ pnext = [b \in Blocks |-> NoBlock]
  /\ pindexBest = GenesisBlock
  /\ bnBestInvalidWork = 0
  /\ mapOrphanBlocks = {}
  /\ mapTransactions = {}
  /\ mapNextTx = [o \in PrevOuts |-> NoTx]
  /\ db = GenesisDatabase
  /\ log = <<GenesisDatabase>>
  /\ pc = "idle"
  /\ pindexNew = GenesisBlock
  /\ vWorkQueue = <<>>
  /\ pindex = GenesisBlock
  /\ nTx = 0
  /\ nFees = 0
  /\ vResurrect = <<>>
  /\ vDelete = <<>>
  /\ crashes = 0

-----------------------------------------------------------------------------
(* The transaction database.  Each operator gives the next value of db.    *)

\* CTransaction::ConnectInputs with fBlock: vSpent of every input becomes this
\* transaction's position and a record with nothing spent is added for it.
ConnectInputs(t, b) ==
  [db EXCEPT !.pos[t] = b,
             !.spent = [o \in OutPoints |-> IF o \in Ins[t] THEN t
                                            ELSE IF o[1] = t THEN NoTx
                                            ELSE db.spent[o]]]

\* Mutant: vSpent of the inputs is left as it is.
DisconnectInputsKeepsSpent(t) ==
  [db EXCEPT !.pos[t] = NoBlock,
             !.spent = [o \in OutPoints |-> IF o[1] = t THEN NoTx ELSE db.spent[o]]]

\* CTransaction::DisconnectInputs: vSpent of every input is null again and the
\* record of the transaction is erased.
DisconnectInputs(t) ==
  [db EXCEPT !.pos[t] = NoBlock,
             !.spent = [o \in OutPoints |-> IF o \in Ins[t] \/ o[1] = t THEN NoTx
                                            ELSE db.spent[o]]]

\* DisconnectInputs finds the record of every previous transaction.
CanDisconnect(t) == \A o \in Ins[t] : o \in OutPoints /\ db.pos[o[1]] # NoBlock

\* A coinbase may be spent when it is deep enough below the block pindexBlock.
Matured(t, pindexBlock) ==
  t \in CoinBases /\ db.pos[t] \in Chain[pindexBlock] =>
    Height[db.pos[t]] + CoinbaseMaturity <= Height[pindexBlock]

\* ConnectInputs' checks of one input: the previous transaction is in the index or,
\* outside of blocks, in the memory pool; it has that output; it is not a young
\* coinbase; the output is not spent on the best chain.
CanSpend(o, pindexBlock, fBlock) ==
  /\ \/ db.pos[o[1]] # NoBlock
     \/ ~fBlock /\ o[1] \in mapTransactions
  /\ o \in OutPoints
  /\ Matured(o[1], pindexBlock)
  /\ db.spent[o] = NoTx

CanConnect(t, pindexBlock, fBlock) ==
  \/ t \in CoinBases
  \/ /\ \A o \in Ins[t] : CanSpend(o, pindexBlock, fBlock)
     /\ t \notin Unsigned
     /\ MoneyRange(GetValueIn(t))
     /\ GetValueIn(t) >= GetValueOut(t)

FeesWith(t) == IF t \in CoinBases THEN nFees ELSE nFees + (GetValueIn(t) - GetValueOut(t))

\* A commit is not flushed (DB_TXN_NOSYNC): a crash may lose the latest ones, up to
\* the capacity of the log buffer.
Committed(d) == Append(IF Len(log) > MaxUnsynced THEN Tail(log) ELSE log, d)

-----------------------------------------------------------------------------
(* The memory pool.                                                        *)

AddToMemoryPoolUnchecked(t) ==
  /\ mapTransactions' = mapTransactions \cup {t}
  /\ mapNextTx' = [o \in PrevOuts |-> IF o \in Ins[t] THEN t ELSE mapNextTx[o]]

\* Mutant: the entries of its inputs stay.
RemoveFromMapTransactions(t) ==
  /\ mapTransactions' = mapTransactions \ {t}
  /\ UNCHANGED mapNextTx

\* The entries of all its inputs go, whichever transaction they point to.
RemoveFromMemoryPool(t) ==
  /\ mapTransactions' = mapTransactions \ {t}
  /\ mapNextTx' = [o \in PrevOuts |-> IF o \in Ins[t] THEN NoTx ELSE mapNextTx[o]]

\* AcceptToMemoryPool's checks.  Replacement is disabled: a conflict refuses.
Acceptable(t, fCheckInputs) ==
  /\ t \notin CoinBases /\ t \in Standard
  /\ t \notin mapTransactions
  /\ fCheckInputs => db.pos[t] = NoBlock
  /\ \A o \in Ins[t] : mapNextTx[o] = NoTx
  /\ fCheckInputs => CanConnect(t, pindexBest, FALSE)

\* A "tx" message, or a wallet transaction: taken into the pool.
AcceptToMemoryPool(t) ==
  /\ pc = "idle"
  /\ Acceptable(t, TRUE)
  /\ AddToMemoryPoolUnchecked(t)
  /\ UNCHANGED <<memory, mapOrphanBlocks, disk, pc, locals, crashes>>

-----------------------------------------------------------------------------
(* ProcessBlock.                                                           *)

\* A block that is known, or that CheckBlock refuses, changes nothing.
DropBlock(b) ==
  /\ pc = "idle"
  /\ b \in mapBlockIndex \cup mapOrphanBlocks \/ FailsAt[b] = "check"
  /\ UNCHANGED vars

\* Its parent is not in the index: hold it until we get that.
HoldOrphanBlock(b) ==
  /\ pc = "idle"
  /\ b \notin mapBlockIndex \cup mapOrphanBlocks
  /\ FailsAt[b] # "check"
  /\ Prev[b] \notin mapBlockIndex
  /\ mapOrphanBlocks' = mapOrphanBlocks \cup {b}
  /\ UNCHANGED <<memory, pool, disk, pc, locals, crashes>>

ProcessBlock(b) ==
  /\ pc = "idle"
  /\ b \notin mapBlockIndex \cup mapOrphanBlocks
  /\ FailsAt[b] # "check"
  /\ Prev[b] \in mapBlockIndex
  /\ pindexNew' = b
  /\ pc' = "accept"
  /\ UNCHANGED <<memory, mapOrphanBlocks, pool, disk, vWorkQueue, pindex, nTx, nFees,
                 vResurrect, vDelete, crashes>>

\* Mutant: an orphan that is accepted is not queued itself.
AcceptReturnsNoRecursion(fAccepted) ==
  /\ vWorkQueue' = IF fAccepted /\ vWorkQueue = <<>> THEN <<pindexNew>> ELSE vWorkQueue
  /\ mapOrphanBlocks' = mapOrphanBlocks \ {pindexNew}
  /\ pc' = IF fAccepted \/ vWorkQueue # <<>> THEN "queue" ELSE "idle"
  /\ pindexNew' = GenesisBlock

\* AcceptBlock returns.  An accepted block is queued so that the orphans waiting for
\* it are processed; an orphan leaves mapOrphanBlocks whatever became of it.
AcceptReturns(fAccepted) ==
  /\ vWorkQueue' = IF fAccepted THEN Append(vWorkQueue, pindexNew) ELSE vWorkQueue
  /\ mapOrphanBlocks' = mapOrphanBlocks \ {pindexNew}
  /\ pc' = IF fAccepted \/ vWorkQueue # <<>> THEN "queue" ELSE "idle"
  /\ pindexNew' = GenesisBlock

\* The next orphan waiting for the block at the head of the queue.
AcceptOrphan(b) ==
  /\ pc = "queue"
  /\ b \in mapOrphanBlocks
  /\ Prev[b] = Head(vWorkQueue)
  /\ pindexNew' = b
  /\ pc' = "accept"
  /\ UNCHANGED <<memory, mapOrphanBlocks, pool, disk, vWorkQueue, pindex, nTx, nFees,
                 vResurrect, vDelete, crashes>>

NextInQueue ==
  /\ pc = "queue"
  /\ \A b \in mapOrphanBlocks : Prev[b] # Head(vWorkQueue)
  /\ vWorkQueue' = Tail(vWorkQueue)
  /\ pc' = IF Tail(vWorkQueue) = <<>> THEN "idle" ELSE "queue"
  /\ UNCHANGED <<memory, mapOrphanBlocks, pool, disk, pindexNew, pindex, nTx, nFees,
                 vResurrect, vDelete, crashes>>

-----------------------------------------------------------------------------
(* AcceptBlock and AddToBlockIndex.                                        *)

RejectBlock ==
  /\ pc = "accept"
  /\ pindexNew \in mapBlockIndex \/ FailsAt[pindexNew] = "context"
  /\ AcceptReturns(FALSE)
  /\ UNCHANGED <<memory, pool, disk, pindex, nTx, nFees, vResurrect, vDelete, crashes>>

\* Only more work than the best chain's makes a block a candidate.  Mutants: equal
\* work, or more blocks, is enough.
IsCandidateOnTie(b) == ChainWork[b] >= ChainWork[pindexBest]
IsCandidateByHeight(b) == Height[b] > Height[pindexBest]
IsCandidate(b) == ChainWork[b] > ChainWork[pindexBest]

\* The block is in memory and, committed, on disk.
AddToBlockIndex ==
  /\ pc = "accept"
  /\ pindexNew \notin mapBlockIndex
  /\ FailsAt[pindexNew] # "context"
  /\ mapBlockIndex' = mapBlockIndex \cup {pindexNew}
  /\ db' = [db EXCEPT !.index = @ \cup {pindexNew}, !.hashNext[pindexNew] = NoBlock]
  /\ log' = Committed(db')
  /\ IF IsCandidate(pindexNew)
     THEN /\ pc' = "setbest"
          /\ UNCHANGED <<mapOrphanBlocks, vWorkQueue, pindexNew>>
     ELSE AcceptReturns(TRUE)
  /\ UNCHANGED <<pnext, pindexBest, bnBestInvalidWork, pool, pindex, nTx, nFees,
                 vResurrect, vDelete, crashes>>

-----------------------------------------------------------------------------
(* SetBestChain and Reorganize.                                            *)

\* Reorganize's two lists, either side of the fork; when the block extends the best
\* chain, nothing and the block.
Disconnected == Chain[pindexBest] \ Chain[pindexNew]
Connected == Chain[pindexNew] \ Chain[pindexBest]

\* The next block to connect, after pindex on the new branch.
NextToConnect == CHOOSE b \in Chain[pindexNew] \ {GenesisBlock} : Prev[b] = pindex

ExtendBestChain ==
  /\ pc = "setbest"
  /\ Prev[pindexNew] = pindexBest
  /\ pindex' = pindexBest
  /\ pc' = "connect"
  /\ UNCHANGED <<memory, mapOrphanBlocks, pool, disk, pindexNew, vWorkQueue, nTx, nFees,
                 vResurrect, vDelete, crashes>>

StartReorganize ==
  /\ pc = "setbest"
  /\ Prev[pindexNew] # pindexBest
  /\ pindex' = pindexBest
  /\ nTx' = Len(Vtx[pindexBest])
  /\ pc' = "disconnect"
  /\ UNCHANGED <<memory, mapOrphanBlocks, pool, disk, pindexNew, vWorkQueue, nFees,
                 vResurrect, vDelete, crashes>>

\* Mutant: each transaction is undone in a commit of its own.
DisconnectTxAutoCommit ==
  /\ pc = "disconnect" /\ pindex \in Disconnected
  /\ nTx > 0
  /\ CanDisconnect(Vtx[pindex][nTx])
  /\ db' = DisconnectInputs(Vtx[pindex][nTx])
  /\ log' = Committed(db')
  /\ nTx' = nTx - 1
  /\ UNCHANGED <<memory, mapOrphanBlocks, pool, pc, pindexNew, vWorkQueue, pindex,
                 nFees, vResurrect, vDelete, crashes>>

\* DisconnectBlock's loop, last transaction first (mutant: first transaction first).
DisconnectsForward == Vtx[pindex][Len(Vtx[pindex]) + 1 - nTx]
DisconnectsNext == Vtx[pindex][nTx]

DisconnectTx ==
  /\ pc = "disconnect" /\ pindex \in Disconnected
  /\ nTx > 0
  /\ CanDisconnect(DisconnectsNext)
  /\ db' = DisconnectInputs(DisconnectsNext)
  /\ nTx' = nTx - 1
  /\ UNCHANGED <<memory, mapOrphanBlocks, pool, log, pc, pindexNew, vWorkQueue, pindex,
                 nFees, vResurrect, vDelete, crashes>>

\* The rest of DisconnectBlock, and Reorganize's list of transactions to resurrect: all
\* but the coinbase, which is the first.
DisconnectBlock ==
  /\ pc = "disconnect" /\ pindex \in Disconnected
  /\ nTx = 0
  /\ db' = [db EXCEPT !.hashNext[Prev[pindex]] = NoBlock]
  /\ vResurrect' = vResurrect \o Tail(Vtx[pindex])
  /\ pindex' = Prev[pindex]
  /\ nTx' = Len(Vtx[Prev[pindex]])
  /\ UNCHANGED <<memory, mapOrphanBlocks, pool, log, pc, pindexNew, vWorkQueue, nFees,
                 vDelete, crashes>>

ReachFork ==
  /\ pc = "disconnect" /\ pindex \notin Disconnected
  /\ nTx' = 0
  /\ pc' = "connect"
  /\ UNCHANGED <<memory, mapOrphanBlocks, pool, disk, pindexNew, vWorkQueue, pindex,
                 nFees, vResurrect, vDelete, crashes>>

\* ConnectBlock's loop, and its other two checks.
TxConnects(b) ==
  LET t == Vtx[b][nTx + 1] IN CanConnect(t, b, TRUE) /\ MoneyRange(FeesWith(t))
\* Mutant: the coinbase may pay itself anything.
BlockConnectsAnyReward(b) ==
  /\ FailsAt[b] # "height"
  /\ nTx < Len(Vtx[b]) => TxConnects(b)
BlockConnects(b) ==
  /\ FailsAt[b] # "height"
  /\ IF nTx < Len(Vtx[b])
     THEN TxConnects(b)
     ELSE GetValueOut(Vtx[b][1]) <= Subsidy(Height[b]) + nFees

ConnectTx ==
  /\ pc = "connect"
  /\ BlockConnects(NextToConnect)
  /\ nTx < Len(Vtx[NextToConnect])
  /\ LET t == Vtx[NextToConnect][nTx + 1] IN
       /\ db' = ConnectInputs(t, NextToConnect)
       /\ nFees' = FeesWith(t)
  /\ nTx' = nTx + 1
  /\ UNCHANGED <<memory, mapOrphanBlocks, pool, log, pc, pindexNew, vWorkQueue, pindex,
                 vResurrect, vDelete, crashes>>

\* Mutant: only the last block's transactions are deleted from the pool.
DeletedWithLast(b) == Vtx[b]
DeletedWith(b) == vDelete \o Vtx[b]

\* The rest of ConnectBlock, and the list of transactions to delete from the pool.
ConnectBlock ==
  /\ pc = "connect"
  /\ BlockConnects(NextToConnect)
  /\ nTx = Len(Vtx[NextToConnect])
  /\ db' = [db EXCEPT !.hashNext[pindex] = NextToConnect]
  /\ vDelete' = DeletedWith(NextToConnect)
  /\ pindex' = NextToConnect
  /\ nTx' = 0
  /\ nFees' = 0
  /\ pc' = IF NextToConnect = pindexNew THEN "commit" ELSE "connect"
  /\ UNCHANGED <<memory, mapOrphanBlocks, pool, log, pindexNew, vWorkQueue, vResurrect,
                 crashes>>

\* pnext of b after Reorganize's last two loops over the block index.
Link(b) ==
  IF \E c \in Connected : Prev[c] = b THEN CHOOSE c \in Connected : Prev[c] = b
  ELSE IF \E d \in Disconnected : Prev[d] = b THEN NoBlock
  ELSE pnext[b]

\* WriteHashBestChain and TxnCommit, then pnext in memory.
CommitBestChain ==
  /\ pc = "commit"
  /\ db' = [db EXCEPT !.hashBestChain = pindexNew]
  /\ log' = Committed(db')
  /\ pnext' = [b \in Blocks |-> Link(b)]
  /\ pc' = "resurrect"
  /\ UNCHANGED <<mapBlockIndex, pindexBest, bnBestInvalidWork, mapOrphanBlocks, pool,
                 locals, crashes>>

\* Mutant: TxnAbort is forgotten.
InvalidChainFoundNoAbort ==
  IF ChainWork[pindexNew] > bnBestInvalidWork
  THEN /\ bnBestInvalidWork' = ChainWork[pindexNew]
       /\ db' = [db EXCEPT !.bnBestInvalidWork = ChainWork[pindexNew]]
       /\ log' = <<db'>>
  ELSE UNCHANGED <<bnBestInvalidWork, disk>>

\* A block does not connect (or disconnect): TxnAbort, then InvalidChainFound, whose
\* record is written on its own and synced.
InvalidChainFound ==
  IF ChainWork[pindexNew] > bnBestInvalidWork
  THEN /\ bnBestInvalidWork' = ChainWork[pindexNew]
       /\ db' = [Last(log) EXCEPT !.bnBestInvalidWork = ChainWork[pindexNew]]
       /\ log' = <<db'>>
  ELSE /\ db' = Last(log)
       /\ UNCHANGED <<bnBestInvalidWork, log>>

AbortBestChain ==
  /\ \/ pc = "connect" /\ ~BlockConnects(NextToConnect)
     \/ pc = "disconnect" /\ pindex \in Disconnected /\ nTx > 0
        /\ ~CanDisconnect(DisconnectsNext)
  /\ InvalidChainFound
  /\ AcceptReturns(FALSE)
  /\ pindex' = pindexBest
  /\ nTx' = 0 /\ nFees' = 0 /\ vResurrect' = <<>> /\ vDelete' = <<>>
  /\ UNCHANGED <<mapBlockIndex, pnext, pindexBest, pool, crashes>>

\* Transactions of the disconnected branch go back into the pool, their inputs
\* unchecked: the best block in memory is still the old one.
ResurrectTx ==
  /\ pc = "resurrect"
  /\ vResurrect # <<>>
  /\ IF Acceptable(Head(vResurrect), FALSE)
     THEN AddToMemoryPoolUnchecked(Head(vResurrect))
     ELSE UNCHANGED pool
  /\ vResurrect' = Tail(vResurrect)
  /\ UNCHANGED <<memory, mapOrphanBlocks, disk, pc, pindexNew, vWorkQueue, pindex, nTx,
                 nFees, vDelete, crashes>>

StartDelete ==
  /\ pc = "resurrect"
  /\ vResurrect = <<>>
  /\ pc' = "delete"
  /\ UNCHANGED <<memory, mapOrphanBlocks, pool, disk, locals, crashes>>

\* Transactions of the connected branch leave the pool.
DeleteTx ==
  /\ pc = "delete"
  /\ vDelete # <<>>
  /\ RemoveFromMemoryPool(Head(vDelete))
  /\ vDelete' = Tail(vDelete)
  /\ UNCHANGED <<memory, mapOrphanBlocks, disk, pc, pindexNew, vWorkQueue, pindex, nTx,
                 nFees, vResurrect, crashes>>

\* The end of SetBestChain.
SetBestChain ==
  /\ pc = "delete"
  /\ vDelete = <<>>
  /\ pindexBest' = pindexNew
  /\ AcceptReturns(TRUE)
  /\ UNCHANGED <<mapBlockIndex, pnext, bnBestInvalidWork, pool, disk, pindex, nTx, nFees,
                 vResurrect, vDelete, crashes>>

-----------------------------------------------------------------------------
(* Crash and restart.                                                      *)

\* The process dies; what it had committed last may be lost with the log buffer.
\* CTxDB::LoadBlockIndex then makes an entry for every record, and an empty one for
\* a block that a record only names; it fails when the best block has none.
CrashAndRestart(n) ==
  /\ crashes < MaxCrashes
  /\ crashes' = crashes + 1
  /\ log[n].hashBestChain \in log[n].index
  /\ db' = log[n]
  /\ log' = <<log[n]>>
  /\ mapBlockIndex' = log[n].index
                        \cup {Prev[b] : b \in log[n].index \ {GenesisBlock}}
                        \cup ({log[n].hashNext[b] : b \in log[n].index} \ {NoBlock})
  /\ pnext' = [b \in Blocks |-> IF b \in log[n].index THEN log[n].hashNext[b] ELSE NoBlock]
  /\ pindexBest' = log[n].hashBestChain
  /\ bnBestInvalidWork' = log[n].bnBestInvalidWork
  /\ mapOrphanBlocks' = {}
  /\ mapTransactions' = {}
  /\ mapNextTx' = [o \in PrevOuts |-> NoTx]
  /\ pc' = "idle"
  /\ pindexNew' = GenesisBlock
  /\ vWorkQueue' = <<>>
  /\ pindex' = log[n].hashBestChain
  /\ nTx' = 0 /\ nFees' = 0 /\ vResurrect' = <<>> /\ vDelete' = <<>>

-----------------------------------------------------------------------------
\* The steps of a handler once it has started.
HandlerStep ==
  \/ RejectBlock \/ AddToBlockIndex
  \/ ExtendBestChain \/ StartReorganize
  \/ DisconnectTx \/ DisconnectBlock \/ ReachFork
  \/ ConnectTx \/ ConnectBlock
  \/ CommitBestChain \/ AbortBestChain
  \/ ResurrectTx \/ StartDelete \/ DeleteTx \/ SetBestChain
  \/ \E b \in Blocks : AcceptOrphan(b)
  \/ NextInQueue

ReceiveBlock(b) == DropBlock(b) \/ HoldOrphanBlock(b) \/ ProcessBlock(b)

Next ==
  \/ \E b \in Blocks : ReceiveBlock(b)
  \/ \E t \in Txs : AcceptToMemoryPool(t)
  \/ HandlerStep
  \/ \E n \in 1..Len(log) : CrashAndRestart(n)

Spec == Init /\ [][Next]_vars

\* The message thread goes on with a handler it has started.  Peers that have a block go
\* on offering it, and ThreadMessageHandler takes from every peer in turn, so that its
\* message is processed however often another is: strong fairness.
FairSpec == Spec /\ WF_vars(HandlerStep) /\ \A b \in Blocks : SF_vars(ReceiveBlock(b))
=============================================================================
