---------------------------- MODULE ChainSafety -----------------------------
(***************************************************************************)
(* The properties of ChainState.                                           *)
(***************************************************************************)
EXTENDS ChainState

\* The unspent outputs, and the records, that a state of the database holds.
UnspentIn(d) == {o \in OutPoints : d.pos[o[1]] # NoBlock /\ d.spent[o] = NoTx}

\* Whether d's transaction index is the one of the places P: a record for each of the
\* transactions there, and for no other, that names the block it is in and, for each
\* output, the transaction among them that spends it.
IsIndexOf(d, P) ==
  /\ \A t \in Txs : IF \E p \in P : TxAt(p) = t
                    THEN \E p \in P : TxAt(p) = t /\ p[1] = d.pos[t]
                    ELSE d.pos[t] = NoBlock
  /\ \A o \in OutPoints :
       IF d.spent[o] = NoTx
       THEN \A p \in P : o \notin Ins[TxAt(p)]
       ELSE o \in Ins[d.spent[o]] /\ \E p \in P : TxAt(p) = d.spent[o]

\* Links are the links of the branch that ends at b: each block of it points to the
\* next one, and no other block points anywhere.
IsPathTo(links, b) ==
  \A a \in Blocks : IF \E c \in Chain[b] \ {GenesisBlock} : Prev[c] = a
                    THEN links[a] \in Chain[b] \ {GenesisBlock} /\ Prev[links[a]] = a
                    ELSE links[a] = NoBlock

\* Crash atomicity.  Whatever moment the node dies at, and whichever of its last
\* commits are lost, the database that LoadBlockIndex reads is the index of one valid
\* branch: no block is half connected or half disconnected (SetBestChain's TxnBegin,
\* TxnCommit and TxnAbort around DisconnectInputs and ConnectInputs).
RecoverableLedger ==
  \A n \in DOMAIN log : /\ log[n].hashBestChain \in ValidBranches
                        /\ IsIndexOf(log[n], Places(log[n].hashBestChain))

\* The block records it reads are those of a tree with its best branch marked: closed
\* under hashPrev, with hashNext the path to hashBestChain, so that LoadBlockIndex finds
\* hashBestChain and makes no empty entry.
RecoverableIndex ==
  \A n \in DOMAIN log :
    /\ ClosedUnderPrev(log[n].index)
    /\ Chain[log[n].hashBestChain] \subseteq log[n].index
    /\ IsPathTo(log[n].hashNext, log[n].hashBestChain)

\* So a node that died, at any moment, starts again from one valid branch.
Recoverable == RecoverableLedger /\ RecoverableIndex

\* While no transaction is open the database is its last committed state, and memory
\* agrees with it: after every failed attempt to connect a branch, and after every
\* restart (TxnAbort, LoadBlockIndex).
MemoryAgreesWithDisk ==
  pc \in {"idle", "queue", "accept", "setbest"} =>
    /\ db = Last(log)
    /\ mapBlockIndex = db.index
    /\ pindexBest = db.hashBestChain
    /\ bnBestInvalidWork = db.bnBestInvalidWork
    /\ pnext = db.hashNext

\* The comment on CBlockIndex (main.h): pnext only points forward to the longest branch,
\* and is null off it.  During SetBestChain pindexBest is still the old block; every
\* reader of pnext holds cs_main, and sees the links of the block in pindexBest.
MainChainLinks ==
  pc \in {"idle", "queue", "accept", "setbest", "disconnect", "connect", "commit"} =>
    IsPathTo(pnext, pindexBest)

\* Between two messages the best block is one with the most work of all the blocks in
\* the index whose branch is valid: nothing valid is left inactive.  A crash between
\* the two commits of AddToBlockIndex and SetBestChain breaks this.
BestHasMostWork ==
  pc = "idle" /\ crashes = 0 =>
    \A b \in mapBlockIndex \cap ValidBranches : ChainWork[b] <= ChainWork[pindexBest]

\* A branch with more work than the best one is known to be invalid, and counted in
\* bnBestInvalidWork, from which the warning of GetWarnings follows.
InvalidWorkIsKnown ==
  pc = "idle" /\ crashes = 0 =>
    \A b \in mapBlockIndex :
      ChainWork[b] > ChainWork[pindexBest] => ChainWork[b] <= bnBestInvalidWork

\* Memory says of the best branch what is so: pnext, pindexBest and bnBestInvalidWork agree
\* with the disk and with the blocks, whichever attempts to activate a branch failed before.
MemoryIsRight == MemoryAgreesWithDisk /\ MainChainLinks /\ InvalidWorkIsKnown

\* DisconnectInputs never fails: every transaction it undoes finds the records of its
\* previous transactions.  Were it to fail, the node could never leave the branch.
CanAlwaysDisconnect ==
  pc = "disconnect" /\ pindex \in Disconnected /\ nTx > 0 => CanDisconnect(DisconnectsNext)

\* ConnectInputs never makes money: the outputs that are unspent on disk are worth at
\* most the subsidies of the blocks of the best branch.
SupplyIsBounded == SumOfValues(UnspentIn(Last(log))) <= Issued(Last(log).hashBestChain)

\* mapNextTx never dangles: an entry points to a transaction that is in the pool and
\* spends that outpoint (ptx is a pointer into mapTransactions, dereferenced by whoever
\* looks a conflict up).  RemoveFromMemoryPool erases entries by outpoint, not by owner.
NextTxSound ==
  \A o \in PrevOuts : mapNextTx[o] # NoTx =>
    mapNextTx[o] \in mapTransactions /\ o \in Ins[mapNextTx[o]]

\* Between two messages no transaction of the pool is in the best branch as well, also
\* after a reorganization that resurrected some and deleted others; CreateNewBlock
\* would otherwise put it in a block twice.
PoolIsUnconfirmed ==
  pc = "idle" => \A t \in mapTransactions : db.pos[t] = NoBlock

-----------------------------------------------------------------------------
(* The inductive invariant behind the theorems of ChainProofs.             *)

\* SetBestChain is at work on pindexNew.
Activating == pc \in {"setbest", "disconnect", "connect", "commit", "resurrect", "delete"}

\* A candidate has more work than the best block, until it is the best block; and the
\* genesis block, which every database holds, is never a candidate.
CandidateIsBetter ==
  /\ Activating => /\ pindexNew # GenesisBlock
                   /\ ChainWork[pindexNew] > ChainWork[pindexBest]
  /\ GenesisBlock \in mapBlockIndex \cap db.index
  /\ \A n \in DOMAIN log : GenesisBlock \in log[n].index

\* Reorganize's loops stay on the two branches: it disconnects blocks of the best one,
\* and while it connects there is a next block on the new one.
LoopsOnBranches ==
  /\ pc = "disconnect" => pindex \in Chain[pindexBest] /\ nTx <= Len(Vtx[pindex])
  /\ pc = "connect" => pindex \in Chain[pindexNew] \ {pindexNew}
  /\ pc = "queue" => vWorkQueue # <<>>

\* Types, and where the handler stands, as SetBestChain, Reorganize and ProcessBlock
\* need them to index their vectors.
PositionInv == TypeOK /\ CandidateIsBetter /\ LoopsOnBranches

\* Memory, the database and its last commit agree: entry by entry on the blocks, and on
\* the rest but for what the open transaction of SetBestChain has written.
CopiesAgree ==
  /\ db.index = mapBlockIndex /\ Last(log).index = mapBlockIndex
  /\ pnext = Last(log).hashNext
  /\ db.hashBestChain = Last(log).hashBestChain
  /\ db.bnBestInvalidWork = bnBestInvalidWork /\ Last(log).bnBestInvalidWork = bnBestInvalidWork
  /\ pc \notin {"disconnect", "connect", "commit"} => db = Last(log)

\* pindex ends the branch that the database is on its way through, from the best block
\* to the candidate.
BranchOfDatabase ==
  /\ pc \in {"idle", "queue", "accept", "setbest"} => pindex = pindexBest
  /\ pc \in {"commit", "resurrect", "delete"} => pindex = pindexNew
  /\ db.hashBestChain = IF pc \in {"resurrect", "delete"} THEN pindexNew ELSE pindexBest
  /\ IsPathTo(db.hashNext, pindex)

\* Blocks that wait have passed CheckBlock; those in the index came after their parents
\* and have passed AcceptBlock as well.
BlocksWereChecked ==
  /\ \A b \in mapOrphanBlocks : FailsAt[b] # "check"
  /\ pc = "accept" => Prev[pindexNew] \in mapBlockIndex /\ FailsAt[pindexNew] # "check"
  /\ Activating => pindexNew \in mapBlockIndex
  /\ \A i \in DOMAIN vWorkQueue : vWorkQueue[i] \in mapBlockIndex
  /\ \A n \in DOMAIN log : \A b \in log[n].index \ {GenesisBlock} :
       FailsAt[b] \notin {"check", "context"}

\* A commit that a crash may leave has the block records of a tree, and links to its best
\* block.
CommitsAreTrees ==
  \A n \in DOMAIN log :
    /\ ClosedUnderPrev(log[n].index)
    /\ log[n].hashBestChain \in log[n].index
    /\ IsPathTo(log[n].hashNext, log[n].hashBestChain)

IndexInv == CopiesAgree /\ BranchOfDatabase /\ BlocksWereChecked /\ CommitsAreTrees

\* The places of the branch of b up to its n-th transaction.
PlacesUpTo(b, n) == {p \in Places(b) : p[1] = b => p[2] <= n}

\* The first n transactions of b are valid on top of its branch.
ValidUpTo(b, n) ==
  \A i \in 1..n : ValidTx(b, <<b, i>>) /\ MoneyRange(FeesUpTo(b)[i])

\* The transaction index that the database holds: of the branch of pindex; while
\* Reorganize disconnects pindex, of what is left of it; and while it connects a block,
\* of the part that is connected, which is valid.
DatabaseIsIndex ==
  /\ pc = "disconnect" =>
       /\ IsIndexOf(db, PlacesUpTo(pindex, nTx))
       /\ pindex \notin Disconnected => nTx = Len(Vtx[pindex])
  /\ pc = "connect" =>
       /\ IsIndexOf(db, PlacesUpTo(NextToConnect, nTx))
       /\ nTx <= Len(Vtx[NextToConnect])
       /\ ValidUpTo(NextToConnect, nTx)
       /\ nFees = FeesUpTo(NextToConnect)[nTx]
  /\ pc \notin {"disconnect", "connect"} => nTx = 0 /\ IsIndexOf(db, Places(pindex))
  /\ pc # "connect" => nFees = 0

\* Every branch the database stands for, or stood for at a commit, is valid.
BranchesAreValid == {pindexBest, pindex} \subseteq ValidBranches

LedgerInv == DatabaseIsIndex /\ BranchesAreValid /\ RecoverableLedger

\* Of the blocks in the index the candidate alone may have more work than the best block
\* and be valid, or have it and not be counted in bnBestInvalidWork.
OthersAreWorse ==
  crashes = 0 =>
    \A b \in mapBlockIndex :
      ChainWork[b] > ChainWork[pindexBest] /\ (Activating => b # pindexNew) =>
        b \notin ValidBranches /\ ChainWork[b] <= bnBestInvalidWork

\* A transaction of the pool that is in the database's index is one that SetBestChain is
\* about to delete from the pool; it deletes those of every block that it connected, and
\* resurrects those of the blocks that it disconnected.
PoolInv ==
  /\ \A t \in mapTransactions :
       /\ pc \notin {"resurrect", "delete"} => Last(log).pos[t] = NoBlock
       /\ pc \in {"resurrect", "delete"} =>
            db.pos[t] = NoBlock \/ \E i \in DOMAIN vDelete : vDelete[i] = t
  /\ IF pc \notin {"disconnect", "connect", "commit", "resurrect"} THEN vResurrect = <<>> ELSE
       \A i \in DOMAIN vResurrect :
         \E a \in Disconnected : \E j \in DOMAIN Vtx[a] : Vtx[a][j] = vResurrect[i]
  /\ pc \in {"disconnect", "connect", "commit", "resurrect"} =>
       \A a \in Connected \cap Chain[pindex] : \A j \in DOMAIN Vtx[a] :
         \E i \in DOMAIN vDelete : vDelete[i] = Vtx[a][j]

\* All of it together is preserved by every step.
ChainInv == PositionInv /\ IndexInv /\ LedgerInv /\ OthersAreWorse /\ PoolInv

-----------------------------------------------------------------------------
\* A running node only ever moves its best block to one with more work, and to one whose
\* branch is in the index; so a block that is the best one again was so all along, on
\* which the miner's stale-block check (CheckWork) and BitcoinMiner's loop rely.
BestWorkGrows ==
  [][crashes' = crashes /\ pindexBest' # pindexBest
       => ChainWork[pindexBest'] > ChainWork[pindexBest]]_vars

-----------------------------------------------------------------------------
\* When every block goes on being offered, the best block settles on a valid branch with
\* the most work of all, in whatever order the blocks came, orphans included.
Converges ==
  <>[](/\ pindexBest \in ValidBranches
       /\ \A b \in ValidBranches : ChainWork[b] <= ChainWork[pindexBest])

\* The database implements one best branch and one ledger.
Implements == INSTANCE BestChain WITH tip <- Last(log).hashBestChain,
                                      ledger <- UnspentIn(Last(log))
ImplementsBestChain == Implements!TipSpec
=============================================================================
