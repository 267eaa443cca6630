-------------------------------- MODULE Wallet --------------------------------
(***************************************************************************)
(* The transactions of a wallet and the file they are kept in (wallet.cpp, *)
(* db.cpp).  A payment is created from coins that are not marked spent and *)
(* committed: its change key leaves the key pool, it is recorded, the      *)
(* coins are marked, the memory pool takes it.  Blocks and tx messages     *)
(* tell the wallet of what it is involved in; all this is under cs_main,   *)
(* but write by write.  The flush thread and backups make wallet.dat       *)
(* complete without its log, and the node may die between any two writes.  *)
(*                                                                         *)
(* A write is a transaction of its own in the log, in step with memory.    *)
(* Coins are numbered: the first ones are there already, and a transaction *)
(* has the number of the coin that is its change, if it has any.  The key  *)
(* pool is filled when it is empty (KeyPool has all of it).                *)
(***************************************************************************)
EXTENDS FiniteSetsExt, Integers

CONSTANTS
  FirstCoins,    \* how many coins there are at first
  MaxTxs,        \* bound: how many payments are created
  Foreign,       \* the transactions that a copy of the wallet makes
  ForeignIns,    \* the coins they spend
  MaxCrashes     \* bound: how often the node dies

NoTx == 0
Txs == (FirstCoins + 1 .. FirstCoins + MaxTxs) \cup Foreign
Coins == 1 .. FirstCoins + MaxTxs
Keys == 1 .. MaxTxs
NoKey == 0

ASSUME WalletAssumption ==
  /\ FirstCoins \in Nat /\ MaxTxs \in Nat /\ MaxCrashes \in Nat
  /\ Foreign \cap (0 .. FirstCoins + MaxTxs) = {}
  /\ ForeignIns \in [Foreign -> SUBSET (1..FirstCoins)]

VARIABLES
  nTxs, vin, key,    \* the payments created, the coins each transaction spends, its change key
  mapWallet, vfSpent, setKeyPool,  \* memory: transactions, marked coins, keys to take
  disk,              \* what wallet.dat and its log hold of these
  nKeys,             \* the keys generated so far
  mapTransactions, mapNextTx,  \* the memory pool, and the coins that it has an entry for
  chain,             \* what the best branch confirms
  pc, who, draft,    \* under cs_main: where, in which handler, and for which transaction
  open,              \* the files that a CDB object keeps open
  updated,           \* nWalletDBUpdated # nLastFlushed
  stale,             \* wallet.dat without its log is not what was written
  crashes

txVars == <<nTxs, vin, key>>
memVars == <<mapWallet, vfSpent>>
poolVars == <<setKeyPool, nKeys>>
nodeVars == <<mapTransactions, mapNextTx, chain>>
fileVars == <<disk, updated, stale>>
vars == <<txVars, memVars, poolVars, nodeVars, fileVars, pc, who, draft, open, crashes>>

TypeOK ==
  /\ nTxs \in 0..MaxTxs
  /\ vin \in [Txs -> SUBSET Coins] /\ key \in [Txs -> Keys \cup {NoKey}]
  /\ mapWallet \subseteq Txs /\ vfSpent \subseteq Coins /\ setKeyPool \subseteq Keys
  /\ disk \in [tx : SUBSET Txs, spent : SUBSET Coins, pool : SUBSET Keys]
  /\ nKeys \in 0..MaxTxs
  /\ mapTransactions \subseteq Txs /\ mapNextTx \subseteq Coins /\ chain \subseteq Txs
  /\ pc \in {"idle", "drafted", "keep", "add", "mark", "done"}
  /\ who \in {"payment", "block", "tx"}
  /\ draft \in Txs \cup {NoTx}
  /\ open \subseteq {"wallet.dat", "blkindex.dat"}
  /\ updated \in BOOLEAN /\ stale \in BOOLEAN
  /\ crashes \in 0..MaxCrashes

Init ==
  /\ nTxs = 0
  /\ vin = [t \in Txs |-> IF t \in Foreign THEN ForeignIns[t] ELSE {}]
  /\ key = [t \in Txs |-> NoKey]
  /\ mapWallet = {} /\ vfSpent = {} /\ setKeyPool = {}
  /\ disk = [tx |-> {}, spent |-> {}, pool |-> {}]
  /\ nKeys = 0
  /\ mapTransactions = {} /\ mapNextTx = {} /\ chain = {}
  /\ pc = "idle" /\ who = "payment" /\ draft = NoTx
  /\ open = {} /\ updated = FALSE /\ stale = FALSE
  /\ crashes = 0

\* Whoever writes to wallet.dat counts it.
Written(d) == disk' = d /\ updated' = TRUE /\ stale' = TRUE

\* The coins of the wallet when it has these transactions, and what they spend.
CoinsOf(ts) == (1..FirstCoins) \cup {t \in ts : key[t] # NoKey}
SpentBy(ts) == UNION {vin[t] : t \in ts}

\* What SelectCoins may take; our own change counts as confirmed at once.
Spendable == CoinsOf(mapWallet) \ vfSpent

-----------------------------------------------------------------------------
\* CreateTransaction, with ReserveKeyFromKeyPool when there is change.
CreateTransaction ==
  /\ pc = "idle" /\ nTxs < MaxTxs
  /\ \E ins \in SUBSET Spendable \ {{}}, change \in BOOLEAN :
       LET t == FirstCoins + nTxs + 1
           full == IF change /\ setKeyPool = {} THEN {nKeys + 1} ELSE setKeyPool
       IN /\ vin' = [vin EXCEPT ![t] = ins]
          /\ draft' = t
          /\ key' = [key EXCEPT ![t] = IF change THEN Min(full) ELSE NoKey]
          /\ setKeyPool' = IF change THEN full \ {Min(full)} ELSE setKeyPool
          /\ IF full = setKeyPool THEN UNCHANGED <<nKeys, fileVars>>
             ELSE nKeys' = nKeys + 1 /\ Written([disk EXCEPT !.pool = @ \cup full])
  /\ nTxs' = nTxs + 1
  /\ pc' = "drafted" /\ who' = "payment"
  /\ UNCHANGED <<memVars, nodeVars, open, crashes>>

\* The fee is refused, the dialog cancelled: the destructor of the CReserveKey.
Abort ==
  /\ pc = "drafted"
  /\ setKeyPool' = setKeyPool \cup ({key[draft]} \ {NoKey})
  /\ pc' = "idle" /\ draft' = NoTx
  /\ UNCHANGED <<txVars, memVars, nodeVars, fileVars, nKeys, who, open, crashes>>

\* Mutant: the flush thread is not kept away.
CommitUnopened ==
  /\ pc = "drafted"
  /\ pc' = "keep"
  /\ UNCHANGED <<txVars, memVars, poolVars, nodeVars, fileVars, who, draft, open, crashes>>

\* CommitTransaction takes cs_mapWallet and opens the file.
Commit ==
  /\ pc = "drafted"
  /\ pc' = "keep"
  /\ open' = open \cup {"wallet.dat"}
  /\ UNCHANGED <<txVars, memVars, poolVars, nodeVars, fileVars, who, draft, crashes>>

\* Mutant: the record of the key is left to be erased later.
KeepKeyInMemory ==
  /\ pc = "keep"
  /\ pc' = "add"
  /\ UNCHANGED <<txVars, memVars, poolVars, nodeVars, fileVars, who, draft, open, crashes>>

KeepKey ==
  /\ pc = "keep"
  /\ IF key[draft] = NoKey THEN UNCHANGED fileVars
     ELSE Written([disk EXCEPT !.pool = @ \ {key[draft]}])
  /\ pc' = "add"
  /\ UNCHANGED <<txVars, memVars, poolVars, nodeVars, who, draft, open, crashes>>

-----------------------------------------------------------------------------
\* AddToMemoryPoolUnchecked and RemoveFromMemoryPool.
AddToMemoryPoolUnchecked(t) ==
  mapTransactions' = mapTransactions \cup {t} /\ mapNextTx' = mapNextTx \cup vin[t]

\* Mutant: the entries of the inputs stay.
RemoveFromMapTransactions(t) == mapTransactions' = mapTransactions \ {t} /\ UNCHANGED mapNextTx

\* The entries of t's inputs go, whoever made them: after a reorganization the pool may hold
\* rivals, and transactions whose inputs have no entry.
RemoveFromMemoryPool(t) ==
  mapTransactions' = mapTransactions \ {t} /\ mapNextTx' = mapNextTx \ vin[t]

\* What a block may confirm, and what AcceptToMemoryPool takes.
Valid(t) ==
  /\ t \notin chain
  /\ vin[t] \cap SpentBy(chain) = {} /\ vin[t] \subseteq CoinsOf(chain)

Acceptable(t) ==
  /\ t \notin mapTransactions \cup chain
  /\ vin[t] \cap mapNextTx = {}
  /\ vin[t] \cap SpentBy(chain) = {} /\ vin[t] \subseteq CoinsOf(mapTransactions \cup chain)

\* ConnectBlock comes to a transaction of the wallet, or a tx message brings one: each is
\* ours, or spends a coin of ours.  Whatever was recorded may have been relayed.
SyncWithWallets(t) ==
  /\ pc = "idle"
  /\ \/ /\ t \in mapWallet \cup Foreign /\ Valid(t)
        /\ who' = "block" /\ open' = open \cup {"blkindex.dat"}
        /\ UNCHANGED <<mapTransactions, mapNextTx>>
     \/ /\ t \in Foreign /\ Acceptable(t)
        /\ who' = "tx" /\ AddToMemoryPoolUnchecked(t)
        /\ UNCHANGED open
  /\ pc' = "add" /\ draft' = t
  /\ UNCHANGED <<txVars, memVars, poolVars, chain, fileVars, crashes>>

\* Mutant: the record is written when the handler has done with the coins.
AddToWalletInMemory ==
  /\ pc = "add"
  /\ mapWallet' = mapWallet \cup {draft}
  /\ pc' = "mark"
  /\ UNCHANGED <<txVars, vfSpent, poolVars, nodeVars, fileVars, who, draft, open, crashes>>

\* AddToWallet: a new transaction is recorded.
AddToWallet ==
  /\ pc = "add"
  /\ IF draft \in mapWallet THEN UNCHANGED <<mapWallet, fileVars>>
     ELSE /\ mapWallet' = mapWallet \cup {draft}
          /\ Written([disk EXCEPT !.tx = @ \cup {draft}])
  /\ pc' = "mark"
  /\ UNCHANGED <<txVars, vfSpent, poolVars, nodeVars, who, draft, open, crashes>>

\* The coins it spends that are not marked yet.
ToMark == (vin[draft] \cap CoinsOf(mapWallet)) \ vfSpent

\* WalletUpdateSpent: one of them is, in memory and in its record.
MarkSpent ==
  /\ pc = "mark"
  /\ \E c \in ToMark :
       /\ vfSpent' = vfSpent \cup {c}
       /\ Written([disk EXCEPT !.spent = @ \cup {c}])
  /\ UNCHANGED <<txVars, mapWallet, poolVars, nodeVars, pc, who, draft, open, crashes>>

\* All are.  CommitTransaction marks them once more, which changes nothing, and closes
\* the file.
Marked ==
  /\ pc = "mark" /\ ToMark = {}
  /\ pc' = "done"
  /\ open' = open \ {"wallet.dat"}
  /\ UNCHANGED <<txVars, memVars, poolVars, nodeVars, fileVars, who, draft, crashes>>

\* The handler returns: CommitTransaction hands its transaction to the memory pool; the
\* block is committed and its transactions leave the pool, or another block of its branch
\* makes Reorganize abort after the wallets were told.
Return ==
  /\ pc = "done"
  /\ \/ /\ who = "payment"
        /\ IF Acceptable(draft) THEN AddToMemoryPoolUnchecked(draft)
           ELSE UNCHANGED <<mapTransactions, mapNextTx>>
        /\ UNCHANGED chain
     \/ /\ who = "block"
        /\ chain' = chain \cup {draft}
        /\ RemoveFromMemoryPool(draft)
     \/ who # "payment" /\ UNCHANGED nodeVars
  /\ pc' = "idle" /\ draft' = NoTx
  /\ open' = {}
  /\ UNCHANGED <<txVars, memVars, poolVars, fileVars, who, crashes>>

\* Reorganize: a block leaves the best branch, and the pool takes its transactions back with
\* their inputs unchecked, but for the entries of mapNextTx.  The wallets are not told.
Disconnect(t) ==
  /\ pc = "idle"
  /\ t \in chain /\ t \notin SpentBy(chain)
  /\ chain' = chain \ {t}
  /\ IF t \notin mapTransactions /\ vin[t] \cap mapNextTx = {}
     THEN AddToMemoryPoolUnchecked(t) ELSE UNCHANGED <<mapTransactions, mapNextTx>>
  /\ UNCHANGED <<txVars, memVars, poolVars, fileVars, pc, who, draft, open, crashes>>

-----------------------------------------------------------------------------
\* The flush thread, when no database is in use.
Flush ==
  /\ updated /\ open = {}
  /\ updated' = FALSE /\ stale' = FALSE
  /\ UNCHANGED <<txVars, memVars, poolVars, nodeVars, disk, pc, who, draft, open, crashes>>

\* BackupWallet: it is enough that nobody has wallet.dat open.
Backup ==
  /\ "wallet.dat" \notin open
  /\ stale' = FALSE
  /\ UNCHANGED <<txVars, memVars, poolVars, nodeVars, disk, updated, pc, who, draft, open, crashes>>

\* ReacceptWalletTransactions takes what does not conflict, in any order, and leaves the
\* inputs unchecked.
Compatible(ts) == \A t, u \in ts : t # u => vin[t] \cap vin[u] = {}
Reaccepted(ts) ==
  {p \in SUBSET ts : Compatible(p) /\ \A t \in ts \ p : ~Compatible(p \cup {t})}

\* The process dies and is started again: LoadWallet; then ReacceptWalletTransactions marks
\* what the chain has spent of the wallet's confirmed transactions, and if it found
\* anything, scans the chain for what is missing.
CrashAndRestart ==
  LET missing == (SpentBy(chain) \cap CoinsOf(disk.tx \cap chain)) \ disk.spent
      found == IF missing = {} THEN {} ELSE chain
  IN /\ crashes < MaxCrashes
     /\ crashes' = crashes + 1
     /\ mapWallet' = disk.tx \cup found
     /\ vfSpent' = disk.spent \cup missing \cup SpentBy(found)
     /\ disk' = [disk EXCEPT !.tx = mapWallet', !.spent = vfSpent']
     /\ setKeyPool' = disk.pool
     /\ mapTransactions' \in Reaccepted(mapWallet' \ chain)
     /\ mapNextTx' = SpentBy(mapTransactions')
     /\ updated' = (disk' # disk)
     /\ stale' = (stale \/ updated')
     /\ pc' = "idle" /\ draft' = NoTx /\ open' = {}
     /\ UNCHANGED <<txVars, nKeys, chain, who>>

Steps == Commit \/ KeepKey \/ AddToWallet \/ MarkSpent \/ Marked \/ Return

Next ==
  \/ CreateTransaction \/ Abort \/ Steps
  \/ \E t \in Txs : SyncWithWallets(t) \/ Disconnect(t)
  \/ Flush \/ Backup
  \/ CrashAndRestart

Spec == Init /\ [][Next]_vars

\* The flush thread looks twice a second: it finds a moment between two blocks, and
\* between two payments.
FairSpec == Spec /\ WF_vars(Abort \/ Steps) /\ SF_vars(Flush)

-----------------------------------------------------------------------------
\* Money does not disappear from the books: a coin that wallet.dat has as spent is spent by
\* a transaction that wallet.dat has as well, whenever the node dies.  AddToWallet writes
\* the transaction before it marks the coins, and nothing ever takes a mark back.
NoCoinIsLost ==
  /\ vfSpent \subseteq SpentBy(mapWallet)
  /\ disk.spent \subseteq SpentBy(disk.tx)

\* Nor is it counted twice.  Whatever the chain has confirmed of ours is recorded, with its
\* coins marked, in memory and on disk, through crashes in the middle of CommitTransaction
\* or of ConnectBlock, which tells the wallets before the database commits.
WalletKnowsChain ==
  /\ chain \subseteq disk.tx \cap mapWallet
  /\ SpentBy(chain) \subseteq disk.spent \cap vfSpent

\* The books are right about what was spent, no more and no less.
BooksAreRight == NoCoinIsLost /\ WalletKnowsChain

\* "Take key pair from key pool so it won't be used again": a recorded transaction's key is
\* not in the pool that a restart loads, so that no two recorded ones share a key.
ChangeKeyIsTaken ==
  /\ \A t \in disk.tx : key[t] \notin disk.pool \ {NoKey}
  /\ \A t, u \in disk.tx : t # u /\ key[t] # NoKey => key[t] # key[u]

\* "This must not fail. The transaction has already been signed and recorded": as long as
\* the node stays up, AcceptToMemoryPool takes what CommitTransaction recorded, though
\* blocks come and go and leave rivals in the pool, copies of the wallet spend its coins,
\* and payments spend the change of payments.
CommitDoesNotFail == crashes = 0 /\ pc = "done" /\ who = "payment" => Acceptable(draft)

\* A flush or a backup ("so it's self contained") never takes half of a CommitTransaction:
\* "keep the database open to defeat the auto-flush".
FlushesWhole ==
  [][stale /\ ~stale' /\ crashes = 0 =>
       \A t \in disk.tx \ Foreign : vin[t] \subseteq disk.spent /\ key[t] \notin disk.pool]_vars

\* When the node stays up, what was written gets into the file.
SelfContained == [](crashes = 0) => <>[]~stale

\* What the flush thread and the backup leave in the file: never half a payment, and in the
\* end everything.
FileIsWhole == FlushesWhole /\ SelfContained

-----------------------------------------------------------------------------
(* The inductive invariant behind the theorems of WalletProofs.            *)

\* Memory and the file are written together.  What there is yet of the payments: none has
\* spent, or been recorded, before it was created; what is not recorded is not in the pool.
InStep ==
  /\ mapWallet = disk.tx /\ vfSpent = disk.spent /\ nKeys <= nTxs
  /\ mapWallet \cup mapTransactions \cup chain
       \subseteq Foreign \cup (FirstCoins + 1 .. FirstCoins + nTxs)
  /\ chain \subseteq mapWallet
  /\ \A t \in Foreign : vin[t] = ForeignIns[t] /\ key[t] = NoKey
  /\ \A t \in Txs : vin[t] \subseteq CoinsOf(mapWallet)

\* A handler that works on a transaction: a payment it has created, or one that was already
\* in the pool, and so is recorded, or that comes from a copy of the wallet.
DraftIsKnown ==
  /\ pc = "idle" <=> draft = NoTx
  /\ pc # "idle" => draft \in Foreign \cup (FirstCoins + 1 .. FirstCoins + nTxs)
  /\ pc \in {"drafted", "keep"} => who = "payment"
  /\ pc # "idle" /\ who # "payment" => draft \in Foreign \cup mapWallet
  /\ pc # "idle" /\ who = "payment" =>
       /\ draft \notin Foreign \cup chain \cup mapTransactions
       /\ draft \in mapWallet => pc \in {"mark", "done"}
  /\ pc \in {"mark", "done"} => draft \in mapWallet
  /\ pc = "done" => vin[draft] \subseteq vfSpent
  /\ mapTransactions \subseteq mapWallet \cup ({draft} \cap Foreign)

BooksInv == TypeOK /\ InStep /\ DraftIsKnown /\ BooksAreRight

\* Keys that may be taken have their records, those of recorded transactions do not, and the
\* one that a payment is made with is out of the pool already.
KeysInv ==
  /\ setKeyPool \subseteq disk.pool /\ disk.pool \subseteq 1..nKeys
  /\ \A t \in Txs : key[t] \in 0..nKeys
  /\ ChangeKeyIsTaken
  /\ pc \in {"drafted", "keep"} => key[draft] \in (disk.pool \ setKeyPool) \cup {NoKey}
  /\ pc = "add" => key[draft] \notin disk.pool \ {NoKey}
                   /\ \A t \in disk.tx \ {draft} : key[draft] # NoKey => key[t] # key[draft]

\* As long as the node stays up: what is recorded has its coins marked, but for the one that
\* is being marked.
RecordedAreMarked ==
  \A t \in mapWallet :
    vin[t] \subseteq vfSpent \/ (pc = "mark" /\ t = draft /\ (who = "payment" \/ t \in Foreign))

\* What gives change is in the pool or in a block.
ChangeIsThere == \A t \in mapWallet \ {draft} : key[t] # NoKey => t \in mapTransactions \cup chain

\* The transactions of the pool may compete with each other and with the chain, the entries
\* of mapNextTx do not: the pool has who spends them, and the chain has nobody, so that what
\* leaves the chain comes back to the pool.
EntriesAreFree ==
  /\ mapTransactions \cap chain = {} /\ Compatible(chain)
  /\ mapNextTx \subseteq SpentBy(mapTransactions)
  /\ mapNextTx \cap SpentBy(chain) = {}

\* What is worked on competes with neither, and a payment has the file open.
DraftStands ==
  /\ pc # "idle" /\ who = "payment" => Acceptable(draft)
  /\ pc # "idle" /\ who # "payment" => draft \in mapTransactions \/ key[draft] = NoKey
  /\ pc # "idle" /\ who = "block" => Valid(draft)
  /\ pc \in {"keep", "add", "mark"} /\ who = "payment" => "wallet.dat" \in open

NothingCompetes ==
  crashes = 0 => RecordedAreMarked /\ ChangeIsThere /\ EntriesAreFree /\ DraftStands
================================================================================
