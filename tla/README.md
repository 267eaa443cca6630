# A TLA+ model of ixcoin

ixcoin is a node of a proof-of-work currency, a fork of Bitcoin 0.3.24 with merged
mining (`src/auxpow.*`), its own genesis block, subsidy and retargeting. This directory
holds TLA+ modules translated from its C++ source, the TLC configurations that check
them on small instances, and theorems about them checked by TLAPS. Paths below are
relative to the repository; its code is in `src/`, and file names without a directory
are in `src/src/`.

1. Inventory; 2. Modules, and how they correspond to the code; 3. Runs, bounds,
fairness and findings; 4. Proofs; 5. What is not modelled; 6. Plan.

## 1. Inventory

| part | state it keeps | operations | interacts with |
|---|---|---|---|
| block chain state (`main.cpp`) | `mapBlockIndex`, `pnext`/`pprev`, `pindexBest` and its copies, `bnBestInvalidWork`, `mapOrphanBlocks(ByPrev)` | `ProcessBlock`, `AcceptBlock`, `AddToBlockIndex`, `SetBestChain`, `Reorganize`, `(Dis)ConnectBlock` | transaction database, memory pool, wallet (`SyncWithWallets`), peers (relay) |
| transaction database (`db.cpp`, `db.h`) | `blkindex.dat`: block index, tx index with `vSpent`, `hashBestChain`; the open transactions `vTxn`; the block files | reads and writes, `TxnBegin/Commit/Abort`, `LoadBlockIndex`, `AppendBlockFile` | block chain state |
| memory pool (`main.cpp`) | `mapTransactions`, `mapNextTx` | `AcceptToMemoryPool`, `AddToMemoryPoolUnchecked`, `RemoveFromMemoryPool` | chain (resurrect, delete), miner, wallet |
| orphan transactions (`main.cpp`) | `mapOrphanTransactions(ByPrev)` | `AddOrphanTx`, `EraseOrphanTx`, the loop of the `tx` message | memory pool |
| miner (`main.cpp`, `rpc.cpp`) | a block under work, `nExtraNonce`, a reserved key; getwork's blocks and its map from roots | `CreateNewBlock`, `IncrementExtraNonce`, `CheckWork`, getwork, getworkaux, getauxblock | chain, memory pool, key pool |
| key pool (`wallet.cpp`) | `setKeyPool`, the pool records of `wallet.dat`, the index each `CReserveKey` holds | `ReserveKeyFromKeyPool`, `KeepKey`, `ReturnKey` | miner, wallet, RPC |
| wallet (`wallet.cpp`) | `mapWallet` with spent flags, merkle branches and copies of what is spent; the address book and accounts | `AddToWallet`, `SelectCoins`, `CreateTransaction`, `CommitTransaction`, balances and lists | chain, memory pool, key pool |
| key store (`keystore.cpp`, `key.h`) | a map of keys, never encrypted in this version | `AddKey`, `GetKey` | wallet, scripts |
| wallet database (`db.cpp`) | `wallet.dat` and its log, `mapFileUseCount`, open files, `nWalletDBUpdated` | `CDB`, `ThreadFlushWalletDB`, `BackupWallet` | wallet |
| connections (`net.cpp`, `net.h`) | `vNodes`, `vNodesDisconnected`, `nRefCount`, `vSend`, `vRecv` | `ConnectNode`, `ThreadSocketHandler`, `ThreadMessageHandler`, `PushMessage`, `ProcessMessages` | everything that sends |
| inventory and download (`main.cpp`, `net.h`) | `mapAskFor`, `mapAlreadyAskedFor`, `setInventoryKnown`, `hashContinue` | `inv`, `getdata`, `getblocks`, `AskFor`, block locators | chain, connections |
| addresses, alerts, IRC | `mapAddresses`, `mapAlerts`, `setKnown`, the session with the server | `addr`, `getaddr`, `alert`, `ThreadIRCSeed` | connections |
| proof of work, merged mining (`main.cpp`, `auxpow.*`) | none | `GetNextWorkRequired`, `GetMedianTimePast`, `GetBlockValue`, `CAuxPow::Check` | chain, miner |
| scripts (`script.cpp`) | none | `EvalScript`, `VerifyScript`, `Solver`, `SignSignature` | chain, wallet |
| RPC server (`rpc.cpp`) | the connection in service | `ThreadRPCServer`, `ReadHTTP`, the methods | everything |
| start-up, shutdown (`init.cpp`, `net.cpp`) | the lock, the pid file, `fShutdown`, `vnThreadsRunning` | `AppInit2`, `StartNode`, `StopNode`, `Shutdown` | every thread |
| utilities (`serialize.h`, `util.*`, `uint256.h`, `bignum.h`, `base58.h`) | `CDataStream` | serialization, numbers, texts, the network's time | everything |
| user interface, vendored libraries | | | see `PROJECT.json` |

What is hard here. Every message handler runs under `cs_main`, so that the interleavings
of the chain code are not those of threads but those of blocks and transactions arriving
in any order, of a *reorganization* that may fail half way, and of a crash at any point
between commits that are not synced (`DB_TXN_NOSYNC`). Three structures (database, index
in memory, memory pool) change one after the other for each new best block, and a fourth,
the wallet, is told in the middle. The real thread interleavings are in the miner, the key
pool, the wallet database, the connections and the shutdown; those of machines are in the
download, the alerts and the addresses. `PROJECT.json` lists each hazard at its line, with
the properties that are about it.

What makes each part correct: the *chain* follows the valid branch with the most work
and its ledger never makes money; the *database* describes one valid branch whatever
crash; the *pool* never dangles and never holds what is confirmed; *orphan transactions*
are pulled in as soon as they can be; a *mined block* connects; the *key pool* never hands
a key out twice; the *wallet* marks as spent what was spent and nothing else, and commits
no payment that the pool refuses; *node lifetime*: no node is used after its deletion;
*download*: a node connected to an honest peer gets its chain, and asks nobody twice;
*shutdown*: no thread works without its databases; the *pure algorithms* agree with a
reference definition and keep their bounds.

## 2. Modules

| module | what it is |
|---|---|
| `Ledger` | constants: a tree of blocks, the transactions in them, where the checks on a block alone fail; their assumptions; what a branch *means*: its transactions, its unspent outputs, whether it is valid, defined without any index |
| `BestChain` | the abstract specification: one best branch, one ledger, replaced together by those of a valid branch with more work |
| `ChainState` | the machine: `ProcessBlock` down to `ConnectInputs`, the pool, the database, crash and restart |
| `ChainSafety` | the properties of `ChainState`, the inductive invariant `ChainInv`, the refinement mapping |
| `MCChain` | trees of blocks for TLC |
| `ChainProofs` | the theorems about them: what a branch is, where `SetBestChain` stands; what is on disk and in memory, the refinement, the supply |
| `OrphanTx`, `MCOrphanTx`, `OrphanProofs` | the `tx` message over `ChainState`, its instance, its theorems |
| `Miner`, `MCMiner`, `MinerProofs` | a miner thread beside `ChainState`, its instance, its theorems |
| `Wallet`, `MCWallet`, `WalletProofs` | the wallet, its file, the flush thread; instance; theorems |
| `NodeLifetime`, `MCNodes`, `NodeProofs` | the life of a `CNode` between four threads; instances; theorems, also about `Wire` |
| `KeyPool` | the key pool |
| `Startup`, `Shutdown`, `RpcServer` | how a process comes up, how it ends, and its RPC server |
| `MCProcess` | `KeyPool`, `Startup`, `Shutdown` and `RpcServer` for TLC; `part` says which one runs |
| `ProcessProofs` | the inductive invariants of these four and their theorems |
| `BlockSync`, `MCBlockSync`, `BlockSyncProofs` | the download of blocks; its instances; its theorem |
| `Alerts`, `Addresses`, `Irc`, `Wire` | alerts and addresses among nodes, IRC, one connection as bytes |
| `MCNetwork` | these for TLC; `part` says which one runs |
| `NetworkProofs` | the inductive invariants of the first three, and the theorem about all four |
| `Locator`, `Headers`, `CoinSelection`, `Merkle`, `Script`, `GetWork`, `Accounts`, `Confirmations`, `Numbers`, `Encoding`, `Serialize`, `BlockFiles` | computations: operators, and states that one call after another changes |
| `MCAlgorithms` | these for TLC: `x` is an input, or a state that grows, of the `subject` |

The machines that do not meet share a module and a run so that one configuration holds the
small ones of a kind; each has its own first states, its own properties, and no step that
touches another's variables.

### ChainState and the code

A block is a constant of the model: its hash commits to its parent and its transactions,
so these are functions on blocks (`Prev`, `Vtx`). Scripts, sizes, work, timestamps and
checkpoints are abstracted to the constant `FailsAt`, the first check on the block alone
that fails: `CheckBlock` on reception, the checks of `AcceptBlock`, or `CheckBlock` again
with the true height inside `ConnectBlock` (the chain id is only looked at then).
What depends on the *state* is modelled in full: previous transactions, spent outputs,
maturity, values, fees, the reward.

`pc` is where the handler that holds `cs_main` stands; one step is one transaction, one
block or one commit:

| `pc` | code | actions |
|---|---|---|
| idle | waiting for a message | `DropBlock`, `HoldOrphanBlock`, `ProcessBlock`, `AcceptToMemoryPool` |
| accept | `AcceptBlock`, `AddToBlockIndex` | `RejectBlock`, `AddToBlockIndex` |
| setbest | `SetBestChain` | `ExtendBestChain`, `StartReorganize` |
| disconnect | `Reorganize`, `DisconnectBlock` | `DisconnectTx`, `DisconnectBlock`, `ReachFork`, `AbortBestChain` |
| connect | `Reorganize`, `ConnectBlock` | `ConnectTx`, `ConnectBlock`, `AbortBestChain` |
| commit | `WriteHashBestChain`, `TxnCommit`, `pnext` | `CommitBestChain` |
| resurrect, delete | the pool after the commit, `pindexBest` last | `ResurrectTx`, `StartDelete`, `DeleteTx`, `SetBestChain` |
| queue | the loop over `mapOrphanBlocksByPrev` | `AcceptOrphan`, `NextInQueue` |

`db` is what the open transaction reads; `log` is the sequence of committed states a
crash may leave. A commit appends to it (`DB_TXN_NOSYNC`: it may be lost), a write of its
own (`WriteBestInvalidWork`) is synced and leaves only itself. `CrashAndRestart(n)` picks
one of them and runs `LoadBlockIndex`. That a lost suffix of commits is what Berkeley DB
leaves is how the code uses it and not a model of the library.

### OrphanTx and the code

`OrphanTx` extends `ChainState` with the two maps of orphan transactions and the work queue
of the `tx` message (`vWorkQueue`). One step is one transaction tried (`AcceptToMemoryPool`
of the message's, or of one that its acceptance may have made acceptable) or one erased.
Between them no other handler runs, as all of it is under `cs_main`; between two messages
`ChainState` goes on.

### Miner and the code

`Miner` extends `ChainState` with one more thread. `BitcoinMiner` reads `pindexBest`
(`ReadBest`), `CreateNewBlock` reads it again (`StartNewBlock`), both without a lock and so
at any point of a handler; then it takes `cs_main` (`LockMain`), picks transactions that
connect on what the database holds *now* with the maturity of the block read *before*
(`CollectTx`), lets the lock go and fills in the header (`FillHeader`). While it searches,
the best block may move any number of times; `CheckWork` compares under the lock and then
runs `ProcessBlock`, here `ReceiveBlock`. `MessageStep` is the thread of `ChainState`, held
off while the miner holds `cs_main`. `hashBestChain`, which `CheckWork` reads, and
`pindexBest` are one variable: they are assigned side by side under the lock. Which
transactions are chosen and in which order is free: priorities, size limits and minimum
fees only narrow it.

### Wallet and the code

Coins are numbered, and a transaction has the number of the coin that is its change. The
handlers are under `cs_main`, but each write to `wallet.dat` is a transaction of its own in
the log, so that `pc` stops between them: a payment goes through `CreateTransaction`
(*drafted*: the user may still say no, `Abort`), `Commit` (opens the file), `KeepKey`,
`AddToWallet`, `MarkSpent` once per coin, `Marked`, and `Return`, which hands it to the
memory pool. A block or a `tx` message runs the same `AddToWallet` and `WalletUpdateSpent`
by way of `SyncWithWallets`; `Return` then commits the block, or does not, when a later
block of the same reorganization fails. The memory pool is `mapTransactions` and the coins
that `mapNextTx` has an entry for, which is what `AcceptToMemoryPool` looks in for a rival
(main.cpp:380). `RemoveFromMemoryPool` erases the entries of all inputs, whoever made them
(main.cpp:487-498), so that after a reorganization the pool may hold rivals, or a transaction
whose inputs have no entry. `Foreign` transactions are those that a copy of the
wallet made. `stale` says that `wallet.dat` without its log is not what was written;
`Flush` and `Backup` end that. `CrashAndRestart` is `LoadWallet` and
`ReacceptWalletTransactions`, whose choice among transactions that compete is free.

### KeyPool, Startup, Shutdown, RpcServer

A holder of `KeyPool` is whoever has a `CReserveKey` (a miner thread, getwork, the wallet)
or calls `GetKeyFromKeyPool` or `GetOldestKeyPoolTime`. `ReserveKeyFromKeyPool` runs under
three locks; `reserving` is who is inside, and each turn of its loop is a step because its
write is durable at once and a crash may follow.

`Startup` is `AppInit2` as a sequence of stages that several processes on one data
directory pass through, with the options that change how far each gets. `Shutdown` has one
process: a thread decrements its `vnThreadsRunning` before it sleeps or waits, increments
it afterwards and looks at `fShutdown`; the counts are plain integers, so that two miners
may lose an update. `miscounted` is history: it notes that the miners' count has been smaller
than the number of them at work. The properties need it, and not only the present count,
because of three miners or more: `StopNode` may read a count that one lost update spoilt, and
another lost update may put it right again. `RpcServer` is the one thread that serves connections in turn, the
thread that reads for it, and callers that may be late, vanish or send anything.

### Nodes, messages, gossip

`NodeLifetime`: one step is what a thread does under one lock, or between two accesses to
shared memory without one; `nRefCount++` outside the lock is a read and a write. Times are
what is left of them. `Wire` is one connection byte by byte, from `BeginMessage` to
`ProcessMessages`. `Alerts` and `Addresses` are message handlers on a few nodes; `Irc` is
`ThreadIRCSeed2` with an external server. `BlockSync` is one node and its peers, all running
the same handlers for `version`, `inv`, `getdata`, `getblocks` and `block`, with
`SendMessages`; a handler is one step and a tick of the clock two minutes.

### Computations

Each module holds the operators of one file or function group, next to a reference
definition that says what they are for without their loops: `Locator` (the hashes a node
offers, against the last block shared), `Headers` (targets, medians, lock times,
subsidies), `CoinSelection` (against the best choice there is), `Merkle` (with
`CAuxPow::Check`; a hash of two hashes is their pair, hence injective), `Script` (ops and
values as records, `EvalScript` as a fold over the ops; signatures are records only the
owner can make), `Encoding` and `Serialize` (bytes), `Numbers` (`uint256`, `CBigNum`,
base 58, amounts, the network's time), `GetWork`, `Confirmations` and `BlockFiles` (a state
changed by one call after another).

`Accounts` is a wallet with its address book, its current keys and the entries of `move`; a
call of an RPC method, or what the chain does, makes another of it. A transaction is final or
not (`IsFinal`, which `GetBalance`, `GetAccountBalance` and `getbalance "*"` ask and the lists
do not), is in a block of the main chain or not (`at`), has the block that the wallet was last
told of (`hashBlock`), and the copies of what it spends with the block each had when it was
made (`vtxPrev`), by which `IsConfirmed` judges. So after a reorganization a payment can be
unconfirmed by its copies although everything it spends is in a block again, another one.

## 3. Runs

One line per run; the properties of a conjunction are named in brackets.

| run | instance | what it shows |
|---|---|---|
| `fork` (6,373 states) | two branches of valid blocks that overtake each other, a block that pays itself too much, a block of a wrong branch, loose transactions, among them a double spend and one that names an output that does not exist | the pool never dangles (`NextTxSound`) and never holds what is confirmed; no money is made; the best block has the most work and only ever grows; the database implements `BestChain`; when every block goes on being offered, the node converges |
| `crash` (227,544) | blocks that fail at different checks, a reorganization that succeeds and one that fails, two crashes, two unsynced commits | `ChainInv`, the inductive invariant; `Recoverable` [`RecoverableLedger`, `RecoverableIndex`]: at every moment, whatever is lost, the database is the index of one valid branch; `MemoryIsRight` [`MemoryAgreesWithDisk`, `MainChainLinks`, `InvalidWorkIsKnown`]; a block can always be disconnected |
| `miner` (187,956) | a fork that is reorganized, a better branch that fails, a pool that can come to hold a conflict, a crash, a miner that reads at any point | a block that passes the stale check connects, fees included; a stale one is noticed by the loop's comparison |
| `orphan_tx` (9,052) | transactions that depend on one another, a double spend and a bad signature, in every order, between blocks | `OrphanInv` [`OrphanTypeOK`, `ByPrevSound`, `KeptAwaitsParent`]: the two maps agree and what is kept awaits a parent; `OrphansSettled`: what a message made acceptable has been tried when it ends |
| `wallet` (1,339,638) | two coins, three payments, a foreign transaction that spends one of the coins, blocks that leave rivals in the pool, one crash | `BooksAreRight` [`NoCoinIsLost`, `WalletKnowsChain`]; keys and coins are not used twice; the pool takes what was committed; `FileIsWhole` [`FlushesWhole`, `SelfContained`]: no flush takes half a payment, and what was written gets into the file |
| `process` (315,519) | three holders of a key pool and two crashes; processes with six sets of options on one directory, three starts; the threads of a process at its end; two RPC callers | no key is handed out twice (`KeyNeverReused`, `KeyPoolInv`); `ProcessIsSound` [`StartsInOrder`, `RpcIsSound`]; `ShutdownIsClean`; `EverythingEnds` [`ProcessEnds`, `EveryCallEnds`] |
| `node_apart` | an inbound peer and a node the user interface dials, at addresses of their own | no thread is left with freed memory, counts are exact, a disconnected node is deleted in the end |
| `node_shared` (181,753) | a peer connects from the address that `ThreadOpenConnections` dials | `FinderIsSafe`: whoever has just found the node still has it |
| `network` (1,140,087) | alerts and addresses among three nodes; two nodes on IRC; one connection as bytes | `NetworkIsSound` [`AlertsAreRight`, `AddressesAreRight`, `IrcIsRight`, `ArrivesInOrder`, each in its part]; `Recovers`: a changed byte costs two messages at most |
| `node_race` | the same as `node_shared` | a finding, below |
| `sync` (20,704) | two peers, either asked first, one of which may go away and come back or fall silent; and one peer on a longer branch than ours | `AskedOnce` [`OneRequest`]: no block is asked for twice within two minutes; `DownloadsGoOn` [`Restarts`, `Downloaded`]: one more block gets a stalled download going, and batch by batch we get all of the longer branch |
| `algorithms` (755,391) | each subject over its bounded inputs | `BlocksAreFound` [`DistanceIsRight`, `FoundNearFork`, `SavedIsFound`], `HeadersAreSound` [`MedianNeverFalls`, `TimeIsCounted`, `SlowerIsEasier`, `MoneyIsLimited`, `LocksAreKept`], `PaymentIsSound`, `WorkIsSound`, `ScriptIsSound`, `AccountsAreSound` [`AccountsAddUp`, `ListsAddUp`, `OneBalance`, `CurrentKeyIsOwn`], `DepthsAreSound` [`DepthIsKnown`, `ConfirmedIsTrue`, `MatureIsSpendable`, `SupportIsEnough`], `NumbersAreSound`, whose parts are named where they are defined in `MCAlgorithms` |

### Bounds and why they are enough

* Chain. A tree of two branches that fork below the top holds every case the code
  distinguishes: extension, reorganization of one block and of more, a tie, fewer blocks
  with more work, a transaction on both branches, on one of them, spent within its block
  and across blocks, a coinbase that is too young. Depth adds nothing to a handler that
  works block by block: the theorems cover every depth. `COINBASE_MATURITY` is 1, so that
  a coinbase is spendable in the next block and not in its own. Two crashes let one fall
  on what the first one left. `MaxUnsynced` 2 holds both commits that activating a block
  makes.
* Nodes. `Grace` is 2 ticks for 15 minutes and `UiTimeout` 2, enough for a thread to be on
  either side of each; `BlockSync` has two-minute ticks, `MaxDrops` 2, a `BlockLimit` of
  1 or 2 for 500, and locators with 10 or 1 dense steps.
* Wallet. Three payments make change of change; one foreign transaction competes with
  them; one crash may fall between any two writes (a second finds nothing new: after the
  first, memory is what the file has, which is proved for any number of crashes).
* Process. Three holders, a key pool of one key, the least that is safe, and six keys;
  `Patience` 0, one tick for the 20 seconds of `StopNode`; two miners; three sets of
  threads {message, miners}, {message, RPC, flush}, {socket, message, open}, with one full
  disk and one call of stop. Two processes and three starts; two RPC clients with nine or
  ten calls, two timeouts, one lost connection.
* Gossip. Three alerts without breaks or two with one; a clock of two values; `Day` 1 and
  `LastHour` 2, one node that departs; on IRC one channel of the ten, three sessions, one
  break, one ping. `Wire` has headers of 2+1+1+1 bytes, three messages by two threads, one
  write that is aborted, one byte garbled, buffers of 12 and 10, `MAX_SIZE` 9, and all
  three states of the handshake.
* Accounts. Three transactions (a receipt, or a coinbase first; a payment last), or one `move`
  and two; two accounts, three keys, a coinbase mature in its second block. One spent
  transaction may be in a second block, or be tried in one, and the first may have a lock time;
  payments are of 2, to others or in part to an address of ours, with a fee of 1, from every set of
  coins that may be spent: enough for copies that are stale, for change that gets a name, and for each way
  in which the balances differ.
* Computations. Headers: a spacing of 50 and timespans of 200 and 100, revised from height
  4, full periods from height 7, medians of three, a compact form of 512/8; the subsidy is
  the real one, at all heights. Coins of 1, 3, 4, 7 with CENT 2. Trees of up to 9 leaves, a
  parent's coinbase of three chunks. Scripts of up to 3 ops of about 22, up to 3 keys and
  3 signatures, branches nested twice, transactions of up to 3 inputs and outputs, with the
  limits 201, 1000 and 20 as they are. Three pieces of work, three best blocks, one change
  of the pool. Chains of four blocks and seven transactions,
  one block invalid, `COPY_DEPTH` 2. Words of 2 bits, bytes of base 4 and 8, three
  characters for 58. 17 layouts with 16 seeds in four forms. Four blocks of length 1 or 2
  in files of 7, `SyncEvery` 2 for 500, three starts. Lock times 0 to 8 around a threshold
  of 5. Each of these is small enough to enumerate and large enough that carry, wrap,
  retarget, odd level, refusal and overflow happen.

Deadlock is checked wherever the system may not stop (`fork`, `crash`, `miner`, `orphan_tx`,
`node_apart`, `node_shared`, `node_race`). The other configurations say
`CHECK_DEADLOCK FALSE`: their instances stop when their bounded inputs are used up, or when the
process has ended.

### Fairness

* `fork` (`FairSpec`): the message thread goes on with a handler it has started, weakly
  fair; a block that is offered again and again is received, strongly fair for each block,
  because `ThreadMessageHandler` serves every peer in turn and peers that have a block
  answer each `getblocks`. Without crashes: after one, a better branch stays inactive until
  a block arrives that extends it.
* `node_apart`: each thread goes on, and time passes; each weakly.
* `sync`, with the lone peer: one weak fairness condition on whatever the peers and the node have to
  attend to (`Attended`): `ThreadMessageHandler` is a loop over all nodes.
* `wallet`: handlers that have started go on, weakly; the flush thread looks twice a second
  and so finds a moment between two blocks, strongly.
* `process`: each thread of a process that is being stopped, each caller and the clock,
  weakly; none for a thread that accepts calls or dials, as nothing need come. The RPC
  thread goes on, its 30-second timeout included; callers need not.

### Findings

`node_race`: a node in the disconnected pool must "wait until threads are done using it"
(net.cpp:788). `ConnectNode` calls `AddRef` on a node it found after `FindNode` has let
`cs_vNodes` go (net.cpp:640-646). When a peer connects from the address while it is being
dialled, `nRefCount++` runs beside those made under the lock; a lost update leaves the
count below the number of threads, and a message handler that outlasts the 15 minutes is
left with a deleted node. `FinderIsSafe` is what holds all the same.

### Other behaviour a reader of the code should know

Found while modelling; the models do what the code does.

* Chain and pool. `RemoveFromMemoryPool` erases the `mapNextTx` entry of every input, whoever
  made it, so that after a reorganization two rivals can be in the pool. When a block is
  stored but does not connect, `ProcessBlock` returns before its loop over the orphans, and
  they stay. A kept orphan transaction whose parent arrives in a block stays kept
  (main.cpp:2260), which is why `OrphanCorrect` is about one chain and not about forks.
  With `-keypool=0` two holders can share an index. Block files are not synced during the
  initial download, so that `SavedIsFound` leaves a loss of power then out.
* Wallet. An aborted reorganization has told the wallet of its first blocks
  (`ConnectBlock`, main.cpp:1061), so that a confirmed transaction can show depth 0; after a
  crash between `AddToWallet` and `MarkSpent` the wallet may build a payment that
  `CommitTransaction` cannot place; `IsConfirmed` judges by old copies (wallet.h:466);
  `vtxPrev`, reversed breadth first, is not always in order of dependence.
* Download. An inventory message at the end of a batch that `AskFor` puts off can be dropped
  as already known, and the download stalls until another block (`Restarts`); a batch that
  the byte limit ends before it leaves the shared branch makes the same `getblocks`, which
  `PushGetBlocks` filters.
* Miner and getwork. A mined block can be refused when the adjusted time goes back between
  collecting and solving; `CreateNewBlock` keeps an out-of-range fee in its sum and, when it
  throws, leaves getwork's block dangling; not every block that getwork drops is obsolete
  (rpc.cpp, about 1597).
* Accounts. "getbalance and getbalance '*' should always return the same number." (rpc.cpp:944),
  but they do not. `GetBalance` counts a payment of ours that is in no block as confirmed when
  what it spends is (wallet.h:471-480); `getbalance "*"` takes off what it spends at once, and
  adds what it pays to our own addresses only from one confirmation on (rpc.cpp:957-962): a
  payment to oneself makes the second smaller until it is in a block. `OneBalance` says what
  the whole difference is: also the change of payments that do not count as confirmed, which
  only the second has, and coins that were spent and no longer count, which only the second
  takes off.
* Test network. getnewaddress "Returns a new ixcoin address for receiving payments."
  (rpc.cpp:574), but with `-testnet` both `ADDRESSVERSION` and `BITCOIN_ADDRESSVERSION` are 111
  (base58.h:159-160), and `AddressToHash160` refuses what has Bitcoin's version (base58.h:181),
  hence every address that `Hash160ToAddress` writes. `TextIsTheBytes`, part of
  `NumbersAreSound`, has what holds: on the main network addresses of either network are read,
  on the test network none is.
* Accounts, once more. What has a lock time ahead is in `listtransactions` and `listaccounts` and in no
  balance (rpc.cpp:901, 949); `sendfrom` checks the funds without the fee and `move` not at
  all; `listtransactions` with a start beyond the end is undefined and can leave an account out (rpc.cpp:1366); each "send" entry
  carries the whole fee.
* RPC. After a timeout the reading thread uses the stack of the caller (rpc.cpp:2474);
  `getblock` takes the first block of a height in the order of hashes.
* Process. Open-connections and IRC threads are not waited for; a miner that works for more
  than 20 seconds, or after a count was spoilt, works on closed databases;
  `vnThreadsRunning[1]` goes to -1; a second process removes the first one's pid file
  (init.cpp:50); `-loadblockindextest` opens the database before the lock (init.cpp:296);
  after a failed `LoadBlockIndex`, `AppInit2` uses a null `pindexBest`.
* Gossip. An alert that reaches a node before the version message is dropped there and noted
  as known here; cancelling is not transitive, and a canceller that expires first lets the
  cancelled one live again elsewhere (`AlertsAssumption` leaves that out); `getaddr` clears a
  pending broadcast of the own address; of two queued times of one address only the first is
  sent. A node refused on IRC under a new name does not notice, and `fNameInUse` is never
  reset.
* Wire. The checksum does not cover the command; a wrong size (up to 32 MB) makes the
  receiver wait for as long; skipping to the next header can cost a message; a message larger
  than the receive buffer is never processed; `vSend.SetVersion` is not under `cs_vSend`
  (net.h:721).
* Script and texts. `CHECKMULTISIG` takes one value more than its comment says
  (script.cpp:774); `SIGHASH_SINGLE` without an output signs 1. `ParseHex`'s table misses a
  comma (util.cpp:412), `ParseMoney` wraps at 14 whole digits, on the main network
  `AddressToHash160` accepts versions 1 to 138, `CDiskBlockIndex` does not count the proof of
  merged mining in its size (main.h:1213).

## 4. Proofs

TLAPS 1.4.5 with SMT (Z3), Zenon and LS4. TLC has checked each inductive invariant on an
instance before it was proved; `ChainInv` and `KeyPoolInv` are properties of runs.

### Chain state

`ChainProofs` holds for every tree of blocks, every set of transactions, any number of
crashes and any log buffer; it uses the assumptions of `Ledger`
(`TreeAssumption`, `TxAssumption`, `CoinbaseAssumption`, `SubsidyAssumption`) and
`BoundAssumption`, all of which TLC evaluates in the runs. `Chain` is defined without
recursion, as the least set that holds a block and is closed under `Prev`, and what a branch
means (its transactions, whether it is valid, its unspent outputs) by quantifiers over it, so
that facts about them need no induction over data.

`ChainInv` is inductive, and each part of it is needed for another:

* `PositionInv`: types, and where the loops of `Reorganize` stand. `TypeOK` alone is not
  inductive: that `NextToConnect` is a block and that `Vtx[pindex][nTx]` exists depends on
  the loops being on the two branches, and that on the candidate having more work than the
  best block, hence not being an ancestor of it.
* `IndexInv`: which blocks the index, the log and the orphans have, that each has its parent,
  and that memory and disk agree on links.
* `LedgerInv`: at each step of `SetBestChain` the database is the index of the part of a
  valid branch it has come to: whole blocks, and the transactions of the one at hand. That
  `ConnectInputs` and `DisconnectInputs` do what the meaning of the branch says is the core
  of it (`ConnectKeepsIndex`, `DisconnectKeepsIndex`, `ChecksAreRight`).
* `OthersAreWorse`: every block of a valid branch that the index has has no more work than
  the best one, or is on its way, or lost to a crash.
* `PoolInv`: what of the pool may be confirmed while a branch is being changed.

From it: `PositionCorrect`, `TypeCorrect`, `BestOnlyImproves` (`BestWorkGrows`),
`NextTxCorrect` (`NextTxSound`), `ChainCorrect` (`ChainInv`), `RecoverableCorrect`,
`MemoryCorrect`, `DisconnectCorrect`, `BestCorrect` and `PoolCorrect`. `SupplyCorrect`
(`SupplyIsBounded`) adds sums: a sum over a finite set is pinned down by adding one element
(`SumStep`, `SumUnion`), a block changes what the unspent outputs are worth by at most its
subsidy (`WorthStep`, `WorthUpTo`), and so a branch's are worth at most its subsidies.
`ChainRefines`: with `MaxCrashes = 0`, `ChainState` implements `BestChain` under the mapping of
`ChainSafety`: everything from `SetBestChain` to the commit is one atomic step. (With crashes
it does not: a lost commit takes the branch back.)

### What runs beside the chain

* `MinerProofs`. Every step of the miner is a step of `ChainState` or leaves it alone, so that
  `ChainInv` holds beside it. `ReadsAreInOrder`: each unlocked read of the best block is at
  most as good as the next; hence `StaleBlockIsNoticed`: if the loop's block is the best one,
  so are all blocks read after it. `MinedBlocksConnect`: what has been collected connects on
  the branch it was collected on (`CollectedOn`), and its fees are what the unspent outputs
  have lost (`FeeOf`); while `hashPrevBlock` is the best block that stays so. It assumes that
  no branch issues more than `MaxMoney`; of the real subsidy that is `MoneyIsLimited`, which
  TLC checks at every height.
* `OrphanProofs`. The `tx` message is made of steps of `ChainState`, so that `ChainInv` holds
  beside it, on which the rest builds. `SettledCorrect` (`OrphansSettled`): `SettledInv` says
  that what is kept and could be accepted because of this message is still to be tried, and that the loop over the queue
  passes all of it. `OrphanCorrect` (`OrphanInv`) holds where blocks form one branch
  (`OneBranch`): a kept transaction awaits a parent as long as no parent leaves or enters the
  chain unseen, which a reorganization does. It needs that what is not ready is not tried
  (`UnreadyUntilTried`) and that what is erased from the pool was connected
  (`DeletedAreConnected`).

### Wallet

`WalletProofs` holds for any number of coins, payments and crashes, and any copies of the
wallet that spend first coins (`WalletAssumption`).

* `BooksCorrect` (`BooksAreRight`). `BooksInv` adds that memory and the file are written
  together (`InStep`), so that a restart finds nothing missing and reads back what was known
  (`Restarted`), and what the handler at hand works on (`DraftIsKnown`): a transaction is
  recorded before its coins are marked, and its coins are marked before a block that has it
  is committed.
* `KeysCorrect` (`ChangeKeyIsTaken`). `KeysInv`: keys to be taken have a record; the key of a
  drafted payment has one too but is out of memory; `KeepKey` erases the record before
  `AddToWallet` writes the transaction. So a crash loses a key at worst, and never gives one
  to two payments.
* `CommitCorrect` (`CommitDoesNotFail`). `NothingCompetes`, while the node stays up: between
  handlers everything recorded is marked (`RecordedAreMarked`), so that a coin not marked is
  spent by nothing known; and what gives change is in the pool or on the chain
  (`ChangeIsThere`), so that the pool knows every coin chosen. The latter is the part that is
  not obvious. A payment that a block confirmed has to get back into the pool when the block
  leaves the chain, or the next one, made of its change, fails; and there it competes with
  whatever the pool holds by then, rivals of it included, as the wallet of a copy may have
  sent them. That the pool holds no rivals cannot be shown, since it does. What is true is
  said of the entries of `mapNextTx` (`EntriesAreFree`): the transaction each names is in the
  pool, and none is for a coin that the chain has spent, because who spends it on the chain
  erased the entry, whoever's it was. So a transaction that leaves the chain finds its inputs
  without an entry and is always taken back.
* `FlushesCorrect` (`FlushesWhole`): from these, as a payment has the file open from `Commit`
  to `Marked`.

### Nodes and keys

* `NodeProofs`. `NodesAreCounted` and `CountsAreExact` where each address is dialled by one
  party (`Apart`), which `node_race` shows is needed: `NodeInv` counts, for each node, the
  copies of `vNodes` it is in, who made it and who has just found it. `FinderCorrect`
  (`FinderIsSafe`) holds without it, from `FinderInv`, which is about time alone.
* `ProcessProofs`, key pool. With `TargetSize > 0`, `KeyPoolInv` is inductive, and with it no
  key is reused or shared. The part that makes it so is `TopOfPool`: the last index of the pool is
  past every record, reserved ones included, because taking the oldest of more than one key
  leaves the last one there. It fails for `-keypool=0`.

### Processes

`ProcessProofs` proves of `ProcessSpec`, which is each of the four parts on its own, what its
run checks; the assumptions are `StartupAssumption`, `RpcAssumption` and
`ShutdownAssumption`, which TLC evaluates.

* `ProcessCorrect` (`ProcessIsSound`), for any number of processes, options, starts, clients
  and calls, timeouts and lost connections.
  `StartupInv`: the stage of `AppInit2` says what a process was asked for, holds (`HoldsAt`)
  and has loaded (`LoadsAt`). The lock file is what one process cannot take from another: from
  `bind` on, `lockFile` is this process; `-loadblockindextest`, which opens the database
  before the lock, is the exception `HoldsAt` has to make, and why `StartsInOrder` is about
  processes with threads. `RpcInv`: who is in the queue is in it once and has been told
  nothing (`QueueSound`), and `request` says what has become of the call at hand
  (`ServingSound`); the late reader, which may spoil the next request, only exists after
  a timeout.
* `ShutdownCorrect` (`ShutdownIsClean`), for any miners, sets of threads and patience of
  `StopNode`. `ShutdownInv` rests on two facts. The counts of one thread are exact and the
  one of the miners is not too small unless `miscounted` (`CountsRight`, with the cardinality
  of the miners at work). And `fShutdown` is set before any thread is waited for (`AllTold`),
  so that a thread seen out of its count has to look at it before it works again: a step of
  any thread but the one that stops the others is `Ordinary`, which never goes to work once
  all are told. Hence `MessageDone`, `RpcDone` and `MinersDone`, each from the place of
  `StopNode` that has waited for it, and `ClosedForGood`.

### Among nodes

`NetworkProofs` proves of `NetworkSpec`, which is each of its parts on its own,
`NetworkCorrect` (`NetworkIsSound`); the assumptions are `AlertsAssumption`,
`AddressesAssumption`, `IrcAssumption` and `WireAssumption`, which TLC evaluates.

* Alerts, for any hosts, connections, alerts, losses of a connection and time. `AlertsInv`
  follows one alert across one connection: what a host takes its peer to know
  (`setKnown`), and was not told too early, is there, or has been cancelled there, or is on
  its way behind the version message without which it would be thrown away (`WaySound`);
  that needs the handshake (`CallSound`), since the order of version and alerts on the
  wire decides. `AlertsAssumption` says what cancelling has to be for that: an alert
  is cancelled by later ones that last as long, and whatever cancels the canceller
  cancels it too.
* Addresses, for any sites (four at most, as an address is relayed to that many), routes and
  hours. `AddressesInv`: every time that is remembered, queued or on its way is at most the
  last hour its node was up, because a site *vouches* only for what it has heard of
  (`WayHonest`); and a caller's own address is queued, on its way or known at the other end
  (`Presented`). The addresses of a message are stored one after the other, which is a
  function defined by recursion (`Stored`); what it keeps is proved by induction (`Induction`,
  a lemma about sets of numbers that follows from `LeastNatural`).
* IRC, for any seeders, sessions and lost connections, and a server that answers in order.
  `IrcInv`: what a seeder has said is in the order of its names (`SessionSound`), so that
  nobody changes its name once it is in a channel; and of two in one channel each has the
  other's address, will read it, or has still to ask (`Found`).
* One connection (`ArrivesInOrder`; in `NodeProofs`, where `WireCorrect` says it of `Wire` alone),
  for any messages of two threads at each end, any buffers and any `MAX_SIZE`. Four steps lead
  there.
  1. What `CDataStream` does, with its bytes and its place of reading, is said of the bytes alone
     (`Has`; `EraseHas`, `InsertHas`, `OverwriteHas` and so on).
  2. `WireInv` says where the bytes are. `HoldIs`: who is in `cs_vSend` has begun its message
     behind what is complete (`Begun`), so `EndMessage` writes size and checksum where nothing was
     sent from yet, and `AbortMessage` takes away nothing else. `FlowIs`: the messages sent and not
     taken, cut into frames, are what is in `vRecv`, under way and complete in the other's
     `vSend`, one behind the other, wherever the pieces end (`Flow`).
  3. `TurnIs`: where a frame starts, a turn of `ProcessMessages` takes it whole, or puts its
     header back and waits. The size that is read is not more than `MAX_SIZE`, nothing is skipped
     to find the start, and the hash agrees.
  4. The form. A new connection has the checksum from the first message. Of old, message i has it
     exactly if i > 2 (`Checked`), and `VersionIs` shows that both ends say so: what a handler has
     left to push, how many messages it has sent and its `sendVersion` go together (`Stage`), and
     `recvVersion` changes with the second message taken. It changes where it must, because the
     verack goes out in the form of before.

  The invariant is `garbled = 0 => WireInv`: one changed byte may turn any frame into none.

### Download

`BlockSyncProofs` proves `OneAtATime` (`AskedOnce`), for any blocks, peers and branches of
theirs, any limits, and any number of peers that go away, come back or fall silent; the
assumptions are those of `Locator` and `SyncAssumption`, which TLC evaluates. That an answer
comes within two minutes is the hypothesis `Prompt` of `OneRequest` itself: without it the code
does ask twice.

`SyncInv` has three parts beside what the messages and tables are (`ChannelsOK`).
`AsksOK`: two requests in `mapAskFor` for one block, of whatever peers, are for different times,
and as long as we do not have the block none is later than `mapAlreadyAskedFor` says; this
is what `AskFor` puts off every new request for. `TokensOK`: of the requests for a block and
the answers to them at most one is under way, and none once we have it. `Waits`: while one is
under way, no other is due. So the request that `SendMessages` makes is the only one, and the
two minutes that make another due (`TickStep`) pass only when nothing is under way. Where
`ReceiveBlock` clears `mapAlreadyAskedFor`, requests that are left in `mapAskFor` do no harm
because we have the block. The entries of an `inv` and of a `getdata` are handled one after
the other, by functions defined by recursion (`HearOfAll`, `ServeAll`), about which
`HeardAll` and `ServedAll` are proved by induction as above; `ThoseAre` says which places of
a sequence are kept, and in which order.

### Only model-checked

* Liveness (`Converges`, `Reclaimed`, `DownloadsGoOn`, `SelfContained`, `EverythingEnds`): out of
  the prover's reach.
* `Restarts`, part of `DownloadsGoOn`, and `Recovers`: what one more block brings about, and what
  of the later messages is found again behind a changed byte.
* The properties of `MCAlgorithms`: recursive operators, over which tlapm does not reason.

## 5. Not modelled

* Chain: relaying, errors of storage calls (they leave the node to be stopped by its user);
  the fee floor and rate limiter of the pool (part of which transactions arrive); two inputs
  of a transaction that name the same output (`Ins` is a set); two coinbases with the same
  hash (`CoinbaseAssumption`); `LoadBlockIndex`'s second check of the last 2500 blocks, which
  finds nothing unless the file was damaged or the clock was set back; the handler's calls of
  the wallet, which `Wallet` has from the wallet's side.
* Network: `getheaders`, the trickle of transaction inventory, the relay memory, UPnP; peers
  older than 31402 and malformed times; the erasure of addresses among more than a thousand.
  `Restarts` is about a download that stalled, not about one that a peer misleads.
* Wallet: the rescan at start-up from the wallet's own best block, the default key and its
  replacement, the address book of the user interface. The key store is a map behind a lock.
* The test network (`-testnet`), but for its addresses in `Numbers`. Every module is of the main
  network: on the other the chain ids of a block and of its parent are not checked
  (main.cpp:1293, auxpow.cpp:26), nor the checkpoints, nor whether a transaction is standard;
  other heights and times decide about retargets and about merged mining (main.cpp:761, 1274).
* Accounts: times, names of other people, caches of amounts. RPC: methods that only report,
  TLS, the conversion of parameters.
* Scripts: signatures and hashes themselves, the size limit of a script.
* User interface (`ui.cpp`, `uibase.cpp`), vendored Crypto++ and JSON: display code and third
  parties' code. They are why the map covers about a third of the lines under `src/`.

`PROJECT.json` lists every component with what is left out of it.

## 6. Plan

Done: the models of all components above; theorems about the chain, the miner, orphan
transactions, the wallet, nodes, the key pool, start-up, the RPC server, shutdown, the
download, alerts, addresses, IRC and the bytes of a connection. What is only model-checked
stays so for the reasons given there.
