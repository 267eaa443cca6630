----------------------------- MODULE MCAlgorithms -----------------------------
(***************************************************************************)
(* The algorithms that depend on nothing but their arguments, each over    *)
(* its own bounded inputs: x is an input of the subject.  Chains grow from *)
(* their first block, the other inputs are all there at the start.         *)
(***************************************************************************)
EXTENDS Locator, Headers, CoinSelection, Merkle, Script, GetWork, Confirmations,
        Numbers, Serialize, BlockFiles

CONSTANTS
  Long,         \* the length of each branch a locator is taken from
  Delays,       \* what a header's time may be after the one before
  MaxHeaders,   \* how many headers there are
  Values, Ages, \* of the coins in a wallet
  MaxCoins, MaxPay,
  MaxLeaves,    \* of a tree
  MaxPieces, MaxBest, MaxUpdates, \* pieces of work, and blocks, given out; best blocks; changes of the pool
  MaxChainBlocks, MaxChainTxs, \* of a chain that goes back and forth
  AccountNames, MaxTxs, MaxAccountKeys, COINBASE_DEPTH, \* of a wallet with accounts
  MaxSamples,   \* of the time
  MaxStarts,    \* of a process that writes blocks
  LockTimes,    \* of transactions, of blocks and of our clock
  MaxSeed       \* of the values that are written

\* <<1, h>> and <<2, h>> are the h-th blocks after the fork, which is at Long - 1 of the
\* shared blocks; the caller and the node it asks stop anywhere on the way.
LocatorGenesis == <<0, 0>>
LocatorBlocks == {<<0, h>> : h \in 0..Long} \cup ({1, 2} \X (1..Long))
LocatorPrev ==
  [b \in LocatorBlocks |-> IF b[2] > 1 THEN <<b[1], b[2] - 1>>
                           ELSE IF b[1] = 0 THEN <<0, 0>> ELSE <<0, Long - 1>>]

\* Confirmed long ago, confirmed once, and not at all; and our own change.
MCAges == {[depth |-> 6, mine |-> FALSE], [depth |-> 1, mine |-> FALSE],
           [depth |-> 0, mine |-> FALSE], [depth |-> 0, mine |-> TRUE]}
MCDelays == {-30, 20, 260}
Coin(v, a) == [value |-> v, depth |-> a.depth, mine |-> a.mine]
Wallets == UNION {[1..n -> {Coin(v, a) : v \in Values, a \in Ages}] : n \in 0..MaxCoins}

Leaf(i) == <<i>>
Leaves(n) == [i \in 1..n |-> Leaf(i)]
Pair == <<Leaf(1), Leaf(2)>>

\* A parent's coinbase is three chunks: a header, bytes, or a root with a size and a nonce.
Chunks ==
  {<<>>, <<Header>>, [i \in 1..6 |-> Byte]}
    \cup {<<Root(r), Number(s), Number(n)>> : r \in {Leaf(1), Leaf(2), Pair}, s \in {1, 2}, n \in {0, 1}}
Scripts == {a \o b \o c : a \in Chunks, b \in Chunks, c \in Chunks}
Proofs == {Leaf(1), Leaf(2)} \X {<<>>, <<Leaf(1)>>, <<Leaf(2)>>} \X {0, 1}

\* The transaction that is signed, and others.
Input(prevout, nSequence) == [prevout |-> prevout, nSequence |-> nSequence]
Vins == {<<Input("a", 1)>>, <<Input("b", 1)>>, <<Input("a", 1), Input("b", 1)>>, <<Input("a", 0), Input("b", 1)>>,
         <<Input("a", 1), Input("b", 0)>>, <<Input("c", 1), Input("b", 1)>>,
         <<Input("a", 1), Input("b", 1), Input("c", 1)>>}
Vouts == {<<"x">>, <<"y">>, <<"x", "y">>, <<"y", "x">>, <<"z", "y">>, <<"x", "y", "z">>}
ScriptTxs == [vin : Vins, vout : Vouts]
HashTypes == {"ALL", "NONE", "SINGLE"} \X BOOLEAN
All == <<"ALL", FALSE>>
Here == [tx |-> [vin |-> <<Input("a", 1), Input("b", 1)>>, vout |-> <<"x", "y">>], nIn |-> 1]
Elsewhere == [Here EXCEPT !.nIn = 2]

ToKey(k) == PayToPubKey(Key(k))
ToAddress(k) == PayToPubKeyHash(Hash160(Key(k)))
Outs == {ToKey("k1"), ToAddress("k1")}
Signed == {Push(Sig(k, out, c, All)) : k \in {"k1", "k2"}, out \in Outs, c \in {Here, Elsewhere}}
Spending ==
  Signed \cup {Push(Key("k1")), Push(Key("k2")), Push(Num(0)), Push(Num(1)), Push(Hash160(Key("k1")))}
    \cup {<<"partial", 1>>, <<"partial", 2>>, <<"partial", 5>>}
    \cup {<<op>> : op \in {"OP_IF", "OP_ELSE", "OP_ENDIF", "OP_RETURN", "OP_TOALTSTACK", "OP_CODESEPARATOR",
                           "OP_CHECKSIG", "OP_DUP"}}

\* m of these keys: a script, and the signatures that are offered, the last one on top.
MultiSig(m, keys) ==
  <<Push(Num(m))>> \o [i \in DOMAIN keys |-> Push(Key(keys[i]))]
    \o <<Push(Num(Len(keys))), Op("OP_CHECKMULTISIG")>>
KeyLists == UNION {[1..n -> {"k1", "k2"}] : n \in 1..3}
Offers == UNION {[1..n -> {"k1", "k2", "nobody"}] : n \in 0..3}
Stacked(script, offer, below) ==
  below \o [i \in DOMAIN offer |->
                        Push(IF offer[i] = "nobody" THEN Sig("k1", script, Elsewhere, All)
                             ELSE Sig(offer[i], script, Here, All))]

\* A program of nested branches, what it leaves on the stack, and whether it fails.
Plain == {[ops |-> <<>>, left |-> <<>>, fails |-> FALSE],
          [ops |-> <<Push(Num(2))>>, left |-> <<Num(2)>>, fails |-> FALSE],
          [ops |-> <<Op("OP_RETURN")>>, left |-> <<>>, fails |-> TRUE]}
Branch2(cond, op, p, q) ==
  LET taken == IF cond = (op = "OP_IF") THEN p ELSE q IN
  [ops |-> <<Push(Bool(cond)), Op(op)>> \o p.ops \o <<Op("OP_ELSE")>> \o q.ops \o <<Op("OP_ENDIF")>>,
   left |-> taken.left, fails |-> taken.fails]
Nested(programs) ==
  programs \cup {Branch2(cond, op, p, q) :
                   cond \in BOOLEAN, op \in {"OP_IF", "OP_NOTIF"}, p \in programs, q \in programs}

\* Every number of three words; numbers and bytes, characters and amounts of some length.
Words == [1..WIDTH -> 0..3]
ByteSeqs == UNION {[1..n -> 0..3] : n \in 0..4}
Spellings == UNION {[1..n -> 0..4] : n \in 0..5}
Amounts == (-1200..1200) \cup {n * d : n \in {-COIN, COIN}, d \in 1..MaxInt \div COIN} \cup {MaxInt}
MoneyTexts == UNION {[1..n -> {0, 7, Dot, Hyphen, Blank}] : n \in 0..6}
Offsets == {-MaxOffset - 10, -NearOffset + 1, 1, NearOffset - 1, MaxOffset + 10}

\* Data as short and as long as every way to push it, with bytes that look like operations; a
\* push that is longer than it needs to be; and any bytes.
Pushes == {PushBytes([i \in 1..n |-> IF i = 1 THEN 1 ELSE CHECKSIG]) : n \in {0, 1, 2, 3, 8}}
Pieces == Pushes \cup {<<op>> : op \in {ONE, CHECKSIG, DUP}} \cup {<<PUSHDATA1, 1, 1>>}
ByteScripts == {a \o b \o c : a \in Pieces, b \in Pieces, c \in Pieces}
AnyBytes == UNION {[1..n -> {0, 1, 2, PUSHDATA1, PUSHDATA2, CHECKSIG}] : n \in 0..5}

\* Values of every layout, of all lengths and with both branches, from a seed.
RECURSIVE Sample(_, _)
Sample(T, seed) ==
  CASE T.kind = "word" -> (seed * 5 + 3) % 8^T.size
    [] T.kind = "none" -> <<>>
    [] T.kind = "text" -> [i \in 1..(seed % 7) |-> (seed + i) % 8]
    [] T.kind = "seq" -> [i \in 1..(seed % 3) |-> Sample(T.of, seed + i)]
    [] T.kind = "set" -> {Sample(T.of, seed + i) : i \in 1..(seed % 3)}
    [] T.kind = "map" -> {<<<<i>>, Sample(T.of.fields[2], seed + i)>> : i \in 1..(seed % 3)}
    [] T.kind = "record" -> [i \in DOMAIN T.fields |-> Sample(Inner(T.fields[i]), seed \div 2 + 3 * i)]
    [] OTHER -> Sample(T.of, seed)
Layouts ==
  [outpoint |-> OutPoint, txin |-> TxIn, txout |-> TxOut, tx |-> Transaction, merkletx |-> MerkleTx,
   txindex |-> TxIndexRecord, block |-> Block, blockindex |-> DiskBlockIndex, locator |-> BlockLocator,
   unsigned |-> UnsignedAlert, alert |-> Alert, address |-> Address, inv |-> Inv, keypool |-> KeyPoolRecord,
   walletkey |-> WalletKey, account |-> Account, accounting |-> AccountingEntry]
Types == {{"DISK"}, {"NETWORK"}, {"GETHASH"}, {"NETWORK", "BLOCKHEADERONLY"}}
WalletTxs ==
  [tx : {Sample(MerkleTx, 5)}, vtxPrev : {<<>>, <<Sample(MerkleTx, 2)>>},
   mapValue : {{}, {<<<<4>>, <<1, 2>>>>}}, vOrderForm : {<<<< <<1>>, <<>> >>>>},
   fTimeReceivedIsTxTime : {0}, nTimeReceived : {5}, fFromMe : {1},
   strFromAccount : {<<>>, <<6>>}, vfSpent : {<<>>, <<FALSE>>, <<TRUE, FALSE>>}]

\* Lock times that are heights or times, of transactions with final inputs and others.
Heights == {n \in LockTimes : n \in 1..LOCKTIME_THRESHOLD - 1}
Times == {n \in LockTimes : n >= LOCKTIME_THRESHOLD}
LockedTxs ==
  [nLockTime : LockTimes, vin : {<<SequenceFinal>>, <<0>>, <<SequenceFinal, 0>>, <<SequenceFinal, SequenceFinal>>}]
MCLengths == <<1, 2, 1, 2>>

Methods == {"getwork", "getworkaux", "getauxblock"}
Calls(w) ==
  [aux : IF w.method = "getworkaux" THEN {"a", "b"} ELSE {"none"}, content : {"", "t"},
   late : BOOLEAN, minute : BOOLEAN, reset : BOOLEAN]

VARIABLES subject, x

\* It has a wallet of its own, with other transactions than Confirmations.
A == INSTANCE Accounts

Init ==
  \/ subject = "locator" /\ x = [best |-> GenesisBlock, tip |-> GenesisBlock]
  \/ subject = "headers" /\ x = <<[time |-> 0, target |-> TargetLimit]>>
  \/ subject = "subsidy" /\ x = [nHeight |-> 0, supply |-> 0]
  \/ subject = "coins" /\ x \in [wallet : Wallets, nValue : 1..MaxPay]
  \/ subject = "tree" /\ x \in UNION {{[n |-> n, i |-> i] : i \in 0..n - 1} : n \in 1..MaxLeaves}
  \/ subject = "coinbase" /\ x \in Scripts
  \/ subject = "spend" /\ x \in [out : Outs, sig : UNION {[1..n -> Spending] : n \in 0..3}]
  \/ subject = "multisig" /\ x \in [m : 0..3, keys : KeyLists, offer : Offers, below : {<<>>, <<Push(Num(0))>>}]
  \/ subject = "branches" /\ x \in Nested(Nested(Plain))
  \/ subject = "digest" /\ x \in [one : ScriptTxs, other : ScriptTxs, nIn : 1..2, type : HashTypes]
  \/ subject = "sign" /\ x \in [keystore : SUBSET {"k1", "k2"}, tx : ScriptTxs, nIn : 1..2, type : HashTypes,
                                  out : Outs \cup {ToKey("k2"), ToAddress("k2"), MultiSig(1, <<"k1">>),
                                                  PayToPubKey(Num(1)), PayToPubKeyHash(Key("k1"))}]
  \/ subject = "work" /\ x \in {Fresh(method) : method \in Methods}
  \/ subject = "chain" /\ x = StartOfChain
  \/ subject = "accounts" /\ x = A!Empty(AccountNames)
  \/ subject = "uint" /\ x \in [a : Words, b : Words]
  \/ subject = "bignum" /\ x \in -70..70
  \/ subject = "bytes" /\ x \in ByteSeqs
  \/ subject = "spelling" /\ x \in Spellings
  \/ subject = "amount" /\ x \in Amounts
  \/ subject = "money" /\ x \in MoneyTexts
  \/ subject = "time" /\ x = NoTimeData
  \/ subject = "files" /\ x = NoFiles
  \/ subject = "lock" /\ x \in [tx : LockedTxs, best : Heights, median : Times, collected : Times, made : Times]
  \/ subject = "size" /\ x \in 0..MaxSize + 10
  \/ subject = "script" /\ x \in [s : ByteScripts, b : Pushes]
  \/ subject = "raw" /\ x \in [s : AnyBytes, b : {<<1, 1>>, <<0>>}]
  \/ subject = "layout" /\ x \in [name : DOMAIN Layouts, type : Types, seed : 0..MaxSeed, version : {DatedFrom}]
  \/ subject = "layout" /\ x \in [name : {"address"}, type : Types, seed : 0..MaxSeed, version : {DatedFrom - 1}]
  \/ subject = "wallettx" /\ x \in WalletTxs
  \/ subject = "aux" /\ x \in [nSize : {1, 2, 4, 8}, nNonce : 0..7]

GrowCaller ==
  /\ subject = "locator"
  /\ \E b \in Blocks : b # x.best /\ b[1] # 2 /\ Prev[b] = x.best /\ x' = [x EXCEPT !.best = b]
  /\ UNCHANGED subject
GrowAsked ==
  /\ subject = "locator"
  /\ \E b \in Blocks : b # x.tip /\ b[1] # 1 /\ Prev[b] = x.tip /\ x' = [x EXCEPT !.tip = b]
  /\ UNCHANGED subject
NextHeader ==
  /\ subject = "headers" /\ Len(x) < MaxHeaders
  /\ \E d \in Delays : TimeIsLate(x, Last(x).time + d) /\ x' = Extended(x, Last(x).time + d)
  /\ UNCHANGED subject
NextSubsidy ==
  /\ subject = "subsidy" /\ GetBlockValue(x.nHeight) > 0
  /\ x' = [nHeight |-> x.nHeight + 1, supply |-> x.supply + GetBlockValue(x.nHeight)]
  /\ UNCHANGED subject

NextCall ==
  /\ subject = "work" /\ Cardinality(x.handed) < MaxPieces /\ Len(x.blocks) < MaxPieces
  /\ x.best < MaxBest
  /\ \E call \in Calls(x) : x' = GetWork(x, call)
  /\ UNCHANGED subject
NextSolution ==
  /\ subject = "work" /\ x.best < MaxBest
  /\ \E h \in x.handed, accepted \in BOOLEAN : x' = Submit(x, h.block, accepted)
  /\ UNCHANGED subject
NextBlock ==
  /\ subject = "work" /\ x.best < MaxBest
  /\ x' = [x EXCEPT !.best = @ + 1]
  /\ UNCHANGED subject
NextTx ==
  /\ subject = "work" /\ x.nTransactionsUpdated < MaxUpdates
  /\ x' = [x EXCEPT !.nTransactionsUpdated = @ + 1]
  /\ UNCHANGED subject

\* Two transactions of others at first, then payments of ours and blocks, anywhere in the tree,
\* with transactions in any order that a chain allows.  One block may not be connected, and the
\* coinbase of the first may be ours.
Parents(c, t) == c.txs[t].vin
InOrder(c, b, s) ==
  LET before == UNION {ContainedIn(c, a) : a \in ChainOf(c, b)} IN
  \A i \in DOMAIN s :
    /\ s[i] \notin before /\ Parents(c, s[i]) \subseteq before \cup ToSet(SubSeq(s, 1, i - 1))
    /\ \A p \in Parents(c, s[i]) : c.txs[p].coinbase => IsSpendableAfter(c, p, b)
NextForeign ==
  /\ subject = "chain" /\ Len(x.txs) < 3 /\ Len(x.blocks) = 1
  /\ \E t \in {u \in DOMAIN x.txs : ~x.txs[u].mine}, mine \in BOOLEAN : x' = ReceiveTx(x, {t}, mine)
  /\ UNCHANGED subject
NextSpend ==
  /\ subject = "chain" /\ Len(x.txs) < MaxChainTxs
  /\ \E coins \in SUBSET {t \in DOMAIN x.txs : MaySpend(x, t)} : coins # {} /\ x' = CommitTransaction(x, coins)
  /\ UNCHANGED subject
NextInChain ==
  /\ subject = "chain" /\ Len(x.txs) < MaxChainTxs /\ Len(x.blocks) < MaxChainBlocks
  /\ \E b \in DOMAIN x.blocks, s \in UNION {[1..n -> {t \in DOMAIN x.txs : ~x.txs[t].coinbase}] : n \in 0..2},
        mine \in {FALSE, Len(x.blocks) = 1}, valid \in BOOLEAN :
       /\ IsInjective(s) /\ InOrder(x, b, s) /\ (valid \/ \A a \in DOMAIN x.blocks : x.blocks[a].valid)
       /\ LET d == AddTx(x, [vin |-> {}, mine |-> mine, ours |-> FALSE, coinbase |-> TRUE])
          IN x' = AddBlock(d, [prev |-> b, vtx |-> <<Len(d.txs)>> \o s, valid |-> valid])
  /\ UNCHANGED subject

\* The accounts of a wallet, call by call, while blocks come and go.  A key is given to who asks
\* for an address, a few more as accounts use or lose theirs, or for change; the last transaction
\* is a payment, and a move is instead of one.
Turns == Len(x.txs) + Len(x.entries) \div 2
Early == subject = "accounts" /\ Turns < MaxTxs - 1
HasKeys == x.nKeys < MaxAccountKeys
Given == DOMAIN x.mapAddressBook

\* One transaction that was spent may be in a block that is not the one it was in at first, or
\* be seen in one that was tried in vain.
MayBeIn(i, b) ==
  b = 2 => /\ x.txs[i].hashBlock # 0 /\ \E coin \in A!Spent(x) : coin[1] = i
           /\ \A j \in DOMAIN x.txs \ {i} : x.txs[j].at # 2 /\ x.txs[j].hashBlock # 2

NextAddress ==
  /\ Early /\ HasKeys
  /\ \E a \in AccountNames :
       \/ Given = {} /\ x' = A!GetNewAddress(x, a)
       \/ x.nKeys + 2 < MaxAccountKeys /\ x' = A!GetAccountAddress(x, a, FALSE)
  /\ UNCHANGED subject
\* Change gets a name whenever somebody likes it.
NextName ==
  /\ subject = "accounts"
  /\ \E a \in AccountNames, address \in 1..x.nKeys :
       /\ (Early /\ HasKeys) \/ ~A!Booked(x, address)
       /\ x' = A!SetAccount(x, address, a)
  /\ UNCHANGED subject
NextMove ==
  /\ subject = "accounts" /\ x.entries = <<>> /\ x.txs = <<>>
  /\ \E a \in AccountNames \ {""} : x' = A!Move(x, "", a, 1)
  /\ UNCHANGED subject
\* The first transaction may have a lock time.
NextReceipt ==
  /\ Early
  /\ \/ \E address \in 1..x.nKeys, final \in {TRUE, x.txs # <<>>} : x' = A!Receive(x, address, 4, final)
     \/ x.txs = <<>> /\ HasKeys /\ x' = A!Generate(x, 3)
  /\ UNCHANGED subject
NextPayment ==
  /\ subject = "accounts" /\ Turns < MaxTxs /\ HasKeys
  /\ \E a \in AccountNames, coins \in SUBSET A!Spendable(x) \ {{}} :
       \/ x' = A!SendFrom(x, a, 0, 2, coins, 1)
       \/ 1 \in Given /\ x' = A!SendMany(x, a, <<A!Out(0, 1), A!Out(1, 1)>>, coins, 1)
  /\ UNCHANGED subject
\* A transaction is in a block after those it spends, and leaves it before them; a coinbase has
\* a block of its own, which may come back.
NextConnection ==
  /\ subject = "accounts"
  /\ \E i \in DOMAIN x.txs, b \in {1, 2} :
       /\ x.txs[i].at = 0 /\ (x.txs[i].coinbase => b = 1) /\ MayBeIn(i, b)
       /\ \A coin \in x.txs[i].vin : x.txs[coin[1]].at # 0
       /\ x' = A!Connect(x, i, b)
  /\ UNCHANGED subject
NextTry ==
  /\ subject = "accounts"
  /\ \E i \in DOMAIN x.txs :
       /\ ~x.txs[i].coinbase /\ x.txs[i].at = 1 /\ MayBeIn(i, 2)
       /\ x' = A!Try(x, i, 2)
  /\ UNCHANGED subject
NextDepth ==
  /\ subject = "accounts"
  /\ \E i \in DOMAIN x.txs :
       /\ x.txs[i].coinbase /\ x.txs[i].depth \in 1..COINBASE_DEPTH - 1
       /\ x' = A!Deepen(x, i)
  /\ UNCHANGED subject
NextDisconnection ==
  /\ subject = "accounts"
  /\ \E i \in DOMAIN x.txs :
       /\ x.txs[i].at # 0
       /\ \A j \in DOMAIN x.txs : x.txs[j].at # 0 => ~\E coin \in x.txs[j].vin : coin[1] = i
       /\ x' = A!Disconnect(x, i)
  /\ UNCHANGED subject
NextLockTime ==
  /\ subject = "accounts" /\ x.txs # <<>> /\ x.txs[1].vin = {} /\ ~x.txs[1].coinbase
  /\ x' = A!PassLockTime(x, 1)
  /\ UNCHANGED subject

NextSample ==
  /\ subject = "time"
  /\ \E ip \in 1..Min({MaxSamples, Cardinality(x.setKnown) + 1}), offset \in Offsets : x' = AddTimeData(x, ip, offset)
  /\ UNCHANGED subject

\* Blocks are written, indexed and reach the disk, until the process dies or the power fails.
NextWrite ==
  /\ subject = "files" /\ x.pending = <<>> /\ x.written < Len(BlockLengths)
  /\ \E initial \in BOOLEAN, nBestHeight \in 0..SyncEvery - 1 : x' = WriteToDisk(x, initial, nBestHeight)
  /\ UNCHANGED subject
NextIndex ==
  /\ subject = "files" /\ x.pending # <<>>
  /\ x' = WriteBlockIndex(x)
  /\ UNCHANGED subject
NextFlush ==
  /\ subject = "files"
  /\ x' \in {FlushIndex(x)} \cup {FlushFile(x, nFile) : nFile \in DOMAIN x.files}
  /\ UNCHANGED subject
NextStart ==
  /\ subject = "files" /\ x.starts < MaxStarts
  /\ x' \in Died(x) \cup PowerLost(x)
  /\ UNCHANGED subject

Next ==
  \/ NextWrite \/ NextIndex \/ NextFlush \/ NextStart
  \/ NextForeign \/ NextSpend \/ NextInChain
  \/ NextAddress \/ NextName \/ NextMove \/ NextReceipt \/ NextPayment
  \/ NextConnection \/ NextTry \/ NextDepth \/ NextDisconnection \/ NextLockTime
  \/ NextSample
  \/ GrowCaller \/ GrowAsked \/ NextHeader \/ NextSubsidy
  \/ NextCall \/ NextSolution \/ NextBlock \/ NextTx
Spec == Init /\ [][Next]_<<subject, x>>

-----------------------------------------------------------------------------
found == GetBlockIndex(Locate(x.best), x.tip)
fork == CHOOSE b \in Branch[x.best] \cap Branch[x.tip] :
          \A c \in Branch[x.best] \cap Branch[x.tip] : Height[c] <= Height[b]

\* GetDistanceBack retraces the steps Set took: it is the distance to the block found, unless
\* that is the genesis block at the end, when it may be more.
DistanceIsRight ==
  subject = "locator" =>
    LET d == GetDistanceBack(Locate(x.best), x.tip)
    IN d = Height[x.best] - Height[found] \/ (found = GenesisBlock /\ d > Height[x.best])

\* "The further back it is, the further before the fork it may be", and no further.
FoundNearFork ==
  subject = "locator" =>
    /\ found \in Branch[fork]
    /\ Height[fork] - Height[found] <= Height[x.best] - Height[fork]
    /\ Height[x.best] - Height[fork] <= DenseSteps => found = fork

\* What the index says is in the files, whatever a crash left of either, but for blocks of the
\* initial download when the power fails; and no file grows beyond what the oldest file systems
\* and ftell can do.
SavedIsFound ==
  subject = "files" =>
    /\ \A r \in ToSet(x.index) : ReadFromDisk(x, r) \/ (r.initial /\ x.powerLost)
    /\ \A i \in DOMAIN x.files : FileLength(x, i) <= FileLimit

\* A node is answered from the block where the caller's chain leaves its own, or from not far
\* before, and the caller's distance back to there is known; and the blocks are where the index
\* says.
BlocksAreFound == DistanceIsRight /\ FoundNearFork /\ SavedIsFound

-----------------------------------------------------------------------------
\* Times of blocks go back and forth, their median does not: what is too early for a block now
\* stays too early.
MedianNeverFalls ==
  subject = "headers" /\ Len(x) > 1 => GetMedianTimePast(Front(x)) <= GetMedianTimePast(x)

\* "This fixes an issue where a 51% attack can change difficulty at will": when the full
\* period is measured, the timespans join, so that no time is left out between two retargets.
TimeIsCounted ==
  subject = "headers" =>
    LET retargets == {h \in 2..Len(x) : Retargets(h) /\ h >= FullPeriodFrom}
    IN retargets # {} =>
         MapThenSumSet(LAMBDA h : Timespan(x, h), retargets)
           = x[Max(retargets)].time - x[Min(retargets) - nInterval(Min(retargets))].time

\* The longer the last blocks took the higher the next target, through all the steps, bounds
\* and roundings.
SlowerIsEasier ==
  subject = "headers" /\ Len(x) > 1 =>
    \A d \in {10, 30, 50, 100} :
      GetNextWorkRequired([x EXCEPT ![Len(x)].time = @ + d]) >= GetNextWorkRequired(x)

\* MAX_MONEY bounds what the subsidies create, at every height there is one: "Hard limit to
\* 21M Ixcoins".
MoneyIsLimited == subject = "subsidy" => x.supply <= 21000000

\* The transactions that a miner collects are final in the block that it makes of them, later,
\* unless the clock was set back; what was final at the median time is final from then on; and
\* all nodes agree about a block, whatever chain and clock they have.
LocksAreKept ==
  subject = "lock" =>
    LET T == BlockTime(x.median, x.made) IN
    /\ Collects(x.tx, View(x.best, x.collected)) /\ x.collected <= x.made
         => AcceptsLock(x.tx, x.best + 1, T, View(x.best, x.made))
    /\ AcceptsLock(x.tx, x.best, x.median, View(x.best, x.made))
         => \A later \in Times : later > x.median => AcceptsLock(x.tx, x.best + 1, later, View(x.best, x.made))
    /\ \A height \in Heights, time \in Times :
         AcceptsLock(x.tx, x.best + 1, T, View(height, time))
           <=> AcceptsLock(x.tx, x.best + 1, T, View(x.best, x.made))

\* Targets follow the time the blocks took: all of it, once, and in the right direction; what
\* the blocks create is bounded; and what they contain is final.
HeadersAreSound ==
  MedianNeverFalls /\ TimeIsCounted /\ SlowerIsEasier /\ MoneyIsLimited /\ LocksAreKept

-----------------------------------------------------------------------------
\* A payment fails only when the coins that may be used at all do not cover it, though three
\* rounds choose from different coins, at random.
EnoughIsFound ==
  subject = "coins" =>
    (SelectCoins(x.wallet, x.nValue) = {}
       <=> Total(x.wallet, Eligible(x.wallet, 0, 1)) < x.nValue)

\* No coins are chosen that leave a change too small for an output, which would be given away
\* as a fee, when the wallet has other coins to choose.
NoDust ==
  subject = "coins" =>
    \A s \in SelectCoinsMinConf(x.wallet, x.nValue, DOMAIN x.wallet) :
      LET change == Total(x.wallet, s) - x.nValue
      IN \/ change = 0
         \/ change >= CENT
         \/ change > 0 /\ Total(x.wallet, DOMAIN x.wallet) < x.nValue + CENT

\* The fee that CreateTransaction reports is what the transaction pays, up to a change too
\* small for an output, and is enough for its size, though every raise chooses new coins.
FeeIsPaid ==
  subject = "coins" =>
    \A t \in CreateTransaction(x.wallet, x.nValue) :
      t.coins # {} =>
        LET paid == Total(x.wallet, t.coins) - x.nValue - Change(x.wallet, x.nValue, t)
        IN /\ t.fee <= paid /\ paid < t.fee + CENT
           /\ RequiredFee(t.coins, x.nValue, t.free) <= t.fee

\* CreateTransaction pays what it says, from coins it should have chosen, whenever it can.
PaymentIsSound == EnoughIsFound /\ NoDust /\ FeeIsPaid

-----------------------------------------------------------------------------
RECURSIVE Reference(_)
Reference(hashes) ==
  IF Len(hashes) = 1 THEN hashes[1]
  ELSE Reference([i \in 1..(Len(hashes) + 1) \div 2 |->
                    <<hashes[2*i - 1], hashes[Min({2*i, Len(hashes)})]>>])

\* The branch of a leaf leads to the root, from that leaf alone, in trees of any shape, where
\* the last hash of an odd level is its own other side.
BranchProvesLeaf ==
  subject = "tree" =>
    LET leaves == Leaves(x.n)
        branch == GetMerkleBranch(leaves, x.i)
    IN /\ Last(BuildMerkleTree(leaves)) = Reference(leaves)
       /\ \A i \in 1..x.n : CheckMerkleBranch(Leaf(i), branch, x.i) = Reference(leaves) <=> i = x.i + 1

\* "Check that the same work is not submitted twice to our chain": the parent's coinbase
\* proves at most one block, whatever roots, sizes and nonces are put into it.
OneBlockPerWork ==
  subject = "coinbase" =>
    \A p, q \in Proofs : Check(p[1], x, p[2], p[3]) /\ Check(q[1], x, q[2], q[3]) => p[1] = q[1]

\* What getworkaux makes is accepted: our block in its slot of a chain tree, the root of that
\* tree in a coinbase that MakeCoinbaseWithAux built, the branch from the tree.
AuxPowIsAccepted ==
  subject = "aux" =>
    LET slot == Slot(x.nNonce, OurChainID, x.nSize)
        tree == BuildMerkleTree(Leaves(x.nSize))
    IN Check(Leaf(slot + 1),
             MakeCoinbaseWithAux(<<Root(Last(tree)), Number(x.nSize), Number(x.nNonce)>>),
             GetMerkleBranch(Leaves(x.nSize), slot), slot)

-----------------------------------------------------------------------------
\* Whatever is put before it, an output to a key is spent only by a signature of that key for
\* this output and this transaction: what the first script leaves in the machine is the stack.
SpentByOwner ==
  subject = "spend" /\ VerifyScript(x.sig, x.out, Here) =>
    \E type \in HashTypes : Push(Sig("k1", x.out, Here, type)) \in ToSet(x.sig)

\* m of n keys: the last m signatures that are offered belong to keys in the order of the keys,
\* and there is one value more below them.
SignedByMOfN ==
  subject = "multisig" =>
    LET script == MultiSig(x.m, x.keys)
        used == SubSeq(x.offer, Len(x.offer) + 1 - x.m, Len(x.offer))
    IN VerifyScript(Stacked(script, x.offer, x.below), script, Here) <=>
         /\ x.m <= Len(x.keys) /\ x.m < Len(x.offer \o x.below) /\ x.m <= Len(x.offer)
         /\ \E at \in [1..x.m -> DOMAIN x.keys] :
              /\ \A i, j \in 1..x.m : i < j => at[i] < at[j]
              /\ \A i \in 1..x.m : used[i] = x.keys[at[i]]

\* Of nested branches the one that is taken does what it says, and the others nothing.
BranchesAsWritten ==
  subject = "branches" =>
    LET m == EvalScript(<<>>, x.ops, Here)
    IN m.ok = ~x.fails /\ (m.ok => m.stack = x.left)

\* What a hash type locks of a transaction: the input that is signed; the other inputs, unless
\* anyone may pay; their sequence numbers and the outputs, or the output of the same index.
Locked(tx, nIn, type) ==
  [own |-> tx.vin[nIn],
   others |-> IF type[2] THEN <<>> ELSE [i \in DOMAIN tx.vin |-> tx.vin[i].prevout],
   sequences |-> IF type # All THEN <<>> ELSE [i \in DOMAIN tx.vin |-> tx.vin[i].nSequence],
   outputs |-> CASE type[1] = "ALL" -> tx.vout
                 [] type[1] = "NONE" -> <<>>
                 [] type[1] = "SINGLE" -> <<tx.vout[nIn]>>]
HasOutput(tx) == Len(tx.vin) >= x.nIn /\ (x.type[1] = "SINGLE" => Len(tx.vout) >= x.nIn)
SignatureLocks ==
  subject = "digest" /\ HasOutput(x.one) /\ HasOutput(x.other) =>
    LET Digest(tx) == SignatureHash(<<>>, [tx |-> tx, nIn |-> x.nIn], x.type)
    IN Digest(x.one) = Digest(x.other) <=> Locked(x.one, x.nIn, x.type) = Locked(x.other, x.nIn, x.type)

\* A coin that the wallet counts as its own can be spent, whatever is signed of the transaction.
MineIsSpendable ==
  subject = "sign" /\ x.nIn <= Len(x.tx.vin) =>
    (IsMine(x.keystore, x.out) => SignSignature(x.keystore, x.out, [tx |-> x.tx, nIn |-> x.nIn], x.type))

\* Who may spend an output is who its script names, and a signature covers what it says.
ScriptIsSound ==
  SpentByOwner /\ SignedByMOfN /\ BranchesAsWritten /\ SignatureLocks /\ MineIsSpendable

-----------------------------------------------------------------------------
\* Work on the best block is not lost, whatever was given out, solved or refused since: it is
\* put together again to the header that was solved.  (Unless the best block changed while the
\* work was being made: what is then built on the new one is forgotten with the next call.)
WorkIsKept ==
  subject = "work" =>
    \A h \in x.handed :
      h.block.prev = x.best /\ h.seen = x.best =>
        \E e \in Saved(x, h.block) :
          e.block \in x.vNewBlock /\ HeaderOf(Rebuilt(x, e)) = HeaderOf(h.block)

\* "Remove key from key pool": no two blocks that were accepted pay the same key.
EachBlockItsKey == subject = "work" => IsInjective(x.paid)

\* A branch proves its leaf and merged mining our work, once; and what was given out to be
\* solved is not lost.
WorkIsSound == BranchProvesLeaf /\ OneBlockPerWork /\ AuxPowIsAccepted /\ WorkIsKept /\ EachBlockItsKey

-----------------------------------------------------------------------------
SumOver(S, Value(_)) == MapThenSumSet(Value, S)

\* What is received on an account's addresses and is so deep, but not final: it is listed, and
\* in no balance.
LockedUp(account, nMinDepth) ==
  LET addresses == A!AddressesOf(x, account) IN
  SumOver(A!Deep(x, nMinDepth) \ A!Final(x), LAMBDA i : A!ReceivedOn(x, x.txs[i], addresses))

\* The balances of all accounts are getbalance "*", and are listaccounts' but for what is not
\* final, whatever addresses were renamed, change that became somebody's address among them.
AccountsAddUp ==
  subject = "accounts" =>
    LET listed == A!ListAccounts(x, 1)
        balance == [a \in AccountNames |-> A!GetAccountBalance(x, a, 1)]
    IN
    /\ SumOver(AccountNames, LAMBDA a : balance[a]) = A!GetBalanceOfAll(x, 1)
    /\ \A a \in AccountNames :
         balance[a] = (IF a \in DOMAIN listed THEN listed[a] ELSE 0) - LockedUp(a, 1)

\* What listtransactions lists adds up to the balance, for every account, but for the fees and
\* what is not final; the last two are the same when no more are asked for; and
\* listreceivedbyaccount has what getreceivedbyaccount has.
ListsAddUp ==
  subject = "accounts" =>
    LET received == A!ListReceivedByAccount(x, 1) IN
    \A a \in AccountNames :
      LET list == A!ListTransactions(x, {a}, 100, 0)
          counted == {i \in DOMAIN list : list[i].category \notin {"immature", "orphan"}}
          fees == SumOver({i \in DOMAIN x.txs : x.txs[i].account = a}, LAMBDA i : A!Fee(x, x.txs[i]))
      IN /\ SumOver(counted, LAMBDA i : list[i].amount) = A!GetAccountBalance(x, a, 0) + fees + LockedUp(a, 0)
         /\ Len(list) > 1 => A!ListTransactions(x, {a}, 2, 0) = SubSeq(list, Len(list) - 1, Len(list))
         /\ A!GetReceivedByAccount(x, a, 1) = IF a \in DOMAIN received THEN received[a] ELSE 0

\* "getbalance and getbalance '*' should always return the same number", but do not.  The two
\* differ by what payments of ours in no block pay us, when they count as confirmed; by their
\* change, which only the second counts, when they do not; and by coins that were spent and have
\* stopped counting, which only the second takes off.
OneBalance ==
  subject = "accounts" =>
    LET open == {i \in DOMAIN x.txs : A!IsFromMe(x, x.txs[i]) /\ i \notin A!Deep(x, 1)}
        Received(i) == A!ReceivedOn(x, x.txs[i], 1..x.nKeys)
        Kept(i) == A!Credit(x, x.txs[i]) - Received(i)
    IN A!GetBalance(x) - A!GetBalanceOfAll(x, 1)
         = SumOver({i \in open : A!IsConfirmed(x, i)}, Received)
             - SumOver({i \in open : ~A!IsConfirmed(x, i)}, Kept)
             + SumOver({coin \in A!Spent(x) : ~A!IsCounted(x, coin[1])}, LAMBDA coin : A!ValueOf(x, coin))

\* An address is shown as the current one of an account only while it is booked there.
CurrentKeyIsOwn ==
  subject = "accounts" =>
    \A a \in AccountNames : x.vchPubKey[a] # 0 => x.mapAddressBook[x.vchPubKey[a]] = a

\* The ways to compute a balance, or to list what it is made of, differ exactly by what is said
\* here, whatever the chain and the address book went through since the payments.
AccountsAreSound == AccountsAddUp /\ ListsAddUp /\ OneBalance /\ CurrentKeyIsOwn

-----------------------------------------------------------------------------
\* However the chain went, the branch of every transaction proves the block it goes with; its
\* depth is never overstated, and is right unless a branch was tried that has an invalid block.
DepthIsKnown ==
  subject = "chain" =>
    \A t \in DOMAIN x.mapWallet :
      LET seen == x.mapWallet[t].seen IN
      /\ seen.hashBlock # 0 => IsProved(x, t, seen)
      /\ \/ DepthOf(x, t) = IndexDepth(x, t)
         \/ /\ DepthOf(x, t) = 0
            /\ \E b \in DOMAIN x.blocks : ~x.blocks[b].valid /\ seen.hashBlock \in ChainOf(x, b)

\* What counts as confirmed is in the chain, or ours and made of what is, however old the copies
\* are by which that is judged.
ConfirmedIsTrue ==
  subject = "chain" =>
    LET confirmed[t \in DOMAIN x.txs] ==
          IndexDepth(x, t) >= 1 \/ (x.txs[t].ours /\ \A p \in x.txs[t].vin : confirmed[p])
    IN \A t \in DOMAIN x.mapWallet : IsConfirmedByCopies(x, t) => confirmed[t]

\* A coinbase that counts as mature may be spent, and still when the last blocks are undone.
MatureIsSpendable ==
  subject = "chain" =>
    \A t \in {u \in DOMAIN x.mapWallet : x.txs[u].coinbase /\ GetBlocksToMaturity(x, u) = 0},
       b \in {a \in MainChain(x) : nHeight(x, a) >= nHeight(x, x.best) - MaturityMargin} :
      IsSpendableAfter(x, t, b)

\* While fewer than COPY_DEPTH of the blocks are undone that were there when a payment was made,
\* what is relayed with it is all that the chain lacks, unless it lacks a coinbase.
Ancestors(c, t) ==
  LET f[u \in DOMAIN c.txs] == {u} \cup UNION {f[p] : p \in c.txs[u].vin} IN f[t]
SupportIsEnough ==
  subject = "chain" =>
    \A t \in DOMAIN x.mapWallet :
      LET made == x.mapWallet[t].made
          kept == {b \in ChainOf(x, made) : nHeight(x, b) <= nHeight(x, made) - COPY_DEPTH + 1}
          lacks == {u \in Ancestors(x, t) : ReadTxIndex(x, u) = 0}
      IN x.txs[t].ours /\ kept \subseteq MainChain(x) /\ ~(\E u \in lacks : x.txs[u].coinbase)
           => lacks \subseteq RelayWalletTransaction(x, t)

\* How deep a transaction is, whether it counts as confirmed or mature, and what goes along with
\* a payment, are what the chain says, as far as a wallet can know.
DepthsAreSound == DepthIsKnown /\ ConfirmedIsTrue /\ MatureIsSpendable /\ SupportIsEnough

-----------------------------------------------------------------------------
\* Words that carry, borrow and shift make one number: what every operator does is what it
\* does to the integer, modulo the width; and a number that is read back is the same.
WordsAreOneNumber ==
  subject = "uint" =>
    LET I(n) == NumberOf(n, 4)
        size == 4^WIDTH
    IN /\ I(Plus(x.a, x.b)) = (I(x.a) + I(x.b)) % size
       /\ I(Minus(x.a, x.b)) = (I(x.a) - I(x.b)) % size
       /\ I(PlusPlus(x.a)) = (I(x.a) + 1) % size
       /\ I(MinusMinus(x.a)) = (I(x.a) - 1) % size
       /\ \A shift \in 0..2 * WIDTH :
            /\ I(ShiftLeft(x.a, shift)) = (I(x.a) * 2^shift) % size
            /\ I(ShiftRight(x.a, shift)) = I(x.a) \div 2^shift
       /\ Less(x.a, x.b) <=> I(x.a) < I(x.b)
       /\ SetHex(GetHex(x.a) \o GetHex(x.b)) = x.b

\* A number and its bytes are one another's, and no shorter bytes would do.
BytesAreTheNumber ==
  subject = "bignum" =>
    /\ SetVch(GetVch(x)) = x
    /\ AbsOf(x) < 4^WIDTH => SetWord(x, WIDTH) = x
    /\ x # 0 => SetVch(Front(GetVch(x))) # x
    /\ AbsOf(x) < 4^WIDTH => NumberOf(GetUint256(x), 4) = AbsOf(x)

\* Bytes that are written are read again, those that say zero too.  An address of either network
\* is read on the main network.  On the test network none is: getnewaddress's "new ixcoin address
\* for receiving payments" has the version there that is Bitcoin's too, which is refused.  A text
\* that is read is what would be written, but for spaces around it.
TextIsTheBytes ==
  /\ subject = "bytes" =>
       /\ DecodeBase58(EncodeBase58(x)) = x
       /\ DecodeBase58Check(EncodeBase58Check(x)) = x
       /\ Len(x) = HashBytes =>
            /\ \A fTestNet \in BOOLEAN : AddressToHash160(Hash160ToAddress(x, fTestNet), FALSE) = x
            /\ \A fTestNet \in BOOLEAN : AddressToHash160(Hash160ToAddress(x, fTestNet), TRUE) = Bad
  /\ subject = "spelling" /\ DecodeBase58(x) # Bad =>
       EncodeBase58(DecodeBase58(x)) = SelectSeq(x, IsDigit)

\* An amount that is written is read again, a negative one is refused, and what is read from
\* any text is an amount that can be written, unless it was too large for an int64.
AmountIsTheText ==
  /\ subject = "amount" => ParseMoney(FormatMoney(x)) = IF x < 0 THEN NoMoney ELSE x
  /\ subject = "money" =>
       LET n == ParseMoney(x)
           written == FormatMoney(n)
           wrapped == RunOf(SelectSeq(x, LAMBDA c : c # Blank), 1, DecimalDigits) > 2
       IN n # NoMoney /\ ~wrapped =>
            /\ ParseMoney(written) = n
            /\ ParseMoney(<<Blank>> \o written) = ParseMoney(x \o <<Blank>>)

\* The others move our clock by seventy minutes at most; and not by more than five when most
\* of the clocks, ours among them, are within five minutes of it.
ClockIsNear ==
  subject = "time" =>
    LET near == Cardinality({i \in DOMAIN x.used : AbsOf(x.used[i]) < NearOffset}) IN
    /\ AbsOf(x.nTimeOffset) < MaxOffset
    /\ 2 * near > Len(x.used) => AbsOf(x.nTimeOffset) < NearOffset

\* A size is read as it was written, and no further than that.
SizeIsRead ==
  subject = "size" =>
    LET bytes == WriteCompactSize(x)
        read == ReadCompactSize(bytes \o <<x % 8>>)
    IN /\ Len(bytes) = GetSizeOfCompactSize(x)
       /\ read = IF x <= MaxSize THEN [ok |-> TRUE, size |-> x, rest |-> <<x % 8>>] ELSE Failure

\* Deleting the bytes of a signature deletes the operations that push it, and nothing that
\* lies in other data, or is the same data pushed another way; what cannot be read is kept.
Raw(s, i) == LET ops == OpsFrom(s, 1) IN SubSeq(s, IF i = 1 THEN 1 ELSE ops[i - 1].pc, ops[i].pc - 1)
BytesAreOps ==
  /\ subject \in {"script", "raw"} =>
       LET ops == OpsFrom(x.s, 1)
           end == IF ops = <<>> THEN 1 ELSE Last(ops).pc
           raw == [i \in DOMAIN ops |-> Raw(x.s, i)]
           kept == FlattenSeq(SelectSeq(raw, LAMBDA r : r # x.b)) \o SubSeq(x.s, end, Len(x.s))
       IN ~StartsWith(x.s, end, x.b) => DeleteBytes(x.s, x.b) = kept
  /\ subject = "script" =>
       /\ Parses(x.s)
       /\ \A p \in Pieces : OpsFrom(p \o x.s, 1)[1].pc = Len(p) + 1
       /\ GetSigOpCount(x.s \o x.b) = GetSigOpCount(x.s)
       /\ IsPushOnly(x.s) => GetSigOpCount(x.s) = 0
       /\ \A p \in {<<0, 0>>, <<CHECKSIG, DUP>>} : GetBitcoinAddressHash160(SetBitcoinAddress(p)) = p
       /\ GetBitcoinAddressHash160(SetBitcoinAddress(<<1, 1>>) \o x.s) = NoHash

\* What is written is read back, to its last byte and no further, in every form; it has the
\* size that was counted (but for the records of the block index with a parent); and what
\* breaks off is never taken for a whole.
RECURSIVE Form(_, _, _, _)
Form(T, v, nType, nVersion) ==
  CASE T.kind \in {"seq", "set", "map"} ->
         LET s == Members(T, v) IN Gathered(T, [i \in DOMAIN s |-> Form(T.of, s[i], nType, nVersion)])
    [] T.kind = "record" ->
         [i \in DOMAIN T.fields |->
            LET F == T.fields[i] IN
            IF Present(F, v, nType, nVersion) THEN Form(Inner(F), v[i], TypeFor(F, nType), nVersion) ELSE Default(F)]
    [] OTHER -> v
ReadAsWritten ==
  /\ subject = "layout" =>
       LET T == Layouts[x.name]
           v == Sample(T, x.seed)
           bytes == Written(T, v, x.type, x.version)
       IN /\ Read(T, bytes \o <<1>>, x.type, x.version) = Got(Form(T, v, x.type, x.version), <<1>>)
          /\ GetSerializeSize(T, v, x.type, x.version) = Len(bytes) \/ (x.name = "blockindex" /\ IsMerged(v[6]))
          /\ \A k \in 0..Len(bytes) - 1 : ~Read(T, SubSeq(bytes, 1, k), x.type, x.version).ok
  /\ subject = "wallettx" =>
       LET bytes == Written(WalletTxRecord, ToRecord(x), {"DISK"}, 1)
       IN FromRecord(Read(WalletTxRecord, bytes, {"DISK"}, 1).value) = x

\* Numbers, scripts and records survive the forms they are computed, stored, shown and typed in.
NumbersAreSound ==
  WordsAreOneNumber /\ BytesAreTheNumber /\ TextIsTheBytes /\ AmountIsTheText /\ ClockIsNear
  /\ SizeIsRead /\ BytesAreOps /\ ReadAsWritten
================================================================================
