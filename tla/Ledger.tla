------------------------------- MODULE Ledger -------------------------------
(***************************************************************************)
(* The data the chain code works on, and what it means: the tree of        *)
(* blocks, the transactions they carry, and the ledger that a branch of    *)
(* the tree stands for.  Nothing here changes; ChainState is the machine   *)
(* that computes with it (main.cpp), and the definitions of the second     *)
(* half say, without reference to any index or pointer, which branches are *)
(* valid and which outputs they leave unspent.                             *)
(*                                                                         *)
(* A block is a model value.  Its hash commits to its parent and to its    *)
(* transactions, so both are constants.  Signatures, sizes, proof of work  *)
(* and timestamps are abstracted to where the checks on them fail.         *)
(***************************************************************************)
EXTENDS Naturals, FiniteSets, Sequences, FiniteSetsExt

CONSTANTS
  Blocks,           \* every block that can reach the node
  GenesisBlock,     \* hashGenesisBlock
  NoBlock,          \* the NULL CBlockIndex*, or the null hash
  Prev,             \* [Blocks -> Blocks]: hashPrevBlock
  ChainWork,        \* [Blocks -> Nat]: the work of the branch that ends here
  Vtx,              \* [Blocks -> Seq(Txs)]: the transactions, coinbase first
  FailsAt,          \* [Blocks -> Stages]: the first check on the block alone that fails
  Txs,              \* every transaction
  NoTx,             \* the null disk position
  CoinBases,        \* the transactions whose only input is null
  Ins,              \* [Txs -> SUBSET (Txs \X Nat)]: the outpoints in vin
  NOut,             \* [Txs -> Nat]: vout.size()
  Value,            \* [OutPoints -> Nat]: nValue
  Unsigned,         \* the transactions that VerifySignature rejects
  Standard,         \* those AcceptToMemoryPool finds standard and small enough
  CoinbaseMaturity, \* COINBASE_MATURITY
  MaxMoney,         \* MAX_MONEY
  Subsidy(_)        \* GetBlockValue(nHeight, 0)

\* Where a check on the block alone rejects it: CheckBlock as ProcessBlock calls
\* it, the checks of AcceptBlock (work, time, finality, checkpoints), CheckBlock
\* as ConnectBlock calls it, with the true height (chain id), or nowhere.
Stages == {"check", "context", "height", "never"}

\* The outputs that exist, numbered from 1.
OutPoints == UNION {{<<t, n>> : n \in 1..NOut[t]} : t \in Txs}

-----------------------------------------------------------------------------
(* The tree: following pprev.                                              *)

\* The branch that ends at b: the least set that holds b and is closed under
\* Prev up to the genesis block.
ClosedUnderPrev(S) == \A x \in S \ {GenesisBlock} : Prev[x] \in S
ClosedSets == {S \in SUBSET Blocks : ClosedUnderPrev(S)}
Chain == [b \in Blocks |-> {a \in Blocks : \A S \in ClosedSets : b \in S => a \in S}]

\* CBlockIndex::nHeight.
Height == [b \in Blocks |-> Cardinality(Chain[b]) - 1]

-----------------------------------------------------------------------------
(* Amounts.                                                                *)

SumOf(g, S) == MapThenSumSet(LAMBDA x : g[x], S)
SumOfValues(outs) == SumOf(Value, outs)
GetValueOut(t) == SumOfValues({<<t, n>> : n \in 1..NOut[t]})
GetValueIn(t) == SumOfValues(Ins[t])
MoneyRange(n) == n \in 0..MaxMoney

-----------------------------------------------------------------------------
(* What the code assumes of its data.                                      *)

ASSUME TreeAssumption ==
  /\ GenesisBlock \in Blocks
  /\ NoBlock \notin Blocks
  /\ Prev \in [Blocks -> Blocks]
  /\ ChainWork \in [Blocks -> Nat]
  /\ \A b \in Blocks \ {GenesisBlock} : ChainWork[Prev[b]] < ChainWork[b]

ASSUME TxAssumption ==
  /\ NoTx \notin Txs
  /\ CoinBases \subseteq Txs
  /\ Ins \in [Txs -> SUBSET (Txs \X Nat)]
  /\ NOut \in [Txs -> Nat]
  /\ Vtx \in [Blocks -> Seq(Txs)]
  /\ FailsAt \in [Blocks -> Stages]
  /\ CoinbaseMaturity \in Nat /\ MaxMoney \in Nat
  /\ Value \in [OutPoints -> Nat]

\* GetBlockValue halves an amount, and never makes a debt of it.
ASSUME SubsidyAssumption == \A b \in Blocks : Subsidy(Height[b]) \in Nat

\* A block has transactions.  Only the first transaction of a block is a coinbase, a
\* coinbase has no inputs and any other transaction has some (CheckBlock,
\* CheckTransaction).  That no two blocks carry the same coinbase is NOT checked by
\* this code: it is a property of the coinbase script, which IncrementExtraNonce keeps
\* distinct.
ASSUME CoinbaseAssumption ==
  /\ \A t \in Txs : t \in CoinBases <=> Ins[t] = {}
  /\ \A b \in Blocks : Vtx[b] # <<>>
  /\ \A b \in Blocks : \A i \in DOMAIN Vtx[b] :
       /\ Vtx[b][i] \in CoinBases <=> i = 1
       /\ i = 1 => \A c \in Blocks \ {b} : \A j \in DOMAIN Vtx[c] : Vtx[c][j] # Vtx[b][1]

-----------------------------------------------------------------------------
(* The meaning of a branch.                                                *)

\* The places of a branch where a transaction is, in their order on the branch.
\* The genesis block is on every branch but its coinbase is not indexed.
Places(b) == UNION {{<<a, i>> : i \in DOMAIN Vtx[a]} : a \in Chain[b] \ {GenesisBlock}}
TxAt(p) == Vtx[p[1]][p[2]]
Before(p, q) == Height[p[1]] < Height[q[1]] \/ (p[1] = q[1] /\ p[2] < q[2])

\* The transactions of a branch, and the outputs that none of them spends.
ChainTxs(b) == {TxAt(p) : p \in Places(b)}
Unspent(b) == {o \in OutPoints : /\ o[1] \in ChainTxs(b)
                                 /\ \A t \in ChainTxs(b) : o \notin Ins[t]}

\* The input o of the transaction at p is an output of an earlier transaction that
\* nothing earlier spends and, when it is a coinbase's, is deep enough.
ValidInput(b, p, o) ==
  /\ o \in OutPoints
  /\ \E q \in Places(b) :
       /\ TxAt(q) = o[1]
       /\ Before(q, p)
       /\ o[1] \in CoinBases => Height[q[1]] + CoinbaseMaturity <= Height[p[1]]
  /\ \A q \in Places(b) : Before(q, p) => o \notin Ins[TxAt(q)]

ValidTx(b, p) ==
  LET t == TxAt(p) IN
  \/ t \in CoinBases
  \/ /\ \A o \in Ins[t] : ValidInput(b, p, o)
     /\ t \notin Unsigned
     /\ MoneyRange(GetValueIn(t))
     /\ GetValueIn(t) >= GetValueOut(t)

\* The fees that the first n transactions of a block pay.
FeesUpTo(b) ==
  LET fees[n \in Nat] ==
        IF n <= 1 THEN 0 ELSE fees[n - 1] + (GetValueIn(Vtx[b][n]) - GetValueOut(Vtx[b][n]))
  IN fees

ValidBlockOn(b, a) ==
  /\ FailsAt[a] = "never"
  /\ \A i \in DOMAIN Vtx[a] : ValidTx(b, <<a, i>>) /\ MoneyRange(FeesUpTo(a)[i])
  /\ GetValueOut(Vtx[a][1]) <= Subsidy(Height[a]) + FeesUpTo(a)[Len(Vtx[a])]

\* What the blocks of a branch were allowed to issue, the genesis block left out.
Issued(b) == SumOf([a \in Blocks |-> Subsidy(Height[a])], Chain[b] \ {GenesisBlock})

\* The blocks that end a branch on which every block is valid.
ValidBranches == {b \in Blocks : \A a \in Chain[b] \ {GenesisBlock} : ValidBlockOn(b, a)}
=============================================================================
