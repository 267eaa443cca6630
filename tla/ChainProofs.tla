---------------------------- MODULE ChainProofs -----------------------------
(***************************************************************************)
(* What holds of ChainState for every tree of blocks and every set of      *)
(* transactions: what a branch is and where SetBestChain stands; then what *)
(* is on disk and in memory: whatever moment the node dies at, it starts   *)
(* again from one valid branch.                                            *)
(***************************************************************************)
EXTENDS ChainSafety, SequenceTheorems, WellFoundedInduction, FiniteSetTheorems, TLAPS

-----------------------------------------------------------------------------
(* Facts about the tree of blocks and what a branch means.                 *)

\* A branch ends at its block.
LEMMA ChainSelf ==
  ASSUME NEW b \in Blocks
  PROVE  b \in Chain[b]
BY DEF Chain, ClosedSets

\* A branch holds the parent of each of its blocks but the genesis block.
LEMMA ChainClosed ==
  ASSUME NEW b \in Blocks
  PROVE  Chain[b] \subseteq Blocks /\ ClosedUnderPrev(Chain[b])
BY TreeAssumption DEF Chain, ClosedSets, ClosedUnderPrev

\* Any set closed under Prev that holds a block holds its branch.
LEMMA ChainLeast ==
  ASSUME NEW b \in Blocks, NEW S \in SUBSET Blocks, b \in S, ClosedUnderPrev(S)
  PROVE  Chain[b] \subseteq S
BY DEF Chain, ClosedSets

\* Work grows along a branch.
LEMMA ChainWorkBound ==
  ASSUME NEW b \in Blocks, NEW a \in Chain[b]
  PROVE  ChainWork[a] <= ChainWork[b]
<1> DEFINE S == {x \in Blocks : ChainWork[x] <= ChainWork[b]}
<1>1. b \in S
  BY TreeAssumption
<1>2. ClosedUnderPrev(S)
  <2> SUFFICES ASSUME NEW x \in S \ {GenesisBlock} PROVE Prev[x] \in S
    BY DEF ClosedUnderPrev
  <2>1. Prev[x] \in Blocks /\ ChainWork[Prev[x]] < ChainWork[x]
    BY TreeAssumption
  <2>2. /\ ChainWork[Prev[x]] \in Nat /\ ChainWork[x] \in Nat /\ ChainWork[b] \in Nat
        /\ ChainWork[x] <= ChainWork[b]
    BY <2>1, TreeAssumption
  <2> QED BY <2>1, <2>2
<1> QED BY <1>1, <1>2, ChainLeast

\* Below the end of a branch each block has a successor on it.
LEMMA ChainSuccessor ==
  ASSUME NEW b \in Blocks, NEW a \in Chain[b], a # b
  PROVE  \E c \in Chain[b] \ {GenesisBlock} : Prev[c] = a
<1> SUFFICES ASSUME \A c \in Chain[b] \ {GenesisBlock} : Prev[c] # a PROVE FALSE
  OBVIOUS
<1> DEFINE S == Chain[b] \ {a}
<1>1. S \in SUBSET Blocks /\ b \in S
  BY ChainSelf, ChainClosed
<1>2. ClosedUnderPrev(S)
  BY ChainClosed DEF ClosedUnderPrev
<1>3. a \in S
  BY <1>1, <1>2, ChainLeast
<1> QED BY <1>3

\* Every branch starts at the genesis block: otherwise its block with the least work
\* would have a parent with less.
LEMMA ChainGenesis ==
  ASSUME NEW b \in Blocks
  PROVE  GenesisBlock \in Chain[b]
<1> SUFFICES ASSUME GenesisBlock \notin Chain[b] PROVE FALSE
  OBVIOUS
<1> DEFINE T == {ChainWork[x] : x \in Chain[b]}
<1>1. T \subseteq Nat /\ T # {}
  BY ChainSelf, ChainClosed, TreeAssumption
<1>2. PICK n \in T : \A m \in T : ~ (<<m, n>> \in OpToRel(<, Nat))
  <2> HIDE DEF T
  <2> QED BY <1>1, NatLessThanWellFounded, WFMin
<1>3. PICK x \in Chain[b] : n = ChainWork[x]
  BY <1>2
<1>4. x \in Blocks \ {GenesisBlock} /\ Prev[x] \in Chain[b] /\ Prev[x] \in Blocks
  BY <1>3, ChainClosed DEF ClosedUnderPrev
<1>5. ChainWork[Prev[x]] < n /\ ChainWork[Prev[x]] \in Nat /\ n \in Nat
  BY <1>3, <1>4, TreeAssumption
<1>6. <<ChainWork[Prev[x]], n>> \in OpToRel(<, Nat)
  BY <1>5 DEF OpToRel
<1> QED BY <1>2, <1>4, <1>6

\* A branch is its block and the branch of the parent, which has less work.
LEMMA ChainStep ==
  ASSUME NEW b \in Blocks \ {GenesisBlock}
  PROVE  /\ Prev[b] \in Blocks
         /\ Chain[b] = {b} \cup Chain[Prev[b]]
         /\ b \notin Chain[Prev[b]]
<1>1. Prev[b] \in Blocks /\ ChainWork[Prev[b]] < ChainWork[b]
      /\ ChainWork[Prev[b]] \in Nat /\ ChainWork[b] \in Nat
  BY TreeAssumption
<1>2. Chain[b] \subseteq {b} \cup Chain[Prev[b]]
  <2>1. ClosedUnderPrev({b} \cup Chain[Prev[b]])
    BY <1>1, ChainSelf, ChainClosed DEF ClosedUnderPrev
  <2>2. {b} \cup Chain[Prev[b]] \in SUBSET Blocks
    BY <1>1, ChainClosed
  <2> QED BY <2>1, <2>2, ChainLeast
<1>3. {b} \cup Chain[Prev[b]] \subseteq Chain[b]
  <2>1. b \in Chain[b] /\ Chain[b] \in SUBSET Blocks /\ ClosedUnderPrev(Chain[b])
    BY ChainSelf, ChainClosed
  <2>2. Prev[b] \in Chain[b]
    BY <2>1 DEF ClosedUnderPrev
  <2> QED BY <1>1, <2>1, <2>2, ChainLeast
<1>4. b \notin Chain[Prev[b]]
  BY <1>1, ChainWorkBound
<1> QED BY <1>1, <1>2, <1>3, <1>4

\* The genesis block is a branch of its own.
LEMMA GenesisChain == Chain[GenesisBlock] = {GenesisBlock}
<1>1. GenesisBlock \in Blocks /\ ClosedUnderPrev({GenesisBlock})
  BY TreeAssumption DEF ClosedUnderPrev
<1> QED BY <1>1, ChainLeast, ChainSelf

\* The branch of a block on a branch is part of it.
LEMMA ChainSubset ==
  ASSUME NEW b \in Blocks, NEW a \in Chain[b]
  PROVE  a \in Blocks /\ Chain[a] \subseteq Chain[b]
<1>1. a \in Blocks /\ Chain[b] \in SUBSET Blocks /\ ClosedUnderPrev(Chain[b])
  BY ChainClosed
<1> QED BY <1>1, ChainLeast

\* A branch does not fork: of two blocks on it one is on the branch of the other.
LEMMA ChainLinear ==
  ASSUME NEW b \in Blocks, NEW a \in Chain[b], NEW c \in Chain[b]
  PROVE  a \in Chain[c] \/ c \in Chain[a]
<1> DEFINE S == {x \in Chain[b] : \A y \in Chain[b] : x \in Chain[y] \/ y \in Chain[x]}
<1>1. S \in SUBSET Blocks /\ b \in S
  BY ChainSelf, ChainClosed
<1>2. ASSUME NEW x \in S, x # GenesisBlock PROVE Prev[x] \in S
  <2>1. x \in Blocks \ {GenesisBlock} /\ Prev[x] \in Chain[b]
    BY <1>2, ChainClosed DEF ClosedUnderPrev
  <2> SUFFICES ASSUME NEW y \in Chain[b] PROVE Prev[x] \in Chain[y] \/ y \in Chain[Prev[x]]
    BY <2>1
  <2>2. y \in Blocks /\ Chain[x] = {x} \cup Chain[Prev[x]] /\ Prev[x] \in Blocks
    BY <2>1, ChainStep, ChainClosed
  <2>3. CASE x \in Chain[y]
    BY <1>2, <2>2, <2>3, ChainClosed DEF ClosedUnderPrev
  <2>4. CASE y \in Chain[x]
    BY <2>2, <2>4, ChainSelf
  <2> QED BY <2>3, <2>4
<1>3. ClosedUnderPrev(S)
  BY <1>2 DEF ClosedUnderPrev
<1> QED BY <1>1, <1>3, ChainLeast

\* So each block has at most one successor on a branch.
LEMMA ChainOneSuccessor ==
  ASSUME NEW b \in Blocks, NEW a \in Chain[b] \ {GenesisBlock},
         NEW c \in Chain[b] \ {GenesisBlock}, Prev[a] = Prev[c]
  PROVE  a = c
<1>1. a \in Blocks \ {GenesisBlock} /\ c \in Blocks \ {GenesisBlock}
  BY ChainClosed
<1>2. a \in Chain[c] \/ c \in Chain[a]
  BY ChainLinear
<1> QED BY <1>1, <1>2, ChainStep

\* A branch is finite: otherwise, of the blocks with an infinite branch, one has the
\* least work, and its parent's branch would be finite.
LEMMA ChainFinite ==
  ASSUME NEW b \in Blocks
  PROVE  IsFiniteSet(Chain[b])
<1> SUFFICES ASSUME ~IsFiniteSet(Chain[b]) PROVE FALSE
  OBVIOUS
<1> DEFINE T == {ChainWork[x] : x \in {y \in Blocks : ~IsFiniteSet(Chain[y])}}
<1>1. T \subseteq Nat /\ T # {}
  BY TreeAssumption
<1>2. PICK n \in T : \A m \in T : ~ (<<m, n>> \in OpToRel(<, Nat))
  <2> HIDE DEF T
  <2> QED BY <1>1, NatLessThanWellFounded, WFMin
<1>3. PICK x \in Blocks : n = ChainWork[x] /\ ~IsFiniteSet(Chain[x])
  BY <1>2
<1>4. x # GenesisBlock
  <2>1. IsFiniteSet({GenesisBlock})
    BY FS_Singleton
  <2> QED BY <1>3, <2>1, GenesisChain
<1>5. Prev[x] \in Blocks /\ Chain[x] = {x} \cup Chain[Prev[x]]
  BY <1>4, ChainStep
<1>6. ~IsFiniteSet(Chain[Prev[x]])
  <2>1. Chain[x] = Chain[Prev[x]] \cup {x}
    BY <1>5
  <2> QED BY <1>3, <2>1, FS_AddElement
<1>7. ChainWork[Prev[x]] < n /\ ChainWork[Prev[x]] \in Nat /\ n \in Nat
  BY <1>3, <1>4, TreeAssumption
<1>8. <<ChainWork[Prev[x]], n>> \in OpToRel(<, Nat)
  BY <1>7 DEF OpToRel
<1> QED BY <1>2, <1>5, <1>6, <1>8

\* Heights count the blocks below.
LEMMA HeightStep ==
  ASSUME NEW b \in Blocks
  PROVE  /\ Height[b] \in Nat
         /\ b # GenesisBlock => Height[b] = Height[Prev[b]] + 1 /\ Height[Prev[b]] \in Nat
<1>1. \A x \in Blocks : Height[x] \in Nat
  <2> SUFFICES ASSUME NEW x \in Blocks PROVE Height[x] \in Nat
    OBVIOUS
  <2>1. IsFiniteSet(Chain[x]) /\ Chain[x] # {}
    BY ChainFinite, ChainSelf
  <2>2. Cardinality(Chain[x]) \in Nat /\ Cardinality(Chain[x]) # 0
    BY <2>1, FS_CardinalityType, FS_EmptySet
  <2> QED BY <2>2 DEF Height
<1>2. ASSUME b # GenesisBlock PROVE Height[b] = Height[Prev[b]] + 1 /\ Height[Prev[b]] \in Nat
  <2>1. Prev[b] \in Blocks /\ Chain[b] = Chain[Prev[b]] \cup {b} /\ b \notin Chain[Prev[b]]
    BY <1>2, ChainStep
  <2>2. IsFiniteSet(Chain[Prev[b]])
    BY <2>1, ChainFinite
  <2>3. Cardinality(Chain[b]) = Cardinality(Chain[Prev[b]]) + 1
        /\ Cardinality(Chain[Prev[b]]) \in Nat
    BY <2>1, <2>2, FS_AddElement, FS_CardinalityType
  <2> QED BY <2>1, <2>3, <1>1 DEF Height
<1> QED BY <1>1, <1>2

\* Heights grow along a branch.
LEMMA HeightGrows ==
  ASSUME NEW b \in Blocks, NEW a \in Chain[b], a # b
  PROVE  Height[a] < Height[b]
<1> DEFINE S == {x \in Chain[b] : x = b \/ Height[x] < Height[b]}
<1>1. S \in SUBSET Blocks /\ b \in S
  BY ChainSelf, ChainClosed
<1>2. ASSUME NEW x \in S, x # GenesisBlock PROVE Prev[x] \in S
  <2>1. x \in Blocks /\ Prev[x] \in Chain[b]
    BY <1>2, ChainClosed DEF ClosedUnderPrev
  <2>2. Height[x] \in Nat /\ Height[b] \in Nat
        /\ Height[x] = Height[Prev[x]] + 1 /\ Height[Prev[x]] \in Nat
    BY <1>2, <2>1, HeightStep
  <2> QED BY <2>1, <2>2
<1>3. ClosedUnderPrev(S)
  BY <1>2 DEF ClosedUnderPrev
<1> QED BY <1>1, <1>3, ChainLeast

-----------------------------------------------------------------------------
(* Places on a branch.                                                     *)

\* What a place is.
LEMMA PlaceOf ==
  ASSUME NEW b \in Blocks, NEW p \in Places(b)
  PROVE  /\ p = <<p[1], p[2]>>
         /\ p[1] \in Chain[b] \ {GenesisBlock} /\ p[1] \in Blocks
         /\ p[2] \in DOMAIN Vtx[p[1]] /\ p[2] \in Nat \ {0} /\ p[2] <= Len(Vtx[p[1]])
         /\ TxAt(p) \in Txs
<1>1. PICK a \in Chain[b] \ {GenesisBlock} : p \in {<<a, i>> : i \in DOMAIN Vtx[a]}
  BY DEF Places
<1>2. PICK i \in DOMAIN Vtx[a] : p = <<a, i>>
  BY <1>1
<1>3. a \in Blocks /\ Vtx[a] \in Seq(Txs)
  BY ChainClosed, TxAssumption
<1>4. DOMAIN Vtx[a] = 1..Len(Vtx[a]) /\ Len(Vtx[a]) \in Nat /\ Vtx[a][i] \in Txs
  BY <1>3
<1> QED BY <1>1, <1>2, <1>3, <1>4 DEF TxAt

\* Each transaction of a block on a branch has a place there.
LEMMA IsPlace ==
  ASSUME NEW b \in Blocks, NEW a \in Chain[b] \ {GenesisBlock}, NEW i \in DOMAIN Vtx[a]
  PROVE  <<a, i>> \in Places(b)
BY DEF Places

\* A branch has the places of each branch on it.
LEMMA PlacesSubset ==
  ASSUME NEW b \in Blocks, NEW a \in Chain[b]
  PROVE  Places(a) \subseteq Places(b)
BY ChainSubset DEF Places

\* A branch has the places of its block and those of the parent's branch.
LEMMA PlacesStep ==
  ASSUME NEW b \in Blocks \ {GenesisBlock}
  PROVE  /\ Places(b) = Places(Prev[b]) \cup {<<b, i>> : i \in DOMAIN Vtx[b]}
         /\ \A p \in Places(Prev[b]) : p[1] # b
BY ChainStep DEF Places

\* The genesis block has none: its transactions are not in the index.
LEMMA GenesisPlaces == Places(GenesisBlock) = {}
BY GenesisChain DEF Places

\* Before orders the places of a branch.
LEMMA BeforeTotal ==
  ASSUME NEW b \in Blocks, NEW p \in Places(b), NEW q \in Places(b)
  PROVE  /\ p = q \/ Before(p, q) \/ Before(q, p)
         /\ ~(Before(p, q) /\ Before(q, p)) /\ ~Before(p, p)
<1>1. /\ p = <<p[1], p[2]>> /\ p[1] \in Chain[b] /\ p[1] \in Blocks /\ p[2] \in Nat
      /\ q = <<q[1], q[2]>> /\ q[1] \in Chain[b] /\ q[1] \in Blocks /\ q[2] \in Nat
  BY PlaceOf
<1>2. Height[p[1]] \in Nat /\ Height[q[1]] \in Nat
  BY <1>1, HeightStep
<1>3. p[1] = q[1] \/ Height[p[1]] < Height[q[1]] \/ Height[q[1]] < Height[p[1]]
  BY <1>1, ChainLinear, HeightGrows
<1>4. p[1] = q[1] /\ p[2] = q[2] => p = q
  BY <1>1
<1> QED BY <1>1, <1>2, <1>3, <1>4 DEF Before

\* Before is transitive on the places of a branch.
LEMMA BeforeTrans ==
  ASSUME NEW b \in Blocks, NEW p \in Places(b), NEW q \in Places(b), NEW r \in Places(b),
         Before(p, q), Before(q, r)
  PROVE  Before(p, r)
<1>1. /\ Height[p[1]] \in Nat /\ Height[q[1]] \in Nat /\ Height[r[1]] \in Nat
      /\ p[2] \in Nat /\ q[2] \in Nat /\ r[2] \in Nat
  BY PlaceOf, HeightStep
<1> QED BY <1>1 DEF Before

\* What is before a place of a block is on the branch of that block.
LEMMA BeforeIsBelow ==
  ASSUME NEW b \in Blocks, NEW p \in Places(b), NEW q \in Places(b), Before(q, p)
  PROVE  q \in Places(p[1])
<1>1. /\ p[1] \in Chain[b] /\ p[1] \in Blocks /\ q = <<q[1], q[2]>>
      /\ q[1] \in Chain[b] \ {GenesisBlock} /\ q[1] \in Blocks /\ q[2] \in DOMAIN Vtx[q[1]]
  BY PlaceOf
<1>2. Height[p[1]] \in Nat /\ Height[q[1]] \in Nat
  BY <1>1, HeightStep
<1>3. q[1] \in Chain[p[1]]
  <2>1. CASE q[1] = p[1]
    BY <1>1, <2>1, ChainSelf
  <2>2. CASE q[1] # p[1]
    <3>1. Height[q[1]] < Height[p[1]]
      BY <2>2 DEF Before
    <3>2. q[1] \in Chain[p[1]] \/ p[1] \in Chain[q[1]]
      BY <1>1, ChainLinear
    <3> QED BY <1>1, <1>2, <2>2, <3>1, <3>2, HeightGrows
  <2> QED BY <2>1, <2>2
<1> QED BY <1>1, <1>3, IsPlace

-----------------------------------------------------------------------------
(* Valid branches.                                                         *)

\* Whether a transaction is valid depends on what is below it alone.
LEMMA ValidTxLocal ==
  ASSUME NEW b \in Blocks, NEW p \in Places(b)
  PROVE  ValidTx(b, p) <=> ValidTx(p[1], p)
<1>1. p[1] \in Blocks /\ Places(p[1]) \subseteq Places(b)
  BY PlaceOf, PlacesSubset
<1>2. \A q \in Places(b) : Before(q, p) => q \in Places(p[1])
  BY BeforeIsBelow
<1>3. \A o : ValidInput(b, p, o) <=> ValidInput(p[1], p, o)
  BY <1>1, <1>2 DEF ValidInput
<1> QED BY <1>3 DEF ValidTx

\* So it is with whether a block is valid.
LEMMA ValidBlockLocal ==
  ASSUME NEW b \in Blocks, NEW a \in Chain[b] \ {GenesisBlock}
  PROVE  ValidBlockOn(b, a) <=> ValidBlockOn(a, a)
<1>1. \A i \in DOMAIN Vtx[a] : ValidTx(b, <<a, i>>) <=> ValidTx(a, <<a, i>>)
  <2> SUFFICES ASSUME NEW i \in DOMAIN Vtx[a]
               PROVE  ValidTx(b, <<a, i>>) <=> ValidTx(a, <<a, i>>)
    OBVIOUS
  <2>1. <<a, i>> \in Places(b) /\ <<a, i>>[1] = a
    BY IsPlace
  <2> QED BY <2>1, ValidTxLocal
<1> QED BY <1>1 DEF ValidBlockOn

\* A branch is valid when its last block is, on top of a valid branch.
LEMMA ValidBranchStep ==
  ASSUME NEW b \in Blocks \ {GenesisBlock}
  PROVE  b \in ValidBranches <=> Prev[b] \in ValidBranches /\ ValidBlockOn(b, b)
<1>1. Prev[b] \in Blocks /\ Chain[b] = {b} \cup Chain[Prev[b]]
  BY ChainStep
<1>2. \A a \in Chain[Prev[b]] \ {GenesisBlock} :
        ValidBlockOn(b, a) <=> ValidBlockOn(Prev[b], a)
  BY <1>1, ValidBlockLocal
<1> QED BY <1>1, <1>2 DEF ValidBranches

\* The branch of the genesis block is valid.
LEMMA ValidGenesis == GenesisBlock \in ValidBranches
BY GenesisChain, TreeAssumption DEF ValidBranches

\* The branch of every block on a valid branch is valid.
LEMMA ValidPrefix ==
  ASSUME NEW b \in ValidBranches, NEW a \in Chain[b]
  PROVE  a \in ValidBranches
<1>1. b \in Blocks /\ a \in Blocks /\ Chain[a] \subseteq Chain[b]
  BY ChainSubset DEF ValidBranches
<1>2. \A c \in Chain[a] \ {GenesisBlock} : ValidBlockOn(b, c) <=> ValidBlockOn(a, c)
  BY <1>1, ValidBlockLocal
<1> QED BY <1>1, <1>2 DEF ValidBranches

-----------------------------------------------------------------------------
(* Transactions of a branch that are valid, as far as it goes.             *)

\* Each transaction is in one place and each output is spent in one, after the place of
\* the transaction that it is an output of.
Consistent(P) ==
  /\ \A p, q \in P : TxAt(p) = TxAt(q) => p = q
  /\ \A p, q \in P : \A o \in Ins[TxAt(p)] \cap Ins[TxAt(q)] : p = q
  /\ \A p \in P : \A o \in Ins[TxAt(p)] :
       o \in OutPoints /\ \E q \in P : TxAt(q) = o[1] /\ Before(q, p)

\* P is a first part of the places of the branch of b.
FirstPart(P, b) ==
  P \subseteq Places(b) /\ \A p \in P : \A q \in Places(b) : Before(q, p) => q \in P

\* No transaction is twice on a branch: a coinbase is in one block only, and any other
\* would spend its own inputs again.
LEMMA ValidIsConsistent ==
  ASSUME NEW b \in Blocks, NEW P, FirstPart(P, b), \A p \in P : ValidTx(b, p)
  PROVE  Consistent(P)
<1> USE DEF FirstPart
<1>1. ASSUME NEW p \in P, NEW o \in Ins[TxAt(p)]
      PROVE  ValidInput(b, p, o)
  <2>1. TxAt(p) \in Txs
    BY PlaceOf
  <2> QED BY <1>1, <2>1, CoinbaseAssumption DEF ValidTx
<1>2. ASSUME NEW p \in P, NEW q \in P, NEW o \in Ins[TxAt(p)] \cap Ins[TxAt(q)]
      PROVE  p = q
  <2>1. ~Before(p, q) /\ ~Before(q, p)
    BY <1>1, <1>2 DEF ValidInput
  <2> QED BY <2>1, BeforeTotal
<1>3. ASSUME NEW p \in P, NEW q \in P, TxAt(p) = TxAt(q)
      PROVE  p = q
  <2>1. TxAt(p) \in Txs
    BY PlaceOf
  <2>2. CASE Ins[TxAt(p)] # {}
    BY <1>2, <1>3, <2>2
  <2>3. CASE Ins[TxAt(p)] = {}
    <3>1. TxAt(p) \in CoinBases /\ TxAt(q) \in CoinBases
      BY <1>3, <2>1, <2>3, CoinbaseAssumption
    <3>2. /\ p = <<p[1], p[2]>> /\ p[1] \in Blocks /\ p[2] \in DOMAIN Vtx[p[1]]
          /\ q = <<q[1], q[2]>> /\ q[1] \in Blocks /\ q[2] \in DOMAIN Vtx[q[1]]
      BY PlaceOf
    <3>3. p[2] = 1 /\ q[2] = 1
      BY <3>1, <3>2, CoinbaseAssumption DEF TxAt
    <3>4. p[1] = q[1]
      BY <1>3, <3>2, <3>3, CoinbaseAssumption DEF TxAt
    <3> QED BY <3>2, <3>3, <3>4
  <2> QED BY <2>2, <2>3
<1>4. ASSUME NEW p \in P, NEW o \in Ins[TxAt(p)]
      PROVE  o \in OutPoints /\ \E q \in P : TxAt(q) = o[1] /\ Before(q, p)
  BY <1>1 DEF ValidInput
<1> QED BY <1>2, <1>3, <1>4 DEF Consistent

\* On a valid branch every transaction is valid.
LEMMA ValidBranchTxs ==
  ASSUME NEW b \in ValidBranches, NEW p \in Places(b)
  PROVE  ValidTx(b, p)
<1>1. b \in Blocks
  BY DEF ValidBranches
<1>2. p = <<p[1], p[2]>> /\ p[1] \in Chain[b] \ {GenesisBlock} /\ p[2] \in DOMAIN Vtx[p[1]]
  BY <1>1, PlaceOf
<1>3. ValidBlockOn(b, p[1])
  BY <1>2 DEF ValidBranches
<1>4. ValidTx(b, <<p[1], p[2]>>)
  BY <1>2, <1>3 DEF ValidBlockOn
<1> QED BY <1>2, <1>4

\* So the places of a valid branch are consistent.
LEMMA BranchIsConsistent ==
  ASSUME NEW b \in ValidBranches
  PROVE  Consistent(Places(b))
<1>1. b \in Blocks /\ FirstPart(Places(b), b) /\ \A p \in Places(b) : ValidTx(b, p)
  BY ValidBranchTxs DEF ValidBranches, FirstPart
<1> QED BY <1>1, ValidIsConsistent

-----------------------------------------------------------------------------
(* The fees of a block, added up.                                          *)

\* A set of naturals has a least one.
LEMMA LeastNat ==
  ASSUME NEW T, T \subseteq Nat, T # {}
  PROVE  \E n \in T : \A m \in T : n <= m
<1>1. PICK n \in T : \A m \in T : ~ (<<m, n>> \in OpToRel(<, Nat))
  BY NatLessThanWellFounded, WFMin
<1>2. \A m \in T : m \in Nat /\ n \in Nat /\ (m < n => <<m, n>> \in OpToRel(<, Nat))
  BY DEF OpToRel
<1>3. \A m \in T : n <= m
  <2> SUFFICES ASSUME NEW m \in T PROVE n <= m
    OBVIOUS
  <2>1. m \in Nat /\ n \in Nat /\ ~(m < n)
    BY <1>1, <1>2
  <2> QED BY <2>1
<1> QED BY <1>3

\* The function that adds up g from its second value on exists: it is put together from
\* those that do it up to n, of which there is one for each n.
LEMMA SumExists ==
  ASSUME NEW g
  PROVE  \E f : f = [n \in Nat |-> IF n <= 1 THEN 0 ELSE f[n - 1] + g[n]]
<1> DEFINE UpTo(h, n) == h = [i \in 0..n |-> IF i <= 1 THEN 0 ELSE h[i - 1] + g[i]]
<1>1. \A n \in Nat : \E h : UpTo(h, n)
  <2> DEFINE T == {n \in Nat : ~ \E h : UpTo(h, n)}
  <2> SUFFICES ASSUME T # {} PROVE FALSE
    OBVIOUS
  <2>1. PICK n \in T : \A m \in T : n <= m
    <3> HIDE DEF UpTo
    <3> QED BY LeastNat
  <2>2. CASE n = 0
    <3> DEFINE zero == [i \in 0..0 |-> 0]
    <3>1. zero = [i \in 0..0 |-> IF i <= 1 THEN 0 ELSE zero[i - 1] + g[i]]
      <4>1. \A i \in 0..0 : i <= 1
        OBVIOUS
      <4> QED BY <4>1
    <3>2. UpTo(zero, 0)
      BY <3>1
    <3> HIDE DEF UpTo, zero
    <3>3. \E h : UpTo(h, n)
      BY <2>2, <3>2
    <3> QED BY <2>1, <3>3
  <2>3. CASE n # 0
    <3>1. n - 1 \in Nat /\ n - 1 \notin T
      <4>1. n \in Nat
        OBVIOUS
      <4> HIDE DEF T, UpTo
      <4> QED BY <2>1, <2>3, <4>1
    <3>2. PICK h : UpTo(h, n - 1)
      <4> HIDE DEF UpTo
      <4> QED BY <3>1
    <3> DEFINE k == [i \in 0..n |-> IF i <= n - 1 THEN h[i]
                                  ELSE IF n <= 1 THEN 0 ELSE h[n - 1] + g[n]]
    <3>3. ASSUME NEW i \in 0..n
          PROVE  k[i] = IF i <= 1 THEN 0 ELSE k[i - 1] + g[i]
      <4>1. CASE i <= n - 1
        <5>1. i \in 0..(n - 1) /\ k[i] = h[i] /\ n \in Nat
          BY <4>1, <3>1
        <5>2. h[i] = IF i <= 1 THEN 0 ELSE h[i - 1] + g[i]
          BY <5>1, <3>2
        <5>3. i > 1 => k[i - 1] = h[i - 1]
          BY <5>1, <4>1
        <5> QED BY <5>1, <5>2, <5>3
      <4>2. CASE i = n
        BY <4>2, <3>1
      <4> QED BY <4>1, <4>2, <3>1
    <3>4. UpTo(k, n)
      BY <3>3
    <3> QED BY <3>4
  <2> QED BY <2>2, <2>3
<1>2. ASSUME NEW n \in Nat, NEW m \in Nat, NEW h, NEW k, UpTo(h, n), UpTo(k, m)
      PROVE  \A i \in (0..n) \cap (0..m) : h[i] = k[i]
  <2> DEFINE T == {i \in (0..n) \cap (0..m) : h[i] # k[i]}
  <2> SUFFICES ASSUME T # {} PROVE FALSE
    OBVIOUS
  <2>1. PICK i \in T : \A j \in T : i <= j
    <3>1. T \subseteq Nat
      OBVIOUS
    <3> HIDE DEF T
    <3> QED BY <3>1, LeastNat
  <2>2. /\ h[i] = IF i <= 1 THEN 0 ELSE h[i - 1] + g[i]
        /\ k[i] = IF i <= 1 THEN 0 ELSE k[i - 1] + g[i]
    BY <1>2
  <2>3. i > 1 => i - 1 \in (0..n) \cap (0..m) /\ i - 1 \notin T
    BY <2>1
  <2> QED BY <2>2, <2>3
<1> DEFINE part == [n \in Nat |-> CHOOSE h : UpTo(h, n)]
           f == [n \in Nat |-> part[n][n]]
<1>3. \A n \in Nat : UpTo(part[n], n)
  <2> SUFFICES ASSUME NEW n \in Nat PROVE UpTo(part[n], n)
    OBVIOUS
  <2>1. \E h : UpTo(h, n)
    BY <1>1
  <2>2. part[n] = CHOOSE h : UpTo(h, n)
    OBVIOUS
  <2> HIDE DEF UpTo, part
  <2> QED BY <2>1, <2>2
<1>4. ASSUME NEW n \in Nat
      PROVE  f[n] = IF n <= 1 THEN 0 ELSE f[n - 1] + g[n]
  <2>1. UpTo(part[n], n)
    BY <1>3
  <2>2. part[n][n] = IF n <= 1 THEN 0 ELSE part[n][n - 1] + g[n]
    <3> HIDE DEF part
    <3> QED BY <2>1
  <2>3. ASSUME n > 1 PROVE part[n][n - 1] = part[n - 1][n - 1]
    <3>1. n - 1 \in Nat /\ n - 1 \in (0..n) \cap (0..(n - 1))
      BY <2>3
    <3>2. UpTo(part[n - 1], n - 1)
      BY <1>3, <3>1
    <3> HIDE DEF part, UpTo
    <3> QED BY <1>2, <2>1, <3>1, <3>2
  <2>4. f[n] = part[n][n] /\ (n > 1 => f[n - 1] = part[n - 1][n - 1])
    <3> HIDE DEF part
    <3> QED OBVIOUS
  <2> HIDE DEF part, f
  <2> QED BY <2>2, <2>3, <2>4
<1>5. f = [n \in Nat |-> IF n <= 1 THEN 0 ELSE f[n - 1] + g[n]]
  <2>1. f = [n \in Nat |-> f[n]]
    OBVIOUS
  <2> HIDE DEF f
  <2> QED BY <1>4, <2>1
<1> QED BY <1>5

\* The fees of a block's first transactions grow by those of the next one.
LEMMA FeesStep ==
  ASSUME NEW b \in Blocks, NEW n \in Nat
  PROVE  FeesUpTo(b)[n] =
           IF n <= 1 THEN 0
           ELSE FeesUpTo(b)[n - 1] + (GetValueIn(Vtx[b][n]) - GetValueOut(Vtx[b][n]))
<1> DEFINE g == [i \in Nat |-> GetValueIn(Vtx[b][i]) - GetValueOut(Vtx[b][i])]
           Is(f) == f = [i \in Nat |-> IF i <= 1 THEN 0 ELSE f[i - 1]
                           + (GetValueIn(Vtx[b][i]) - GetValueOut(Vtx[b][i]))]
<1>1. \E f : f = [i \in Nat |-> IF i <= 1 THEN 0 ELSE f[i - 1] + g[i]]
  <2> HIDE DEF g
  <2> QED BY SumExists
<1>2. \E f : Is(f)
  BY <1>1
<1>3. Is(FeesUpTo(b))
  <2>1. FeesUpTo(b) = CHOOSE f : Is(f)
    BY DEF FeesUpTo
  <2> HIDE DEF Is
  <2> QED BY <1>2, <2>1
<1> QED BY <1>3

-----------------------------------------------------------------------------
(* Sums over finite sets.                                                  *)

\* SumOf adds up by a recursive function on the subsets of its set.
Picked(s) == CHOOSE x \in s : TRUE
IsSum(f, g, D) == f = [s \in D |-> IF s = {} THEN 0 ELSE g[Picked(s)] + f[s \ {Picked(s)}]]

LEMMA SumMeans ==
  ASSUME NEW g, NEW S
  PROVE  SumOf(g, S) = (CHOOSE f : IsSum(f, g, SUBSET S))[S]
BY DEF SumOf, MapThenSumSet, MapThenFoldSet, IsSum, Picked

\* What is picked is taken out, and fewer are left.
LEMMA PickedStep ==
  ASSUME NEW s, IsFiniteSet(s), s # {}
  PROVE  /\ Picked(s) \in s /\ IsFiniteSet(s \ {Picked(s)})
         /\ Cardinality(s) \in Nat \ {0}
         /\ Cardinality(s \ {Picked(s)}) = Cardinality(s) - 1
<1>1. Picked(s) \in s
  BY DEF Picked
<1> QED BY <1>1, FS_RemoveElement, FS_CardinalityType, FS_EmptySet

\* There is such a function: those that do it for the subsets of at most n elements make
\* one that does it for n + 1.
LEMMA SetSumExists ==
  ASSUME NEW g, NEW S, IsFiniteSet(S)
  PROVE  \E f : IsSum(f, g, SUBSET S)
<1> DEFINE Small(n) == {s \in SUBSET S : Cardinality(s) <= n}
           T == {n \in Nat : ~ \E f : IsSum(f, g, Small(n))}
<1>1. \A s \in SUBSET S : IsFiniteSet(s) /\ Cardinality(s) \in Nat
  BY FS_Subset, FS_CardinalityType
<1>2. T = {}
  <2> SUFFICES ASSUME T # {} PROVE FALSE
    OBVIOUS
  <2>1. PICK n \in T : \A m \in T : n <= m
    <3>1. T \subseteq Nat
      OBVIOUS
    <3> HIDE DEF T
    <3> QED BY <3>1, LeastNat
  <2>2. n \in Nat /\ ~ \E f : IsSum(f, g, Small(n))
    OBVIOUS
  <2>3. CASE n = 0
    <3> DEFINE f == [s \in Small(0) |-> 0]
    <3>1. \A s \in Small(0) : s = {}
      <4> SUFFICES ASSUME NEW s \in Small(0) PROVE s = {}
        OBVIOUS
      <4>1. IsFiniteSet(s) /\ Cardinality(s) = 0
        BY <1>1
      <4> QED BY <4>1, FS_EmptySet
    <3>2. f = [s \in Small(0) |-> IF s = {} THEN 0 ELSE g[Picked(s)] + f[s \ {Picked(s)}]]
      <4> HIDE DEF Small
      <4> QED BY <3>1
    <3>3. IsSum(f, g, Small(0))
      BY <3>2 DEF IsSum
    <3> HIDE DEF f, Small
    <3> QED BY <2>2, <2>3, <3>3
  <2>4. CASE n # 0
    <3>1. n - 1 \in Nat /\ \E f : IsSum(f, g, Small(n - 1))
      <4>1. n - 1 \in Nat /\ n - 1 \notin T
        <5>1. n - 1 \in Nat /\ ~(n <= n - 1)
          BY <2>2, <2>4
        <5> HIDE DEF T
        <5> QED BY <2>1, <5>1
      <4> QED BY <4>1
    <3>2. PICK h : IsSum(h, g, Small(n - 1))
      BY <3>1
    <3> DEFINE f == [s \in Small(n) |-> IF s = {} THEN 0 ELSE g[Picked(s)] + h[s \ {Picked(s)}]]
    <3>3. ASSUME NEW s \in Small(n)
          PROVE  f[s] = IF s = {} THEN 0 ELSE g[Picked(s)] + f[s \ {Picked(s)}]
      <4>1. CASE s = {}
        BY <4>1
      <4>2. CASE s # {}
        <5> DEFINE r == s \ {Picked(s)}
        <5>1. IsFiniteSet(s) /\ Cardinality(s) <= n /\ s \in SUBSET S
          BY <1>1
        <5>2. /\ r \in SUBSET S /\ Cardinality(r) \in Nat
              /\ Cardinality(s) \in Nat \ {0} /\ Cardinality(r) = Cardinality(s) - 1
          BY <4>2, <5>1, <1>1, PickedStep
        <5>3. r \in Small(n) /\ r \in Small(n - 1)
          BY <5>1, <5>2, <2>2
        <5>4. h[r] = IF r = {} THEN 0 ELSE g[Picked(r)] + h[r \ {Picked(r)}]
          <6> HIDE DEF Small, r, f
          <6> QED BY <3>2, <5>3 DEF IsSum
        <5>5. f[r] = IF r = {} THEN 0 ELSE g[Picked(r)] + h[r \ {Picked(r)}]
          <6> HIDE DEF Small, r
          <6> QED BY <5>3
        <5>6. f[s] = g[Picked(s)] + h[r]
          <6> HIDE DEF Small
          <6> QED BY <4>2
        <5> HIDE DEF r, f, Small
        <5>7. f[r] = h[r]
          BY <5>4, <5>5
        <5>8. f[s] = g[Picked(s)] + f[r]
          BY <5>6, <5>7
        <5> QED BY <4>2, <5>8 DEF r
      <4> QED BY <4>1, <4>2
    <3>4. f = [s \in Small(n) |-> f[s]]
      BY DEF f
    <3>5. IsSum(f, g, Small(n))
      <4> HIDE DEF f, Small
      <4> QED BY <3>3, <3>4 DEF IsSum
    <3> HIDE DEF f, Small
    <3> QED BY <2>2, <3>5
  <2> QED BY <2>3, <2>4
<1>3. Cardinality(S) \in Nat /\ Small(Cardinality(S)) = SUBSET S
  <2>1. \A s \in SUBSET S : Cardinality(s) <= Cardinality(S)
    BY FS_Subset
  <2> QED BY <2>1, <1>1
<1>4. \E f : IsSum(f, g, Small(Cardinality(S)))
  <2>1. Cardinality(S) \notin T
    BY <1>2
  <2> HIDE DEF Small
  <2> QED BY <1>3, <2>1
<1> QED
  <2> HIDE DEF Small
  <2> QED BY <1>3, <1>4

\* Those for a set and for a subset of it agree on the subset.
LEMMA SetSumUnique ==
  ASSUME NEW g, NEW S, NEW R, IsFiniteSet(S), R \subseteq S
  PROVE  \A f, h : IsSum(f, g, SUBSET S) /\ IsSum(h, g, SUBSET R) => f[R] = h[R]
<1> SUFFICES ASSUME NEW f, IsSum(f, g, SUBSET S), NEW h, IsSum(h, g, SUBSET R)
             PROVE  f[R] = h[R]
  OBVIOUS
<1> DEFINE Bad == {n \in Nat : \E r \in SUBSET R : Cardinality(r) = n /\ f[r] # h[r]}
<1> SUFFICES ASSUME f[R] # h[R] PROVE FALSE
  OBVIOUS
<1>1. \A r \in SUBSET R : IsFiniteSet(r) /\ Cardinality(r) \in Nat
  <2> SUFFICES ASSUME NEW r \in SUBSET R PROVE IsFiniteSet(r) /\ Cardinality(r) \in Nat
    OBVIOUS
  <2>1. r \in SUBSET S
    OBVIOUS
  <2> QED BY <2>1, FS_Subset, FS_CardinalityType
<1>2. Bad \subseteq Nat /\ Cardinality(R) \in Bad
  BY <1>1
<1>3. PICK n \in Bad : \A m \in Bad : n <= m
  <2> HIDE DEF Bad
  <2> QED BY <1>2, LeastNat
<1>4. PICK r \in SUBSET R : Cardinality(r) = n /\ f[r] # h[r]
  OBVIOUS
<1>5. /\ f[r] = IF r = {} THEN 0 ELSE g[Picked(r)] + f[r \ {Picked(r)}]
      /\ h[r] = IF r = {} THEN 0 ELSE g[Picked(r)] + h[r \ {Picked(r)}]
  <2>1. r \in SUBSET S /\ r \in SUBSET R
    OBVIOUS
  <2> HIDE DEF Bad
  <2> QED BY <2>1 DEF IsSum
<1>6. CASE r = {}
  BY <1>4, <1>5, <1>6
<1>7. CASE r # {}
  <2> DEFINE q == r \ {Picked(r)}
  <2>1. q \in SUBSET R /\ Cardinality(q) = n - 1 /\ n \in Nat \ {0}
    BY <1>1, <1>4, <1>7, PickedStep
  <2>2. n - 1 \notin Bad
    <3>1. ~(n <= n - 1) /\ n - 1 \in Nat
      BY <2>1
    <3> HIDE DEF Bad
    <3> QED BY <1>3, <3>1
  <2>3. f[q] = h[q]
    BY <2>1, <2>2
  <2> QED BY <1>4, <1>5, <1>7, <2>3
<1> QED BY <1>6, <1>7

\* So a sum is that of one element and of the rest.
LEMMA SumPicked ==
  ASSUME NEW g, NEW S, IsFiniteSet(S)
  PROVE  SumOf(g, S) = IF S = {} THEN 0 ELSE g[Picked(S)] + SumOf(g, S \ {Picked(S)})
<1>1. PICK f : IsSum(f, g, SUBSET S) /\ SumOf(g, S) = f[S]
  BY SetSumExists, SumMeans
<1>2. PICK R : R = S \ {Picked(S)}
  OBVIOUS
<1>3. IsFiniteSet(R) /\ R \subseteq S
  BY <1>2, FS_RemoveElement
<1>4. PICK h : IsSum(h, g, SUBSET R) /\ SumOf(g, R) = h[R]
  BY <1>3, SetSumExists, SumMeans
<1>5. f[R] = h[R]
  <2>1. \A ff, hh : IsSum(ff, g, SUBSET S) /\ IsSum(hh, g, SUBSET R) => ff[R] = hh[R]
    BY <1>3, SetSumUnique
  <2> QED BY <1>1, <1>4, <2>1
<1>6. f[S] = IF S = {} THEN 0 ELSE g[Picked(S)] + f[R]
  BY <1>1, <1>2 DEF IsSum
<1> QED BY <1>1, <1>2, <1>4, <1>5, <1>6

\* A sum of naturals is a natural, and any of the elements can be the one.
LEMMA SumStep ==
  ASSUME NEW g, NEW S, IsFiniteSet(S), \A x \in S : g[x] \in Nat
  PROVE  /\ SumOf(g, S) \in Nat
         /\ \A x \in S : SumOf(g, S) = g[x] + SumOf(g, S \ {x})
<1> DEFINE Good(s) == /\ SumOf(g, s) \in Nat
                      /\ \A x \in s : SumOf(g, s) = g[x] + SumOf(g, s \ {x})
           Bad == {n \in Nat : \E s \in SUBSET S : Cardinality(s) = n /\ ~Good(s)}
<1>1. \A s \in SUBSET S : IsFiniteSet(s) /\ Cardinality(s) \in Nat
  BY FS_Subset, FS_CardinalityType
<1> SUFFICES ASSUME ~Good(S) PROVE FALSE
  OBVIOUS
<1>2. Bad \subseteq Nat /\ Cardinality(S) \in Bad
  <2> HIDE DEF Good
  <2> QED BY <1>1
<1>3. PICK n \in Bad : \A m \in Bad : n <= m
  <2> HIDE DEF Bad
  <2> QED BY <1>2, LeastNat
<1>4. PICK s \in SUBSET S : Cardinality(s) = n /\ ~Good(s)
  <2> HIDE DEF Good
  <2> QED OBVIOUS
<1>5. ASSUME NEW r \in SUBSET S, Cardinality(r) < n PROVE Good(r)
  <2>1. Cardinality(r) \in Nat /\ n \in Nat /\ ~(n <= Cardinality(r))
    BY <1>1, <1>5
  <2>2. Cardinality(r) \notin Bad
    <3> HIDE DEF Bad
    <3> QED BY <1>3, <2>1
  <2> HIDE DEF Good
  <2> QED BY <2>1, <2>2
<1>6. CASE s = {}
  <2>1. SumOf(g, s) = 0
    BY <1>1, <1>6, SumPicked
  <2> QED BY <1>4, <1>6, <2>1
<1>7. CASE s # {}
  <2> DEFINE c == Picked(s)
  <2>1. IsFiniteSet(s) /\ n = Cardinality(s) /\ n \in Nat \ {0} /\ c \in s
    BY <1>1, <1>4, <1>7, PickedStep
  <2>2. ASSUME NEW x \in s
        PROVE  /\ s \ {x} \in SUBSET S /\ IsFiniteSet(s \ {x}) /\ g[x] \in Nat
               /\ Cardinality(s \ {x}) = n - 1 /\ SumOf(g, s \ {x}) \in Nat
               /\ \A y \in s \ {x} : SumOf(g, s \ {x}) = g[y] + SumOf(g, (s \ {x}) \ {y})
    <3>1. s \ {x} \in SUBSET S /\ IsFiniteSet(s \ {x}) /\ Cardinality(s \ {x}) = n - 1
      BY <2>1, FS_RemoveElement
    <3>2. Good(s \ {x})
      <4>1. n - 1 < n
        BY <2>1
      <4> HIDE DEF Good
      <4> QED BY <1>5, <3>1, <4>1
    <3> QED BY <3>1, <3>2
  <2>3. SumOf(g, s) = g[c] + SumOf(g, s \ {c})
    BY <1>7, <2>1, SumPicked
  <2>4. ASSUME NEW x \in s PROVE SumOf(g, s) = g[x] + SumOf(g, s \ {x})
    <3>1. CASE x = c
      BY <2>3, <3>1
    <3>2. CASE x # c
      <4> HIDE DEF c
      <4> DEFINE r == s \ {c, x}
      <4>1. (s \ {c}) \ {x} = r /\ (s \ {x}) \ {c} = r /\ x \in s \ {c} /\ c \in s \ {x}
        BY <2>1, <3>2
      <4>2. SumOf(g, s \ {c}) = g[x] + SumOf(g, r) /\ SumOf(g, s \ {x}) = g[c] + SumOf(g, r)
        <5> HIDE DEF r, Good, Bad
        <5> QED BY ONLY <2>1, <2>2, <4>1
      <4>3. g[c] \in Nat /\ g[x] \in Nat /\ r \in SUBSET S /\ Cardinality(r) < n
        <5>1. Cardinality((s \ {c}) \ {x}) = Cardinality(s \ {c}) - 1
          BY <2>1, <2>2, <4>1, FS_RemoveElement
        <5>2. Cardinality(r) = n - 2
          <6>1. Cardinality(s \ {c}) = n - 1 /\ n \in Nat
            BY <2>1, <2>2
          <6>2. Cardinality(r) = (n - 1) - 1
            BY <4>1, <5>1, <6>1
          <6> HIDE DEF r
          <6> QED BY ONLY <6>1, <6>2
        <5>3. g[c] \in Nat /\ g[x] \in Nat /\ n \in Nat
          BY ONLY <2>1, <2>2, <3>2
        <5>4. r \in SUBSET S
          OBVIOUS
        <5> HIDE DEF r, Good, Bad
        <5> QED BY ONLY <5>2, <5>3, <5>4
      <4>4. SumOf(g, r) \in Nat
        BY <1>5, <4>3
      <4> HIDE DEF r
      <4> QED BY <2>3, <4>2, <4>3, <4>4
    <3> QED BY <3>1, <3>2
  <2>5. Good(s)
    <3>1. SumOf(g, s) \in Nat
      <4>1. g[c] \in Nat /\ SumOf(g, s \ {c}) \in Nat
        <5> HIDE DEF c, Good, Bad
        <5> QED BY ONLY <2>1, <2>2
      <4> HIDE DEF c, Good, Bad
      <4> QED BY ONLY <4>1, <2>3
    <3> QED BY <2>4, <3>1
  <2> HIDE DEF Good
  <2> QED BY <1>4, <2>5
<1> QED BY <1>6, <1>7

\* The same, of one element.
LEMMA SumTake ==
  ASSUME NEW g, NEW S, IsFiniteSet(S), \A y \in S : g[y] \in Nat, NEW x, x \in S
  PROVE  SumOf(g, S) = g[x] + SumOf(g, S \ {x})
BY SumStep

\* The sum over nothing.
LEMMA SumEmpty ==
  ASSUME NEW g
  PROVE  SumOf(g, {}) = 0
BY SumPicked, FS_EmptySet

\* The sum over two sets that have nothing in common.
LEMMA SumUnion ==
  ASSUME NEW g, NEW S, NEW T, IsFiniteSet(S), IsFiniteSet(T), S \cap T = {},
         \A x \in S \cup T : g[x] \in Nat
  PROVE  SumOf(g, S \cup T) = SumOf(g, S) + SumOf(g, T)
<1> DEFINE Good(t) == SumOf(g, S \cup t) = SumOf(g, S) + SumOf(g, t)
           Bad == {n \in Nat : \E t \in SUBSET T : Cardinality(t) = n /\ ~Good(t)}
<1>1. \A t \in SUBSET T : /\ IsFiniteSet(t) /\ Cardinality(t) \in Nat /\ IsFiniteSet(S \cup t)
                          /\ SumOf(g, t) \in Nat
  <2> SUFFICES ASSUME NEW t \in SUBSET T
               PROVE  /\ IsFiniteSet(t) /\ Cardinality(t) \in Nat /\ IsFiniteSet(S \cup t)
                      /\ SumOf(g, t) \in Nat
    OBVIOUS
  <2>1. IsFiniteSet(t) /\ Cardinality(t) \in Nat
    BY FS_Subset, FS_CardinalityType
  <2> QED BY <2>1, FS_Union, SumStep
<1> SUFFICES ASSUME ~Good(T) PROVE FALSE
  OBVIOUS
<1>2. Bad \subseteq Nat /\ Cardinality(T) \in Bad
  <2> HIDE DEF Good
  <2> QED BY <1>1
<1>3. PICK n \in Bad : \A m \in Bad : n <= m
  <2> HIDE DEF Bad
  <2> QED BY <1>2, LeastNat
<1>4. PICK t \in SUBSET T : Cardinality(t) = n /\ ~Good(t)
  <2> HIDE DEF Good
  <2> QED OBVIOUS
<1>5. SumOf(g, S) \in Nat
  BY SumStep
<1>6. CASE t = {}
  <2>1. S \cup t = S
    BY <1>6
  <2> QED BY <1>4, <1>5, <1>6, <2>1, SumEmpty
<1>7. CASE t # {}
  <2>1. PICK x : x \in t
    BY <1>7
  <2>2. /\ t \ {x} \in SUBSET T /\ Cardinality(t \ {x}) = n - 1 /\ n \in Nat \ {0}
        /\ g[x] \in Nat /\ x \in S \cup t
    BY <1>1, <1>4, <1>7, <2>1, FS_RemoveElement, FS_EmptySet
  <2>3. Good(t \ {x})
    <3>1. ~(n <= n - 1) /\ n - 1 \in Nat
      BY <2>2
    <3>2. n - 1 \notin Bad
      <4> HIDE DEF Bad
      <4> QED BY <1>3, <3>1
    <3> HIDE DEF Good
    <3> QED BY <2>2, <3>1, <3>2
  <2>4. (S \cup t) \ {x} = S \cup (t \ {x})
    BY <2>1
  <2>5. \A y \in S \cup t : g[y] \in Nat
    OBVIOUS
  <2>6. SumOf(g, S \cup t) = g[x] + SumOf(g, S \cup (t \ {x})) /\ SumOf(g, t) = g[x] + SumOf(g, t \ {x})
    <3>1. /\ IsFiniteSet(S \cup t) /\ \A y \in S \cup t : g[y] \in Nat
          /\ IsFiniteSet(t) /\ x \in S \cup t /\ x \in t /\ \A y \in t : g[y] \in Nat
      BY <1>1, <2>1, <2>2, <2>5
    <3> DEFINE u == S \cup t
    <3>2. IsFiniteSet(u) /\ (\A y \in u : g[y] \in Nat) /\ x \in u
      BY <3>1
    <3>3. u \ {x} = S \cup (t \ {x})
      BY <2>4
    <3> HIDE DEF u
    <3>4. SumOf(g, u) = g[x] + SumOf(g, u \ {x})
      BY ONLY <3>2, SumTake
    <3>5. SumOf(g, t) = g[x] + SumOf(g, t \ {x})
      BY ONLY <3>1, SumTake
    <3>6. SumOf(g, u) = g[x] + SumOf(g, S \cup (t \ {x}))
      BY <3>3, <3>4
    <3> QED BY <3>5, <3>6 DEF u
  <2>7. SumOf(g, t \ {x}) \in Nat
    BY <1>1, <2>2
  <2> QED BY <1>4, <1>5, <2>2, <2>3, <2>6, <2>7
<1> QED BY <1>6, <1>7

\* The sum over what a subset leaves.
LEMMA SumWithout ==
  ASSUME NEW g, NEW S, NEW T \in SUBSET S, IsFiniteSet(S), \A x \in S : g[x] \in Nat
  PROVE  SumOf(g, S) = SumOf(g, S \ T) + SumOf(g, T)
<1>1. IsFiniteSet(T) /\ IsFiniteSet(S \ T) /\ S = (S \ T) \cup T /\ (S \ T) \cap T = {}
  BY FS_Subset, FS_Difference
<1> DEFINE R == S \ T
<1>2. \A x \in R \cup T : g[x] \in Nat
  OBVIOUS
<1> HIDE DEF R
<1>3. SumOf(g, R \cup T) = SumOf(g, R) + SumOf(g, T)
  BY <1>1, <1>2, SumUnion DEF R
<1> QED BY <1>1, <1>3 DEF R

-----------------------------------------------------------------------------
(* The theorems about ChainState that need no more than where SetBestChain *)
(* stands.                                                                 *)

\* The end of a log.
LEMMA LastOfLog ==
  ASSUME NEW S, NEW s \in Seq(S), s # <<>>
  PROVE  /\ Len(s) \in DOMAIN s
         /\ Last(s) \in S
         /\ Len(s) \in Nat \ {0}
BY EmptySeq, LenProperties, ElementOfSeq DEF Last

\* A commit adds one state at the end of the log and may drop the oldest one.
LEMMA CommittedLog ==
  ASSUME log \in Seq(Database), log # <<>>, NEW d \in Database
  PROVE  /\ Committed(d) \in Seq(Database)
         /\ Committed(d) # <<>>
         /\ Last(Committed(d)) = d
         /\ \A n \in DOMAIN Committed(d) :
              Committed(d)[n] = d \/ \E m \in DOMAIN log : Committed(d)[n] = log[m]
<1> DEFINE kept == IF Len(log) > MaxUnsynced THEN Tail(log) ELSE log
<1>1. kept \in Seq(Database)
  BY HeadTailProperties
<1>2. \A n \in DOMAIN kept : \E m \in DOMAIN log : kept[n] = log[m]
  <2> SUFFICES ASSUME NEW n \in DOMAIN kept PROVE \E m \in DOMAIN log : kept[n] = log[m]
    OBVIOUS
  <2>1. CASE Len(log) > MaxUnsynced
    <3>1. Len(log) \in Nat \ {0} /\ DOMAIN log = 1..Len(log)
      BY LastOfLog, LenProperties
    <3>2. DOMAIN kept = 1..(Len(log) - 1) /\ kept[n] = log[n + 1]
      BY <2>1, <3>1, HeadTailProperties
    <3> QED BY <3>1, <3>2
  <2>2. CASE ~(Len(log) > MaxUnsynced)
    BY <2>2
  <2> QED BY <2>1, <2>2
<1>3. /\ Append(kept, d) \in Seq(Database)
      /\ Append(kept, d) # <<>>
      /\ Len(Append(kept, d)) = Len(kept) + 1
      /\ Append(kept, d)[Len(kept) + 1] = d
      /\ \A n \in 1..Len(kept) : Append(kept, d)[n] = kept[n]
      /\ DOMAIN kept = 1..Len(kept) /\ DOMAIN Append(kept, d) = 1..(Len(kept) + 1)
      /\ Len(kept) \in Nat
  <2> HIDE DEF kept
  <2> QED BY <1>1, AppendProperties, LenProperties, EmptySeq
<1> HIDE DEF kept
<1>4. \A n \in 1..(Len(kept) + 1) : n \in 1..Len(kept) \/ n = Len(kept) + 1
  BY <1>3
<1> QED BY <1>2, <1>3, <1>4 DEF Committed, Last, kept

-----------------------------------------------------------------------------
(* The operators on the database and the node's memory keep their types.   *)

\* Each update of the transaction database gives a database.
LEMMA IndexUpdate ==
  ASSUME NEW d \in Database, NEW b \in Blocks
  PROVE  /\ [d EXCEPT !.index = @ \cup {b}, !.hashNext[b] = NoBlock] \in Database
         /\ [d EXCEPT !.index = @ \cup {b}, !.hashNext[b] = NoBlock].index = d.index \cup {b}
BY DEF Database

\* A link that is set changes the one block, and keeps the type.
LEMMA NextUpdate ==
  ASSUME NEW d \in Database, NEW b \in Blocks, NEW c \in Blocks \cup {NoBlock}
  PROVE  /\ [d EXCEPT !.hashNext[b] = c] \in Database
         /\ [d EXCEPT !.hashNext[b] = c].index = d.index
BY DEF Database

\* So does a new best block of the database.
LEMMA BestUpdate ==
  ASSUME NEW d \in Database, NEW b \in Blocks
  PROVE  /\ [d EXCEPT !.hashBestChain = b] \in Database
         /\ [d EXCEPT !.hashBestChain = b].index = d.index
BY DEF Database

\* So does the work of the best invalid branch.
LEMMA InvalidWorkUpdate ==
  ASSUME NEW d \in Database, NEW w \in Nat
  PROVE  /\ [d EXCEPT !.bnBestInvalidWork = w] \in Database
         /\ [d EXCEPT !.bnBestInvalidWork = w].index = d.index
BY DEF Database

\* ConnectInputs and DisconnectInputs keep the type of the database.
LEMMA InputUpdates ==
  ASSUME db \in Database, NEW t \in Txs, NEW b \in Blocks
  PROVE  /\ ConnectInputs(t, b) \in Database
         /\ DisconnectInputs(t) \in Database
<1> DEFINE connected == [o \in OutPoints |-> IF o \in Ins[t] THEN t
                                             ELSE IF o[1] = t THEN NoTx
                                             ELSE db.spent[o]]
           disconnected == [o \in OutPoints |-> IF o \in Ins[t] \/ o[1] = t THEN NoTx
                                                ELSE db.spent[o]]
<1>1. connected \in [OutPoints -> Txs \cup {NoTx}]
      /\ disconnected \in [OutPoints -> Txs \cup {NoTx}]
  BY DEF Database
<1>2. \A e \in [OutPoints -> Txs \cup {NoTx}], c \in Blocks \cup {NoBlock} :
        [db EXCEPT !.pos[t] = c, !.spent = e] \in Database
  BY DEF Database
<1> HIDE DEF connected, disconnected
<1>3. [db EXCEPT !.pos[t] = b, !.spent = connected] \in Database
      /\ [db EXCEPT !.pos[t] = NoBlock, !.spent = disconnected] \in Database
  BY <1>1, <1>2
<1> QED BY <1>3 DEF connected, disconnected, ConnectInputs, DisconnectInputs

\* The genesis block's record stays in every update.
LEMMA UpdatesKeepIndex ==
  ASSUME db \in Database, NEW t \in Txs, NEW b \in Blocks
  PROVE  /\ ConnectInputs(t, b).index = db.index
         /\ DisconnectInputs(t).index = db.index
BY DEF Database, ConnectInputs, DisconnectInputs

\* While it connects, Reorganize has a next block, on the new branch.
LEMMA NextBlock ==
  ASSUME pindexNew \in Blocks, pindex \in Chain[pindexNew] \ {pindexNew}
  PROVE  /\ NextToConnect \in Chain[pindexNew] \ {GenesisBlock}
         /\ NextToConnect \in Blocks
         /\ Prev[NextToConnect] = pindex
<1>1. \E c \in Chain[pindexNew] \ {GenesisBlock} : Prev[c] = pindex
  BY ChainSuccessor
<1> QED BY <1>1, ChainClosed DEF NextToConnect

-----------------------------------------------------------------------------
(* The position of the handler.                                            *)

\* The invariant holds when the node starts with the genesis block.
LEMMA PositionInit == Init => PositionInv
<1> SUFFICES ASSUME Init PROVE PositionInv
  OBVIOUS
<1>1. GenesisDatabase \in Database
  BY TreeAssumption DEF GenesisDatabase, Database
<1>2. log \in Seq(Database) /\ log # <<>> /\ DOMAIN log = {1} /\ log[1] = GenesisDatabase
  BY <1>1 DEF Init
<1>3. TypeOK
  BY <1>1, <1>2, TreeAssumption, BoundAssumption DEF Init, TypeOK, Points
<1>4. CandidateIsBetter /\ LoopsOnBranches
  BY <1>2 DEF Init, CandidateIsBetter, LoopsOnBranches, Activating, GenesisDatabase
<1> QED BY <1>3, <1>4 DEF PositionInv

\* Every step preserves it.
LEMMA PositionStep == PositionInv /\ [Next]_vars => PositionInv'
<1> SUFFICES ASSUME PositionInv, [Next]_vars PROVE PositionInv'
  OBVIOUS
<1> USE DEF PositionInv, CandidateIsBetter, LoopsOnBranches, Activating, TypeOK, Points
<1> USE TreeAssumption
<1>1. CASE UNCHANGED vars
  BY <1>1 DEF vars, memory, pool, disk, locals
<1>2. CASE \E b \in Blocks : ReceiveBlock(b)
  BY <1>2, SMTT(120)
     DEF ReceiveBlock, DropBlock, HoldOrphanBlock, ProcessBlock, vars, memory, pool, disk, locals
<1>3. CASE \E t \in Txs : AcceptToMemoryPool(t)
  BY <1>3, SMTT(30) DEF AcceptToMemoryPool, AddToMemoryPoolUnchecked, memory, pool, disk, locals
<1>4. CASE RejectBlock
  BY <1>4, SMTT(30), AppendProperties DEF RejectBlock, AcceptReturns, memory, pool, disk, locals
<1>5. CASE AddToBlockIndex
  <2> USE <1>5 DEF AddToBlockIndex
  <2>1. pindexNew # GenesisBlock
    OBVIOUS
  <2>2. db' \in Database /\ GenesisBlock \in db'.index
    BY ZenonT(60), IndexUpdate
  <2>3. /\ log' \in Seq(Database) /\ log' # <<>>
        /\ \A n \in DOMAIN log' : GenesisBlock \in log'[n].index
    <3>1. log' = Committed(db') /\ \A n \in DOMAIN log : GenesisBlock \in log[n].index
      OBVIOUS
    <3>2. log \in Seq(Database) /\ log # <<>> /\ db' \in Database /\ GenesisBlock \in db'.index
      BY <2>2
    <3>3. /\ log' \in Seq(Database) /\ log' # <<>>
          /\ \A n \in DOMAIN log' : log'[n] = db' \/ \E m \in DOMAIN log : log'[n] = log[m]
      BY ONLY <3>1, <3>2, CommittedLog
    <3> QED BY ONLY <3>1, <3>2, <3>3
  <2>4. CASE IsCandidate(pindexNew)
    BY <2>1, <2>2, <2>3, <2>4 DEF IsCandidate, pool
  <2>5. CASE ~IsCandidate(pindexNew)
    <3>1. AcceptReturns(TRUE)
      BY <2>5
    <3>2. vWorkQueue' \in Seq(Blocks) /\ vWorkQueue' # <<>>
      BY <3>1, AppendProperties DEF AcceptReturns
    <3> QED BY <2>2, <2>3, <3>1, <3>2 DEF AcceptReturns, pool
  <2> QED BY <2>4, <2>5
<1>6. CASE ExtendBestChain
  BY <1>6, ChainSelf, ChainClosed DEF ExtendBestChain, ClosedUnderPrev, memory, pool, disk, locals
<1>7. CASE StartReorganize
  BY <1>7, ChainSelf, TxAssumption, LenProperties DEF StartReorganize, memory, pool, disk, locals
<1>8. CASE DisconnectTx
  <2> USE <1>8 DEF DisconnectTx
  <2>1. DisconnectsNext \in Txs
    BY TxAssumption, ElementOfSeq, LenProperties DEF DisconnectsNext
  <2>2. db' \in Database /\ db'.index = db.index
    BY <2>1, InputUpdates, UpdatesKeepIndex
  <2>3. nTx' \in Nat /\ nTx' <= Len(Vtx[pindex]) /\ Len(Vtx[pindex]) \in Nat
    BY TxAssumption, LenProperties
  <2> QED BY <2>2, <2>3 DEF memory, pool
<1>9. CASE DisconnectBlock
  <2> USE <1>9 DEF DisconnectBlock
  <2>1. Prev[pindex] \in Blocks /\ db' \in Database /\ db'.index = db.index
    BY NextUpdate
  <2>2. vResurrect' \in Seq(Txs)
    BY TxAssumption, CoinbaseAssumption, HeadTailProperties, ConcatProperties
  <2>3. pindex # GenesisBlock /\ Prev[pindex] \in Chain[pindexBest]
    BY ChainGenesis, ChainClosed DEF Disconnected, ClosedUnderPrev
  <2>4. nTx' \in Nat /\ nTx' <= Len(Vtx[pindex'])
    BY <2>1, TxAssumption, LenProperties
  <2> QED BY <2>1, <2>2, <2>3, <2>4 DEF memory, pool
<1>10. CASE ReachFork
  <2> USE <1>10 DEF ReachFork
  <2>1. pindex \in Chain[pindexNew]
    BY DEF Disconnected
  <2>2. pindex # pindexNew
    BY ChainWorkBound
  <2> QED BY <2>1, <2>2, SMTT(30) DEF memory, pool, disk
<1>11. CASE ConnectTx
  <2> USE <1>11 DEF ConnectTx
  <2>1. NextToConnect \in Blocks
    BY NextBlock
  <2> DEFINE t == Vtx[NextToConnect][nTx + 1]
  <2>2. t \in Txs
    BY <2>1, SMTT(30), TxAssumption, ElementOfSeq, LenProperties
  <2>3. db' \in Database /\ db'.index = db.index
    BY <2>1, <2>2, SMTT(30), InputUpdates, UpdatesKeepIndex
  <2>4. nFees' \in Nat
    BY TxAssumption DEF BlockConnects, TxConnects, MoneyRange
  <2> QED BY SMTT(30), <2>3, <2>4 DEF memory, pool
<1>12. CASE ConnectBlock
  <2> USE <1>12 DEF ConnectBlock
  <2>1. NextToConnect \in Chain[pindexNew] /\ NextToConnect \in Blocks
    BY NextBlock
  <2>2. db' \in Database /\ db'.index = db.index
    BY <2>1, NextUpdate
  <2>3. vDelete' \in Seq(Txs)
    BY <2>1, TxAssumption, ConcatProperties DEF DeletedWith
  <2> QED BY <2>1, <2>2, <2>3 DEF memory, pool
<1>13. CASE CommitBestChain
  <2> USE <1>13 DEF CommitBestChain
  <2>1. db' \in Database /\ db'.index = db.index
    BY BestUpdate
  <2>2. /\ log' \in Seq(Database) /\ log' # <<>>
        /\ \A n \in DOMAIN log' : GenesisBlock \in log'[n].index
    <3>1. log' = Committed(db') /\ \A n \in DOMAIN log : GenesisBlock \in log[n].index
      OBVIOUS
    <3>2. log \in Seq(Database) /\ log # <<>> /\ db' \in Database /\ GenesisBlock \in db'.index
      BY <2>1
    <3>3. /\ log' \in Seq(Database) /\ log' # <<>>
          /\ \A n \in DOMAIN log' : log'[n] = db' \/ \E m \in DOMAIN log : log'[n] = log[m]
      BY ONLY <3>1, <3>2, CommittedLog
    <3> QED BY ONLY <3>1, <3>2, <3>3
  <2>3. \A b \in Blocks : Link(b) \in Blocks \cup {NoBlock}
    <3> SUFFICES ASSUME NEW b \in Blocks PROVE Link(b) \in Blocks \cup {NoBlock}
      OBVIOUS
    <3>1. \A c \in Connected : c \in Blocks
      BY ChainClosed DEF Connected
    <3> QED BY <3>1 DEF Link
  <2> QED BY <2>1, <2>2, <2>3 DEF pool, locals
<1>14. CASE AbortBestChain
  <2> USE <1>14 DEF AbortBestChain
  <2>1. Last(log) \in Database /\ GenesisBlock \in Last(log).index
    BY LastOfLog DEF Last
  <2>2. /\ bnBestInvalidWork' \in Nat
        /\ db' \in Database /\ db'.index = Last(log).index
        /\ log' \in Seq(Database) /\ log' # <<>>
        /\ \A n \in DOMAIN log' : GenesisBlock \in log'[n].index
    <3>1. CASE ChainWork[pindexNew] > bnBestInvalidWork
      <4>1. /\ db' = [Last(log) EXCEPT !.bnBestInvalidWork = ChainWork[pindexNew]]
            /\ bnBestInvalidWork' = ChainWork[pindexNew]
            /\ log' = <<db'>>
        BY <3>1 DEF InvalidChainFound
      <4>2. ChainWork[pindexNew] \in Nat
        OBVIOUS
      <4>3. db' \in Database /\ db'.index = Last(log).index
        BY ONLY <2>1, <4>1, <4>2, InvalidWorkUpdate
      <4>4. /\ log' \in Seq(Database) /\ log' # <<>>
            /\ \A n \in DOMAIN log' : log'[n] = db'
        BY ONLY <4>1, <4>3
      <4> QED BY ONLY <2>1, <4>1, <4>2, <4>3, <4>4
    <3>2. CASE ~(ChainWork[pindexNew] > bnBestInvalidWork)
      BY <2>1, <3>2 DEF InvalidChainFound
    <3> QED BY <3>1, <3>2
  <2>3. /\ AcceptReturns(FALSE)
        /\ pindex' = pindexBest /\ nTx' = 0 /\ nFees' = 0
        /\ vResurrect' = <<>> /\ vDelete' = <<>>
        /\ UNCHANGED <<mapBlockIndex, pnext, pindexBest, pool, crashes>>
    BY ZenonT(60)
  <2>4. pc' = IF vWorkQueue # <<>> THEN "queue" ELSE "idle"
    BY <2>3, SMTT(30) DEF AcceptReturns
  <2> QED BY SMTT(30), <2>1, <2>2, <2>3, <2>4 DEF AcceptReturns, pool
<1>15. CASE ResurrectTx
  <2> USE <1>15 DEF ResurrectTx
  <2>1. vResurrect' \in Seq(Txs) /\ Head(vResurrect) \in Txs
    BY HeadTailProperties
  <2>2. /\ mapTransactions' \subseteq Txs
        /\ mapNextTx' \in [PrevOuts -> Txs \cup {NoTx}]
    BY ZenonT(60), <2>1 DEF AddToMemoryPoolUnchecked, pool
  <2> QED BY <2>1, <2>2 DEF memory, disk
<1>16. CASE StartDelete
  BY <1>16 DEF StartDelete, memory, pool, disk, locals
<1>17. CASE DeleteTx
  <2> USE <1>17 DEF DeleteTx
  <2>1. vDelete' \in Seq(Txs) /\ Head(vDelete) \in Txs
    BY HeadTailProperties
  <2>2. /\ mapTransactions' \subseteq Txs
        /\ mapNextTx' \in [PrevOuts -> Txs \cup {NoTx}]
    BY <2>1 DEF RemoveFromMemoryPool
  <2> QED BY <2>1, <2>2 DEF memory, disk
<1>18. CASE SetBestChain
  <2> USE <1>18 DEF SetBestChain
  <2>1. AcceptReturns(TRUE)
    OBVIOUS
  <2>2. vWorkQueue' = Append(vWorkQueue, pindexNew) /\ pc' = "queue"
    BY <2>1 DEF AcceptReturns
  <2>3. vWorkQueue' \in Seq(Blocks) /\ vWorkQueue' # <<>>
    BY <2>2, AppendProperties
  <2> QED BY <2>1, <2>2, <2>3 DEF AcceptReturns, pool, disk
<1>19. CASE \E b \in Blocks : AcceptOrphan(b)
  BY <1>19 DEF AcceptOrphan, memory, pool, disk, locals
<1>20. CASE NextInQueue
  BY <1>20, HeadTailProperties DEF NextInQueue, memory, pool, disk, locals
<1>21. CASE \E n \in 1..Len(log) : CrashAndRestart(n)
  <2> SUFFICES ASSUME NEW n \in 1..Len(log), CrashAndRestart(n) PROVE PositionInv'
    BY <1>21
  <2> USE DEF CrashAndRestart
  <2>1. n \in DOMAIN log /\ log[n] \in Database
    BY LenProperties, ElementOfSeq
  <2>2. /\ log' \in Seq(Database) /\ log' # <<>>
        /\ \A m \in DOMAIN log' : log'[m] = log[n]
    BY <2>1
  <2>3. mapBlockIndex' \subseteq Blocks
    <3>1. /\ log[n].index \subseteq Blocks
          /\ \A b \in log[n].index : log[n].hashNext[b] \in Blocks \cup {NoBlock}
      BY <2>1 DEF Database
    <3>2. mapBlockIndex' = log[n].index
                             \cup {Prev[b] : b \in log[n].index \ {GenesisBlock}}
                             \cup ({log[n].hashNext[b] : b \in log[n].index} \ {NoBlock})
      OBVIOUS
    <3>3. \A b \in log[n].index : Prev[b] \in Blocks
      BY <3>1
    <3> QED BY ONLY <3>1, <3>2, <3>3
  <2>4. pnext' \in [Blocks -> Blocks \cup {NoBlock}]
    BY <2>1 DEF Database
  <2>5. crashes' \in 0..MaxCrashes
    <3>1. crashes < MaxCrashes /\ crashes' = crashes + 1 /\ crashes \in 0..MaxCrashes
      BY SMTT(30)
    <3> QED BY ONLY <3>1, BoundAssumption
  <2>6. pindexBest' \in Blocks /\ bnBestInvalidWork' \in Nat
    BY <2>1 DEF Database
  <2> QED BY SMTT(30), <2>1, <2>2, <2>3, <2>4, <2>5, <2>6
<1> QED
  BY <1>1, <1>2, <1>3, <1>4, <1>5, <1>6, <1>7, <1>8, <1>9, <1>10, <1>11, <1>12, <1>13,
     <1>14, <1>15, <1>16, <1>17, <1>18, <1>19, <1>20, <1>21 DEF Next, HandlerStep

\* The handler never indexes a vector outside of its bounds, follows a NULL pprev, or
\* reads an empty queue, and every variable keeps its type.
THEOREM PositionCorrect == Spec => []PositionInv
<1>1. PositionInv /\ [Next]_vars => PositionInv'
  BY PositionStep
<1> QED BY PositionInit, <1>1, PTL DEF Spec

\* Every variable of ChainState keeps its type.
THEOREM TypeCorrect == Spec => []TypeOK
<1>1. PositionInv => TypeOK
  BY DEF PositionInv
<1> QED BY <1>1, PositionCorrect, PTL

-----------------------------------------------------------------------------
(* The best block.                                                         *)

\* The only step of a running node that sets pindexBest is the end of SetBestChain, and
\* the candidate was better when it was chosen, from a block that is still the best one.
LEMMA BestImproves ==
  ASSUME PositionInv, Next, crashes' = crashes, pindexBest' # pindexBest
  PROVE  ChainWork[pindexBest'] > ChainWork[pindexBest]
<1>1. CASE SetBestChain
  BY <1>1 DEF SetBestChain, PositionInv, CandidateIsBetter, Activating
<1>2. CASE \E n \in 1..Len(log) : CrashAndRestart(n)
  BY <1>2 DEF CrashAndRestart, PositionInv, TypeOK
<1>3. CASE (\E b \in Blocks : ReceiveBlock(b)) \/ (\E t \in Txs : AcceptToMemoryPool(t))
  BY <1>3 DEF ReceiveBlock, DropBlock, HoldOrphanBlock, ProcessBlock, AcceptToMemoryPool,
              vars, memory
<1>4. CASE HandlerStep /\ ~SetBestChain
  BY <1>4 DEF HandlerStep, RejectBlock, AddToBlockIndex, ExtendBestChain, StartReorganize,
              DisconnectTx, DisconnectBlock, ReachFork, ConnectTx, ConnectBlock,
              CommitBestChain, AbortBestChain, ResurrectTx, StartDelete, DeleteTx,
              AcceptOrphan, NextInQueue, memory
<1> QED BY <1>1, <1>2, <1>3, <1>4 DEF Next

\* A running node moves its best block only to one with strictly more work.
THEOREM BestOnlyImproves == Spec => BestWorkGrows
<1>1. PositionInv /\ [Next]_vars =>
        [crashes' = crashes /\ pindexBest' # pindexBest
           => ChainWork[pindexBest'] > ChainWork[pindexBest]]_vars
  BY BestImproves DEF vars, memory
<1> QED BY <1>1, PositionCorrect, PTL DEF Spec, BestWorkGrows

-----------------------------------------------------------------------------
(* The memory pool.                                                        *)

\* Adding a transaction makes the pool's entries its own for the outpoints it spends.
LEMMA AddKeepsNextTxSound ==
  ASSUME NextTxSound, NEW t \in Txs, NoTx \notin Txs, AddToMemoryPoolUnchecked(t)
  PROVE  NextTxSound'
BY DEF NextTxSound, AddToMemoryPoolUnchecked

\* Removing one erases every entry that points to it, since an entry that points to a
\* transaction is for one of its inputs.
LEMMA RemoveKeepsNextTxSound ==
  ASSUME NextTxSound, NEW t \in Txs, RemoveFromMemoryPool(t)
  PROVE  NextTxSound'
BY DEF NextTxSound, RemoveFromMemoryPool

\* mapNextTx never holds a pointer to a transaction that has left mapTransactions, in
\* spite of conflicts between the pool and the chain, reorganizations and restarts.
THEOREM NextTxCorrect == Spec => []NextTxSound
<1>1. Init => NextTxSound
  BY DEF Init, NextTxSound
<1>2. PositionInv /\ NextTxSound /\ [Next]_vars => NextTxSound'
  <2> SUFFICES ASSUME PositionInv, NextTxSound, [Next]_vars PROVE NextTxSound'
    OBVIOUS
  <2>1. CASE UNCHANGED pool
    BY <2>1 DEF pool, NextTxSound
  <2>2. CASE \E t \in Txs : AcceptToMemoryPool(t)
    BY <2>2, AddKeepsNextTxSound, TxAssumption DEF AcceptToMemoryPool
  <2>3. CASE ResurrectTx
    <3>1. Head(vResurrect) \in Txs
      BY <2>3, HeadTailProperties DEF ResurrectTx, PositionInv, TypeOK
    <3> QED BY <2>1, <2>3, <3>1, AddKeepsNextTxSound, TxAssumption DEF ResurrectTx
  <2>4. CASE DeleteTx
    <3>1. Head(vDelete) \in Txs
      BY <2>4, HeadTailProperties DEF DeleteTx, PositionInv, TypeOK
    <3> QED BY <2>4, <3>1, RemoveKeepsNextTxSound DEF DeleteTx
  <2>5. CASE \E n \in 1..Len(log) : CrashAndRestart(n)
    BY <2>5 DEF CrashAndRestart, NextTxSound
  <2>6. CASE (\E b \in Blocks : ReceiveBlock(b)) \/ UNCHANGED vars
    BY <2>1, <2>6 DEF ReceiveBlock, DropBlock, HoldOrphanBlock, ProcessBlock, vars
  <2>7. CASE HandlerStep /\ ~ResurrectTx /\ ~DeleteTx
    BY <2>1, <2>7 DEF HandlerStep, RejectBlock, AddToBlockIndex, ExtendBestChain,
                StartReorganize, DisconnectTx, DisconnectBlock, ReachFork, ConnectTx,
                ConnectBlock, CommitBestChain, AbortBestChain, StartDelete, SetBestChain,
                AcceptOrphan, NextInQueue
  <2> QED BY <2>2, <2>3, <2>4, <2>5, <2>6, <2>7 DEF Next
<1> QED BY <1>1, <1>2, PositionCorrect, PTL DEF Spec

-----------------------------------------------------------------------------
(* Links along a branch.                                                   *)

Links == [Blocks -> Blocks \cup {NoBlock}]

\* There is one way to link a branch.
LEMMA PathUnique ==
  ASSUME NEW b \in Blocks, NEW l \in Links, NEW m \in Links, IsPathTo(l, b), IsPathTo(m, b)
  PROVE  l = m
<1>1. ASSUME NEW a \in Blocks PROVE l[a] = m[a]
  <2>1. CASE \E c \in Chain[b] \ {GenesisBlock} : Prev[c] = a
    <3>1. /\ l[a] \in Chain[b] \ {GenesisBlock} /\ Prev[l[a]] = a
          /\ m[a] \in Chain[b] \ {GenesisBlock} /\ Prev[m[a]] = a
      BY <2>1 DEF IsPathTo
    <3> QED BY <3>1, ChainOneSuccessor
  <2>2. CASE ~ \E c \in Chain[b] \ {GenesisBlock} : Prev[c] = a
    BY <2>2 DEF IsPathTo
  <2> QED BY <2>1, <2>2
<1> QED BY <1>1 DEF Links

\* No block off the branch points anywhere.
LEMMA PathOff ==
  ASSUME NEW b \in Blocks, NEW l \in Links, IsPathTo(l, b), NEW a \in Blocks \ Chain[b]
  PROVE  l[a] = NoBlock /\ [l EXCEPT ![a] = NoBlock] = l
<1>1. \A c \in Chain[b] \ {GenesisBlock} : Prev[c] # a
  BY ChainClosed DEF ClosedUnderPrev
<1>2. l[a] = NoBlock
  BY <1>1 DEF IsPathTo
<1> QED BY <1>2 DEF Links

\* Without its last link it is the path to the parent.
LEMMA PathDown ==
  ASSUME NEW b \in Blocks \ {GenesisBlock}, NEW l \in Links, IsPathTo(l, b)
  PROVE  IsPathTo([l EXCEPT ![Prev[b]] = NoBlock], Prev[b])
<1> DEFINE m == [l EXCEPT ![Prev[b]] = NoBlock]
<1>1. Prev[b] \in Blocks /\ Chain[b] = {b} \cup Chain[Prev[b]] /\ b \notin Chain[Prev[b]]
      /\ b \in Chain[b]
  BY ChainStep, ChainSelf
<1>2. \A a \in Blocks : m[a] = IF a = Prev[b] THEN NoBlock ELSE l[a]
  BY <1>1 DEF Links
<1>3. \A c \in Chain[Prev[b]] \ {GenesisBlock} : Prev[c] # Prev[b]
  BY <1>1, ChainOneSuccessor
<1>4. ASSUME NEW a \in Blocks
      PROVE  IF \E c \in Chain[Prev[b]] \ {GenesisBlock} : Prev[c] = a
             THEN m[a] \in Chain[Prev[b]] \ {GenesisBlock} /\ Prev[m[a]] = a
             ELSE m[a] = NoBlock
  <2>1. CASE a = Prev[b]
    BY <1>2, <1>3, <2>1
  <2>2. CASE a # Prev[b]
    <3>1. m[a] = l[a]
      BY <1>2, <2>2
    <3>2. CASE \E c \in Chain[Prev[b]] \ {GenesisBlock} : Prev[c] = a
      <4>1. l[a] \in Chain[b] \ {GenesisBlock} /\ Prev[l[a]] = a
        BY <1>1, <3>2 DEF IsPathTo
      <4> QED BY <1>1, <2>2, <3>1, <3>2, <4>1
    <3>3. CASE ~ \E c \in Chain[Prev[b]] \ {GenesisBlock} : Prev[c] = a
      <4>1. ~ \E c \in Chain[b] \ {GenesisBlock} : Prev[c] = a
        BY <1>1, <2>2, <3>3
      <4> QED BY <3>1, <3>3, <4>1 DEF IsPathTo
    <3> QED BY <3>2, <3>3
  <2> QED BY <2>1, <2>2
<1> HIDE DEF m
<1>5. IsPathTo(m, Prev[b])
  BY <1>4 DEF IsPathTo
<1> QED BY <1>5 DEF m

\* With one link more it is the path to a child.
LEMMA PathUp ==
  ASSUME NEW b \in Blocks \ {GenesisBlock}, NEW l \in Links, IsPathTo(l, Prev[b])
  PROVE  IsPathTo([l EXCEPT ![Prev[b]] = b], b)
<1> DEFINE m == [l EXCEPT ![Prev[b]] = b]
<1>1. Prev[b] \in Blocks /\ Chain[b] = {b} \cup Chain[Prev[b]] /\ b \notin Chain[Prev[b]]
      /\ b \in Chain[b]
  BY ChainStep, ChainSelf
<1>2. \A a \in Blocks : m[a] = IF a = Prev[b] THEN b ELSE l[a]
  BY <1>1 DEF Links
<1>3. ASSUME NEW a \in Blocks
      PROVE  IF \E c \in Chain[b] \ {GenesisBlock} : Prev[c] = a
             THEN m[a] \in Chain[b] \ {GenesisBlock} /\ Prev[m[a]] = a
             ELSE m[a] = NoBlock
  <2>1. CASE a = Prev[b]
    BY <1>1, <1>2, <2>1
  <2>2. CASE a # Prev[b]
    <3>1. m[a] = l[a]
      BY <1>2, <2>2
    <3>2. (\E c \in Chain[b] \ {GenesisBlock} : Prev[c] = a)
            <=> (\E c \in Chain[Prev[b]] \ {GenesisBlock} : Prev[c] = a)
      BY <1>1, <2>2
    <3> QED BY <1>1, <3>1, <3>2 DEF IsPathTo
  <2> QED BY <2>1, <2>2
<1> HIDE DEF m
<1>4. IsPathTo(m, b)
  BY <1>3 DEF IsPathTo
<1> QED BY <1>4 DEF m

\* Reorganize's last two loops turn the path to the old best block into the one to the new.
LEMMA LinkIsPath ==
  ASSUME pindexBest \in Blocks, pindexNew \in Blocks, pnext \in Links, IsPathTo(pnext, pindexBest)
  PROVE  IsPathTo([b \in Blocks |-> Link(b)], pindexNew)
<1> DEFINE old == Chain[pindexBest] \ {GenesisBlock}
           new == Chain[pindexNew] \ {GenesisBlock}
<1>1. Connected = new \ old /\ Disconnected = old \ new
  BY ChainGenesis DEF Connected, Disconnected
<1>2. /\ \A c, d \in old : Prev[c] = Prev[d] => c = d
      /\ \A c, d \in new : Prev[c] = Prev[d] => c = d
  BY ChainOneSuccessor
<1>3. ASSUME NEW a \in Blocks
      PROVE  IF \E c \in new : Prev[c] = a THEN Link(a) \in new /\ Prev[Link(a)] = a
                                           ELSE Link(a) = NoBlock
  <2>1. CASE \E c \in Connected : Prev[c] = a
    BY <1>1, <2>1 DEF Link
  <2>2. CASE ~(\E c \in Connected : Prev[c] = a) /\ \E d \in Disconnected : Prev[d] = a
    <3>1. ~ \E c \in new : Prev[c] = a
      BY <1>1, <1>2, <2>2
    <3> QED BY <2>2, <3>1 DEF Link
  <2>3. CASE ~(\E c \in Connected : Prev[c] = a) /\ ~(\E d \in Disconnected : Prev[d] = a)
    <3>1. Link(a) = pnext[a]
      BY <2>3 DEF Link
    <3>2. IF \E c \in old : Prev[c] = a THEN pnext[a] \in old /\ Prev[pnext[a]] = a
                                        ELSE pnext[a] = NoBlock
      BY DEF IsPathTo
    <3> QED BY <1>1, <2>3, <3>1, <3>2
  <2> QED BY <2>1, <2>2, <2>3
<1> DEFINE m == [b \in Blocks |-> Link(b)]
<1>4. \A a \in Blocks : m[a] = Link(a)
  OBVIOUS
<1> HIDE DEF m
<1>5. IsPathTo(m, pindexNew)
  BY <1>3, <1>4 DEF IsPathTo
<1> QED BY <1>5 DEF m

-----------------------------------------------------------------------------
(* What the updates of the database change.                                *)

\* e differs from d in no more than the transaction index.
SameBlocks(d, e) ==
  /\ e.index = d.index /\ e.hashNext = d.hashNext /\ e.hashBestChain = d.hashBestChain
  /\ e.bnBestInvalidWork = d.bnBestInvalidWork

\* e differs from d in no more than the block records.
SameTxs(d, e) == e.pos = d.pos /\ e.spent = d.spent

\* The types of the fields of a database.
LEMMA Fields ==
  ASSUME NEW d \in Database
  PROVE  /\ d.index \subseteq Blocks /\ d.hashNext \in Links /\ d.hashBestChain \in Blocks
         /\ d.pos \in [Txs -> Blocks \cup {NoBlock}] /\ d.bnBestInvalidWork \in Nat
         /\ d.spent \in [OutPoints -> Txs \cup {NoTx}]
BY DEF Database, Links

\* ConnectInputs and DisconnectInputs leave the records of the blocks alone.
LEMMA TxUpdates ==
  ASSUME db \in Database, NEW t \in Txs, NEW b \in Blocks
  PROVE  SameBlocks(db, ConnectInputs(t, b)) /\ SameBlocks(db, DisconnectInputs(t))
BY DEF Database, ConnectInputs, DisconnectInputs, SameBlocks

\* A new link changes the links alone.
LEMMA LinkUpdate ==
  ASSUME NEW d \in Database, NEW b \in Blocks, NEW c \in Blocks \cup {NoBlock}
  PROVE  LET e == [d EXCEPT !.hashNext[b] = c]
         IN  /\ e \in Database /\ SameTxs(d, e)
             /\ e.index = d.index /\ e.hashBestChain = d.hashBestChain
             /\ e.bnBestInvalidWork = d.bnBestInvalidWork
             /\ e.hashNext = [d.hashNext EXCEPT ![b] = c]
BY DEF Database, SameTxs

\* A new record of a block changes the records and its own link alone.
LEMMA RecordUpdate ==
  ASSUME NEW d \in Database, NEW b \in Blocks
  PROVE  LET e == [d EXCEPT !.index = @ \cup {b}, !.hashNext[b] = NoBlock]
         IN  /\ e \in Database /\ SameTxs(d, e)
             /\ e.index = d.index \cup {b} /\ e.hashBestChain = d.hashBestChain
             /\ e.bnBestInvalidWork = d.bnBestInvalidWork
             /\ e.hashNext = [d.hashNext EXCEPT ![b] = NoBlock]
BY DEF Database, SameTxs

\* A new best block changes nothing else.
LEMMA BestBlockUpdate ==
  ASSUME NEW d \in Database, NEW b \in Blocks
  PROVE  LET e == [d EXCEPT !.hashBestChain = b]
         IN  /\ e \in Database /\ SameTxs(d, e)
             /\ e.index = d.index /\ e.hashBestChain = b
             /\ e.bnBestInvalidWork = d.bnBestInvalidWork /\ e.hashNext = d.hashNext
BY DEF Database, SameTxs

\* A new work of the best invalid branch changes nothing else.
LEMMA WorkUpdate ==
  ASSUME NEW d \in Database, NEW w \in Nat
  PROVE  LET e == [d EXCEPT !.bnBestInvalidWork = w]
         IN  /\ e \in Database /\ SameTxs(d, e)
             /\ e.index = d.index /\ e.hashBestChain = d.hashBestChain
             /\ e.bnBestInvalidWork = w /\ e.hashNext = d.hashNext
BY DEF Database, SameTxs

\* The last commit is a database, and one of the log.
LEMMA LastIsLogged ==
  ASSUME log \in Seq(Database), log # <<>>
  PROVE  Last(log) \in Database /\ \E n \in DOMAIN log : Last(log) = log[n]
BY LastOfLog DEF Last

\* What holds of every commit and of the new one holds of every commit afterwards.
LEMMA CommittedTrees ==
  ASSUME TypeOK, CommitsAreTrees, BlocksWereChecked, db' \in Database, log' = Committed(db'),
         ClosedUnderPrev(db'.index), db'.hashBestChain \in db'.index,
         IsPathTo(db'.hashNext, db'.hashBestChain),
         \A b \in db'.index \ {GenesisBlock} : FailsAt[b] \notin {"check", "context"}
  PROVE  /\ CommitsAreTrees' /\ Last(log)' = db'
         /\ \A n \in DOMAIN log' : \A b \in log'[n].index \ {GenesisBlock} :
              FailsAt[b] \notin {"check", "context"}
<1>1. log \in Seq(Database) /\ log # <<>>
  BY DEF TypeOK
<1>2. /\ Last(log') = db'
      /\ \A n \in DOMAIN log' : log'[n] = db' \/ \E m \in DOMAIN log : log'[n] = log[m]
  BY ONLY <1>1, db' \in Database, log' = Committed(db'), CommittedLog
<1>3. ASSUME NEW n \in DOMAIN log'
      PROVE  /\ ClosedUnderPrev(log'[n].index)
             /\ log'[n].hashBestChain \in log'[n].index
             /\ IsPathTo(log'[n].hashNext, log'[n].hashBestChain)
             /\ \A b \in log'[n].index \ {GenesisBlock} : FailsAt[b] \notin {"check", "context"}
  BY <1>2 DEF CommitsAreTrees, BlocksWereChecked
<1> QED BY <1>2, <1>3 DEF CommitsAreTrees

-----------------------------------------------------------------------------
(* The block index.                                                        *)

\* A node that starts has the genesis block, committed and in memory.
LEMMA IndexInit == Init => IndexInv
<1> SUFFICES ASSUME Init PROVE IndexInv
  OBVIOUS
<1>1. log = <<db>> /\ Last(log) = db /\ DOMAIN log = {1} /\ log[1] = db
  BY DEF Init, Last
<1>2. IsPathTo(db.hashNext, GenesisBlock)
  BY GenesisChain DEF IsPathTo, Init, GenesisDatabase
<1> QED
  BY <1>1, <1>2 DEF Init, IndexInv, CopiesAgree, BranchOfDatabase, BlocksWereChecked,
     CommitsAreTrees, Activating, GenesisDatabase, ClosedUnderPrev

\* A queue with one block more, or one less.
LEMMA QueueAppend ==
  ASSUME vWorkQueue \in Seq(Blocks), NEW S, \A i \in DOMAIN vWorkQueue : vWorkQueue[i] \in S,
         NEW b \in S, b \in Blocks
  PROVE  \A i \in DOMAIN Append(vWorkQueue, b) : Append(vWorkQueue, b)[i] \in S
<1>1. /\ DOMAIN vWorkQueue = 1..Len(vWorkQueue) /\ Len(vWorkQueue) \in Nat
      /\ DOMAIN Append(vWorkQueue, b) = 1..(Len(vWorkQueue) + 1)
      /\ \A i \in 1..Len(vWorkQueue) : Append(vWorkQueue, b)[i] = vWorkQueue[i]
      /\ Append(vWorkQueue, b)[Len(vWorkQueue) + 1] = b
  BY AppendProperties, LenProperties
<1>2. \A i \in 1..(Len(vWorkQueue) + 1) : i \in 1..Len(vWorkQueue) \/ i = Len(vWorkQueue) + 1
  BY <1>1
<1> QED BY <1>1, <1>2

\* The values of the tail are values of the sequence.
LEMMA TailValues ==
  ASSUME NEW T, NEW s \in Seq(T), s # <<>>, NEW i \in DOMAIN Tail(s)
  PROVE  i + 1 \in DOMAIN s /\ Tail(s)[i] = s[i + 1]
<1>1. /\ DOMAIN s = 1..Len(s) /\ Len(s) \in Nat \ {0} /\ Tail(s) \in Seq(T)
      /\ Len(Tail(s)) = Len(s) - 1 /\ \A j \in 1..Len(Tail(s)) : Tail(s)[j] = s[j + 1]
  BY HeadTailProperties, LenProperties, EmptySeq
<1>2. DOMAIN Tail(s) = 1..Len(Tail(s))
  BY <1>1, LenProperties
<1> QED BY <1>1, <1>2

\* The values of two sequences in one.
LEMMA ConcatParts ==
  ASSUME NEW T, NEW s \in Seq(T), NEW r \in Seq(T)
  PROVE  /\ \A i \in DOMAIN s : i \in DOMAIN (s \o r) /\ (s \o r)[i] = s[i]
         /\ \A j \in DOMAIN r : \E i \in DOMAIN (s \o r) : (s \o r)[i] = r[j]
         /\ \A i \in DOMAIN (s \o r) : \/ i \in DOMAIN s /\ (s \o r)[i] = s[i]
                                     \/ \E j \in DOMAIN r : (s \o r)[i] = r[j]
<1> DEFINE c == s \o r
<1>1. /\ c \in Seq(T) /\ Len(c) = Len(s) + Len(r) /\ Len(s) \in Nat /\ Len(r) \in Nat
      /\ \A i \in 1..Len(s) : c[i] = s[i]
      /\ \A i \in (Len(s) + 1)..(Len(s) + Len(r)) : c[i] = r[i - Len(s)]
  BY ConcatProperties, LenProperties
<1>2. DOMAIN s = 1..Len(s) /\ DOMAIN r = 1..Len(r)
  BY LenProperties
<1> HIDE DEF c
<1>3. DOMAIN c = 1..(Len(s) + Len(r))
  BY <1>1, LenProperties
<1>4. \A i \in DOMAIN s : i \in DOMAIN c /\ c[i] = s[i]
  BY <1>1, <1>2, <1>3
<1>5. ASSUME NEW j \in DOMAIN r PROVE \E i \in DOMAIN c : c[i] = r[j]
  <2>1. /\ Len(s) + j \in DOMAIN c /\ Len(s) + j \in (Len(s) + 1)..(Len(s) + Len(r))
        /\ (Len(s) + j) - Len(s) = j
    BY <1>1, <1>2, <1>3
  <2> QED BY <1>1, <2>1
<1>6. ASSUME NEW i \in DOMAIN c
      PROVE  (i \in DOMAIN s /\ c[i] = s[i]) \/ \E j \in DOMAIN r : c[i] = r[j]
  <2>1. CASE i <= Len(s)
    BY <1>1, <1>2, <1>3, <2>1
  <2>2. CASE ~(i <= Len(s))
    <3>1. i - Len(s) \in DOMAIN r /\ i \in (Len(s) + 1)..(Len(s) + Len(r))
      BY <1>1, <1>2, <1>3, <2>2
    <3> QED BY <1>1, <3>1
  <2> QED BY <2>1, <2>2
<1> QED BY <1>4, <1>5, <1>6 DEF c

\* The steps that neither write to the database nor touch the index in memory.
LEMMA IndexStepQuiet ==
  ASSUME PositionInv, IndexInv, UNCHANGED <<memory, disk>>,
         \/ UNCHANGED vars
         \/ \E b \in Blocks : ReceiveBlock(b) \/ AcceptOrphan(b)
         \/ \E t \in Txs : AcceptToMemoryPool(t)
         \/ RejectBlock \/ ExtendBestChain \/ StartReorganize \/ ReachFork
         \/ ResurrectTx \/ StartDelete \/ DeleteTx \/ NextInQueue
  PROVE  IndexInv'
<1> USE DEF IndexInv, PositionInv, TypeOK
<1>1. /\ UNCHANGED <<mapBlockIndex, pnext, pindexBest, bnBestInvalidWork, db, log>>
      /\ Last(log)' = Last(log)
  BY DEF memory, disk, Last
<1>2. CommitsAreTrees'
  BY <1>1 DEF CommitsAreTrees
<1>3. /\ \A b \in mapOrphanBlocks : FailsAt[b] # "check"
      /\ \A i \in DOMAIN vWorkQueue : vWorkQueue[i] \in mapBlockIndex
      /\ pc = "accept" => Prev[pindexNew] \in mapBlockIndex /\ FailsAt[pindexNew] # "check"
      /\ Activating => pindexNew \in mapBlockIndex
      /\ \A n \in DOMAIN log : \A b \in log[n].index \ {GenesisBlock} :
           FailsAt[b] \notin {"check", "context"}
  BY DEF BlocksWereChecked
<1>4. CASE UNCHANGED vars
  BY <1>1, <1>2, <1>4 DEF vars, locals, CopiesAgree, BranchOfDatabase, BlocksWereChecked, Activating
<1>5. CASE \E b \in Blocks : ReceiveBlock(b)
  BY <1>1, <1>2, <1>3, <1>5 DEF ReceiveBlock, DropBlock, HoldOrphanBlock, ProcessBlock, vars,
     locals, CopiesAgree, BranchOfDatabase, BlocksWereChecked, Activating
<1>6. CASE \E b \in Blocks : AcceptOrphan(b)
  <2> SUFFICES ASSUME NEW b \in Blocks, AcceptOrphan(b) PROVE IndexInv'
    BY <1>6
  <2>1. vWorkQueue # <<>> /\ Prev[b] \in mapBlockIndex
    <3>1. vWorkQueue # <<>> /\ Prev[b] = Head(vWorkQueue)
      BY DEF AcceptOrphan, LoopsOnBranches
    <3>2. 1 \in DOMAIN vWorkQueue /\ Head(vWorkQueue) = vWorkQueue[1]
      BY <3>1, HeadTailProperties, LenProperties, EmptySeq
    <3> QED BY <1>3, <3>1, <3>2
  <2> QED BY <1>1, <1>2, <1>3, <2>1 DEF AcceptOrphan, CopiesAgree, BranchOfDatabase,
         BlocksWereChecked, Activating
<1>7. CASE \E t \in Txs : AcceptToMemoryPool(t)
  BY <1>1, <1>2, <1>3, <1>7 DEF AcceptToMemoryPool, locals, CopiesAgree, BranchOfDatabase,
     BlocksWereChecked, Activating
<1>8. CASE RejectBlock
  BY <1>1, <1>2, <1>3, <1>8 DEF RejectBlock, AcceptReturns, CopiesAgree, BranchOfDatabase,
     BlocksWereChecked, Activating
<1>9. CASE ExtendBestChain \/ StartReorganize \/ ReachFork
  BY <1>1, <1>2, <1>3, <1>9 DEF ExtendBestChain, StartReorganize, ReachFork, CopiesAgree,
     BranchOfDatabase, BlocksWereChecked, Activating
<1>10. CASE ResurrectTx \/ StartDelete \/ DeleteTx
  BY <1>1, <1>2, <1>3, <1>10 DEF ResurrectTx, StartDelete, DeleteTx, locals, CopiesAgree,
     BranchOfDatabase, BlocksWereChecked, Activating
<1>11. CASE NextInQueue
  <2>1. vWorkQueue # <<>>
    BY <1>11 DEF NextInQueue, LoopsOnBranches
  <2>2. \A i \in DOMAIN vWorkQueue' : vWorkQueue'[i] \in mapBlockIndex
    BY <1>3, <1>11, <2>1, TailValues DEF NextInQueue
  <2> QED BY <1>1, <1>2, <1>3, <1>11, <2>2 DEF NextInQueue, CopiesAgree, BranchOfDatabase,
         BlocksWereChecked, Activating
<1> QED BY <1>4, <1>5, <1>6, <1>7, <1>8, <1>9, <1>10, <1>11

\* A block that comes into the index is no one's parent yet, so that its own null link
\* leaves the path as it was.
LEMMA IndexStepAdd ==
  ASSUME PositionInv, IndexInv, AddToBlockIndex
  PROVE  IndexInv'
<1> USE DEF AddToBlockIndex
<1>1. /\ pindexNew \in Blocks /\ pindexNew # GenesisBlock /\ db \in Database /\ db' \in Database
      /\ vWorkQueue \in Seq(Blocks) /\ TypeOK
      /\ db' = [db EXCEPT !.index = @ \cup {pindexNew}, !.hashNext[pindexNew] = NoBlock]
  BY RecordUpdate DEF PositionInv, TypeOK, CandidateIsBetter
<1>2. /\ db = Last(log) /\ pindex = pindexBest /\ db.hashBestChain = pindexBest
      /\ IsPathTo(db.hashNext, pindex) /\ db.index = mapBlockIndex
      /\ Prev[pindexNew] \in mapBlockIndex /\ FailsAt[pindexNew] # "check"
      /\ pindexBest \in Blocks
  BY DEF IndexInv, CopiesAgree, BranchOfDatabase, BlocksWereChecked, PositionInv, TypeOK
<1>3. /\ ClosedUnderPrev(db.index) /\ db.hashBestChain \in db.index
      /\ \A b \in db.index \ {GenesisBlock} : FailsAt[b] \notin {"check", "context"}
  BY <1>1, <1>2, LastIsLogged DEF IndexInv, CommitsAreTrees, BlocksWereChecked, TypeOK
<1>4. /\ db'.index = mapBlockIndex' /\ db'.hashBestChain = db.hashBestChain
      /\ db'.bnBestInvalidWork = db.bnBestInvalidWork
      /\ db'.hashNext = db.hashNext
  <2>1. pindexNew \notin Chain[pindexBest]
    BY <1>2, <1>3, Fields, <1>1, ChainLeast
  <2>2. db.hashNext \in Links
    BY <1>1, Fields
  <2>3. [db.hashNext EXCEPT ![pindexNew] = NoBlock] = db.hashNext
    BY <1>1, <1>2, <2>1, <2>2, PathOff
  <2>4. /\ db'.index = db.index \cup {pindexNew} /\ db'.hashBestChain = db.hashBestChain
        /\ db'.bnBestInvalidWork = db.bnBestInvalidWork
        /\ db'.hashNext = [db.hashNext EXCEPT ![pindexNew] = NoBlock]
    BY ONLY <1>1, RecordUpdate
  <2>5. mapBlockIndex' = mapBlockIndex \cup {pindexNew}
    OBVIOUS
  <2> QED BY <1>2, <2>3, <2>4, <2>5
<1>5. /\ ClosedUnderPrev(db'.index)
      /\ \A b \in db'.index \ {GenesisBlock} : FailsAt[b] \notin {"check", "context"}
  BY <1>2, <1>3, <1>4, <1>1, TxAssumption DEF ClosedUnderPrev
<1>6. /\ CommitsAreTrees' /\ Last(log)' = db'
      /\ \A n \in DOMAIN log' : \A b \in log'[n].index \ {GenesisBlock} :
           FailsAt[b] \notin {"check", "context"}
  BY <1>1, <1>2, <1>3, <1>4, <1>5, CommittedTrees DEF IndexInv
<1>7. CopiesAgree' /\ BranchOfDatabase'
  BY <1>1, <1>2, <1>4, <1>6 DEF IndexInv, CopiesAgree, BranchOfDatabase, AcceptReturns
<1>8. BlocksWereChecked'
  <2>1. \A i \in DOMAIN vWorkQueue : vWorkQueue[i] \in mapBlockIndex'
    BY DEF IndexInv, BlocksWereChecked
  <2>2. \A i \in DOMAIN vWorkQueue' : vWorkQueue'[i] \in mapBlockIndex'
    BY <1>1, <2>1, QueueAppend DEF AcceptReturns
  <2> QED BY <1>6, <2>2 DEF IndexInv, BlocksWereChecked, Activating, AcceptReturns
<1> QED BY <1>6, <1>7, <1>8 DEF IndexInv

\* The steps of the open transaction that write to the transaction index.
LEMMA IndexStepTx ==
  ASSUME PositionInv, IndexInv, DisconnectTx \/ ConnectTx
  PROVE  IndexInv'
<1>1. SameBlocks(db, db')
  <2>1. CASE DisconnectTx
    <3>1. DisconnectsNext \in Txs /\ db \in Database
      BY <2>1, TxAssumption, ElementOfSeq, LenProperties
         DEF DisconnectsNext, DisconnectTx, PositionInv, TypeOK, LoopsOnBranches
    <3> QED BY <2>1, <3>1, TxUpdates, TreeAssumption DEF DisconnectTx
  <2>2. CASE ConnectTx
    <3>1. NextToConnect \in Blocks /\ db \in Database
      BY <2>2, NextBlock DEF ConnectTx, PositionInv, TypeOK, LoopsOnBranches
    <3>2. Vtx[NextToConnect][nTx + 1] \in Txs
      BY <2>2, <3>1, TxAssumption, ElementOfSeq, LenProperties
         DEF ConnectTx, PositionInv, TypeOK
    <3> QED BY <2>2, <3>1, <3>2, TxUpdates DEF ConnectTx
  <2> QED BY <2>1, <2>2
<1>2. /\ UNCHANGED <<mapBlockIndex, pnext, pindexBest, bnBestInvalidWork, log, mapOrphanBlocks>>
      /\ UNCHANGED <<pc, pindexNew, vWorkQueue, pindex>> /\ pc \in {"disconnect", "connect"}
      /\ Last(log)' = Last(log)
  BY DEF DisconnectTx, ConnectTx, memory, Last
<1> QED BY <1>1, <1>2 DEF SameBlocks, IndexInv, CopiesAgree, BranchOfDatabase,
       BlocksWereChecked, CommitsAreTrees, Activating

\* The end of DisconnectBlock takes the last link away, that of ConnectBlock adds one.
LEMMA IndexStepBlock ==
  ASSUME PositionInv, IndexInv, DisconnectBlock \/ ConnectBlock
  PROVE  IndexInv'
<1>1. /\ db'.index = db.index /\ db'.hashBestChain = db.hashBestChain
      /\ db'.bnBestInvalidWork = db.bnBestInvalidWork
      /\ IsPathTo(db'.hashNext, pindex')
      /\ pc' = "commit" => pindex' = pindexNew
      /\ pc' \in {"disconnect", "connect", "commit"}
  <2>1. CASE DisconnectBlock
    <3> USE <2>1 DEF DisconnectBlock
    <3>1. pindex \in Blocks \ {GenesisBlock} /\ db \in Database /\ db.hashNext \in Links
      BY ChainGenesis, Fields DEF Disconnected, PositionInv, TypeOK
    <3>2. Prev[pindex] \in Blocks /\ IsPathTo(db.hashNext, pindex)
      BY <3>1, ChainStep DEF IndexInv, BranchOfDatabase
    <3>3. IsPathTo([db.hashNext EXCEPT ![Prev[pindex]] = NoBlock], Prev[pindex])
      BY <3>1, <3>2, PathDown
    <3> QED BY <3>1, <3>2, <3>3, LinkUpdate
  <2>2. CASE ConnectBlock
    <3> USE <2>2 DEF ConnectBlock
    <3>1. /\ NextToConnect \in Blocks \ {GenesisBlock} /\ Prev[NextToConnect] = pindex
          /\ db \in Database /\ db.hashNext \in Links /\ pindex \in Blocks
      BY NextBlock, Fields DEF PositionInv, TypeOK, LoopsOnBranches
    <3>2. IsPathTo(db.hashNext, pindex)
      BY DEF IndexInv, BranchOfDatabase
    <3>3. IsPathTo([db.hashNext EXCEPT ![pindex] = NextToConnect], NextToConnect)
      BY <3>1, <3>2, PathUp
    <3> QED BY <3>1, <3>3, LinkUpdate
  <2> QED BY <2>1, <2>2
<1>2. /\ UNCHANGED <<mapBlockIndex, pnext, pindexBest, bnBestInvalidWork, log, mapOrphanBlocks>>
      /\ UNCHANGED <<pindexNew, vWorkQueue>> /\ pc \in {"disconnect", "connect"}
      /\ Last(log)' = Last(log)
  BY DEF DisconnectBlock, ConnectBlock, memory, Last
<1> QED BY <1>1, <1>2 DEF IndexInv, CopiesAgree, BranchOfDatabase,
       BlocksWereChecked, CommitsAreTrees, Activating

\* The commit of SetBestChain makes the branch of the candidate the one on disk and in memory.
LEMMA IndexStepCommit ==
  ASSUME PositionInv, IndexInv, CommitBestChain
  PROVE  IndexInv'
<1> USE DEF CommitBestChain
<1>1. /\ pindexNew \in Blocks /\ pindexBest \in Blocks /\ db \in Database /\ db' \in Database
      /\ pnext \in Links /\ TypeOK /\ db' = [db EXCEPT !.hashBestChain = pindexNew]
  BY BestBlockUpdate DEF PositionInv, TypeOK, Links
<1>2. /\ pindex = pindexNew /\ db.hashBestChain = pindexBest /\ Last(log).index = mapBlockIndex
      /\ Last(log).hashBestChain = pindexBest /\ pnext = Last(log).hashNext
      /\ IsPathTo(db.hashNext, pindexNew) /\ db.index = mapBlockIndex
      /\ pindexNew \in mapBlockIndex
  BY DEF IndexInv, CopiesAgree, BranchOfDatabase, BlocksWereChecked, Activating
<1>3. /\ ClosedUnderPrev(db.index) /\ IsPathTo(pnext, pindexBest)
      /\ \A b \in db.index \ {GenesisBlock} : FailsAt[b] \notin {"check", "context"}
  BY <1>1, <1>2, LastIsLogged DEF IndexInv, CommitsAreTrees, BlocksWereChecked, TypeOK
<1>4. /\ db'.index = db.index /\ db'.hashBestChain = pindexNew
      /\ db'.bnBestInvalidWork = db.bnBestInvalidWork /\ db'.hashNext = db.hashNext
  BY <1>1, BestBlockUpdate
<1>5. /\ CommitsAreTrees' /\ Last(log)' = db'
      /\ \A n \in DOMAIN log' : \A b \in log'[n].index \ {GenesisBlock} :
           FailsAt[b] \notin {"check", "context"}
  BY <1>1, <1>2, <1>3, <1>4, CommittedTrees DEF IndexInv
<1>6. pnext' = db'.hashNext
  <2>1. pnext' = [b \in Blocks |-> Link(b)] /\ IsPathTo([b \in Blocks |-> Link(b)], pindexNew)
    BY <1>1, <1>3, LinkIsPath
  <2>2. pnext' \in Links
    <3>1. \A b \in Blocks : Link(b) \in Blocks \cup {NoBlock}
      <4>1. \A c \in Connected : c \in Blocks
        BY <1>1, ChainClosed DEF Connected
      <4> QED BY <1>1, <4>1 DEF Link, Links
    <3> QED BY <3>1 DEF Links
  <2>3. db'.hashNext \in Links /\ IsPathTo(db'.hashNext, pindexNew)
    BY <1>1, <1>2, <1>4, Fields
  <2> QED BY <1>1, <2>1, <2>2, <2>3, PathUnique
<1>7. CopiesAgree' /\ BranchOfDatabase'
  BY <1>2, <1>4, <1>5, <1>6 DEF IndexInv, CopiesAgree, BranchOfDatabase, locals
<1>8. BlocksWereChecked'
  BY <1>5 DEF IndexInv, BlocksWereChecked, Activating, locals
<1> QED BY <1>5, <1>7, <1>8 DEF IndexInv

\* TxnAbort takes the database back to the last commit, from which memory did not part.
LEMMA IndexStepAbort ==
  ASSUME PositionInv, IndexInv, AbortBestChain
  PROVE  IndexInv'
<1> USE DEF AbortBestChain
<1>1. /\ pindexNew \in Blocks /\ pindexBest \in Blocks /\ Last(log) \in Database
      /\ ChainWork[pindexNew] \in Nat /\ \E n \in DOMAIN log : Last(log) = log[n]
  BY LastIsLogged, TreeAssumption DEF PositionInv, TypeOK
<1>2. /\ Last(log).index = mapBlockIndex /\ pnext = Last(log).hashNext
      /\ Last(log).hashBestChain = pindexBest
      /\ Last(log).bnBestInvalidWork = bnBestInvalidWork
  BY DEF IndexInv, CopiesAgree, BranchOfDatabase
<1>3. /\ ClosedUnderPrev(Last(log).index) /\ Last(log).hashBestChain \in Last(log).index
      /\ IsPathTo(Last(log).hashNext, Last(log).hashBestChain)
      /\ \A b \in Last(log).index \ {GenesisBlock} : FailsAt[b] \notin {"check", "context"}
  BY <1>1 DEF IndexInv, CommitsAreTrees, BlocksWereChecked
<1>4. /\ db'.index = Last(log).index /\ db'.hashNext = Last(log).hashNext
      /\ db'.hashBestChain = Last(log).hashBestChain
      /\ db'.bnBestInvalidWork = bnBestInvalidWork' /\ Last(log)' = db'
      /\ \A n \in DOMAIN log' : log'[n] = db' \/ \E m \in DOMAIN log : log'[n] = log[m]
  <2>1. CASE ChainWork[pindexNew] > bnBestInvalidWork
    <3>1. /\ bnBestInvalidWork' = ChainWork[pindexNew] /\ log' = <<db'>>
          /\ db' = [Last(log) EXCEPT !.bnBestInvalidWork = ChainWork[pindexNew]]
      BY <2>1 DEF InvalidChainFound
    <3>2. /\ db'.index = Last(log).index /\ db'.hashNext = Last(log).hashNext
          /\ db'.hashBestChain = Last(log).hashBestChain
          /\ db'.bnBestInvalidWork = ChainWork[pindexNew]
      BY ONLY <1>1, <3>1, WorkUpdate
    <3>3. Last(log)' = db' /\ \A n \in DOMAIN log' : log'[n] = db'
      BY ONLY <3>1 DEF Last
    <3> QED BY ONLY <3>1, <3>2, <3>3
  <2>2. CASE ~(ChainWork[pindexNew] > bnBestInvalidWork)
    <3>1. db' = Last(log) /\ log' = log /\ bnBestInvalidWork' = bnBestInvalidWork
      BY <2>2 DEF InvalidChainFound
    <3>2. Last(log)' = Last(log)
      BY ONLY <3>1 DEF Last
    <3> QED BY ONLY <1>2, <3>1, <3>2
  <2> QED BY <2>1, <2>2
<1>5. /\ UNCHANGED <<mapBlockIndex, pnext, pindexBest>> /\ pindex' = pindexBest
      /\ vWorkQueue' = vWorkQueue /\ mapOrphanBlocks' \subseteq mapOrphanBlocks
      /\ pc' \in {"idle", "queue"}
  BY DEF AcceptReturns
<1>6. CommitsAreTrees' /\ \A n \in DOMAIN log' : \A b \in log'[n].index \ {GenesisBlock} :
                            FailsAt[b] \notin {"check", "context"}
  BY ONLY IndexInv, <1>3, <1>4 DEF IndexInv, CommitsAreTrees, BlocksWereChecked
<1>7. CopiesAgree' /\ BranchOfDatabase'
  BY ONLY <1>2, <1>3, <1>4, <1>5 DEF CopiesAgree, BranchOfDatabase
<1>8. BlocksWereChecked'
  BY ONLY IndexInv, <1>5, <1>6 DEF IndexInv, BlocksWereChecked, Activating
<1> QED BY ONLY <1>6, <1>7, <1>8 DEF IndexInv

\* The best block in memory follows the one on disk.
LEMMA IndexStepSetBest ==
  ASSUME PositionInv, IndexInv, SetBestChain
  PROVE  IndexInv'
<1>1. /\ UNCHANGED <<mapBlockIndex, pnext, bnBestInvalidWork, db, log, pindex>>
      /\ Last(log)' = Last(log) /\ pc = "delete" /\ pc' = "queue" /\ pindexBest' = pindexNew
      /\ vWorkQueue' = Append(vWorkQueue, pindexNew) /\ mapOrphanBlocks' \subseteq mapOrphanBlocks
      /\ vWorkQueue \in Seq(Blocks) /\ pindexNew \in Blocks
  BY DEF SetBestChain, AcceptReturns, disk, Last, PositionInv, TypeOK
<1>2. \A i \in DOMAIN vWorkQueue' : vWorkQueue'[i] \in mapBlockIndex
  BY <1>1, QueueAppend DEF IndexInv, BlocksWereChecked, Activating
<1> QED BY <1>1, <1>2 DEF IndexInv, CopiesAgree, BranchOfDatabase, BlocksWereChecked,
       CommitsAreTrees, Activating

\* LoadBlockIndex makes no entry that the records do not have.
LEMMA IndexStepCrash ==
  ASSUME PositionInv, IndexInv, NEW n \in 1..Len(log), CrashAndRestart(n)
  PROVE  IndexInv'
<1> DEFINE d == log[n]
<1>1. d \in Database /\ n \in DOMAIN log
  BY LenProperties, ElementOfSeq DEF PositionInv, TypeOK
<1>2. /\ d.index \subseteq Blocks /\ d.hashNext \in Links /\ d.hashBestChain \in Blocks
  BY <1>1, Fields
<1>3. /\ ClosedUnderPrev(d.index) /\ d.hashBestChain \in d.index
      /\ IsPathTo(d.hashNext, d.hashBestChain)
      /\ \A b \in d.index \ {GenesisBlock} : FailsAt[b] \notin {"check", "context"}
  BY <1>1 DEF IndexInv, CommitsAreTrees, BlocksWereChecked
<1>4. Chain[d.hashBestChain] \subseteq d.index
  BY <1>2, <1>3, ChainLeast
<1>5. \A a \in Blocks : d.hashNext[a] \in d.index \cup {NoBlock}
  <2> HIDE DEF d
  <2> QED BY <1>3, <1>4 DEF IsPathTo
<1>6. \A a \in Blocks \ d.index : d.hashNext[a] = NoBlock
  <2> HIDE DEF d
  <2> QED BY <1>2, <1>3, <1>4, PathOff
<1>7. mapBlockIndex' = d.index
  <2>1. mapBlockIndex' = d.index \cup {Prev[b] : b \in d.index \ {GenesisBlock}}
                            \cup ({d.hashNext[b] : b \in d.index} \ {NoBlock})
    BY DEF CrashAndRestart
  <2> HIDE DEF d
  <2> QED BY <1>2, <1>3, <1>5, <2>1 DEF ClosedUnderPrev
<1>8. pnext' = d.hashNext
  <2>1. pnext' = [b \in Blocks |-> IF b \in d.index THEN d.hashNext[b] ELSE NoBlock]
    BY DEF CrashAndRestart
  <2> HIDE DEF d
  <2> QED BY <1>2, <1>6, <2>1 DEF Links
<1>9. /\ db' = d /\ log' = <<d>> /\ pindexBest' = d.hashBestChain /\ pindex' = d.hashBestChain
      /\ bnBestInvalidWork' = d.bnBestInvalidWork /\ pc' = "idle" /\ mapOrphanBlocks' = {}
      /\ vWorkQueue' = <<>>
  BY DEF CrashAndRestart
<1>10. Last(log)' = d /\ \A m \in DOMAIN log' : log'[m] = d
  BY ONLY <1>9 DEF Last
<1> HIDE DEF d
<1> QED BY ONLY <1>3, <1>7, <1>8, <1>9, <1>10 DEF IndexInv, CopiesAgree, BranchOfDatabase,
       BlocksWereChecked, CommitsAreTrees, Activating

\* Every step keeps memory, database and commits in agreement.
LEMMA IndexStep == PositionInv /\ IndexInv /\ [Next]_vars => IndexInv'
<1> SUFFICES ASSUME PositionInv, IndexInv, [Next]_vars PROVE IndexInv'
  OBVIOUS
<1>1. CASE \/ UNCHANGED vars
           \/ \E b \in Blocks : ReceiveBlock(b) \/ AcceptOrphan(b)
           \/ \E t \in Txs : AcceptToMemoryPool(t)
           \/ RejectBlock \/ ExtendBestChain \/ StartReorganize \/ ReachFork
           \/ ResurrectTx \/ StartDelete \/ DeleteTx \/ NextInQueue
  <2>1. UNCHANGED <<memory, disk>>
    BY <1>1 DEF vars, ReceiveBlock, DropBlock, HoldOrphanBlock, ProcessBlock, AcceptOrphan,
       AcceptToMemoryPool, RejectBlock, ExtendBestChain, StartReorganize, ReachFork,
       ResurrectTx, StartDelete, DeleteTx, NextInQueue
  <2> QED BY ONLY PositionInv, IndexInv, <1>1, <2>1, IndexStepQuiet
<1>2. CASE AddToBlockIndex
  BY <1>2, IndexStepAdd
<1>3. CASE DisconnectTx \/ ConnectTx
  BY <1>3, IndexStepTx
<1>4. CASE DisconnectBlock \/ ConnectBlock
  BY <1>4, IndexStepBlock
<1>5. CASE CommitBestChain
  BY <1>5, IndexStepCommit
<1>6. CASE AbortBestChain
  BY <1>6, IndexStepAbort
<1>7. CASE SetBestChain
  BY <1>7, IndexStepSetBest
<1>8. CASE \E n \in 1..Len(log) : CrashAndRestart(n)
  BY <1>8, IndexStepCrash
<1> QED BY <1>1, <1>2, <1>3, <1>4, <1>5, <1>6, <1>7, <1>8 DEF Next, HandlerStep

-----------------------------------------------------------------------------
(* The places of a part of a branch.                                       *)

\* With none of its transactions a block adds nothing to the branch of its parent, with
\* all of them it is its own branch.
LEMMA PartEnds ==
  ASSUME NEW b \in Blocks
  PROVE  /\ b # GenesisBlock => PlacesUpTo(b, 0) = Places(Prev[b])
         /\ PlacesUpTo(b, Len(Vtx[b])) = Places(b)
<1>1. ASSUME b # GenesisBlock PROVE PlacesUpTo(b, 0) = Places(Prev[b])
  <2>1. /\ Places(b) = Places(Prev[b]) \cup {<<b, i>> : i \in DOMAIN Vtx[b]}
        /\ \A p \in Places(Prev[b]) : p[1] # b
    BY <1>1, PlacesStep
  <2>2. \A p \in Places(b) : p[2] \in Nat \ {0}
    BY PlaceOf
  <2>3. \A p \in {<<b, i>> : i \in DOMAIN Vtx[b]} : p[1] = b
    OBVIOUS
  <2> QED BY <2>1, <2>2, <2>3 DEF PlacesUpTo
<1>2. PlacesUpTo(b, Len(Vtx[b])) = Places(b)
  <2>1. \A p \in Places(b) : p[2] <= Len(Vtx[p[1]])
    BY PlaceOf
  <2> QED BY <2>1 DEF PlacesUpTo
<1> QED BY <1>1, <1>2

\* A part with one transaction more: its place comes after all the others.
LEMMA PartStep ==
  ASSUME NEW b \in Blocks \ {GenesisBlock}, NEW n \in Nat, n < Len(Vtx[b])
  PROVE  /\ <<b, n + 1>> \in Places(b) /\ Vtx[b][n + 1] \in Txs
         /\ TxAt(<<b, n + 1>>) = Vtx[b][n + 1]
         /\ PlacesUpTo(b, n + 1) = PlacesUpTo(b, n) \cup {<<b, n + 1>>}
         /\ <<b, n + 1>> \notin PlacesUpTo(b, n)
         /\ \A q \in Places(b) : Before(q, <<b, n + 1>>) <=> q \in PlacesUpTo(b, n)
<1>1. /\ Vtx[b] \in Seq(Txs) /\ DOMAIN Vtx[b] = 1..Len(Vtx[b]) /\ Len(Vtx[b]) \in Nat
      /\ n + 1 \in DOMAIN Vtx[b] /\ Vtx[b][n + 1] \in Txs
  BY TxAssumption
<1>2. <<b, n + 1>> \in Places(b)
  BY <1>1, ChainSelf, IsPlace
<1>3. \A p \in Places(b) : p[1] = b /\ p[2] = n + 1 => p = <<b, n + 1>>
  BY PlaceOf
<1>4. \A p \in Places(b) : p[2] \in Nat
  BY PlaceOf
<1>5. PlacesUpTo(b, n + 1) = PlacesUpTo(b, n) \cup {<<b, n + 1>>}
  <2>1. \A p \in Places(b) : p[1] = b /\ p[2] <= n + 1 => p[2] <= n \/ p = <<b, n + 1>>
    BY <1>3, <1>4
  <2>2. \A p \in Places(b) : p[2] <= n => p[2] <= n + 1
    BY <1>4
  <2> QED BY <1>2, <2>1, <2>2 DEF PlacesUpTo
<1>6. <<b, n + 1>> \notin PlacesUpTo(b, n)
  BY DEF PlacesUpTo
<1>7. ASSUME NEW q \in Places(b)
      PROVE  Before(q, <<b, n + 1>>) <=> q \in PlacesUpTo(b, n)
  <2>1. q[1] \in Chain[b] /\ q[1] \in Blocks /\ q[2] \in Nat
    BY PlaceOf
  <2>2. q[1] # b => Height[q[1]] < Height[b]
    BY <2>1, HeightGrows
  <2>3. Height[b] \in Nat
    BY HeightStep
  <2>4. q[1] = b => (Before(q, <<b, n + 1>>) <=> q[2] <= n)
    BY <2>1, <2>3 DEF Before
  <2>5. q[1] # b => Before(q, <<b, n + 1>>)
    BY <2>2 DEF Before
  <2> QED BY <2>4, <2>5 DEF PlacesUpTo
<1> QED BY <1>1, <1>2, <1>5, <1>6, <1>7 DEF TxAt

\* What comes before a place of a part is in the part.
LEMMA PartIsFirst ==
  ASSUME NEW b \in Blocks, NEW n \in Nat
  PROVE  FirstPart(PlacesUpTo(b, n), b)
<1>1. ASSUME NEW p \in PlacesUpTo(b, n), NEW q \in Places(b), Before(q, p)
      PROVE  q \in PlacesUpTo(b, n)
  <2>1. /\ p[1] \in Chain[b] /\ p[2] \in Nat /\ q[1] \in Chain[b] /\ q[2] \in Nat
        /\ p[1] \in Blocks /\ q[1] \in Blocks
    BY PlaceOf DEF PlacesUpTo
  <2> SUFFICES ASSUME q[1] = b PROVE q[2] <= n
    BY DEF PlacesUpTo
  <2>2. Height[p[1]] \in Nat /\ Height[b] \in Nat
    BY <2>1, HeightStep
  <2>3. p[1] = b
    BY <1>1, <2>1, <2>2, HeightGrows DEF Before
  <2> QED BY <1>1, <2>1, <2>2, <2>3 DEF Before, PlacesUpTo
<1> QED BY <1>1 DEF FirstPart, PlacesUpTo

\* On a valid branch, the part of the next block that is valid so far is consistent.
LEMMA PartIsValid ==
  ASSUME NEW b \in Blocks \ {GenesisBlock}, NEW n \in Nat, n <= Len(Vtx[b]),
         Prev[b] \in ValidBranches, ValidUpTo(b, n)
  PROVE  (\A p \in PlacesUpTo(b, n) : ValidTx(b, p)) /\ Consistent(PlacesUpTo(b, n))
<1>1. ASSUME NEW p \in PlacesUpTo(b, n) PROVE ValidTx(b, p)
  <2>1. /\ p \in Places(b) /\ p = <<p[1], p[2]>> /\ p[2] \in Nat \ {0}
        /\ p[1] = b => p[2] <= n
    BY PlaceOf DEF PlacesUpTo
  <2>2. CASE p[1] = b
    BY <2>1, <2>2 DEF ValidUpTo
  <2>3. CASE p[1] # b
    <3>1. Prev[b] \in Blocks /\ p \in Places(Prev[b])
      <4>1. Places(b) = Places(Prev[b]) \cup {<<b, i>> : i \in DOMAIN Vtx[b]}
        BY PlacesStep
      <4> QED BY <2>1, <2>3, <4>1, TreeAssumption
    <3>2. ValidTx(Prev[b], p)
      BY <3>1, ValidBranchTxs
    <3> QED BY <2>1, <3>1, <3>2, ValidTxLocal
  <2> QED BY <2>2, <2>3
<1> QED BY <1>1, PartIsFirst, ValidIsConsistent

-----------------------------------------------------------------------------
(* ConnectInputs and DisconnectInputs take the index of one part to that   *)
(* of the next.                                                            *)

\* The outputs that exist and those that are spent belong to transactions.
LEMMA Outputs ==
  /\ \A o \in OutPoints : o[1] \in Txs
  /\ \A t \in Txs : \A o \in Ins[t] : o[1] \in Txs
BY TxAssumption DEF OutPoints

\* What ConnectInputs and DisconnectInputs leave of each entry.
LEMMA ConnectedEntries ==
  ASSUME db \in Database, NEW t \in Txs, NEW b \in Blocks
  PROVE  /\ \A u \in Txs : ConnectInputs(t, b).pos[u] = IF u = t THEN b ELSE db.pos[u]
         /\ \A o \in OutPoints : ConnectInputs(t, b).spent[o] =
              IF o \in Ins[t] THEN t ELSE IF o[1] = t THEN NoTx ELSE db.spent[o]
         /\ \A u \in Txs : DisconnectInputs(t).pos[u] = IF u = t THEN NoBlock ELSE db.pos[u]
         /\ \A o \in OutPoints : DisconnectInputs(t).spent[o] =
              IF o \in Ins[t] \/ o[1] = t THEN NoTx ELSE db.spent[o]
BY DEF Database, ConnectInputs, DisconnectInputs

\* What the index of P tells of a transaction and of an output.
LEMMA IndexTells ==
  ASSUME NEW b \in Blocks, NEW P \in SUBSET Places(b), NEW d, IsIndexOf(d, P), Consistent(P)
  PROVE  /\ \A t \in Txs : d.pos[t] # NoBlock <=> \E q \in P : TxAt(q) = t
         /\ \A q \in P : d.pos[TxAt(q)] = q[1]
         /\ \A o \in OutPoints : d.spent[o] = NoTx <=> \A q \in P : o \notin Ins[TxAt(q)]
<1>1. \A q \in P : q[1] \in Blocks /\ TxAt(q) \in Txs
  BY PlaceOf
<1>2. ASSUME NEW t \in Txs
      PROVE  d.pos[t] # NoBlock <=> \E q \in P : TxAt(q) = t
  BY <1>1, TreeAssumption DEF IsIndexOf
<1>3. ASSUME NEW q \in P
      PROVE  d.pos[TxAt(q)] = q[1]
  <2>1. PICK p \in P : TxAt(p) = TxAt(q) /\ p[1] = d.pos[TxAt(q)]
    BY <1>1 DEF IsIndexOf
  <2>2. p = q
    BY <2>1 DEF Consistent
  <2> QED BY <2>1, <2>2
<1>4. ASSUME NEW o \in OutPoints
      PROVE  d.spent[o] = NoTx <=> \A q \in P : o \notin Ins[TxAt(q)]
  BY DEF IsIndexOf
<1> QED BY <1>2, <1>3, <1>4

\* ConnectInputs' checks find in the index what makes the transaction valid on the branch.
LEMMA ChecksAreRight ==
  ASSUME NEW b \in Blocks \ {GenesisBlock}, NEW n \in Nat, n < Len(Vtx[b]), db \in Database,
         IsIndexOf(db, PlacesUpTo(b, n)), Consistent(PlacesUpTo(b, n))
  PROVE  CanConnect(Vtx[b][n + 1], b, TRUE) <=> ValidTx(b, <<b, n + 1>>)
<1> DEFINE t == Vtx[b][n + 1]
           p == <<b, n + 1>>
           P == PlacesUpTo(b, n)
<1>1. /\ t \in Txs /\ TxAt(p) = t /\ P \in SUBSET Places(b) /\ p[1] = b
      /\ \A q \in Places(b) : Before(q, p) <=> q \in P
  BY PartStep DEF PlacesUpTo
<1>2. /\ \A u \in Txs : db.pos[u] # NoBlock <=> \E q \in P : TxAt(q) = u
      /\ \A q \in P : db.pos[TxAt(q)] = q[1]
      /\ \A o \in OutPoints : db.spent[o] = NoTx <=> \A q \in P : o \notin Ins[TxAt(q)]
  BY <1>1, IndexTells
<1>3. \A q \in P : q[1] \in Chain[b]
  BY <1>1, PlaceOf
<1>4. \A q, r \in P : TxAt(q) = TxAt(r) => q = r
  BY DEF Consistent
<1> HIDE DEF t, p, P
<1>5. ASSUME NEW o \in Ins[t]
      PROVE  CanSpend(o, b, TRUE) <=> ValidInput(b, p, o)
  <2>1. o[1] \in Txs
    BY <1>1, Outputs
  <2>2. CASE \E q \in P : TxAt(q) = o[1]
    <3>1. PICK q \in P : TxAt(q) = o[1]
      BY <2>2
    <3>2. db.pos[o[1]] # NoBlock /\ db.pos[o[1]] = q[1] /\ q[1] \in Chain[b]
      BY <1>2, <1>3, <2>1, <3>1
    <3>3. Matured(o[1], b)
            <=> (o[1] \in CoinBases => Height[q[1]] + CoinbaseMaturity <= Height[b])
      BY <3>2 DEF Matured
    <3>4. (\E r \in Places(b) :
             /\ TxAt(r) = o[1]
             /\ Before(r, p)
             /\ o[1] \in CoinBases => Height[r[1]] + CoinbaseMaturity <= Height[p[1]])
            <=> (o[1] \in CoinBases => Height[q[1]] + CoinbaseMaturity <= Height[b])
      BY <1>1, <1>4, <3>1
    <3>5. o \in OutPoints =>
            (db.spent[o] = NoTx <=> \A r \in Places(b) : Before(r, p) => o \notin Ins[TxAt(r)])
      BY <1>1, <1>2
    <3> QED BY <3>2, <3>3, <3>4, <3>5 DEF CanSpend, ValidInput
  <2>3. CASE ~ \E q \in P : TxAt(q) = o[1]
    <3>1. ~CanSpend(o, b, TRUE)
      BY <1>2, <2>1, <2>3 DEF CanSpend
    <3>2. ~ValidInput(b, p, o)
      BY <1>1, <2>3 DEF ValidInput
    <3> QED BY <3>1, <3>2
  <2> QED BY <2>2, <2>3
<1>6. CanConnect(t, b, TRUE) <=> ValidTx(b, p)
  BY <1>1, <1>5 DEF CanConnect, ValidTx
<1> QED BY <1>6 DEF t, p

\* A transaction that connects adds its record and marks its inputs spent.
LEMMA ConnectKeepsIndex ==
  ASSUME NEW b \in Blocks \ {GenesisBlock}, NEW n \in Nat, n < Len(Vtx[b]), db \in Database,
         IsIndexOf(db, PlacesUpTo(b, n)), Consistent(PlacesUpTo(b, n)),
         Consistent(PlacesUpTo(b, n + 1))
  PROVE  IsIndexOf(ConnectInputs(Vtx[b][n + 1], b), PlacesUpTo(b, n + 1))
<1> DEFINE t == Vtx[b][n + 1]
           p == <<b, n + 1>>
           P == PlacesUpTo(b, n)
           Q == PlacesUpTo(b, n + 1)
           e == ConnectInputs(t, b)
<1>1. t \in Txs /\ TxAt(p) = t /\ p[1] = b /\ Q = P \cup {p} /\ p \notin P
  BY PartStep
<1>2. /\ \A u \in Txs : e.pos[u] = IF u = t THEN b ELSE db.pos[u]
      /\ \A o \in OutPoints : e.spent[o] =
           IF o \in Ins[t] THEN t ELSE IF o[1] = t THEN NoTx ELSE db.spent[o]
  BY <1>1, ConnectedEntries
<1> HIDE DEF t, p, P, Q, e
<1>3. IsIndexOf(db, P) /\ Consistent(P) /\ Consistent(Q)
  BY DEF P, Q
<1>4. ASSUME NEW u \in Txs
      PROVE  IF \E q \in Q : TxAt(q) = u
             THEN \E q \in Q : TxAt(q) = u /\ q[1] = e.pos[u]
             ELSE e.pos[u] = NoBlock
  <2>1. CASE u = t
    BY <1>1, <1>2, <2>1
  <2>2. CASE u # t
    <3>1. e.pos[u] = db.pos[u] /\ ((\E q \in Q : TxAt(q) = u) <=> \E q \in P : TxAt(q) = u)
      BY <1>1, <1>2, <2>2
    <3> QED BY <1>1, <1>3, <3>1 DEF IsIndexOf
  <2> QED BY <2>1, <2>2
<1>5. ASSUME NEW o \in OutPoints
      PROVE  IF e.spent[o] = NoTx
             THEN \A q \in Q : o \notin Ins[TxAt(q)]
             ELSE o \in Ins[e.spent[o]] /\ \E q \in Q : TxAt(q) = e.spent[o]
  <2>1. CASE o \in Ins[t]
    BY <1>1, <1>2, <2>1, TxAssumption
  <2>2. CASE o \notin Ins[t] /\ o[1] = t
    <3>1. ASSUME NEW q \in P, o \in Ins[TxAt(q)] PROVE FALSE
      <4>1. PICK r \in P : TxAt(r) = t
        BY <1>3, <2>2, <3>1 DEF Consistent
      <4> QED BY <1>1, <1>3, <4>1 DEF Consistent
    <3> QED BY <1>1, <1>2, <2>2, <3>1
  <2>3. CASE o \notin Ins[t] /\ o[1] # t
    <3>1. e.spent[o] = db.spent[o]
      BY <1>2, <2>3
    <3> QED BY <1>1, <1>3, <2>3, <3>1 DEF IsIndexOf
  <2> QED BY <2>1, <2>2, <2>3
<1>6. IsIndexOf(e, Q)
  BY <1>4, <1>5 DEF IsIndexOf
<1> QED BY <1>6 DEF e, Q, t

\* The last transaction of a part is undone, and its previous transactions have records.
LEMMA DisconnectKeepsIndex ==
  ASSUME NEW b \in Blocks \ {GenesisBlock}, NEW n \in Nat, n < Len(Vtx[b]), db \in Database,
         IsIndexOf(db, PlacesUpTo(b, n + 1)), Consistent(PlacesUpTo(b, n)),
         Consistent(PlacesUpTo(b, n + 1))
  PROVE  /\ CanDisconnect(Vtx[b][n + 1])
         /\ IsIndexOf(DisconnectInputs(Vtx[b][n + 1]), PlacesUpTo(b, n))
<1> DEFINE t == Vtx[b][n + 1]
           p == <<b, n + 1>>
           P == PlacesUpTo(b, n)
           Q == PlacesUpTo(b, n + 1)
           e == DisconnectInputs(t)
<1>1. /\ t \in Txs /\ TxAt(p) = t /\ p[1] = b /\ Q = P \cup {p} /\ p \notin P
      /\ Q \in SUBSET Places(b)
  BY PartStep DEF PlacesUpTo
<1>2. /\ \A u \in Txs : e.pos[u] = IF u = t THEN NoBlock ELSE db.pos[u]
      /\ \A o \in OutPoints : e.spent[o] =
           IF o \in Ins[t] \/ o[1] = t THEN NoTx ELSE db.spent[o]
  BY <1>1, ConnectedEntries
<1> HIDE DEF t, p, P, Q, e
<1>3. IsIndexOf(db, Q) /\ Consistent(P) /\ Consistent(Q)
  BY DEF P, Q
<1>4. CanDisconnect(t)
  <2> SUFFICES ASSUME NEW o \in Ins[t] PROVE o \in OutPoints /\ db.pos[o[1]] # NoBlock
    BY DEF CanDisconnect
  <2>1. o \in OutPoints /\ \E q \in Q : TxAt(q) = o[1]
    BY <1>1, <1>3 DEF Consistent
  <2> QED BY <1>1, <1>3, <2>1, Outputs, IndexTells
<1>5. ASSUME NEW u \in Txs
      PROVE  IF \E q \in P : TxAt(q) = u
             THEN \E q \in P : TxAt(q) = u /\ q[1] = e.pos[u]
             ELSE e.pos[u] = NoBlock
  <2>1. CASE u = t
    <3>1. ~ \E q \in P : TxAt(q) = u
      BY <1>1, <1>3, <2>1 DEF Consistent
    <3> QED BY <1>2, <2>1, <3>1
  <2>2. CASE u # t
    <3>1. e.pos[u] = db.pos[u] /\ \A q \in Q : TxAt(q) = u => q \in P
      BY <1>1, <1>2, <2>2
    <3> QED BY <1>1, <1>3, <3>1 DEF IsIndexOf
  <2> QED BY <2>1, <2>2
<1>6. ASSUME NEW o \in OutPoints
      PROVE  IF e.spent[o] = NoTx
             THEN \A q \in P : o \notin Ins[TxAt(q)]
             ELSE o \in Ins[e.spent[o]] /\ \E q \in P : TxAt(q) = e.spent[o]
  <2>1. CASE o \in Ins[t]
    <3>1. \A q \in P : o \notin Ins[TxAt(q)]
      BY <1>1, <1>3, <2>1 DEF Consistent
    <3> QED BY <1>2, <2>1, <3>1
  <2>2. CASE o \notin Ins[t] /\ o[1] = t
    <3>1. ASSUME NEW q \in P, o \in Ins[TxAt(q)] PROVE FALSE
      <4>1. PICK r \in P : TxAt(r) = t
        BY <1>3, <2>2, <3>1 DEF Consistent
      <4> QED BY <1>1, <1>3, <4>1 DEF Consistent
    <3> QED BY <1>2, <2>2, <3>1
  <2>3. CASE o \notin Ins[t] /\ o[1] # t
    <3>1. e.spent[o] = db.spent[o]
      BY <1>2, <2>3
    <3> QED BY <1>1, <1>3, <2>3, <3>1 DEF IsIndexOf
  <2> QED BY <2>1, <2>2, <2>3
<1>7. IsIndexOf(e, P)
  BY <1>5, <1>6 DEF IsIndexOf
<1> QED BY <1>4, <1>7 DEF e, P, t

-----------------------------------------------------------------------------
(* The ledger.                                                             *)

\* Databases with the same transaction records are indexes of the same places.
LEMMA SameIndex ==
  ASSUME NEW d, NEW e, NEW P, SameTxs(d, e)
  PROVE  IsIndexOf(d, P) <=> IsIndexOf(e, P)
BY DEF SameTxs, IsIndexOf

\* ConnectBlock adds fees up as the block's definition does.
LEMMA FeesAreRight ==
  ASSUME NEW b \in Blocks, nTx \in Nat, nTx < Len(Vtx[b]), nFees = FeesUpTo(b)[nTx]
  PROVE  FeesWith(Vtx[b][nTx + 1]) = FeesUpTo(b)[nTx + 1]
<1>1. nTx + 1 \in DOMAIN Vtx[b] /\ (Vtx[b][nTx + 1] \in CoinBases <=> nTx = 0)
  <2>1. nTx + 1 \in DOMAIN Vtx[b]
    BY TxAssumption, LenProperties
  <2> QED BY <2>1, CoinbaseAssumption
<1>2. nTx = 0 => FeesUpTo(b)[nTx] = 0
  BY FeesStep
<1>3. FeesUpTo(b)[nTx + 1] =
        IF nTx + 1 <= 1 THEN 0
        ELSE FeesUpTo(b)[(nTx + 1) - 1]
               + (GetValueIn(Vtx[b][nTx + 1]) - GetValueOut(Vtx[b][nTx + 1]))
  BY FeesStep
<1>4. (nTx + 1) - 1 = nTx /\ (nTx + 1 <= 1 <=> nTx = 0)
  OBVIOUS
<1> QED BY <1>1, <1>2, <1>3, <1>4 DEF FeesWith

\* What holds of every commit and of the new one.
LEMMA CommittedBranches ==
  ASSUME TypeOK, RecoverableLedger, db' \in Database, log' = Committed(db'),
         db'.hashBestChain \in ValidBranches, IsIndexOf(db', Places(db'.hashBestChain))
  PROVE  RecoverableLedger'
<1>1. log \in Seq(Database) /\ log # <<>>
  BY DEF TypeOK
<1>2. \A n \in DOMAIN log' : log'[n] = db' \/ \E m \in DOMAIN log : log'[n] = log[m]
  BY ONLY <1>1, db' \in Database, log' = Committed(db'), CommittedLog
<1>3. ASSUME NEW n \in DOMAIN log'
      PROVE  /\ log'[n].hashBestChain \in ValidBranches
             /\ IsIndexOf(log'[n], Places(log'[n].hashBestChain))
  BY <1>2 DEF RecoverableLedger
<1> QED BY <1>3 DEF RecoverableLedger

\* The database of a node that starts is the index of the genesis block.
LEMMA LedgerInit == Init => LedgerInv
<1> SUFFICES ASSUME Init PROVE LedgerInv
  OBVIOUS
<1>1. IsIndexOf(GenesisDatabase, Places(GenesisBlock))
  BY GenesisPlaces DEF IsIndexOf, GenesisDatabase
<1>2. DOMAIN log = {1} /\ log[1] = GenesisDatabase /\ GenesisDatabase.hashBestChain = GenesisBlock
  BY DEF Init, GenesisDatabase
<1>3. DatabaseIsIndex
  BY <1>1 DEF DatabaseIsIndex, Init
<1>4. BranchesAreValid /\ RecoverableLedger
  BY <1>1, <1>2, ValidGenesis DEF BranchesAreValid, RecoverableLedger, Init
<1> QED BY <1>3, <1>4 DEF LedgerInv

\* The steps outside of Reorganize's loops that leave the database alone.
LEMMA LedgerStepQuiet ==
  ASSUME PositionInv, IndexInv, LedgerInv, UNCHANGED <<disk, pindex, nTx, nFees>>,
         \/ UNCHANGED vars
         \/ \E b \in Blocks : ReceiveBlock(b) \/ AcceptOrphan(b)
         \/ \E t \in Txs : AcceptToMemoryPool(t)
         \/ RejectBlock \/ ResurrectTx \/ StartDelete \/ DeleteTx \/ SetBestChain
         \/ NextInQueue
  PROVE  LedgerInv'
<1>1. CASE UNCHANGED vars
  BY <1>1 DEF vars, locals, memory, disk, LedgerInv, DatabaseIsIndex, BranchesAreValid,
     RecoverableLedger, Disconnected, NextToConnect
<1>2. CASE ~UNCHANGED vars
  <2>1. pc \notin {"disconnect", "connect"} /\ pc' \notin {"disconnect", "connect"}
    BY <1>2 DEF ReceiveBlock, DropBlock, HoldOrphanBlock, ProcessBlock, AcceptOrphan,
       AcceptToMemoryPool, RejectBlock, AcceptReturns, ResurrectTx, StartDelete, DeleteTx,
       SetBestChain, NextInQueue
  <2>2. pindexBest' = pindexBest \/ (pindexBest' = pindexNew /\ pindex = pindexNew)
    BY <1>2 DEF ReceiveBlock, DropBlock, HoldOrphanBlock, ProcessBlock, AcceptOrphan,
       AcceptToMemoryPool, RejectBlock, ResurrectTx, StartDelete, DeleteTx, SetBestChain,
       NextInQueue, memory, IndexInv, BranchOfDatabase
  <2>3. db' = db /\ log' = log /\ pindex' = pindex /\ nTx' = nTx /\ nFees' = nFees
    BY DEF disk
  <2>4. DatabaseIsIndex'
    BY <2>1, <2>3 DEF LedgerInv, DatabaseIsIndex
  <2>5. BranchesAreValid' /\ RecoverableLedger'
    BY <2>2, <2>3 DEF LedgerInv, BranchesAreValid, RecoverableLedger
  <2> QED BY <2>4, <2>5 DEF LedgerInv
<1> QED BY <1>1, <1>2

\* A block record more, or another best block, and the same transaction index.
LEMMA LedgerStepRecord ==
  ASSUME PositionInv, IndexInv, LedgerInv, AddToBlockIndex \/ CommitBestChain
  PROVE  LedgerInv'
<1>1. db \in Database /\ pindexNew \in Blocks /\ TypeOK /\ RecoverableLedger
  BY DEF PositionInv, TypeOK, LedgerInv
<1>2. /\ db' \in Database /\ SameTxs(db, db') /\ log' = Committed(db')
      /\ db'.hashBestChain = pindex
  <2>1. CASE AddToBlockIndex
    <3>1. db' = [db EXCEPT !.index = @ \cup {pindexNew}, !.hashNext[pindexNew] = NoBlock]
          /\ log' = Committed(db')
      BY <2>1 DEF AddToBlockIndex
    <3>2. db.hashBestChain = pindex
      BY <2>1 DEF AddToBlockIndex, IndexInv, BranchOfDatabase
    <3> QED BY ONLY <1>1, <3>1, <3>2, RecordUpdate
  <2>2. CASE CommitBestChain
    <3>1. db' = [db EXCEPT !.hashBestChain = pindexNew] /\ log' = Committed(db')
          /\ pindex = pindexNew
      BY <2>2 DEF CommitBestChain, IndexInv, BranchOfDatabase
    <3> QED BY ONLY <1>1, <3>1, BestBlockUpdate
  <2> QED BY <2>1, <2>2
<1>3. /\ pc \notin {"disconnect", "connect"} /\ pc' \notin {"disconnect", "connect"}
      /\ UNCHANGED <<pindex, nTx, nFees, pindexBest>>
  BY DEF AddToBlockIndex, CommitBestChain, AcceptReturns, locals
<1>4. IsIndexOf(db', Places(pindex)) /\ nTx = 0 /\ nFees = 0 /\ {pindexBest, pindex} \subseteq ValidBranches
  BY <1>2, <1>3, SameIndex DEF LedgerInv, DatabaseIsIndex, BranchesAreValid
<1>5. RecoverableLedger'
  BY ONLY <1>1, <1>2, <1>4, CommittedBranches
<1> QED BY ONLY <1>3, <1>4, <1>5 DEF LedgerInv, DatabaseIsIndex, BranchesAreValid

\* A block is about to connect on top of the one that the index ends at.
LEMMA LedgerAtNextBlock ==
  ASSUME pindexNew' \in Blocks, pindex' \in Chain[pindexNew'] \ {pindexNew'},
         pc' = "connect", nTx' = 0, nFees' = 0, IsIndexOf(db', Places(pindex'))
  PROVE  DatabaseIsIndex'
<1> DEFINE b == CHOOSE c \in Chain[pindexNew'] \ {GenesisBlock} : Prev[c] = pindex'
<1>1. NextToConnect' = b
  BY DEF NextToConnect
<1>2. b \in Chain[pindexNew'] \ {GenesisBlock} /\ Prev[b] = pindex'
  <2>1. \E c \in Chain[pindexNew'] \ {GenesisBlock} : Prev[c] = pindex'
    BY ChainSuccessor
  <2> QED BY <2>1
<1>3. b \in Blocks \ {GenesisBlock}
  BY <1>2, ChainClosed
<1> HIDE DEF b
<1>4. IsIndexOf(db', PlacesUpTo(b, 0))
  BY <1>2, <1>3, PartEnds
<1>5. FeesUpTo(b)[0] = 0 /\ 0 <= Len(Vtx[b]) /\ ValidUpTo(b, 0)
  BY <1>3, FeesStep, TxAssumption, LenProperties DEF ValidUpTo
<1> QED BY <1>1, <1>4, <1>5 DEF DatabaseIsIndex

\* Entering Reorganize's loops.
LEMMA LedgerStepStart ==
  ASSUME PositionInv, PositionInv', IndexInv, LedgerInv,
         ExtendBestChain \/ StartReorganize \/ ReachFork
  PROVE  LedgerInv'
<1>1. /\ UNCHANGED <<db, log, nFees, pindexBest, pindexNew>> /\ nFees = 0
      /\ pindex' = pindex /\ pindex \in Blocks /\ pindexNew \in Blocks
  BY DEF ExtendBestChain, StartReorganize, ReachFork, disk, memory, IndexInv, BranchOfDatabase,
     LedgerInv, DatabaseIsIndex, PositionInv, TypeOK
<1>2. BranchesAreValid' /\ RecoverableLedger'
  BY <1>1 DEF LedgerInv, BranchesAreValid, RecoverableLedger
<1>3. CASE ExtendBestChain \/ ReachFork
  <2>1. pc' = "connect" /\ nTx' = 0 /\ nFees' = 0
    BY <1>1, <1>3 DEF ExtendBestChain, ReachFork, LedgerInv, DatabaseIsIndex
  <2>2. IsIndexOf(db, Places(pindex))
    BY <1>1, <1>3, PartEnds DEF ExtendBestChain, ReachFork, LedgerInv, DatabaseIsIndex
  <2>3. pindexNew' \in Blocks /\ pindex' \in Chain[pindexNew'] \ {pindexNew'}
    BY <2>1 DEF PositionInv, TypeOK, LoopsOnBranches
  <2>4. DatabaseIsIndex'
    BY <1>1, <2>1, <2>2, <2>3, LedgerAtNextBlock
  <2> QED BY <1>2, <2>4 DEF LedgerInv
<1>4. CASE StartReorganize
  <2>1. pc' = "disconnect" /\ nTx' = Len(Vtx[pindex]) /\ IsIndexOf(db, Places(pindex))
    BY <1>1, <1>4 DEF StartReorganize, LedgerInv, DatabaseIsIndex, IndexInv, BranchOfDatabase
  <2>2. DatabaseIsIndex'
    BY <1>1, <2>1, PartEnds DEF DatabaseIsIndex
  <2> QED BY <1>2, <2>2 DEF LedgerInv
<1> QED BY <1>3, <1>4

\* The transaction that DisconnectBlock comes to can be undone, and is.
LEMMA Disconnecting ==
  ASSUME PositionInv, LedgerInv, pc = "disconnect", pindex \in Disconnected, nTx > 0
  PROVE  /\ CanDisconnect(DisconnectsNext)
         /\ IsIndexOf(DisconnectInputs(DisconnectsNext), PlacesUpTo(pindex, nTx - 1))
<1>1. /\ pindex \in Blocks /\ pindexNew \in Blocks /\ pindex # GenesisBlock /\ db \in Database
      /\ nTx \in Nat /\ nTx <= Len(Vtx[pindex])
      /\ pindex \in ValidBranches /\ IsIndexOf(db, PlacesUpTo(pindex, nTx))
  BY ChainGenesis DEF PositionInv, TypeOK, LoopsOnBranches, Disconnected, LedgerInv,
     DatabaseIsIndex, BranchesAreValid
<1>2. nTx - 1 \in Nat /\ (nTx - 1) + 1 = nTx /\ nTx - 1 < Len(Vtx[pindex])
  BY <1>1, TxAssumption, LenProperties
<1>3. \A n \in Nat : Consistent(PlacesUpTo(pindex, n))
  <2> SUFFICES ASSUME NEW n \in Nat PROVE Consistent(PlacesUpTo(pindex, n))
    OBVIOUS
  <2>1. FirstPart(PlacesUpTo(pindex, n), pindex)
    BY <1>1, PartIsFirst
  <2>2. \A p \in PlacesUpTo(pindex, n) : ValidTx(pindex, p)
    BY <1>1, ValidBranchTxs DEF PlacesUpTo
  <2> QED BY <1>1, <2>1, <2>2, ValidIsConsistent
<1>4. /\ CanDisconnect(Vtx[pindex][(nTx - 1) + 1])
      /\ IsIndexOf(DisconnectInputs(Vtx[pindex][(nTx - 1) + 1]), PlacesUpTo(pindex, nTx - 1))
  <2>1. IsIndexOf(db, PlacesUpTo(pindex, (nTx - 1) + 1)) /\ pindex \in Blocks \ {GenesisBlock}
    BY <1>1, <1>2
  <2>2. Consistent(PlacesUpTo(pindex, nTx - 1)) /\ Consistent(PlacesUpTo(pindex, (nTx - 1) + 1))
    BY <1>1, <1>2, <1>3
  <2> HIDE DEF DisconnectsNext
  <2> QED BY <1>1, <1>2, <2>1, <2>2, DisconnectKeepsIndex
<1> QED BY <1>2, <1>4 DEF DisconnectsNext

\* DisconnectBlock takes its transactions out of the index, the last one first.
LEMMA LedgerStepDisconnect ==
  ASSUME PositionInv, IndexInv, LedgerInv, DisconnectTx \/ DisconnectBlock
  PROVE  LedgerInv'
<1>1. /\ UNCHANGED <<log, nFees, pindexBest, pindexNew, pc>> /\ pc = "disconnect"
      /\ pindex \in Disconnected /\ nFees = 0
      /\ pindex \in Blocks \ {GenesisBlock} /\ pindex \in ValidBranches /\ db \in Database
  BY ChainGenesis DEF DisconnectTx, DisconnectBlock, memory, LedgerInv, DatabaseIsIndex,
     BranchesAreValid, PositionInv, TypeOK, Disconnected
<1>2. RecoverableLedger'
  BY <1>1 DEF LedgerInv, RecoverableLedger
<1>3. CASE DisconnectTx
  <2>1. pindex' = pindex /\ IsIndexOf(db', PlacesUpTo(pindex, nTx - 1)) /\ nTx' = nTx - 1
    BY <1>1, <1>3, Disconnecting DEF DisconnectTx
  <2>2. Disconnected' = Disconnected
    BY <1>1 DEF Disconnected
  <2>3. DatabaseIsIndex'
    BY <1>1, <2>1, <2>2 DEF DatabaseIsIndex
  <2> QED BY <1>1, <1>2, <2>1, <2>3 DEF LedgerInv, BranchesAreValid
<1>4. CASE DisconnectBlock
  <2>1. /\ pindex' = Prev[pindex] /\ nTx' = Len(Vtx[Prev[pindex]]) /\ nTx = 0
        /\ db' = [db EXCEPT !.hashNext[Prev[pindex]] = NoBlock]
    BY <1>4 DEF DisconnectBlock
  <2>2. Prev[pindex] \in Blocks /\ Prev[pindex] \in ValidBranches
    BY <1>1, ValidBranchStep, TreeAssumption
  <2>3. IsIndexOf(db, Places(Prev[pindex]))
    BY <1>1, <2>1, PartEnds DEF LedgerInv, DatabaseIsIndex
  <2>4. SameTxs(db, db')
    BY ONLY <1>1, <2>1, <2>2, LinkUpdate
  <2>5. IsIndexOf(db', PlacesUpTo(Prev[pindex], Len(Vtx[Prev[pindex]])))
    BY <2>2, <2>3, <2>4, SameIndex, PartEnds
  <2>6. DatabaseIsIndex'
    BY <1>1, <2>1, <2>5 DEF DatabaseIsIndex
  <2> QED BY <1>1, <1>2, <2>1, <2>2, <2>6 DEF LedgerInv, BranchesAreValid
<1> QED BY <1>3, <1>4

\* Where ConnectBlock is: it has found the first transactions of a block valid.
LEMMA Connecting ==
  ASSUME PositionInv, IndexInv, LedgerInv, pc = "connect"
  PROVE  /\ NextToConnect \in Blocks \ {GenesisBlock} /\ NextToConnect \in Chain[pindexNew]
         /\ Prev[NextToConnect] = pindex /\ pindex \in ValidBranches
         /\ FailsAt[NextToConnect] \in {"height", "never"}
         /\ IsIndexOf(db, PlacesUpTo(NextToConnect, nTx)) /\ nTx \in Nat
         /\ nTx <= Len(Vtx[NextToConnect]) /\ ValidUpTo(NextToConnect, nTx)
         /\ nFees = FeesUpTo(NextToConnect)[nTx]
         /\ Consistent(PlacesUpTo(NextToConnect, nTx)) /\ db \in Database
<1>1. /\ pindexNew \in Blocks /\ nTx \in Nat /\ db \in Database
      /\ pindex \in Chain[pindexNew] \ {pindexNew}
      /\ log \in Seq(Database) /\ log # <<>>
  BY DEF PositionInv, TypeOK, LoopsOnBranches
<1>2. /\ NextToConnect \in Blocks \ {GenesisBlock} /\ NextToConnect \in Chain[pindexNew]
      /\ Prev[NextToConnect] = pindex
  BY <1>1, NextBlock
<1>3. FailsAt[NextToConnect] \in {"height", "never"}
  <2>1. PICK n \in DOMAIN log : Last(log) = log[n]
    BY <1>1, LastIsLogged
  <2>2. pindexNew \in log[n].index /\ ClosedUnderPrev(log[n].index)
    BY <2>1 DEF IndexInv, CopiesAgree, BlocksWereChecked, CommitsAreTrees, Activating
  <2>3. log[n].index \subseteq Blocks
    BY <1>1, <2>1, LastIsLogged, Fields
  <2>4. NextToConnect \in log[n].index
    BY <1>1, <1>2, <2>2, <2>3, ChainLeast
  <2>5. FailsAt[NextToConnect] \in Stages
    BY <1>2, TxAssumption
  <2> QED BY <1>2, <2>4, <2>5 DEF IndexInv, BlocksWereChecked, Stages
<1>4. /\ IsIndexOf(db, PlacesUpTo(NextToConnect, nTx))
      /\ nTx <= Len(Vtx[NextToConnect]) /\ ValidUpTo(NextToConnect, nTx)
      /\ nFees = FeesUpTo(NextToConnect)[nTx] /\ pindex \in ValidBranches
  BY DEF LedgerInv, DatabaseIsIndex, BranchesAreValid
<1>5. Consistent(PlacesUpTo(NextToConnect, nTx))
  BY <1>1, <1>2, <1>4, PartIsValid
<1> QED BY <1>1, <1>2, <1>3, <1>4, <1>5

\* ConnectBlock's checks of a transaction accept the valid ones.
LEMMA ChecksOfTx ==
  ASSUME PositionInv, IndexInv, LedgerInv, pc = "connect", nTx < Len(Vtx[NextToConnect])
  PROVE  /\ TxConnects(NextToConnect) <=> ValidTx(NextToConnect, <<NextToConnect, nTx + 1>>)
                                          /\ MoneyRange(FeesUpTo(NextToConnect)[nTx + 1])
         /\ FeesWith(Vtx[NextToConnect][nTx + 1]) = FeesUpTo(NextToConnect)[nTx + 1]
<1>1. /\ NextToConnect \in Blocks \ {GenesisBlock} /\ nTx \in Nat /\ db \in Database
      /\ IsIndexOf(db, PlacesUpTo(NextToConnect, nTx))
      /\ nFees = FeesUpTo(NextToConnect)[nTx] /\ Consistent(PlacesUpTo(NextToConnect, nTx))
  BY Connecting
<1>2. CanConnect(Vtx[NextToConnect][nTx + 1], NextToConnect, TRUE)
        <=> ValidTx(NextToConnect, <<NextToConnect, nTx + 1>>)
  BY <1>1, ChecksAreRight
<1>3. FeesWith(Vtx[NextToConnect][nTx + 1]) = FeesUpTo(NextToConnect)[nTx + 1]
  BY <1>1, FeesAreRight
<1> QED BY <1>2, <1>3 DEF TxConnects

\* ConnectBlock's checks of a block whose branch is valid accept it when it is valid there.
LEMMA ChecksOfBlock ==
  ASSUME PositionInv, IndexInv, LedgerInv, pc = "connect"
  PROVE  /\ NextToConnect \in ValidBranches => BlockConnects(NextToConnect)
         /\ BlockConnects(NextToConnect) /\ nTx = Len(Vtx[NextToConnect]) =>
              NextToConnect \in ValidBranches
<1> DEFINE b == NextToConnect
<1>1. /\ b \in Blocks \ {GenesisBlock} /\ Prev[b] \in ValidBranches /\ nTx \in Nat
      /\ FailsAt[b] \in {"height", "never"} /\ nTx <= Len(Vtx[b]) /\ ValidUpTo(b, nTx)
      /\ nFees = FeesUpTo(b)[nTx]
  BY Connecting
<1>2. nTx < Len(Vtx[b]) =>
        (TxConnects(b) <=> ValidTx(b, <<b, nTx + 1>>) /\ MoneyRange(FeesUpTo(b)[nTx + 1]))
  BY ChecksOfTx
<1>3. DOMAIN Vtx[b] = 1..Len(Vtx[b]) /\ Len(Vtx[b]) \in Nat
  BY <1>1, TxAssumption
<1> HIDE DEF b
<1>4. b \in ValidBranches <=> ValidBlockOn(b, b)
  BY <1>1, ValidBranchStep
<1>5. ASSUME ValidBlockOn(b, b) PROVE BlockConnects(b)
  <2>1. FailsAt[b] # "height"
    BY <1>5 DEF ValidBlockOn
  <2>2. CASE nTx < Len(Vtx[b])
    <3>1. nTx + 1 \in DOMAIN Vtx[b]
      BY <1>1, <1>3, <2>2
    <3> QED BY <1>2, <1>5, <2>1, <2>2, <3>1 DEF ValidBlockOn, BlockConnects
  <2>3. CASE ~(nTx < Len(Vtx[b]))
    <3>1. nTx = Len(Vtx[b])
      BY <1>1, <1>3, <2>3
    <3> QED BY <1>1, <1>5, <2>1, <2>3, <3>1 DEF ValidBlockOn, BlockConnects
  <2> QED BY <2>2, <2>3
<1>6. ASSUME BlockConnects(b), nTx = Len(Vtx[b]) PROVE ValidBlockOn(b, b)
  <2>1. FailsAt[b] = "never" /\ GetValueOut(Vtx[b][1]) <= Subsidy(Height[b]) + nFees
    BY <1>1, <1>3, <1>6 DEF BlockConnects
  <2> QED BY <1>1, <1>3, <1>6, <2>1 DEF ValidBlockOn, ValidUpTo
<1>7. (b \in ValidBranches => BlockConnects(b))
      /\ (BlockConnects(b) /\ nTx = Len(Vtx[b]) => b \in ValidBranches)
  BY <1>4, <1>5, <1>6
<1> QED BY <1>7 DEF b

\* ConnectBlock puts the transactions it finds valid into the index.
LEMMA LedgerStepConnect ==
  ASSUME PositionInv, PositionInv', IndexInv, LedgerInv, ConnectTx \/ ConnectBlock
  PROVE  LedgerInv'
<1> DEFINE b == NextToConnect
<1>1. /\ UNCHANGED <<log, pindexBest, pindexNew>> /\ pc = "connect" /\ BlockConnects(b)
      /\ pindexBest \in ValidBranches
  BY DEF ConnectTx, ConnectBlock, memory, LedgerInv, BranchesAreValid
<1>2. RecoverableLedger'
  BY <1>1 DEF LedgerInv, RecoverableLedger
<1>3. /\ b \in Blocks \ {GenesisBlock} /\ Prev[b] = pindex /\ pindex \in ValidBranches
      /\ IsIndexOf(db, PlacesUpTo(b, nTx)) /\ nTx \in Nat /\ db \in Database
      /\ Consistent(PlacesUpTo(b, nTx)) /\ ValidUpTo(b, nTx) /\ nTx <= Len(Vtx[b])
  BY <1>1, Connecting
<1>4. CASE ConnectTx
  <2>1. /\ nTx < Len(Vtx[b]) /\ nTx' = nTx + 1 /\ pindex' = pindex /\ pc' = "connect"
        /\ db' = ConnectInputs(Vtx[b][nTx + 1], b) /\ nFees' = FeesWith(Vtx[b][nTx + 1])
    BY <1>4 DEF ConnectTx
  <2>2. /\ ValidTx(b, <<b, nTx + 1>>) /\ MoneyRange(FeesUpTo(b)[nTx + 1])
        /\ nFees' = FeesUpTo(b)[nTx + 1]
    <3>1. TxConnects(b)
      BY <1>1, <2>1 DEF BlockConnects
    <3> QED BY <1>1, <2>1, <3>1, ChecksOfTx
  <2>3. NextToConnect' = b
    BY <1>1, <2>1 DEF NextToConnect
  <2> HIDE DEF b
  <2>4. nTx + 1 <= Len(Vtx[b]) /\ nTx + 1 \in Nat
    BY <1>3, <2>1, TxAssumption, LenProperties
  <2>5. ValidUpTo(b, nTx + 1)
    <3>1. \A i \in 1..(nTx + 1) : i \in 1..nTx \/ i = nTx + 1
      BY <1>3
    <3> QED BY <1>3, <2>2, <3>1 DEF ValidUpTo
  <2>6. Consistent(PlacesUpTo(b, nTx + 1))
    BY <1>3, <2>4, <2>5, PartIsValid
  <2>7. IsIndexOf(db', PlacesUpTo(b, nTx + 1))
    BY <1>3, <2>1, <2>6, ConnectKeepsIndex
  <2>8. DatabaseIsIndex'
    BY <2>1, <2>2, <2>3, <2>4, <2>5, <2>7 DEF DatabaseIsIndex
  <2> QED BY <1>1, <1>2, <1>3, <2>1, <2>8 DEF LedgerInv, BranchesAreValid
<1>5. CASE ConnectBlock
  <2>1. /\ nTx = Len(Vtx[b]) /\ db' = [db EXCEPT !.hashNext[pindex] = b] /\ pindex' = b
        /\ nTx' = 0 /\ nFees' = 0 /\ pc' \in {"commit", "connect"}
    BY <1>5 DEF ConnectBlock
  <2>2. b \in ValidBranches
    BY <1>1, <2>1, ChecksOfBlock
  <2>3. pc' = "connect" => pindexNew' \in Blocks /\ pindex' \in Chain[pindexNew'] \ {pindexNew'}
    BY DEF PositionInv, TypeOK, LoopsOnBranches
  <2> HIDE DEF b
  <2>4. IsIndexOf(db', Places(b))
    <3>1. pindex \in Blocks /\ b \in Blocks
      BY <1>3 DEF ValidBranches
    <3>2. SameTxs(db, db')
      BY ONLY <1>3, <2>1, <3>1, LinkUpdate
    <3> QED BY <1>3, <2>1, <3>2, SameIndex, PartEnds
  <2>5. DatabaseIsIndex'
    <3>1. CASE pc' = "connect"
      BY <2>1, <2>3, <2>4, <3>1, LedgerAtNextBlock
    <3>2. CASE pc' = "commit"
      BY <2>1, <2>4, <3>2 DEF DatabaseIsIndex
    <3> QED BY <2>1, <3>1, <3>2
  <2> QED BY <1>1, <1>2, <2>1, <2>2, <2>5 DEF LedgerInv, BranchesAreValid
<1> QED BY <1>4, <1>5

\* The database after TxnAbort, and after a restart, is a committed one.
LEMMA LedgerStepBack ==
  ASSUME PositionInv, IndexInv, LedgerInv,
         AbortBestChain \/ \E n \in 1..Len(log) : CrashAndRestart(n)
  PROVE  LedgerInv'
<1>1. CASE AbortBestChain
  <2> USE <1>1 DEF AbortBestChain
  <2>1. /\ Last(log) \in Database /\ ChainWork[pindexNew] \in Nat
        /\ \E n \in DOMAIN log : Last(log) = log[n]
    BY LastIsLogged, TreeAssumption DEF PositionInv, TypeOK
  <2>2. Last(log).hashBestChain = pindexBest
    BY DEF IndexInv, CopiesAgree, BranchOfDatabase
  <2>3. IsIndexOf(Last(log), Places(pindexBest)) /\ pindexBest \in ValidBranches
    BY <2>1, <2>2 DEF LedgerInv, RecoverableLedger
  <2>4. /\ SameTxs(Last(log), db') /\ db'.hashBestChain = pindexBest
        /\ \A n \in DOMAIN log' : log'[n] = db' \/ \E m \in DOMAIN log : log'[n] = log[m]
    <3>1. CASE ChainWork[pindexNew] > bnBestInvalidWork
      <4>1. /\ db' = [Last(log) EXCEPT !.bnBestInvalidWork = ChainWork[pindexNew]]
            /\ log' = <<db'>>
        BY <3>1 DEF InvalidChainFound
      <4>2. SameTxs(Last(log), db') /\ db'.hashBestChain = pindexBest
        BY ONLY <2>1, <2>2, <4>1, WorkUpdate
      <4>3. \A n \in DOMAIN log' : log'[n] = db'
        BY ONLY <4>1
      <4> QED BY ONLY <4>2, <4>3
    <3>2. CASE ~(ChainWork[pindexNew] > bnBestInvalidWork)
      <4>1. db' = Last(log) /\ log' = log
        BY <3>2 DEF InvalidChainFound
      <4> QED BY ONLY <2>2, <4>1 DEF SameTxs
    <3> QED BY <3>1, <3>2
  <2>5. IsIndexOf(db', Places(pindexBest))
    BY ONLY <2>3, <2>4, SameIndex
  <2>6. /\ pc' \in {"idle", "queue"} /\ pindex' = pindexBest /\ pindexBest' = pindexBest
        /\ nTx' = 0 /\ nFees' = 0
    BY DEF AcceptReturns
  <2>7. DatabaseIsIndex' /\ BranchesAreValid'
    BY ONLY <2>3, <2>5, <2>6 DEF DatabaseIsIndex, BranchesAreValid
  <2>8. ASSUME NEW n \in DOMAIN log'
        PROVE  /\ log'[n].hashBestChain \in ValidBranches
               /\ IsIndexOf(log'[n], Places(log'[n].hashBestChain))
    <3>1. RecoverableLedger
      BY DEF LedgerInv
    <3> QED BY ONLY <2>3, <2>4, <2>5, <3>1 DEF RecoverableLedger
  <2> QED BY <2>7, <2>8 DEF LedgerInv, RecoverableLedger
<1>2. CASE \E n \in 1..Len(log) : CrashAndRestart(n)
  <2> SUFFICES ASSUME NEW n \in 1..Len(log), CrashAndRestart(n) PROVE LedgerInv'
    BY <1>2
  <2>1. n \in DOMAIN log
    BY LenProperties DEF PositionInv, TypeOK
  <2>2. /\ log[n].hashBestChain \in ValidBranches
        /\ IsIndexOf(log[n], Places(log[n].hashBestChain))
    BY <2>1 DEF LedgerInv, RecoverableLedger
  <2>3. /\ db' = log[n] /\ log' = <<log[n]>> /\ pindexBest' = log[n].hashBestChain
        /\ pindex' = log[n].hashBestChain /\ pc' = "idle" /\ nTx' = 0 /\ nFees' = 0
    BY DEF CrashAndRestart
  <2>4. \A m \in DOMAIN log' : log'[m] = log[n]
    BY ONLY <2>3
  <2> QED BY ONLY <2>2, <2>3, <2>4 DEF LedgerInv, DatabaseIsIndex, BranchesAreValid,
         RecoverableLedger
<1> QED BY <1>1, <1>2

\* Every step keeps the database the index of the part of a valid branch.
LEMMA LedgerStep == PositionInv /\ IndexInv /\ LedgerInv /\ [Next]_vars => LedgerInv'
<1> SUFFICES ASSUME PositionInv, IndexInv, LedgerInv, [Next]_vars PROVE LedgerInv'
  OBVIOUS
<1>1. PositionInv'
  BY PositionStep
<1>2. CASE \/ UNCHANGED vars
           \/ \E b \in Blocks : ReceiveBlock(b) \/ AcceptOrphan(b)
           \/ \E t \in Txs : AcceptToMemoryPool(t)
           \/ RejectBlock \/ ResurrectTx \/ StartDelete \/ DeleteTx \/ SetBestChain
           \/ NextInQueue
  <2>1. UNCHANGED <<disk, pindex, nTx, nFees>>
    BY <1>2 DEF vars, locals, ReceiveBlock, DropBlock, HoldOrphanBlock, ProcessBlock,
       AcceptOrphan, AcceptToMemoryPool, RejectBlock, ResurrectTx, StartDelete, DeleteTx,
       SetBestChain, NextInQueue
  <2> QED BY ONLY PositionInv, IndexInv, LedgerInv, <1>2, <2>1, LedgerStepQuiet
<1>3. CASE AddToBlockIndex \/ CommitBestChain
  BY <1>3, LedgerStepRecord
<1>4. CASE ExtendBestChain \/ StartReorganize \/ ReachFork
  BY <1>1, <1>4, LedgerStepStart
<1>5. CASE DisconnectTx \/ DisconnectBlock
  BY <1>5, LedgerStepDisconnect
<1>6. CASE ConnectTx \/ ConnectBlock
  BY <1>1, <1>6, LedgerStepConnect
<1>7. CASE AbortBestChain \/ \E n \in 1..Len(log) : CrashAndRestart(n)
  BY <1>7, LedgerStepBack
<1> QED BY <1>2, <1>3, <1>4, <1>5, <1>6, <1>7 DEF Next, HandlerStep

-----------------------------------------------------------------------------
(* The best branch.                                                        *)

\* A block that fails to connect ends no valid branch, and DisconnectBlock does not fail.
LEMMA AbortedIsInvalid ==
  ASSUME PositionInv, IndexInv, LedgerInv, AbortBestChain
  PROVE  pindexNew \notin ValidBranches
<1>1. pc = "connect" /\ ~BlockConnects(NextToConnect)
  BY Disconnecting DEF AbortBestChain
<1>2. NextToConnect \notin ValidBranches /\ NextToConnect \in Chain[pindexNew]
  BY <1>1, Connecting, ChecksOfBlock
<1> QED BY <1>2, ValidPrefix

\* When the node starts, no block has more work than the genesis block.
LEMMA OthersInit == Init => OthersAreWorse
BY TreeAssumption DEF Init, OthersAreWorse

\* Only the candidate gains on the best block, and it becomes the best one or is counted.
LEMMA OthersStep ==
  PositionInv /\ IndexInv /\ LedgerInv /\ OthersAreWorse /\ [Next]_vars => OthersAreWorse'
<1> SUFFICES ASSUME PositionInv, IndexInv, LedgerInv, OthersAreWorse, [Next]_vars
             PROVE  OthersAreWorse'
  OBVIOUS
<1>1. /\ mapBlockIndex \subseteq Blocks /\ pindexBest \in Blocks /\ pindexNew \in Blocks
      /\ bnBestInvalidWork \in Nat /\ crashes \in 0..MaxCrashes
      /\ \A b \in Blocks : ChainWork[b] \in Nat
  BY TreeAssumption DEF PositionInv, TypeOK
<1>2. CASE AddToBlockIndex
  <2>1. /\ UNCHANGED <<pindexBest, bnBestInvalidWork, crashes>> /\ ~Activating
        /\ mapBlockIndex' = mapBlockIndex \cup {pindexNew}
    BY <1>2 DEF AddToBlockIndex, Activating
  <2>2. CASE IsCandidate(pindexNew)
    <3>1. Activating' /\ pindexNew' = pindexNew
      BY <1>2, <2>2 DEF AddToBlockIndex, Activating
    <3> QED BY <2>1, <3>1 DEF OthersAreWorse
  <2>3. CASE ~IsCandidate(pindexNew)
    BY <2>1, <2>3 DEF OthersAreWorse, IsCandidate
  <2> QED BY <2>2, <2>3
<1>3. CASE AbortBestChain
  <2>1. /\ UNCHANGED <<pindexBest, mapBlockIndex, crashes>> /\ Activating
    BY <1>3 DEF AbortBestChain, Activating
  <2>2. bnBestInvalidWork' \in Nat /\ bnBestInvalidWork <= bnBestInvalidWork'
        /\ ChainWork[pindexNew] <= bnBestInvalidWork'
    BY <1>1, <1>3 DEF AbortBestChain, InvalidChainFound
  <2>3. pindexNew \notin ValidBranches
    BY <1>3, AbortedIsInvalid
  <2> QED BY <1>1, <2>1, <2>2, <2>3 DEF OthersAreWorse
<1>4. CASE SetBestChain
  <2>1. /\ UNCHANGED <<mapBlockIndex, bnBestInvalidWork, crashes>> /\ pindexBest' = pindexNew
        /\ Activating /\ ChainWork[pindexNew] > ChainWork[pindexBest]
    BY <1>4 DEF SetBestChain, Activating, PositionInv, CandidateIsBetter
  <2> QED BY <1>1, <2>1 DEF OthersAreWorse
<1>5. CASE \E n \in 1..Len(log) : CrashAndRestart(n)
  <2>1. crashes' # 0
    BY <1>1, <1>5 DEF CrashAndRestart
  <2> QED BY <2>1 DEF OthersAreWorse
<1>6. CASE \/ UNCHANGED vars
           \/ \E b \in Blocks : ReceiveBlock(b) \/ AcceptOrphan(b)
           \/ \E t \in Txs : AcceptToMemoryPool(t)
           \/ RejectBlock \/ NextInQueue
  <2>1. /\ UNCHANGED <<mapBlockIndex, pindexBest, bnBestInvalidWork, crashes>>
        /\ ~Activating \/ (Activating /\ Activating' /\ pindexNew' = pindexNew)
    BY <1>6 DEF vars, memory, locals, Activating, ReceiveBlock, DropBlock, HoldOrphanBlock,
       ProcessBlock, AcceptOrphan, AcceptToMemoryPool, RejectBlock, NextInQueue
  <2> QED BY <2>1 DEF OthersAreWorse
<1>7. CASE \/ ExtendBestChain \/ StartReorganize \/ DisconnectTx \/ DisconnectBlock
           \/ ReachFork \/ ConnectTx \/ ConnectBlock \/ CommitBestChain
           \/ ResurrectTx \/ StartDelete \/ DeleteTx
  <2>1. /\ UNCHANGED <<mapBlockIndex, pindexBest, bnBestInvalidWork, crashes, pindexNew>>
        /\ Activating /\ Activating'
    BY <1>7 DEF memory, locals, Activating, ExtendBestChain, StartReorganize, DisconnectTx,
       DisconnectBlock, ReachFork, ConnectTx, ConnectBlock, CommitBestChain, ResurrectTx,
       StartDelete, DeleteTx
  <2> QED BY <2>1 DEF OthersAreWorse
<1> QED BY <1>2, <1>3, <1>4, <1>5, <1>6, <1>7 DEF Next, HandlerStep

-----------------------------------------------------------------------------
(* The memory pool and the ledger.                                         *)

\* What the index on disk tells of a transaction.
LEMMA LastIsIndex ==
  ASSUME PositionInv, IndexInv, LedgerInv
  PROVE  /\ Last(log).hashBestChain \in ValidBranches
         /\ IsIndexOf(Last(log), Places(Last(log).hashBestChain))
         /\ Last(log).hashBestChain = db.hashBestChain /\ Last(log) \in Database
BY LastIsLogged DEF LedgerInv, RecoverableLedger, IndexInv, CopiesAgree, PositionInv, TypeOK

\* When the new branch has been connected, a transaction of it is on the best branch as
\* well or else listed for deletion.
LEMMA OnNewBranch ==
  ASSUME PositionInv, IndexInv, LedgerInv, PoolInv, pc \in {"commit", "resurrect"},
         NEW t \in Txs, db.pos[t] # NoBlock
  PROVE  \/ \E i \in DOMAIN vDelete : vDelete[i] = t
         \/ \E p \in Places(pindexBest) : TxAt(p) = t /\ p[1] \in Chain[pindexNew]
<1>1. /\ pindex = pindexNew /\ pindexNew \in Blocks /\ IsIndexOf(db, Places(pindexNew))
      /\ pindexBest \in Blocks
  BY DEF IndexInv, BranchOfDatabase, LedgerInv, DatabaseIsIndex, PositionInv, TypeOK
<1>2. PICK p \in Places(pindexNew) : TxAt(p) = t
  BY <1>1 DEF IsIndexOf
<1>3. /\ p = <<p[1], p[2]>> /\ p[1] \in Chain[pindexNew] \ {GenesisBlock}
      /\ p[2] \in DOMAIN Vtx[p[1]]
  BY <1>1, <1>2, PlaceOf
<1>4. CASE p[1] \in Connected
  BY <1>1, <1>2, <1>3, <1>4 DEF PoolInv, TxAt, Connected
<1>5. CASE p[1] \notin Connected
  <2>1. p[1] \in Chain[pindexBest] \ {GenesisBlock}
    BY <1>3, <1>5 DEF Connected
  <2>2. p \in Places(pindexBest)
    BY <1>1, <1>3, <2>1, IsPlace
  <2> QED BY <1>2, <1>3, <2>2
<1> QED BY <1>4, <1>5

\* The pool is empty when the node starts.
LEMMA PoolInit == Init => PoolInv
BY DEF Init, PoolInv

\* The steps that change neither the pool nor what the database stands for.
LEMMA PoolStepQuiet ==
  ASSUME PositionInv, IndexInv, LedgerInv, PoolInv, UNCHANGED pool,
         \/ UNCHANGED vars
         \/ \E b \in Blocks : ReceiveBlock(b) \/ AcceptOrphan(b)
         \/ RejectBlock \/ NextInQueue \/ DisconnectTx \/ ConnectTx \/ ReachFork
  PROVE  PoolInv'
<1>1. /\ UNCHANGED <<mapTransactions, log, vResurrect, vDelete, pindexBest, pindex>>
      /\ Last(log)' = Last(log)
  BY DEF pool, vars, memory, locals, disk, Last, ReceiveBlock, DropBlock, HoldOrphanBlock,
     ProcessBlock, AcceptOrphan, RejectBlock, AcceptReturns, NextInQueue, DisconnectTx,
     ConnectTx, ReachFork
<1>2. CASE UNCHANGED vars
  BY <1>1, <1>2 DEF PoolInv, vars, locals, disk, Connected, Disconnected
<1>3. CASE ~UNCHANGED vars
  <2>1. \/ pc \in {"idle", "queue", "accept"} /\ pc' \in {"idle", "queue", "accept"}
        \/ /\ pc \in {"disconnect", "connect"} /\ pc' \in {"disconnect", "connect"}
           /\ pindexNew' = pindexNew
    BY <1>3 DEF ReceiveBlock, DropBlock, HoldOrphanBlock, ProcessBlock, AcceptOrphan,
       RejectBlock, AcceptReturns, NextInQueue, DisconnectTx, ConnectTx, ReachFork, locals
  <2>2. pindexNew' = pindexNew => Connected' = Connected /\ Disconnected' = Disconnected
    BY <1>1 DEF Connected, Disconnected
  <2> QED BY ONLY PoolInv, <1>1, <2>1, <2>2 DEF PoolInv
<1> QED BY <1>2, <1>3

\* AcceptToMemoryPool takes no transaction that the index has.
LEMMA PoolStepAccept ==
  ASSUME PositionInv, IndexInv, LedgerInv, PoolInv, NEW t \in Txs, AcceptToMemoryPool(t)
  PROVE  PoolInv'
<1>1. /\ UNCHANGED <<log, pc, vResurrect, vDelete>> /\ pc = "idle" /\ db.pos[t] = NoBlock
      /\ mapTransactions' = mapTransactions \cup {t} /\ db = Last(log) /\ Last(log)' = Last(log)
  BY DEF AcceptToMemoryPool, Acceptable, AddToMemoryPoolUnchecked, disk, locals, Last,
     IndexInv, CopiesAgree
<1> QED BY ONLY PoolInv, <1>1 DEF PoolInv

\* A new record of a block adds no transaction to the index.
LEMMA PoolStepAdd ==
  ASSUME PositionInv, IndexInv, LedgerInv, PoolInv, AddToBlockIndex
  PROVE  PoolInv'
<1>1. /\ UNCHANGED <<mapTransactions, vResurrect>> /\ vResurrect = <<>>
      /\ pc = "accept" /\ pc' \in {"setbest", "queue", "idle"}
  BY DEF AddToBlockIndex, pool, AcceptReturns, PoolInv
<1>2. Last(log)'.pos = Last(log).pos
  <2>1. /\ db \in Database /\ pindexNew \in Blocks /\ db = Last(log)
        /\ log' = Committed(db') /\ log \in Seq(Database) /\ log # <<>>
        /\ db' = [db EXCEPT !.index = @ \cup {pindexNew}, !.hashNext[pindexNew] = NoBlock]
    BY DEF AddToBlockIndex, PositionInv, TypeOK, IndexInv, CopiesAgree
  <2>2. db' \in Database /\ db'.pos = db.pos
    BY ONLY <2>1, RecordUpdate DEF SameTxs
  <2>3. Last(log') = db'
    BY ONLY <2>1, <2>2, CommittedLog
  <2> QED BY <2>1, <2>2, <2>3
<1> QED BY ONLY PoolInv, <1>1, <1>2 DEF PoolInv

\* When Reorganize starts it has nothing to resurrect and has connected nothing.
LEMMA PoolStepStart ==
  ASSUME PositionInv, IndexInv, LedgerInv, PoolInv, ExtendBestChain \/ StartReorganize
  PROVE  PoolInv'
<1>1. /\ UNCHANGED <<mapTransactions, log, vResurrect, pindexBest, pindexNew>>
      /\ pc = "setbest" /\ pc' \in {"connect", "disconnect"} /\ pindex' = pindexBest
      /\ Last(log)' = Last(log) /\ vResurrect = <<>>
  BY DEF ExtendBestChain, StartReorganize, pool, memory, disk, Last, PoolInv
<1>2. (Connected \cap Chain[pindex])' = {}
  BY <1>1 DEF Connected
<1> QED BY ONLY PoolInv, <1>1, <1>2 DEF PoolInv

\* DisconnectBlock lists transactions of its own block alone for the pool.
LEMMA PoolStepDisconnectBlock ==
  ASSUME PositionInv, IndexInv, LedgerInv, PoolInv, DisconnectBlock
  PROVE  PoolInv'
<1>1. /\ UNCHANGED <<mapTransactions, log, pc, vDelete, pindexBest, pindexNew>>
      /\ pc = "disconnect" /\ pindex \in Disconnected /\ pindex' = Prev[pindex]
      /\ vResurrect' = vResurrect \o Tail(Vtx[pindex]) /\ Last(log)' = Last(log)
      /\ pindex \in Blocks \ {GenesisBlock} /\ vResurrect \in Seq(Txs)
  BY ChainGenesis DEF DisconnectBlock, pool, memory, Last, PositionInv, TypeOK, Disconnected
<1>2. Connected' = Connected /\ Disconnected' = Disconnected
  BY <1>1 DEF Connected, Disconnected
<1>3. Chain[pindex'] \subseteq Chain[pindex]
  BY <1>1, ChainStep
<1>4. \A i \in DOMAIN vResurrect' :
        \E a \in Disconnected : \E j \in DOMAIN Vtx[a] : Vtx[a][j] = vResurrect'[i]
  <2> SUFFICES ASSUME NEW i \in DOMAIN vResurrect'
               PROVE  \E a \in Disconnected : \E j \in DOMAIN Vtx[a] : Vtx[a][j] = vResurrect'[i]
    OBVIOUS
  <2> DEFINE s == Tail(Vtx[pindex])
  <2>1. Vtx[pindex] \in Seq(Txs) /\ Vtx[pindex] # <<>> /\ s \in Seq(Txs)
    BY <1>1, TxAssumption, CoinbaseAssumption, HeadTailProperties
  <2>2. \A j \in DOMAIN s : j + 1 \in DOMAIN Vtx[pindex] /\ s[j] = Vtx[pindex][j + 1]
    BY <2>1, TailValues
  <2>3. \/ i \in DOMAIN vResurrect /\ vResurrect'[i] = vResurrect[i]
        \/ \E j \in DOMAIN s : vResurrect'[i] = s[j]
    <3> HIDE DEF s
    <3>1. vResurrect' = vResurrect \o s
      BY <1>1 DEF s
    <3>2. \A k \in DOMAIN (vResurrect \o s) :
            \/ k \in DOMAIN vResurrect /\ (vResurrect \o s)[k] = vResurrect[k]
            \/ \E j \in DOMAIN s : (vResurrect \o s)[k] = s[j]
      BY ONLY SMTT(30), <1>1, <2>1, ConcatParts
    <3> QED BY ONLY SMTT(30), <3>1, <3>2, i \in DOMAIN vResurrect'
  <2>4. CASE i \in DOMAIN vResurrect /\ vResurrect'[i] = vResurrect[i]
    <3>1. \E a \in Disconnected : \E j \in DOMAIN Vtx[a] : Vtx[a][j] = vResurrect[i]
      BY ONLY <1>1, <2>4, PoolInv DEF PoolInv
    <3> QED BY ONLY <2>4, <3>1
  <2>5. CASE \E j \in DOMAIN s : vResurrect'[i] = s[j]
    BY ONLY SMTT(30), <1>1, <2>2, <2>5
  <2> HIDE DEF s
  <2> QED BY ONLY <2>3, <2>4, <2>5
<1>5. \A t \in mapTransactions' : Last(log)'.pos[t] = NoBlock
  <2>1. \A t \in mapTransactions : Last(log).pos[t] = NoBlock
    BY ONLY PoolInv, <1>1 DEF PoolInv
  <2> QED BY ONLY <1>1, <2>1
<1>6. \A a \in Connected' \cap Chain[pindex'] : \A j \in DOMAIN Vtx[a] :
        \E i \in DOMAIN vDelete' : vDelete'[i] = Vtx[a][j]
  <2>1. \A a \in Connected \cap Chain[pindex] : \A j \in DOMAIN Vtx[a] :
          \E i \in DOMAIN vDelete : vDelete[i] = Vtx[a][j]
    BY ONLY PoolInv, <1>1 DEF PoolInv
  <2> QED BY ONLY <1>1, <1>2, <1>3, <2>1
<1>7. pc' = "disconnect"
  BY ONLY <1>1
<1> QED BY ONLY <1>2, <1>4, <1>5, <1>6, <1>7 DEF PoolInv

\* ConnectBlock lists all the transactions of its block for deletion.
LEMMA PoolStepConnectBlock ==
  ASSUME PositionInv, IndexInv, LedgerInv, PoolInv, ConnectBlock
  PROVE  PoolInv'
<1> DEFINE b == NextToConnect
<1>1. /\ UNCHANGED <<mapTransactions, log, vResurrect, pindexBest, pindexNew>>
      /\ pc = "connect" /\ pc' \in {"connect", "commit"} /\ pindex' = b
      /\ vDelete' = vDelete \o Vtx[b] /\ Last(log)' = Last(log) /\ vDelete \in Seq(Txs)
  BY DEF ConnectBlock, pool, memory, Last, PositionInv, TypeOK, DeletedWith
<1>2. Connected' = Connected /\ Disconnected' = Disconnected
  BY <1>1 DEF Connected, Disconnected
<1>3. b \in Blocks /\ Chain[b] = {b} \cup Chain[pindex] /\ Vtx[b] \in Seq(Txs)
  BY <1>1, Connecting, ChainStep, TxAssumption
<1> HIDE DEF b
<1>4. /\ \A i \in DOMAIN vDelete : i \in DOMAIN vDelete' /\ vDelete'[i] = vDelete[i]
      /\ \A j \in DOMAIN Vtx[b] : \E i \in DOMAIN vDelete' : vDelete'[i] = Vtx[b][j]
  <2> DEFINE r == Vtx[b]
  <2>1. vDelete \in Seq(Txs) /\ r \in Seq(Txs) /\ vDelete' = vDelete \o r
    BY <1>1, <1>3
  <2> HIDE DEF r
  <2>2. \A i \in DOMAIN vDelete : i \in DOMAIN (vDelete \o r) /\ (vDelete \o r)[i] = vDelete[i]
    BY ONLY <2>1, ConcatParts
  <2>3. \A j \in DOMAIN r : \E i \in DOMAIN (vDelete \o r) : (vDelete \o r)[i] = r[j]
    BY ONLY <2>1, ConcatParts
  <2>4. /\ \A i \in DOMAIN vDelete : i \in DOMAIN vDelete' /\ vDelete'[i] = vDelete[i]
        /\ \A j \in DOMAIN r : \E i \in DOMAIN vDelete' : vDelete'[i] = r[j]
    BY ONLY <2>1, <2>2, <2>3
  <2> QED BY <2>4 DEF r
<1>5. ASSUME NEW a \in Connected \cap Chain[b], NEW j \in DOMAIN Vtx[a]
      PROVE  \E i \in DOMAIN vDelete' : vDelete'[i] = Vtx[a][j]
  <2>1. CASE a = b
    <3>1. j \in DOMAIN Vtx[b] /\ Vtx[a][j] = Vtx[b][j]
      BY <2>1
    <3> QED BY ONLY <1>4, <3>1
  <2>2. CASE a # b
    <3>1. PICK i \in DOMAIN vDelete : vDelete[i] = Vtx[a][j]
      BY <1>1, <1>3, <2>2 DEF PoolInv
    <3> QED BY <1>4, <3>1
  <2> QED BY <2>1, <2>2
<1> QED BY ONLY PoolInv, <1>1, <1>2, <1>5 DEF PoolInv

\* At the commit each transaction of the pool that the new branch has is listed.
LEMMA PoolStepCommit ==
  ASSUME PositionInv, IndexInv, LedgerInv, PoolInv, CommitBestChain
  PROVE  PoolInv'
<1>1. /\ UNCHANGED <<mapTransactions, vResurrect, vDelete, pindexBest, pindexNew, pindex>>
      /\ pc = "commit" /\ pc' = "resurrect"
      /\ db' = [db EXCEPT !.hashBestChain = pindexNew] /\ db \in Database /\ pindexNew \in Blocks
  BY DEF CommitBestChain, pool, locals, PositionInv, TypeOK
<1>2. db'.pos = db.pos
  BY ONLY <1>1, BestBlockUpdate DEF SameTxs
<1>3. Connected' = Connected /\ Disconnected' = Disconnected
  BY <1>1 DEF Connected, Disconnected
<1>4. ASSUME NEW t \in mapTransactions
      PROVE  db.pos[t] = NoBlock \/ \E i \in DOMAIN vDelete : vDelete[i] = t
  <2>1. t \in Txs /\ Last(log).pos[t] = NoBlock
    BY <1>1 DEF PositionInv, TypeOK, PoolInv
  <2>2. IsIndexOf(Last(log), Places(pindexBest)) /\ pindexBest \in Blocks
    BY <1>1, LastIsIndex DEF IndexInv, BranchOfDatabase, PositionInv, TypeOK
  <2>3. ~ \E p \in Places(pindexBest) : TxAt(p) = t
    <3> SUFFICES ASSUME NEW p \in Places(pindexBest), TxAt(p) = t PROVE FALSE
      OBVIOUS
    <3>1. PICK q \in Places(pindexBest) : q[1] = Last(log).pos[t]
      BY <2>1, <2>2 DEF IsIndexOf
    <3> QED BY <2>1, <2>2, <3>1, PlaceOf, TreeAssumption
  <2> QED BY <1>1, <2>1, <2>3, OnNewBranch
<1> QED BY ONLY PoolInv, <1>1, <1>2, <1>3, <1>4 DEF PoolInv

\* A resurrected transaction that the new branch has too is listed for deletion: else it
\* would be twice on the old one.
LEMMA PoolStepResurrect ==
  ASSUME PositionInv, IndexInv, LedgerInv, PoolInv, ResurrectTx
  PROVE  PoolInv'
<1>1. /\ UNCHANGED <<db, vDelete, pindexBest, pindexNew, pindex, pc>> /\ pc = "resurrect"
      /\ vResurrect # <<>> /\ vResurrect' = Tail(vResurrect) /\ vResurrect \in Seq(Txs)
      /\ mapTransactions' \subseteq mapTransactions \cup {Head(vResurrect)}
  BY DEF ResurrectTx, memory, disk, pool, AddToMemoryPoolUnchecked, PositionInv, TypeOK
<1>2. Connected' = Connected /\ Disconnected' = Disconnected
  BY <1>1 DEF Connected, Disconnected
<1>3. 1 \in DOMAIN vResurrect /\ Head(vResurrect) = vResurrect[1] /\ Head(vResurrect) \in Txs
  BY <1>1, HeadTailProperties, LenProperties, EmptySeq
<1>4. \A i \in DOMAIN vResurrect' : i + 1 \in DOMAIN vResurrect /\ vResurrect'[i] = vResurrect[i + 1]
  BY <1>1, TailValues
<1>5. db.pos[Head(vResurrect)] = NoBlock \/ \E i \in DOMAIN vDelete : vDelete[i] = Head(vResurrect)
  <2> DEFINE t == Head(vResurrect)
  <2> SUFFICES ASSUME db.pos[t] # NoBlock, ~ \E i \in DOMAIN vDelete : vDelete[i] = t PROVE FALSE
    OBVIOUS
  <2>1. PICK a \in Disconnected : \E j \in DOMAIN Vtx[a] : Vtx[a][j] = t
    BY <1>1, <1>3 DEF PoolInv
  <2>2. PICK j \in DOMAIN Vtx[a] : Vtx[a][j] = t
    BY <2>1
  <2>3. PICK p \in Places(pindexBest) : TxAt(p) = t /\ p[1] \in Chain[pindexNew]
    <3> HIDE DEF t
    <3>1. t \in Txs /\ pc \in {"commit", "resurrect"}
      BY <1>1, <1>3 DEF t
    <3> QED BY <3>1, OnNewBranch
  <2>4. pindexBest \in ValidBranches /\ pindexBest \in Blocks /\ pindexNew \in Blocks
    BY DEF LedgerInv, BranchesAreValid, PositionInv, TypeOK
  <2>5. a \in Chain[pindexBest] \ {GenesisBlock} /\ a \notin Chain[pindexNew]
    BY <2>4, ChainGenesis DEF Disconnected
  <2>6. <<a, j>> \in Places(pindexBest) /\ TxAt(<<a, j>>) = t
    BY <2>2, <2>4, <2>5, IsPlace DEF TxAt
  <2>7. p = <<a, j>>
    <3> HIDE DEF t
    <3> QED BY <2>3, <2>4, <2>6, BranchIsConsistent DEF Consistent
  <2> QED BY <2>3, <2>5, <2>7
<1> QED BY ONLY PoolInv, <1>1, <1>2, <1>4, <1>5 DEF PoolInv

\* RemoveFromMemoryPool takes them out one by one, until none is left on the list.
LEMMA PoolStepDelete ==
  ASSUME PositionInv, IndexInv, LedgerInv, PoolInv, StartDelete \/ DeleteTx \/ SetBestChain
  PROVE  PoolInv'
<1>1. CASE StartDelete
  <2>1. /\ UNCHANGED <<mapTransactions, db, vDelete, vResurrect>>
        /\ pc = "resurrect" /\ pc' = "delete" /\ vResurrect = <<>>
    BY <1>1 DEF StartDelete, pool, disk, locals
  <2> QED BY ONLY PoolInv, <2>1 DEF PoolInv
<1>2. CASE DeleteTx
  <2>1. /\ UNCHANGED <<db, pc, vResurrect>> /\ pc = "delete" /\ vDelete # <<>>
        /\ mapTransactions' = mapTransactions \ {Head(vDelete)} /\ vDelete' = Tail(vDelete)
        /\ vDelete \in Seq(Txs) /\ vResurrect = <<>>
    BY <1>2 DEF DeleteTx, disk, RemoveFromMemoryPool, PositionInv, TypeOK, PoolInv
  <2>2. \A i \in DOMAIN vDelete :
          vDelete[i] = Head(vDelete) \/ \E j \in DOMAIN Tail(vDelete) : Tail(vDelete)[j] = vDelete[i]
    <3> SUFFICES ASSUME NEW i \in DOMAIN vDelete, vDelete[i] # Head(vDelete)
                 PROVE  \E j \in DOMAIN Tail(vDelete) : Tail(vDelete)[j] = vDelete[i]
      OBVIOUS
    <3>1. /\ DOMAIN vDelete = 1..Len(vDelete) /\ Len(vDelete) \in Nat \ {0}
          /\ Tail(vDelete) \in Seq(Txs) /\ Head(vDelete) = vDelete[1]
          /\ Len(Tail(vDelete)) = Len(vDelete) - 1
          /\ \A j \in 1..Len(Tail(vDelete)) : Tail(vDelete)[j] = vDelete[j + 1]
      BY <2>1, HeadTailProperties, LenProperties, EmptySeq
    <3>2. DOMAIN Tail(vDelete) = 1..Len(Tail(vDelete))
      BY <3>1, LenProperties
    <3>3. i - 1 \in 1..Len(Tail(vDelete)) /\ (i - 1) + 1 = i
      BY <3>1
    <3> QED BY <3>1, <3>2, <3>3
  <2> QED BY ONLY PoolInv, <2>1, <2>2 DEF PoolInv
<1>3. CASE SetBestChain
  <2>1. /\ UNCHANGED <<mapTransactions, log, vResurrect>> /\ pc = "delete" /\ vDelete = <<>>
        /\ pc' = "queue" /\ db = Last(log) /\ Last(log)' = Last(log) /\ vResurrect = <<>>
    BY <1>3 DEF SetBestChain, AcceptReturns, pool, disk, Last, IndexInv, CopiesAgree, PoolInv
  <2> QED BY ONLY PoolInv, <2>1 DEF PoolInv
<1> QED BY <1>1, <1>2, <1>3

\* After TxnAbort the pool is what it was, and after a restart it is empty.
LEMMA PoolStepBack ==
  ASSUME PositionInv, IndexInv, LedgerInv, PoolInv,
         AbortBestChain \/ \E n \in 1..Len(log) : CrashAndRestart(n)
  PROVE  PoolInv'
<1>1. CASE AbortBestChain
  <2>1. /\ UNCHANGED mapTransactions /\ vResurrect' = <<>> /\ pc \in {"connect", "disconnect"}
        /\ pc' \in {"idle", "queue"}
    BY <1>1 DEF AbortBestChain, AcceptReturns, pool
  <2>2. Last(log) \in Database /\ ChainWork[pindexNew] \in Nat
    BY LastIsLogged, TreeAssumption DEF PositionInv, TypeOK
  <2>3. Last(log)'.pos = Last(log).pos
    <3>1. CASE ChainWork[pindexNew] > bnBestInvalidWork
      <4>1. /\ db' = [Last(log) EXCEPT !.bnBestInvalidWork = ChainWork[pindexNew]]
            /\ log' = <<db'>>
        BY <1>1, <3>1 DEF AbortBestChain, InvalidChainFound
      <4>2. db'.pos = Last(log).pos
        BY ONLY <2>2, <4>1, WorkUpdate DEF SameTxs
      <4> QED BY ONLY <4>1, <4>2 DEF Last
    <3>2. CASE ~(ChainWork[pindexNew] > bnBestInvalidWork)
      BY <1>1, <3>2 DEF AbortBestChain, InvalidChainFound, Last
    <3> QED BY <3>1, <3>2
  <2> QED BY ONLY PoolInv, <2>1, <2>3 DEF PoolInv
<1>2. CASE \E n \in 1..Len(log) : CrashAndRestart(n)
  BY <1>2 DEF CrashAndRestart, PoolInv
<1> QED BY <1>1, <1>2

\* Every step keeps out of the pool what the best branch has.
LEMMA PoolStep ==
  PositionInv /\ IndexInv /\ LedgerInv /\ PoolInv /\ [Next]_vars => PoolInv'
<1> SUFFICES ASSUME PositionInv, IndexInv, LedgerInv, PoolInv, [Next]_vars PROVE PoolInv'
  OBVIOUS
<1>1. CASE \/ UNCHANGED vars
           \/ \E b \in Blocks : ReceiveBlock(b) \/ AcceptOrphan(b)
           \/ RejectBlock \/ NextInQueue \/ DisconnectTx \/ ConnectTx \/ ReachFork
  <2>1. UNCHANGED pool
    BY <1>1 DEF vars, ReceiveBlock, DropBlock, HoldOrphanBlock, ProcessBlock, AcceptOrphan,
       RejectBlock, NextInQueue, DisconnectTx, ConnectTx, ReachFork, pool
  <2> QED BY ONLY PositionInv, IndexInv, LedgerInv, PoolInv, <1>1, <2>1, PoolStepQuiet
<1>2. CASE \E t \in Txs : AcceptToMemoryPool(t)
  BY <1>2, PoolStepAccept
<1>3. CASE AddToBlockIndex
  BY <1>3, PoolStepAdd
<1>4. CASE ExtendBestChain \/ StartReorganize
  BY <1>4, PoolStepStart
<1>5. CASE DisconnectBlock
  BY <1>5, PoolStepDisconnectBlock
<1>6. CASE ConnectBlock
  BY <1>6, PoolStepConnectBlock
<1>7. CASE CommitBestChain
  BY <1>7, PoolStepCommit
<1>8. CASE ResurrectTx
  BY <1>8, PoolStepResurrect
<1>9. CASE StartDelete \/ DeleteTx \/ SetBestChain
  BY <1>9, PoolStepDelete
<1>10. CASE AbortBestChain \/ \E n \in 1..Len(log) : CrashAndRestart(n)
  BY <1>10, PoolStepBack
<1> QED BY <1>1, <1>2, <1>3, <1>4, <1>5, <1>6, <1>7, <1>8, <1>9, <1>10 DEF Next, HandlerStep

-----------------------------------------------------------------------------
(* What follows, in every state of every behaviour.                        *)

\* The invariant holds at the start.
LEMMA ChainInit == Init => ChainInv
BY PositionInit, IndexInit, LedgerInit, OthersInit, PoolInit DEF ChainInv

\* Every step keeps the handler's place, the block index, the ledger, the order of the
\* branches and the pool, and each of them needs the ones before it.
LEMMA ChainInvStep == ChainInv /\ [Next]_vars => ChainInv'
BY PositionStep, IndexStep, LedgerStep, OthersStep, PoolStep DEF ChainInv

\* So they are kept in every run of the node.
THEOREM ChainCorrect == Spec => []ChainInv
BY ChainInit, ChainInvStep, PTL DEF Spec

\* A node that dies at any moment, and loses any of its last commits, starts again from
\* the index of one valid branch, with a record of each of its blocks.
THEOREM RecoverableCorrect == Spec => []Recoverable
<1>1. ChainInv => Recoverable
  <2> SUFFICES ASSUME ChainInv PROVE RecoverableIndex
    BY DEF ChainInv, LedgerInv, Recoverable
  <2> SUFFICES ASSUME NEW n \in DOMAIN log
               PROVE  Chain[log[n].hashBestChain] \subseteq log[n].index
    BY DEF ChainInv, IndexInv, CommitsAreTrees, RecoverableIndex
  <2>1. log[n] \in Database
    BY ElementOfSeq, LenProperties DEF ChainInv, PositionInv, TypeOK
  <2>2. /\ log[n].index \subseteq Blocks /\ ClosedUnderPrev(log[n].index)
        /\ log[n].hashBestChain \in log[n].index
    BY <2>1, Fields DEF ChainInv, IndexInv, CommitsAreTrees
  <2> QED BY <2>2, ChainLeast
<1> QED BY <1>1, ChainCorrect, PTL

\* Memory is right about the best branch, whichever attempts to activate one have failed.
THEOREM MemoryCorrect == Spec => []MemoryIsRight
<1>1. ChainInv => MemoryIsRight
  <2> SUFFICES ASSUME ChainInv PROVE MemoryIsRight
    OBVIOUS
  <2>1. MemoryAgreesWithDisk
    BY DEF MemoryAgreesWithDisk, ChainInv, IndexInv, CopiesAgree, BranchOfDatabase
  <2>2. MainChainLinks
    <3>1. /\ pnext = Last(log).hashNext /\ \E n \in DOMAIN log : Last(log) = log[n]
          /\ db.hashBestChain = Last(log).hashBestChain
      BY LastIsLogged DEF ChainInv, IndexInv, CopiesAgree, PositionInv, TypeOK
    <3> QED BY <3>1 DEF MainChainLinks, ChainInv, IndexInv, CommitsAreTrees, BranchOfDatabase
  <2>3. InvalidWorkIsKnown
    BY DEF InvalidWorkIsKnown, ChainInv, OthersAreWorse, Activating
  <2> QED BY <2>1, <2>2, <2>3 DEF MemoryIsRight
<1> QED BY <1>1, ChainCorrect, PTL

\* DisconnectInputs never fails in the middle of a reorganization.
THEOREM DisconnectCorrect == Spec => []CanAlwaysDisconnect
<1>1. ChainInv => CanAlwaysDisconnect
  BY Disconnecting DEF ChainInv, CanAlwaysDisconnect
<1> QED BY <1>1, ChainCorrect, PTL

\* No valid branch with more work than the best one is left inactive.
THEOREM BestCorrect == Spec => []BestHasMostWork
<1>1. ChainInv => BestHasMostWork
  <2> SUFFICES ASSUME ChainInv, pc = "idle", crashes = 0, NEW b \in mapBlockIndex \cap ValidBranches
               PROVE  ChainWork[b] <= ChainWork[pindexBest]
    BY DEF BestHasMostWork
  <2>1. ~(ChainWork[b] > ChainWork[pindexBest])
    BY DEF ChainInv, OthersAreWorse, Activating
  <2>2. b \in Blocks /\ pindexBest \in Blocks
    BY DEF ChainInv, PositionInv, TypeOK
  <2>3. ChainWork[b] \in Nat /\ ChainWork[pindexBest] \in Nat
    BY <2>2, TreeAssumption
  <2> QED BY <2>1, <2>3
<1> QED BY <1>1, ChainCorrect, PTL

\* Between messages the pool holds no transaction of the best branch.
THEOREM PoolCorrect == Spec => []PoolIsUnconfirmed
<1>1. ChainInv => PoolIsUnconfirmed
  BY DEF ChainInv, PoolInv, IndexInv, CopiesAgree, PoolIsUnconfirmed
<1> QED BY <1>1, ChainCorrect, PTL

-----------------------------------------------------------------------------
(* The promise.                                                            *)

\* The outputs that the index of a branch leaves unspent are those of the ledger it means.
LEMMA IndexMeansLedger ==
  ASSUME NEW b \in ValidBranches, NEW d, IsIndexOf(d, Places(b))
  PROVE  UnspentIn(d) = Unspent(b)
<1>1. b \in Blocks /\ Consistent(Places(b))
  BY BranchIsConsistent DEF ValidBranches
<1>2. /\ \A t \in Txs : d.pos[t] # NoBlock <=> \E q \in Places(b) : TxAt(q) = t
      /\ \A o \in OutPoints : d.spent[o] = NoTx <=> \A q \in Places(b) : o \notin Ins[TxAt(q)]
  BY <1>1, IndexTells
<1>3. ASSUME NEW o \in OutPoints
      PROVE  o \in UnspentIn(d) <=> o \in Unspent(b)
  <2>1. o[1] \in Txs
    BY Outputs
  <2> QED BY <1>2, <2>1 DEF UnspentIn, Unspent, ChainTxs
<1> QED BY <1>3 DEF UnspentIn, Unspent

\* When no handler runs, the database is the index of the best branch.
LEMMA IdleIndex ==
  ASSUME ChainInv, pc = "idle"
  PROVE  /\ pindexBest \in ValidBranches /\ pindexBest \in Blocks
         /\ IsIndexOf(db, Places(pindexBest))
         /\ \A t \in mapTransactions : db.pos[t] = NoBlock
<1>1. pindex = pindexBest /\ db = Last(log)
  BY DEF ChainInv, IndexInv, BranchOfDatabase, CopiesAgree
<1>2. pindexBest \in ValidBranches /\ IsIndexOf(db, Places(pindexBest))
  BY <1>1 DEF ChainInv, LedgerInv, BranchesAreValid, DatabaseIsIndex
<1>3. \A t \in mapTransactions : Last(log).pos[t] = NoBlock
  BY DEF ChainInv, PoolInv
<1> QED BY <1>1, <1>2, <1>3 DEF ValidBranches

\* What that index tells of transactions, outputs and heights, in terms of the branch.
LEMMA BestIndexTells ==
  ASSUME NEW b \in ValidBranches, NEW d, IsIndexOf(d, Places(b))
  PROVE  /\ \A t \in Txs : d.pos[t] # NoBlock <=> t \in ChainTxs(b)
         /\ \A o \in OutPoints : d.spent[o] = NoTx <=> \A t \in ChainTxs(b) : o \notin Ins[t]
         /\ \A q \in Places(b) : d.pos[TxAt(q)] = q[1] /\ q[1] \in Chain[b]
<1>1. b \in Blocks /\ Consistent(Places(b))
  BY BranchIsConsistent DEF ValidBranches
<1>2. /\ \A t \in Txs : d.pos[t] # NoBlock <=> \E q \in Places(b) : TxAt(q) = t
      /\ \A q \in Places(b) : d.pos[TxAt(q)] = q[1]
      /\ \A o \in OutPoints : d.spent[o] = NoTx <=> \A q \in Places(b) : o \notin Ins[TxAt(q)]
  BY <1>1, IndexTells
<1>3. \A q \in Places(b) : q[1] \in Chain[b]
  BY <1>1, PlaceOf
<1> QED BY <1>2, <1>3 DEF ChainTxs

\* No step of a message that carries a block crashes the node.
LEMMA BlocksKeepCrashes == (\E b \in Blocks : ReceiveBlock(b)) \/ HandlerStep => crashes' = crashes
<1>1. ASSUME NEW b \in Blocks, ReceiveBlock(b) PROVE crashes' = crashes
  BY <1>1 DEF ReceiveBlock, DropBlock, HoldOrphanBlock, ProcessBlock, vars
<1>2. ASSUME HandlerStep PROVE crashes' = crashes
  BY <1>2 DEF HandlerStep, RejectBlock, AddToBlockIndex, ExtendBestChain, StartReorganize,
              DisconnectTx, DisconnectBlock, ReachFork, ConnectTx, ConnectBlock,
              CommitBestChain, AbortBestChain, ResurrectTx, StartDelete, DeleteTx,
              SetBestChain, AcceptOrphan, NextInQueue
<1> QED BY <1>1, <1>2

\* The last commit, and with it the promised ledger, stays the same in every step of a
\* node that does not crash but the commit of SetBestChain.
LEMMA LedgerStays ==
  ASSUME ChainInv, Next, ~CommitBestChain, ~ \E n \in 1..Len(log) : CrashAndRestart(n)
  PROVE  /\ Last(log)'.hashBestChain = Last(log).hashBestChain
         /\ SameTxs(Last(log), Last(log)')
<1> USE DEF ChainInv
<1>1. CASE AddToBlockIndex
  <2>1. /\ db \in Database /\ pindexNew \in Blocks /\ db = Last(log)
        /\ log' = Committed(db') /\ log \in Seq(Database) /\ log # <<>>
        /\ db' = [db EXCEPT !.index = @ \cup {pindexNew}, !.hashNext[pindexNew] = NoBlock]
    BY <1>1 DEF AddToBlockIndex, PositionInv, TypeOK, IndexInv, CopiesAgree
  <2>2. db' \in Database /\ SameTxs(db, db') /\ db'.hashBestChain = db.hashBestChain
    BY ONLY <2>1, RecordUpdate
  <2>3. Last(log') = db'
    BY ONLY <2>1, <2>2, CommittedLog
  <2> QED BY <2>1, <2>2, <2>3
<1>2. CASE AbortBestChain
  <2>1. Last(log) \in Database /\ ChainWork[pindexNew] \in Nat
    BY LastIsLogged, TreeAssumption DEF PositionInv, TypeOK
  <2>2. CASE ChainWork[pindexNew] > bnBestInvalidWork
    <3>1. /\ db' = [Last(log) EXCEPT !.bnBestInvalidWork = ChainWork[pindexNew]]
          /\ log' = <<db'>>
      BY <1>2, <2>2 DEF AbortBestChain, InvalidChainFound
    <3>2. SameTxs(Last(log), db') /\ db'.hashBestChain = Last(log).hashBestChain
      BY ONLY <2>1, <3>1, WorkUpdate
    <3> QED BY ONLY <3>1, <3>2 DEF Last
  <2>3. CASE ~(ChainWork[pindexNew] > bnBestInvalidWork)
    BY <1>2, <2>3 DEF AbortBestChain, InvalidChainFound, Last, SameTxs
  <2> QED BY <2>2, <2>3
<1>3. CASE log' = log
  BY <1>3 DEF Last, SameTxs
<1>4. CASE ~AddToBlockIndex /\ ~AbortBestChain
  <2>1. log' = log
    BY <1>4 DEF Next, HandlerStep, ReceiveBlock, DropBlock, HoldOrphanBlock, ProcessBlock,
       AcceptToMemoryPool, RejectBlock, ExtendBestChain, StartReorganize, DisconnectTx,
       DisconnectBlock, ReachFork, ConnectTx, ConnectBlock, ResurrectTx, StartDelete, DeleteTx,
       SetBestChain, AcceptOrphan, NextInQueue, vars, disk
  <2> QED BY <1>3, <2>1
<1> QED BY <1>1, <1>2, <1>4

\* While it does not crash, the node implements one best branch, always valid and only ever
\* replaced by a valid one with more work, and one ledger that changes in the same step: the
\* commit of SetBestChain makes the abstract step, and all the others make none.
THEOREM ChainRefines ==
  ASSUME MaxCrashes = 0
  PROVE  Spec => ImplementsBestChain
<1> DEFINE tip == Last(log).hashBestChain
           ledger == UnspentIn(Last(log))
<1>1. Init => Implements!TipInit
  <2> SUFFICES ASSUME Init PROVE Implements!TipInit
    OBVIOUS
  <2>1. Last(log) = GenesisDatabase
    BY DEF Init, Last
  <2> QED BY <2>1, Outputs DEF Implements!TipInit, UnspentIn, GenesisDatabase
<1>2. ChainInv /\ [Next]_vars => [Implements!TipNext]_<<tip, ledger>>
  <2> SUFFICES ASSUME ChainInv, [Next]_vars
               PROVE  [Implements!TipNext]_<<tip, ledger>>
    OBVIOUS
  <2>1. CASE CommitBestChain
    <3>1. /\ pindexNew \in Blocks /\ ChainWork[pindexNew] > ChainWork[pindexBest]
          /\ pindex = pindexNew /\ pindexNew \in ValidBranches
          /\ IsIndexOf(db, Places(pindexNew)) /\ tip = pindexBest
      BY <2>1 DEF CommitBestChain, ChainInv, PositionInv, TypeOK, CandidateIsBetter, Activating,
         IndexInv, BranchOfDatabase, CopiesAgree, LedgerInv, DatabaseIsIndex, BranchesAreValid
    <3>2. /\ db \in Database /\ db' = [db EXCEPT !.hashBestChain = pindexNew]
          /\ log' = Committed(db') /\ log \in Seq(Database) /\ log # <<>>
      BY <2>1 DEF CommitBestChain, ChainInv, PositionInv, TypeOK
    <3>3. db' \in Database /\ SameTxs(db, db') /\ db'.hashBestChain = pindexNew
      BY ONLY <3>1, <3>2, BestBlockUpdate
    <3>4. Last(log)' = db'
      BY ONLY <3>2, <3>3, CommittedLog
    <3>5. tip' = pindexNew /\ ledger' = Unspent(pindexNew)
      <4>1. IsIndexOf(db', Places(pindexNew))
        BY <3>1, <3>3, SameIndex
      <4>2. UnspentIn(db') = Unspent(pindexNew)
        BY <3>1, <4>1, IndexMeansLedger
      <4> QED BY <3>3, <3>4, <4>2 DEF UnspentIn
    <3> QED BY <3>1, <3>5 DEF Implements!TipNext, Implements!Advance
  <2>2. CASE Next /\ ~CommitBestChain
    <3>1. ~ \E n \in 1..Len(log) : CrashAndRestart(n)
      BY DEF CrashAndRestart, ChainInv, PositionInv, TypeOK
    <3>2. tip' = tip /\ SameTxs(Last(log), Last(log)')
      BY <2>2, <3>1, LedgerStays
    <3> QED BY <3>2 DEF UnspentIn, SameTxs
  <2>3. CASE UNCHANGED vars
    BY <2>3 DEF vars, disk, Last, UnspentIn
  <2> QED BY <2>1, <2>2, <2>3
<1>3. QED
  BY <1>1, <1>2, ChainCorrect, PTL DEF Spec, ImplementsBestChain, Implements!TipSpec

-----------------------------------------------------------------------------
(* What the unspent outputs are worth.                                     *)

\* The outputs of the transactions at P that none of those there spends.
UnspentAt(P) == {o \in OutPoints : /\ \E q \in P : TxAt(q) = o[1]
                                   /\ \A q \in P : o \notin Ins[TxAt(q)]}

\* At the places of a branch they are those that the branch leaves unspent.
LEMMA UnspentIsAt ==
  ASSUME NEW b
  PROVE  Unspent(b) = UnspentAt(Places(b))
BY DEF Unspent, UnspentAt, ChainTxs

\* A first part of a consistent branch is consistent.
LEMMA FirstPartIsConsistent ==
  ASSUME NEW b \in Blocks, NEW P, FirstPart(P, b), Consistent(Places(b))
  PROVE  Consistent(P)
BY DEF FirstPart, Consistent

\* The outputs of one transaction.
OutsOf(t) == {<<t, n>> : n \in 1..NOut[t]}

\* They are finitely many, and worth something.
LEMMA OutsAreFinite ==
  ASSUME NEW t \in Txs
  PROVE  /\ IsFiniteSet(OutsOf(t)) /\ OutsOf(t) \subseteq OutPoints
         /\ \A o \in OutPoints : o \in OutsOf(t) <=> o[1] = t
         /\ GetValueOut(t) = SumOf(Value, OutsOf(t)) /\ GetValueOut(t) \in Nat
<1>1. NOut[t] \in Nat
  BY TxAssumption
<1>2. IsFiniteSet(OutsOf(t))
  <2>1. IsFiniteSet(1..NOut[t])
    BY <1>1, FS_Interval
  <2> DEFINE f == [n \in 1..NOut[t] |-> <<t, n>>]
  <2>2. f \in Surjection(1..NOut[t], OutsOf(t))
    BY DEF Surjection, OutsOf
  <2> HIDE DEF f
  <2> QED BY <2>1, <2>2, FS_Surjection
<1>3. OutsOf(t) \subseteq OutPoints /\ \A o \in OutPoints : o \in OutsOf(t) <=> o[1] = t
  BY DEF OutsOf, OutPoints
<1>4. GetValueOut(t) = SumOf(Value, OutsOf(t))
  BY DEF GetValueOut, SumOfValues, OutsOf
<1>5. \A o \in OutsOf(t) : Value[o] \in Nat
  BY <1>3, TxAssumption
<1>6. SumOf(Value, OutsOf(t)) \in Nat
  BY <1>2, <1>5, SumStep
<1> QED BY <1>2, <1>3, <1>4, <1>6

\* One transaction more takes its inputs out of them, which were all there, and puts its
\* outputs in, which were not.
LEMMA UnspentStep ==
  ASSUME NEW b \in Blocks \ {GenesisBlock}, NEW n \in Nat, n < Len(Vtx[b]),
         Consistent(PlacesUpTo(b, n + 1))
  PROVE  LET t == Vtx[b][n + 1]
             U == UnspentAt(PlacesUpTo(b, n))
         IN  /\ t \in Txs
             /\ UnspentAt(PlacesUpTo(b, n + 1)) = (U \ Ins[t]) \cup OutsOf(t)
             /\ Ins[t] \subseteq U
             /\ OutsOf(t) \cap U = {}
<1> DEFINE t == Vtx[b][n + 1]
           p == <<b, n + 1>>
           P == PlacesUpTo(b, n)
           Q == PlacesUpTo(b, n + 1)
<1>1. /\ t \in Txs /\ TxAt(p) = t /\ Q = P \cup {p} /\ p \notin P
      /\ P \subseteq Places(b) /\ p \in Places(b)
      /\ \A q \in Places(b) : Before(q, p) <=> q \in P
  BY PartStep DEF PlacesUpTo
<1>2. Consistent(Q)
  OBVIOUS
<1>3. \A q \in P : ~Before(p, q)
  BY <1>1, BeforeTotal
<1>4. OutsOf(t) \subseteq OutPoints /\ \A o \in OutPoints : o \in OutsOf(t) <=> o[1] = t
  BY <1>1, OutsAreFinite
<1> HIDE DEF t, p, P, Q
<1>5. \A q \in P : TxAt(q) # t
  BY <1>1, <1>2 DEF Consistent
<1>6. ASSUME NEW o \in Ins[t] PROVE o \in UnspentAt(P)
  <2>1. o \in OutPoints /\ \E q \in Q : TxAt(q) = o[1] /\ Before(q, p)
    BY <1>1, <1>2 DEF Consistent
  <2>2. \E q \in P : TxAt(q) = o[1]
    BY <1>1, <2>1
  <2>3. \A q \in P : o \notin Ins[TxAt(q)]
    BY <1>1, <1>2 DEF Consistent
  <2> QED BY <2>1, <2>2, <2>3 DEF UnspentAt
<1>7. ASSUME NEW o \in OutPoints, o[1] = t PROVE \A q \in Q : o \notin Ins[TxAt(q)]
  <2> SUFFICES ASSUME NEW q \in Q, o \in Ins[TxAt(q)] PROVE FALSE
    OBVIOUS
  <2>1. PICK r \in Q : TxAt(r) = t /\ Before(r, q)
    BY <1>2, <1>7 DEF Consistent
  <2>2. r = p
    BY <1>1, <1>5, <2>1
  <2> QED BY <1>1, <1>3, <2>1, <2>2, BeforeTotal
<1>8. ASSUME NEW o \in OutPoints
      PROVE  o \in UnspentAt(Q) <=> o \in (UnspentAt(P) \ Ins[t]) \cup OutsOf(t)
  <2>1. CASE o[1] = t
    BY <1>1, <1>4, <1>7, <2>1 DEF UnspentAt
  <2>2. CASE o[1] # t
    BY <1>1, <1>4, <2>2 DEF UnspentAt
  <2> QED BY <2>1, <2>2
<1>9. UnspentAt(Q) = (UnspentAt(P) \ Ins[t]) \cup OutsOf(t)
  BY <1>4, <1>8 DEF UnspentAt
<1>10. OutsOf(t) \cap UnspentAt(P) = {}
  BY <1>4, <1>5 DEF UnspentAt
<1> QED BY <1>1, <1>6, <1>9, <1>10 DEF t, P, Q

\* So what they are worth changes by what the transaction puts in and takes out.
LEMMA WorthStep ==
  ASSUME NEW U \in SUBSET OutPoints, IsFiniteSet(U), NEW t \in Txs, Ins[t] \subseteq U,
         OutsOf(t) \cap U = {}
  PROVE  /\ IsFiniteSet((U \ Ins[t]) \cup OutsOf(t))
         /\ GetValueIn(t) \in Nat /\ GetValueOut(t) \in Nat
         /\ SumOf(Value, U) \in Nat /\ SumOf(Value, (U \ Ins[t]) \cup OutsOf(t)) \in Nat
         /\ SumOf(Value, (U \ Ins[t]) \cup OutsOf(t)) + GetValueIn(t)
              = SumOf(Value, U) + GetValueOut(t)
<1> DEFINE R == U \ Ins[t]
           O == OutsOf(t)
           I == Ins[t]
<1>1. /\ IsFiniteSet(O) /\ O \subseteq OutPoints
      /\ GetValueOut(t) = SumOf(Value, O) /\ GetValueOut(t) \in Nat
  BY OutsAreFinite
<1>2. I \in SUBSET U /\ IsFiniteSet(I) /\ IsFiniteSet(R) /\ R \cap O = {}
  BY FS_Subset, FS_Difference
<1>3. /\ \A x \in R \cup O : Value[x] \in Nat
      /\ \A x \in U : Value[x] \in Nat
      /\ \A x \in I : Value[x] \in Nat
  BY <1>1, TxAssumption
<1>4. GetValueIn(t) = SumOf(Value, I)
  BY DEF GetValueIn, SumOfValues
<1>5. R = U \ I
  OBVIOUS
<1> HIDE DEF R, O, I
<1>6. SumOf(Value, U) = SumOf(Value, R) + SumOf(Value, I)
  BY ONLY <1>2, <1>3, <1>5, IsFiniteSet(U), SumWithout
<1>7. SumOf(Value, R \cup O) = SumOf(Value, R) + SumOf(Value, O)
  BY ONLY <1>1, <1>2, <1>3, SumUnion
<1>8. IsFiniteSet(R \cup O)
  BY <1>1, <1>2, FS_Union
<1>9. SumOf(Value, U) \in Nat /\ SumOf(Value, I) \in Nat /\ SumOf(Value, R) \in Nat
  <2>1. \A x \in R : Value[x] \in Nat
    BY <1>3
  <2> QED BY <1>2, <1>3, <2>1, SumStep
<1>10. /\ GetValueIn(t) \in Nat /\ SumOf(Value, R \cup O) \in Nat
       /\ SumOf(Value, R \cup O) + GetValueIn(t) = SumOf(Value, U) + GetValueOut(t)
  BY <1>1, <1>4, <1>6, <1>7, <1>9
<1> QED BY <1>1, <1>8, <1>9, <1>10 DEF R, O, I

\* While the part of a block that is connected grows, the fees and the unspent outputs
\* together are worth what they were before the block and the outputs of its coinbase.
LEMMA WorthUpTo ==
  ASSUME NEW b \in Blocks \ {GenesisBlock}, NEW m \in Nat, m <= Len(Vtx[b]), m # 0,
         Consistent(Places(b)), \A i \in DOMAIN Vtx[b] : MoneyRange(FeesUpTo(b)[i]),
         IsFiniteSet(UnspentAt(Places(Prev[b])))
  PROVE  /\ IsFiniteSet(UnspentAt(PlacesUpTo(b, m)))
         /\ SumOf(Value, UnspentAt(PlacesUpTo(b, m))) + FeesUpTo(b)[m]
              = SumOf(Value, UnspentAt(Places(Prev[b]))) + GetValueOut(Vtx[b][1])
<1> DEFINE U(n) == UnspentAt(PlacesUpTo(b, n))
           V(n) == SumOf(Value, U(n))
           Good(n) == /\ IsFiniteSet(U(n))
                      /\ n # 0 => V(n) + FeesUpTo(b)[n] = V(0) + GetValueOut(Vtx[b][1])
           Bad == {n \in 0..Len(Vtx[b]) : ~Good(n)}
<1>1. /\ Len(Vtx[b]) \in Nat /\ DOMAIN Vtx[b] = 1..Len(Vtx[b])
      /\ U(0) = UnspentAt(Places(Prev[b]))
  BY PartEnds, TxAssumption
<1>2. Good(0)
  BY <1>1
<1>3. ASSUME NEW n \in Nat, n < Len(Vtx[b])
      PROVE  /\ Vtx[b][n + 1] \in Txs
             /\ U(n + 1) = (U(n) \ Ins[Vtx[b][n + 1]]) \cup OutsOf(Vtx[b][n + 1])
             /\ Ins[Vtx[b][n + 1]] \subseteq U(n) /\ OutsOf(Vtx[b][n + 1]) \cap U(n) = {}
             /\ U(n) \in SUBSET OutPoints
  <2>1. Consistent(PlacesUpTo(b, n + 1))
    <3>1. FirstPart(PlacesUpTo(b, n + 1), b)
      BY PartIsFirst
    <3> QED BY <3>1, FirstPartIsConsistent
  <2>2. U(n) \in SUBSET OutPoints
    BY DEF UnspentAt
  <2> QED BY <1>3, <2>1, <2>2, UnspentStep
<1> HIDE DEF U
<1>4. ASSUME NEW n \in Nat, n < Len(Vtx[b]), IsFiniteSet(U(n))
      PROVE  /\ IsFiniteSet(U(n + 1)) /\ V(n) \in Nat /\ V(n + 1) \in Nat
             /\ GetValueIn(Vtx[b][n + 1]) \in Nat /\ GetValueOut(Vtx[b][n + 1]) \in Nat
             /\ V(n + 1) + GetValueIn(Vtx[b][n + 1]) = V(n) + GetValueOut(Vtx[b][n + 1])
  <2> DEFINE t == Vtx[b][n + 1]
             u == U(n)
             v == U(n + 1)
  <2>1. /\ u \in SUBSET OutPoints /\ IsFiniteSet(u) /\ t \in Txs /\ Ins[t] \subseteq u
        /\ OutsOf(t) \cap u = {} /\ v = (u \ Ins[t]) \cup OutsOf(t)
    BY <1>3, <1>4
  <2> HIDE DEF t, u, v
  <2>2. /\ IsFiniteSet(v) /\ GetValueIn(t) \in Nat /\ GetValueOut(t) \in Nat
        /\ SumOf(Value, u) \in Nat /\ SumOf(Value, v) \in Nat
        /\ SumOf(Value, v) + GetValueIn(t) = SumOf(Value, u) + GetValueOut(t)
    BY ONLY <2>1, WorthStep
  <2> QED BY <2>2 DEF t, u, v
<1>5. ASSUME NEW n \in Nat, n < Len(Vtx[b]), Good(n) PROVE Good(n + 1)
  <2>1. IsFiniteSet(U(n))
    BY <1>5
  <2>2. /\ IsFiniteSet(U(n + 1)) /\ V(n) \in Nat /\ V(n + 1) \in Nat
        /\ GetValueIn(Vtx[b][n + 1]) \in Nat /\ GetValueOut(Vtx[b][n + 1]) \in Nat
        /\ V(n + 1) + GetValueIn(Vtx[b][n + 1]) = V(n) + GetValueOut(Vtx[b][n + 1])
    <3> HIDE DEF V, Good, Bad
    <3> QED BY <1>4, <1>5, <2>1
  <2>3. FeesUpTo(b)[n + 1] =
          IF n + 1 <= 1 THEN 0
          ELSE FeesUpTo(b)[(n + 1) - 1]
                 + (GetValueIn(Vtx[b][n + 1]) - GetValueOut(Vtx[b][n + 1]))
    BY FeesStep
  <2>4. CASE n = 0
    <3>1. GetValueIn(Vtx[b][1]) = 0
      <4>1. 1 \in DOMAIN Vtx[b] /\ Vtx[b][1] \in Txs
        BY <1>1, <1>3, <2>4
      <4>2. Ins[Vtx[b][1]] = {}
        BY <4>1, CoinbaseAssumption
      <4> QED BY <4>2, SumEmpty DEF GetValueIn, SumOfValues
    <3>2. FeesUpTo(b)[1] = 0
      BY <2>3, <2>4
    <3> HIDE DEF V
    <3>3. V(1) + FeesUpTo(b)[1] = V(0) + GetValueOut(Vtx[b][1])
      BY <2>2, <2>4, <3>1, <3>2
    <3> QED BY <2>2, <2>4, <3>3
  <2>5. CASE n # 0
    <3>1. n \in DOMAIN Vtx[b] /\ (n + 1) - 1 = n /\ ~(n + 1 <= 1)
      BY <1>1, <1>5, <2>5
    <3>2. FeesUpTo(b)[n] \in Nat
      BY <3>1, TxAssumption DEF MoneyRange
    <3>3. V(n) + FeesUpTo(b)[n] = V(0) + GetValueOut(Vtx[b][1])
      BY <1>5, <2>5
    <3>4. FeesUpTo(b)[n + 1] = FeesUpTo(b)[n]
            + (GetValueIn(Vtx[b][n + 1]) - GetValueOut(Vtx[b][n + 1]))
      BY <2>3, <3>1
    <3> HIDE DEF V
    <3>5. V(n + 1) + FeesUpTo(b)[n + 1] = V(n) + FeesUpTo(b)[n]
      BY ONLY <2>2, <3>2, <3>4
    <3> QED BY <2>2, <3>3, <3>5
  <2> QED BY <2>4, <2>5
<1>6. Bad = {}
  <2> SUFFICES ASSUME Bad # {} PROVE FALSE
    OBVIOUS
  <2>1. PICK n \in Bad : \A k \in Bad : n <= k
    <3>1. Bad \subseteq Nat
      <4> HIDE DEF Good
      <4> QED BY <1>1
    <3> HIDE DEF Bad
    <3> QED BY <3>1, LeastNat
  <2>2. n \in 0..Len(Vtx[b]) /\ ~Good(n)
    <3> HIDE DEF Good
    <3> QED OBVIOUS
  <2> HIDE DEF Good
  <2>3. n # 0
    BY <1>2, <2>2
  <2>4. n - 1 \in Nat /\ n - 1 < Len(Vtx[b]) /\ ~(n <= n - 1) /\ (n - 1) + 1 = n
    BY <1>1, <2>2, <2>3
  <2>5. n - 1 \notin Bad
    <3> HIDE DEF Bad
    <3> QED BY <2>1, <2>4
  <2>6. Good(n - 1)
    BY <1>1, <2>2, <2>4, <2>5
  <2>7. Good((n - 1) + 1)
    BY <1>5, <2>4, <2>6
  <2> HIDE DEF Bad
  <2> QED BY <2>2, <2>4, <2>7
<1>7. Good(m)
  <2> HIDE DEF Good
  <2> QED BY <1>1, <1>6
<1>8. U(0) = UnspentAt(Places(Prev[b]))
  BY <1>1
<1> QED BY <1>7, <1>8 DEF U

\* No valid branch leaves more unspent than its blocks were allowed to issue: of those that
\* do, the one with the least work would be the genesis block or extend another one.
LEMMA BranchWorth ==
  ASSUME NEW b \in ValidBranches
  PROVE  /\ IsFiniteSet(Unspent(b))
         /\ SumOfValues(Unspent(b)) \in Nat /\ Issued(b) \in Nat
         /\ SumOfValues(Unspent(b)) <= Issued(b)
<1> DEFINE W(x) == SumOf(Value, UnspentAt(Places(x)))
           Good(x) == /\ IsFiniteSet(UnspentAt(Places(x)))
                      /\ W(x) \in Nat /\ Issued(x) \in Nat /\ W(x) <= Issued(x)
           T == {ChainWork[x] : x \in {y \in ValidBranches : ~Good(y)}}
<1>1. ValidBranches \subseteq Blocks
  BY DEF ValidBranches
<1>2. Good(GenesisBlock)
  <2>1. UnspentAt(Places(GenesisBlock)) = {}
    BY GenesisPlaces DEF UnspentAt
  <2>2. W(GenesisBlock) = 0
    BY <2>1, SumEmpty
  <2>3. Issued(GenesisBlock) = 0
    <3>1. Chain[GenesisBlock] \ {GenesisBlock} = {}
      BY GenesisChain
    <3> QED BY <3>1, SumEmpty DEF Issued
  <2> QED BY <2>1, <2>2, <2>3, FS_EmptySet
<1>3. ASSUME NEW x \in ValidBranches, x # GenesisBlock, Good(Prev[x]) PROVE Good(x)
  <2>1. /\ x \in Blocks \ {GenesisBlock} /\ Prev[x] \in Blocks
        /\ Prev[x] \in ValidBranches /\ ValidBlockOn(x, x)
    BY <1>1, <1>3, ValidBranchStep, ChainStep
  <2>2. /\ Vtx[x] \in Seq(Txs) /\ Len(Vtx[x]) \in Nat /\ Len(Vtx[x]) # 0
        /\ DOMAIN Vtx[x] = 1..Len(Vtx[x]) /\ Vtx[x][1] \in Txs
    <3>1. Vtx[x] \in Seq(Txs) /\ Vtx[x] # <<>>
      BY <2>1, TxAssumption, CoinbaseAssumption
    <3> QED BY <3>1
  <2> DEFINE n == Len(Vtx[x])
  <2>3. /\ PlacesUpTo(x, n) = Places(x) /\ Consistent(Places(x))
    BY <2>1, PartEnds, BranchIsConsistent
  <2>4. /\ \A i \in DOMAIN Vtx[x] : MoneyRange(FeesUpTo(x)[i])
        /\ GetValueOut(Vtx[x][1]) <= Subsidy(Height[x]) + FeesUpTo(x)[n]
    BY <2>1 DEF ValidBlockOn
  <2>5. /\ IsFiniteSet(UnspentAt(Places(x)))
        /\ W(x) + FeesUpTo(x)[n] = W(Prev[x]) + GetValueOut(Vtx[x][1])
    <3>1. IsFiniteSet(UnspentAt(Places(Prev[x])))
      BY <1>3
    <3>2. n \in Nat /\ n <= Len(Vtx[x]) /\ n # 0
      BY <2>2
    <3> HIDE DEF n
    <3>3. /\ IsFiniteSet(UnspentAt(PlacesUpTo(x, n)))
          /\ SumOf(Value, UnspentAt(PlacesUpTo(x, n))) + FeesUpTo(x)[n]
               = SumOf(Value, UnspentAt(Places(Prev[x]))) + GetValueOut(Vtx[x][1])
      BY ONLY <2>1, <2>3, <2>4, <3>1, <3>2, WorthUpTo
    <3> QED BY <2>3, <3>3
  <2>6. W(x) \in Nat
    <3>1. \A o \in UnspentAt(Places(x)) : Value[o] \in Nat
      BY TxAssumption DEF UnspentAt
    <3> QED BY SMTT(30), <2>5, <3>1, SumStep
  <2>7. FeesUpTo(x)[n] \in Nat /\ GetValueOut(Vtx[x][1]) \in Nat /\ Subsidy(Height[x]) \in Nat
    <3>1. n \in DOMAIN Vtx[x]
      BY <2>2
    <3> QED BY SMTT(30), <2>1, <2>2, <2>4, <3>1, OutsAreFinite, TxAssumption, SubsidyAssumption
         DEF MoneyRange
  <2>8. Issued(x) = Subsidy(Height[x]) + Issued(Prev[x])
    <3> DEFINE g == [a \in Blocks |-> Subsidy(Height[a])]
               S == Chain[x] \ {GenesisBlock}
    <3>1. x \in S /\ S \ {x} = Chain[Prev[x]] \ {GenesisBlock}
      BY <2>1, ChainStep
    <3>2. IsFiniteSet(S) /\ \A a \in S : g[a] \in Nat
      BY <2>1, ChainFinite, FS_Difference, ChainClosed, SubsidyAssumption
    <3>3. g[x] = Subsidy(Height[x])
      BY <2>1
    <3>4. Issued(x) = SumOf(g, S) /\ Issued(Prev[x]) = SumOf(g, Chain[Prev[x]] \ {GenesisBlock})
      BY DEF Issued
    <3> HIDE DEF g, S
    <3>5. SumOf(g, S) = g[x] + SumOf(g, S \ {x})
      BY <3>1, <3>2, SumTake
    <3> QED BY <3>1, <3>3, <3>4, <3>5
  <2>9. W(Prev[x]) \in Nat /\ Issued(Prev[x]) \in Nat /\ W(Prev[x]) <= Issued(Prev[x])
    BY <1>3
  <2> HIDE DEF W, n
  <2>10. Issued(x) \in Nat /\ W(x) <= Issued(x)
    BY ONLY <2>4, <2>5, <2>6, <2>7, <2>8, <2>9
  <2> QED BY <2>5, <2>6, <2>10
<1>4. T = {}
  <2> SUFFICES ASSUME T # {} PROVE FALSE
    OBVIOUS
  <2>1. PICK w \in T : \A v \in T : w <= v
    <3>1. T \subseteq Nat
      BY <1>1, TreeAssumption
    <3> HIDE DEF T
    <3> QED BY <3>1, LeastNat
  <2>2. PICK x \in ValidBranches : ~Good(x) /\ w = ChainWork[x]
    <3> HIDE DEF Good
    <3> QED OBVIOUS
  <2> HIDE DEF Good
  <2>3. x # GenesisBlock
    BY <1>2, <2>2
  <2>4. /\ Prev[x] \in ValidBranches /\ ChainWork[Prev[x]] < w
        /\ ChainWork[Prev[x]] \in Nat /\ w \in Nat
    BY <1>1, <2>2, <2>3, ValidBranchStep, TreeAssumption
  <2>5. ~Good(Prev[x])
    BY <1>3, <2>2, <2>3
  <2>6. ChainWork[Prev[x]] \in T
    BY <2>4, <2>5
  <2> HIDE DEF T
  <2> QED BY <2>1, <2>4, <2>6
<1>5. Good(b)
  <2> HIDE DEF Good
  <2> QED BY <1>4
<1>6. Unspent(b) = UnspentAt(Places(b))
  BY UnspentIsAt
<1> QED BY <1>5, <1>6 DEF SumOfValues

\* In every run the unspent outputs on disk are worth at most what the blocks of the best
\* branch were allowed to issue: no transaction and no fee makes money.
THEOREM SupplyCorrect == Spec => []SupplyIsBounded
<1>1. ChainInv => SupplyIsBounded
  <2> SUFFICES ASSUME ChainInv PROVE SupplyIsBounded
    OBVIOUS
  <2> DEFINE d == Last(log)
  <2>1. d.hashBestChain \in ValidBranches /\ IsIndexOf(d, Places(d.hashBestChain))
    BY LastIsIndex DEF ChainInv
  <2>2. UnspentIn(d) = Unspent(d.hashBestChain)
    BY <2>1, IndexMeansLedger
  <2> QED BY <2>1, <2>2, BranchWorth DEF SupplyIsBounded
<1> QED BY <1>1, ChainCorrect, PTL
=============================================================================
