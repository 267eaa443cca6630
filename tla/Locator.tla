-------------------------------- MODULE Locator --------------------------------
(***************************************************************************)
(* CBlockLocator (main.h): the hashes by which a node says where its best  *)
(* block is, densely at first and then at doubling distances, and what a   *)
(* node on another branch makes of them.  Blocks are named by Prev, their  *)
(* parent.                                                                 *)
(***************************************************************************)
EXTENDS Integers, Sequences, FiniteSets

CONSTANTS
  Blocks,         \* the blocks there are
  GenesisBlock,
  Prev,           \* the parent of a block; GenesisBlock is its own
  DenseSteps      \* how many steps of one before the step doubles: 10

LocatorAssumption ==
  /\ IsFiniteSet(Blocks) /\ GenesisBlock \in Blocks
  /\ Prev \in [Blocks -> Blocks]
  /\ DenseSteps \in Nat

ASSUME LocatorAssumption

\* The blocks from the first one to b.
Branch[b \in Blocks] == IF b = GenesisBlock THEN {b} ELSE Branch[Prev[b]] \cup {b}
Height[b \in Blocks] == IF b = GenesisBlock THEN 0 ELSE Height[Prev[b]] + 1

\* The block at height h on the branch of b.
AtHeight(b, h) == CHOOSE c \in Branch[b] : Height[c] = h

\* The blocks after b, which is on the branch of tip.
After(tip, b) ==
  [i \in 1..Cardinality({c \in Blocks : c \in Branch[tip] /\ Height[c] > Height[b]}) |->
     AtHeight(tip, Height[b] + i)]

-----------------------------------------------------------------------------
\* Mutant: a long step after each short one.
LocateSparsely(b) ==
  LET Loop[h \in Int, nStep \in Nat, vHave \in Seq(Blocks)] ==
        IF h < 0 THEN Append(vHave, GenesisBlock)
        ELSE Loop[h - nStep, 2 * nStep, Append(vHave, AtHeight(b, h))]
  IN Loop[Height[b], 1, <<>>]

\* Set: vHave of the locator of b; h is the height of pindex, negative when it is null.
Locate(b) ==
  LET Loop[h \in Int, nStep \in Nat, vHave \in Seq(Blocks)] ==
        IF h < 0 THEN Append(vHave, GenesisBlock)
        ELSE Loop[h - nStep, IF Len(vHave) + 1 > DenseSteps THEN 2 * nStep ELSE nStep,
                  Append(vHave, AtHeight(b, h))]
  IN Loop[Height[b], 1, <<>>]

\* The first hash of a locator that is on the branch of tip; the last one always is.
First(vHave, tip) ==
  LET f[i \in Nat] == IF vHave[i] \in Branch[tip] THEN i ELSE f[i + 1]
  IN f[1]

GetBlockIndex(vHave, tip) == vHave[First(vHave, tip)]

\* The loop of GetDistanceBack, after n hashes it does not know.
Retrace(n) ==
  LET Loop[m \in Nat, nDistance \in Nat, nStep \in Nat] ==
        IF m = 0 THEN nDistance
        ELSE Loop[m - 1, nDistance + nStep,
                  IF nDistance + nStep > DenseSteps THEN 2 * nStep ELSE nStep]
  IN Loop[n, 0, 1]

GetDistanceBack(vHave, tip) == Retrace(First(vHave, tip) - 1)
================================================================================
