--------------------------------- MODULE Merkle ---------------------------------
(***************************************************************************)
(* Merkle trees and the proof of work of merged mining (main.h, auxpow.cpp, *)
(* rpc.cpp).  The hash of two hashes is their pair, that of a leaf has one  *)
(* component.  A coinbase script is a sequence of pieces: the header of     *)
(* merged mining, a root, an integer of four bytes, or a byte.              *)
(***************************************************************************)
EXTENDS SequencesExt, Integers

CONSTANTS
  OurChainID,     \* GetOurChainID
  MaxRootOffset,  \* 20: where a root must start that no header announces
  RootSize        \* 32: the bytes of a root

ASSUME MerkleAssumption == OurChainID \in Nat /\ MaxRootOffset \in Nat /\ RootSize \in Nat

\* BuildMerkleTree: vMerkleTree, the leaves and then level upon level.  j is where the
\* level begins that is read, nSize how many hashes it has.
RECURSIVE Levels(_, _, _)
Levels(nSize, j, tree) ==
  IF nSize <= 1 THEN tree
  ELSE Levels((nSize + 1) \div 2, j + nSize,
              tree \o [k \in 1..(nSize + 1) \div 2 |->
                         <<tree[j + 2*k - 1], tree[j + Min({2*k, nSize})]>>])
BuildMerkleTree(leaves) == Levels(Len(leaves), 0, leaves)

\* GetMerkleBranch: the other side on the way up, of a leaf counted from 0.
GetMerkleBranch(leaves, nIndex) ==
  LET tree == BuildMerkleTree(leaves)
      Loop[nSize \in Nat, j \in Nat, i \in Nat] ==
        IF nSize <= 1 THEN <<>>
        ELSE <<tree[j + 1 + Min({IF i % 2 = 0 THEN i + 1 ELSE i - 1, nSize - 1})]>>
               \o Loop[(nSize + 1) \div 2, j + nSize, i \div 2]
  IN Loop[Len(leaves), 0, nIndex]

CheckMerkleBranch(hash, vMerkleBranch, nIndex) ==
  FoldLeftDomain(LAMBDA h, i : IF (nIndex \div 2^(i - 1)) % 2 = 1 THEN <<vMerkleBranch[i], h>>
                               ELSE <<h, vMerkleBranch[i]>>,
                 hash, vMerkleBranch)

-----------------------------------------------------------------------------
Header == <<"header">>
Root(r) == <<"root", r>>
Number(n) == <<"int", n>>
Byte == <<"byte">>
Size(piece) ==
  CASE piece[1] = "root" -> RootSize [] piece[1] = "byte" -> 1 [] OTHER -> 4

\* Where a piece starts, in bytes.
Offset(script, i) == MapThenSumSet(LAMBDA k : Size(script[k]), 1..i - 1)
Places(script, piece) == {i \in DOMAIN script : script[i] = piece}

\* "Choose a pseudo-random slot in the chain merkle tree but have it be fixed for a
\* size/nonce/chain combination": the wrap at 2^32 does not show, for nSize divides it.
Slot(nNonce, nChainID, nSize) ==
  LET Rand(n) == (n * (1103515245 % nSize) + 12345) % nSize
  IN Rand(Rand(nNonce % nSize) + nChainID)

\* Mutant: any leaf of the chain tree will do.
CheckAnySlot(hashAuxBlock, script, vChainMerkleBranch, nChainIndex) ==
  LET root == Root(CheckMerkleBranch(hashAuxBlock, vChainMerkleBranch, nChainIndex))
      pc == Min(Places(script, root))
  IN /\ Places(script, root) # {}
     /\ IF Places(script, Header) = {} THEN Offset(script, pc) <= MaxRootOffset
        ELSE Places(script, Header) = {pc - 1}
     /\ Len(script) >= pc + 2
     /\ script[pc + 1] = Number(2^Len(vChainMerkleBranch)) /\ script[pc + 2][1] = "int"

\* CAuxPow::Check, once the script is known to be that of the parent's coinbase and the
\* parent to have another chain ID.
Check(hashAuxBlock, script, vChainMerkleBranch, nChainIndex) ==
  LET root == Root(CheckMerkleBranch(hashAuxBlock, vChainMerkleBranch, nChainIndex))
      pc == Min(Places(script, root))
      nSize == 2^Len(vChainMerkleBranch)
  IN /\ Places(script, root) # {}
     /\ IF Places(script, Header) = {} THEN Offset(script, pc) <= MaxRootOffset
        ELSE Places(script, Header) = {pc - 1}
     /\ Len(script) >= pc + 2
     /\ script[pc + 1] = Number(nSize) /\ script[pc + 2][1] = "int"
     /\ nChainIndex = Slot(script[pc + 2][2], OurChainID, nSize)

\* Mutant: the root comes first.
MakeCoinbaseWithAuxReversed(vchAux) == <<Byte, Number(0), Byte, Number(0), Byte, Byte>> \o vchAux \o <<Header>>

\* MakeCoinbaseWithAux: nBits, the extra nonce, OP_2 and, behind a length, the header and
\* what the miner wants proved.
MakeCoinbaseWithAux(vchAux) == <<Byte, Number(0), Byte, Number(0), Byte, Byte, Header>> \o vchAux
================================================================================
