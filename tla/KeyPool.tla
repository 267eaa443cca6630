------------------------------ MODULE KeyPool -------------------------------
(***************************************************************************)
(* The key pool of a wallet (wallet.cpp): keys generated in advance, kept  *)
(* as numbered records of wallet.dat, reserved by whoever is about to use  *)
(* one, then kept for good or returned.  Holders are the CReserveKey       *)
(* objects of the miner threads, getwork and the wallet, and the local     *)
(* variables of GetKeyFromKeyPool and GetOldestKeyPoolTime.                *)
(*                                                                         *)
(* Every write to wallet.dat is a synced transaction of its own, so that a *)
(* crash leaves exactly what was written.                                  *)
(***************************************************************************)
EXTENDS Integers, FiniteSetsExt

CONSTANTS
  Holders,      \* everything that reserves keys
  NoHolder,     \* nobody
  TargetSize,   \* nTargetSize, the option -keypool (100 by default, at least 0)
  MaxKeys,      \* bound: how many keys are ever generated
  MaxCrashes    \* bound: how often the node stops or crashes

ASSUME KeyPoolAssumption ==
  /\ NoHolder \notin Holders
  /\ TargetSize \in Nat
  /\ MaxKeys \in Nat
  /\ MaxCrashes \in Nat

VARIABLES
  setKeyPool,   \* the indexes of the keys nobody holds
  pool,         \* the "pool" records of wallet.dat: the key under each index, or NoKey
  nKeys,        \* the keys generated so far are 1..nKeys (mapKeys)
  nIndex,       \* the index each holder has reserved, or NoIndex
  vchPubKey,    \* the key it has read, or NoKey
  reserving,    \* who is inside ReserveKeyFromKeyPool, under cs_main, cs_mapWallet
                \* and cs_setKeyPool
  used,         \* the keys that were kept: in an address, a transaction or a block
  crashes

vars == <<setKeyPool, pool, nKeys, nIndex, vchPubKey, reserving, used, crashes>>

NoIndex == 0    \* -1 in the code
NoKey == 0      \* no record, or an empty vchPubKey
Indexes == 1..MaxKeys

TypeOK ==
  /\ setKeyPool \subseteq Indexes
  /\ pool \in [Indexes -> 0..MaxKeys]
  /\ nKeys \in 0..MaxKeys
  /\ nIndex \in [Holders -> 0..MaxKeys]
  /\ vchPubKey \in [Holders -> 0..MaxKeys]
  /\ reserving \in Holders \cup {NoHolder}
  /\ used \subseteq Indexes
  /\ crashes \in 0..MaxCrashes

Init ==
  /\ setKeyPool = {}
  /\ pool = [i \in Indexes |-> NoKey]
  /\ nKeys = 0
  /\ nIndex = [h \in Holders |-> NoIndex]
  /\ vchPubKey = [h \in Holders |-> NoKey]
  /\ reserving = NoHolder
  /\ used = {}
  /\ crashes = 0

-----------------------------------------------------------------------------
\* A holder that has no key asks for one; the locks are free.  (The guard on nKeys is
\* the bound: there are keys left to fill the pool with.)
GetReservedKey(h) ==
  /\ reserving = NoHolder
  /\ nIndex[h] = NoIndex
  /\ nKeys + TargetSize + 1 - Cardinality(setKeyPool) <= MaxKeys
  /\ reserving' = h
  /\ UNCHANGED <<setKeyPool, pool, nKeys, nIndex, vchPubKey, used, crashes>>

\* The index after the last one in the pool.
EndOfPool == IF setKeyPool = {} THEN 1 ELSE Max(setKeyPool) + 1

\* One turn of the loop that tops the pool up: GenerateNewKey, WritePool.
TopUp(h) ==
  /\ reserving = h
  /\ Cardinality(setKeyPool) < TargetSize + 1
  /\ nKeys < MaxKeys
  /\ nKeys' = nKeys + 1
  /\ pool' = [pool EXCEPT ![EndOfPool] = nKeys + 1]
  /\ setKeyPool' = setKeyPool \cup {EndOfPool}
  /\ UNCHANGED <<nIndex, vchPubKey, reserving, used, crashes>>

\* Mutant: the newest key leaves the pool.
TakeNewest(h) ==
  /\ reserving = h
  /\ Cardinality(setKeyPool) >= TargetSize + 1
  /\ LET i == Max(setKeyPool) IN
       /\ setKeyPool' = setKeyPool \ {i}
       /\ nIndex' = [nIndex EXCEPT ![h] = i]
       /\ vchPubKey' = [vchPubKey EXCEPT ![h] = pool[i]]
  /\ reserving' = NoHolder
  /\ UNCHANGED <<pool, nKeys, used, crashes>>

\* The oldest key leaves the pool.  When it has no record ReadPool fails and the
\* exception leaves the holder with an index and no key.
TakeOldest(h) ==
  /\ reserving = h
  /\ Cardinality(setKeyPool) >= TargetSize + 1
  /\ \E i \in setKeyPool :
       /\ \A j \in setKeyPool : i <= j
       /\ setKeyPool' = setKeyPool \ {i}
       /\ nIndex' = [nIndex EXCEPT ![h] = i]
       /\ vchPubKey' = [vchPubKey EXCEPT ![h] = pool[i]]
  /\ reserving' = NoHolder
  /\ UNCHANGED <<pool, nKeys, used, crashes>>

\* Mutant: the record stays in wallet.dat.
KeepKeyWithoutErase(h) ==
  /\ reserving = NoHolder
  /\ vchPubKey[h] # NoKey
  /\ used' = used \cup {vchPubKey[h]}
  /\ nIndex' = [nIndex EXCEPT ![h] = NoIndex]
  /\ vchPubKey' = [vchPubKey EXCEPT ![h] = NoKey]
  /\ UNCHANGED <<setKeyPool, pool, nKeys, reserving, crashes>>

\* The key is used: its record is erased first (ErasePool, under cs_main).
KeepKey(h) ==
  /\ reserving = NoHolder
  /\ vchPubKey[h] # NoKey
  /\ pool' = [pool EXCEPT ![nIndex[h]] = NoKey]
  /\ used' = used \cup {vchPubKey[h]}
  /\ nIndex' = [nIndex EXCEPT ![h] = NoIndex]
  /\ vchPubKey' = [vchPubKey EXCEPT ![h] = NoKey]
  /\ UNCHANGED <<setKeyPool, nKeys, reserving, crashes>>

\* Mutant: the holder does not forget its index.
ReturnKeyKeepsIndex(h) ==
  /\ reserving = NoHolder
  /\ nIndex[h] # NoIndex
  /\ setKeyPool' = setKeyPool \cup {nIndex[h]}
  /\ UNCHANGED <<pool, nKeys, nIndex, vchPubKey, reserving, used, crashes>>

\* The key was not needed; also the destructor of CReserveKey.
ReturnKey(h) ==
  /\ reserving = NoHolder
  /\ nIndex[h] # NoIndex
  /\ setKeyPool' = setKeyPool \cup {nIndex[h]}
  /\ nIndex' = [nIndex EXCEPT ![h] = NoIndex]
  /\ vchPubKey' = [vchPubKey EXCEPT ![h] = NoKey]
  /\ UNCHANGED <<pool, nKeys, reserving, used, crashes>>

\* The process ends at any point, destructors or not, and LoadWallet puts every record
\* back into the pool.
CrashAndRestart ==
  /\ crashes < MaxCrashes
  /\ crashes' = crashes + 1
  /\ setKeyPool' = {i \in Indexes : pool[i] # NoKey}
  /\ nIndex' = [h \in Holders |-> NoIndex]
  /\ vchPubKey' = [h \in Holders |-> NoKey]
  /\ reserving' = NoHolder
  /\ UNCHANGED <<pool, nKeys, used>>

Next ==
  \/ \E h \in Holders : \/ GetReservedKey(h) \/ TopUp(h) \/ TakeOldest(h)
                        \/ KeepKey(h) \/ ReturnKey(h)
  \/ CrashAndRestart

Spec == Init /\ [][Next]_vars

-----------------------------------------------------------------------------
\* A key that was kept is never handed out again, nor waits in the pool to be, crashes
\* included: "Take key pair from key pool so it won't be used again"
\* (CWallet::CommitTransaction).
KeyNeverReused ==
  /\ \A h \in Holders : vchPubKey[h] \notin used
  /\ \A i \in Indexes : pool[i] \notin used

\* Every record of wallet.dat is either free or held by exactly one holder, which has
\* read that very key; and nothing is free or held without its record, so that ReadPool
\* never fails and no two holders use one key (ReserveKeyFromKeyPool, ReturnKey).
IndexHasOneOwner ==
  /\ \A i \in Indexes : pool[i] # NoKey <=> i \in setKeyPool \/ \E h \in Holders : nIndex[h] = i
  /\ \A h \in Holders : nIndex[h] # NoIndex =>
       /\ nIndex[h] \notin setKeyPool
       /\ vchPubKey[h] = pool[nIndex[h]]
       /\ \A g \in Holders \ {h} : nIndex[g] # nIndex[h]

-----------------------------------------------------------------------------
(* The inductive invariant behind the theorem of KeyPoolProofs.            *)

\* Whoever is reserving holds nothing yet, and who holds no index holds no key.
HoldersSound ==
  /\ reserving # NoHolder => nIndex[reserving] = NoIndex
  /\ \A h \in Holders : nIndex[h] = NoIndex => vchPubKey[h] = NoKey

\* Keys are numbered in the order they are generated, and no two records hold the same.
KeysSound ==
  /\ \A i \in Indexes : pool[i] <= nKeys /\ (pool[i] # NoKey => i <= nKeys)
  /\ \A i, j \in Indexes : pool[i] # NoKey /\ pool[i] = pool[j] => i = j
  /\ \A k \in used : k <= nKeys

\* The last index of the pool is past every record, so that EndOfPool has none: taking
\* the oldest leaves it there as long as the pool is filled to more than one key.
TopOfPool ==
  \/ \E n \in setKeyPool : \A i \in Indexes : pool[i] # NoKey => i <= n
  \/ setKeyPool = {} /\ \A i \in Indexes : pool[i] = NoKey

KeyPoolInv ==
  TypeOK /\ KeyNeverReused /\ IndexHasOneOwner /\ HoldersSound /\ KeysSound /\ TopOfPool
=============================================================================
