---------------------------- MODULE WalletProofs ----------------------------
(***************************************************************************)
(* What holds of Wallet for any number of coins, payments and crashes, and *)
(* for any copies of the wallet.                                           *)
(***************************************************************************)
EXTENDS Wallet, NaturalsInduction, WellFoundedInduction, TLAPS

\* The payments that have been created.
Payments == FirstCoins + 1 .. FirstCoins + nTxs

\* Numbers of payments and of foreign transactions are not confused.
LEMMA Numbering ==
  /\ NoTx \notin Txs /\ NoTx \notin Foreign /\ Foreign \subseteq Txs
  /\ \A t \in Foreign : t \notin FirstCoins + 1 .. FirstCoins + MaxTxs
  /\ \A t \in Foreign : ForeignIns[t] \subseteq 1..FirstCoins
  /\ FirstCoins \in Nat /\ MaxTxs \in Nat /\ MaxCrashes \in Nat
<1>1. /\ FirstCoins \in Nat /\ MaxTxs \in Nat /\ MaxCrashes \in Nat
      /\ Foreign \cap (0 .. FirstCoins + MaxTxs) = {}
      /\ ForeignIns \in [Foreign -> SUBSET (1..FirstCoins)]
  BY WalletAssumption
<1>2. /\ 0 \in 0 .. FirstCoins + MaxTxs
      /\ \A t \in FirstCoins + 1 .. FirstCoins + MaxTxs : t \in 0 .. FirstCoins + MaxTxs /\ t # 0
  BY <1>1
<1>3. NoTx \notin Foreign /\ NoTx \notin Txs /\ Foreign \subseteq Txs
  BY <1>1, <1>2 DEF NoTx, Txs
<1> QED BY <1>1, <1>2, <1>3

\* A set of keys has a least one.
LEMMA LeastKey ==
  ASSUME NEW S, S \subseteq Nat, S # {}
  PROVE  Min(S) \in S
<1>1. PICK n \in S : \A m \in S : ~ (<<m, n>> \in OpToRel(<, Nat))
  BY NatLessThanWellFounded, WFMin
<1>2. \A m \in S : m \in Nat /\ n \in Nat /\ (m < n => <<m, n>> \in OpToRel(<, Nat))
  BY DEF OpToRel
<1>3. \A m \in S : n <= m
  <2> SUFFICES ASSUME NEW m \in S PROVE n <= m
    OBVIOUS
  <2>1. m \in Nat /\ n \in Nat /\ ~ (m < n)
    BY <1>1, <1>2
  <2> QED BY <2>1
<1> QED BY <1>3 DEF Min

\* What a set of transactions spends.
LEMMA SpentMeans ==
  ASSUME NEW ts
  PROVE  \A c : c \in SpentBy(ts) <=> \E t \in ts : c \in vin[t]
<1>1. ASSUME NEW c, c \in SpentBy(ts) PROVE \E t \in ts : c \in vin[t]
  <2>1. PICK S \in {vin[t] : t \in ts} : c \in S
    BY <1>1 DEF SpentBy
  <2> QED BY <2>1
<1>2. ASSUME NEW c, NEW t \in ts, c \in vin[t] PROVE c \in SpentBy(ts)
  <2>1. vin[t] \in {vin[u] : u \in ts}
    OBVIOUS
  <2> QED BY <1>2, <2>1 DEF SpentBy
<1> QED BY <1>1, <1>2

\* More transactions have more coins.
LEMMA CoinsGrow ==
  ASSUME NEW ts, NEW us, ts \subseteq us
  PROVE  CoinsOf(ts) \subseteq CoinsOf(us)
BY DEF CoinsOf

\* Only payments give change.
LEMMA CoinsAreCoins ==
  ASSUME TypeOK, InStep
  PROVE  CoinsOf(mapWallet) \subseteq Coins
<1>1. /\ nTxs \in Nat /\ nTxs <= MaxTxs /\ FirstCoins \in Nat /\ MaxTxs \in Nat
      /\ \A t \in mapWallet : key[t] # NoKey => t \in FirstCoins + 1 .. FirstCoins + nTxs
  BY Numbering DEF TypeOK, InStep
<1>2. /\ 1..FirstCoins \subseteq Coins
      /\ FirstCoins + 1 .. FirstCoins + nTxs \subseteq Coins
  BY <1>1 DEF Coins
<1> QED BY <1>1, <1>2 DEF CoinsOf

\* What a payment is made of: these coins, this change key (or none), taken from these keys.
Creating(ins, k, full) ==
  LET t == FirstCoins + nTxs + 1 IN
  /\ pc = "idle" /\ pc' = "drafted" /\ who' = "payment" /\ draft' = t
  /\ nTxs' = nTxs + 1 /\ nTxs' \in 0..MaxTxs
  /\ t \in FirstCoins + 1 .. FirstCoins + MaxTxs /\ t \notin Payments
  /\ Payments' = Payments \cup {t}
  /\ vin' = [vin EXCEPT ![t] = ins] /\ key' = [key EXCEPT ![t] = k]
  /\ k = NoKey \/ k \in full
  /\ setKeyPool' = full \ {k}
  /\ \/ full = setKeyPool /\ UNCHANGED <<nKeys, fileVars>>
     \/ /\ setKeyPool = {} /\ full = {nKeys + 1} /\ k = nKeys + 1 /\ nKeys' = nKeys + 1
        /\ Written([disk EXCEPT !.pool = @ \cup full])
  /\ UNCHANGED <<memVars, nodeVars, open, crashes>>

\* What CreateTransaction does.
LEMMA Creates ==
  ASSUME TypeOK, InStep, CreateTransaction
  PROVE  \E ins \in SUBSET Spendable, k \in Keys \cup {NoKey}, full \in SUBSET Keys :
          Creating(ins, k, full)
<1> DEFINE t == FirstCoins + nTxs + 1
<1>1. PICK ins \in SUBSET Spendable \ {{}}, change \in BOOLEAN :
        LET full == IF change /\ setKeyPool = {} THEN {nKeys + 1} ELSE setKeyPool
        IN /\ vin' = [vin EXCEPT ![t] = ins]
           /\ draft' = t
           /\ key' = [key EXCEPT ![t] = IF change THEN Min(full) ELSE NoKey]
           /\ setKeyPool' = IF change THEN full \ {Min(full)} ELSE setKeyPool
           /\ IF full = setKeyPool THEN UNCHANGED <<nKeys, fileVars>>
              ELSE nKeys' = nKeys + 1 /\ Written([disk EXCEPT !.pool = @ \cup full])
  BY DEF CreateTransaction
<1>2. /\ pc = "idle" /\ pc' = "drafted" /\ who' = "payment" /\ nTxs < MaxTxs /\ nTxs' = nTxs + 1
      /\ UNCHANGED <<memVars, nodeVars, open, crashes>>
      /\ FirstCoins \in Nat /\ MaxTxs \in Nat /\ nTxs \in Nat /\ nKeys \in Nat /\ nKeys <= nTxs
      /\ setKeyPool \subseteq Keys /\ Keys \subseteq Nat /\ NoKey \notin Keys
  BY Numbering DEF CreateTransaction, TypeOK, InStep, Keys, NoKey
<1>3. /\ nTxs' \in 0..MaxTxs /\ nKeys + 1 \in Keys
      /\ t \in FirstCoins + 1 .. FirstCoins + MaxTxs /\ t \notin Payments
      /\ Payments' = Payments \cup {t}
  BY <1>2 DEF Keys, Payments
<1> HIDE DEF t
<1>4. CASE ~change
  <2> DEFINE k == NoKey
             full == setKeyPool
  <2>1. /\ vin' = [vin EXCEPT ![t] = ins] /\ draft' = t
        /\ key' = [key EXCEPT ![t] = k] /\ setKeyPool' = full \ {k}
        /\ UNCHANGED <<nKeys, fileVars>>
    BY <1>1, <1>2, <1>4
  <2>2. k \in Keys \cup {NoKey} /\ full \in SUBSET Keys /\ k = NoKey /\ full = setKeyPool
    BY <1>2
  <2>3. ins \in SUBSET Spendable
    OBVIOUS
  <2> HIDE DEF k, full
  <2> QED BY <1>2, <1>3, <2>1, <2>2, <2>3 DEF t, Creating
<1>5. CASE change /\ setKeyPool # {}
  <2>1. Min(setKeyPool) \in setKeyPool
    BY <1>2, <1>5, LeastKey
  <2> QED BY <1>1, <1>2, <1>3, <1>5, <2>1 DEF t, Creating
<1>6. CASE change /\ setKeyPool = {}
  <2>1. Min({nKeys + 1}) = nKeys + 1
    <3>1. {nKeys + 1} \subseteq Nat /\ {nKeys + 1} # {}
      BY <1>2
    <3> QED BY <3>1, LeastKey
  <2>2. {nKeys + 1} \in SUBSET Keys /\ {nKeys + 1} # {}
    BY <1>3
  <2>3. /\ vin' = [vin EXCEPT ![t] = ins] /\ draft' = t
        /\ key' = [key EXCEPT ![t] = nKeys + 1] /\ setKeyPool' = {nKeys + 1} \ {nKeys + 1}
        /\ nKeys' = nKeys + 1 /\ Written([disk EXCEPT !.pool = @ \cup {nKeys + 1}])
    BY <1>1, <1>6, <2>1, <2>2
  <2>4. ins \in SUBSET Spendable /\ nKeys + 1 \in Keys \cup {NoKey}
    BY <1>3
  <2> DEFINE k == nKeys + 1
             full == {nKeys + 1}
  <2>5. k \in Keys \cup {NoKey} /\ full \in SUBSET Keys /\ k \in full
    BY <2>2, <2>4
  <2>6. /\ vin' = [vin EXCEPT ![t] = ins] /\ draft' = t
        /\ key' = [key EXCEPT ![t] = k] /\ setKeyPool' = full \ {k}
        /\ setKeyPool = {} /\ full = {nKeys + 1} /\ k = nKeys + 1 /\ nKeys' = nKeys + 1
        /\ Written([disk EXCEPT !.pool = @ \cup full])
    BY <1>6, <2>3
  <2> HIDE DEF k, full
  <2> QED BY <1>2, <1>3, <2>4, <2>5, <2>6 DEF t, Creating
<1> QED BY <1>4, <1>5, <1>6

-----------------------------------------------------------------------------
(* The books: BooksInv is kept.                                            *)

\* Steps of the flush thread and of a backup, and stuttering.
LEMMA BooksAside ==
  ASSUME BooksInv, Flush \/ Backup \/ UNCHANGED vars
  PROVE  BooksInv'
<1>1. /\ UNCHANGED <<nTxs, vin, key, mapWallet, vfSpent, setKeyPool, nKeys, mapTransactions, mapNextTx, chain>>
      /\ UNCHANGED <<disk, pc, who, draft, open, crashes>>
      /\ updated' \in BOOLEAN /\ stale' \in BOOLEAN
  BY DEF Flush, Backup, vars, txVars, memVars, poolVars, nodeVars, fileVars, BooksInv, TypeOK
<1>2. TypeOK'
  BY <1>1 DEF BooksInv, TypeOK
<1>3. InStep'
  BY <1>1 DEF BooksInv, InStep, CoinsOf
<1>4. DraftIsKnown'
  BY <1>1 DEF BooksInv, DraftIsKnown
<1>5. BooksAreRight'
  BY <1>1 DEF BooksInv, BooksAreRight, NoCoinIsLost, WalletKnowsChain, SpentBy
<1> QED BY <1>2, <1>3, <1>4, <1>5 DEF BooksInv

\* CreateTransaction: the new payment has spent nothing before, and spends coins of the wallet.
LEMMA BooksCreate ==
  ASSUME BooksInv, CreateTransaction
  PROVE  BooksInv'
<1>1. PICK ins \in SUBSET Spendable, k \in Keys \cup {NoKey}, full \in SUBSET Keys :
          Creating(ins, k, full)
  BY Creates DEF BooksInv
<1> DEFINE t == FirstCoins + nTxs + 1
<1>2. /\ pc = "idle" /\ pc' = "drafted" /\ who' = "payment" /\ draft' = t
      /\ nTxs' = nTxs + 1 /\ nTxs' \in 0..MaxTxs
      /\ t \in FirstCoins + 1 .. FirstCoins + MaxTxs /\ t \notin Payments
      /\ Payments' = Payments \cup {t}
      /\ vin' = [vin EXCEPT ![t] = ins] /\ key' = [key EXCEPT ![t] = k]
      /\ setKeyPool' = full \ {k}
      /\ UNCHANGED <<mapWallet, vfSpent, mapTransactions, mapNextTx, chain, open, crashes>>
  BY <1>1 DEF Creating, memVars, nodeVars
<1>3. /\ disk'.tx = disk.tx /\ disk'.spent = disk.spent
      /\ disk' \in [tx : SUBSET Txs, spent : SUBSET Coins, pool : SUBSET Keys]
      /\ nKeys' \in 0..MaxTxs /\ nKeys' <= nTxs' /\ updated' \in BOOLEAN /\ stale' \in BOOLEAN
  <2>1. /\ disk \in [tx : SUBSET Txs, spent : SUBSET Coins, pool : SUBSET Keys]
        /\ nKeys \in 0..MaxTxs /\ nKeys <= nTxs /\ updated \in BOOLEAN /\ stale \in BOOLEAN
        /\ nTxs \in 0..MaxTxs
    BY DEF BooksInv, TypeOK, InStep
  <2>2. CASE full = setKeyPool /\ UNCHANGED <<nKeys, fileVars>>
    BY <1>2, <2>1, <2>2, Numbering DEF fileVars
  <2>3. CASE nKeys' = nKeys + 1 /\ Written([disk EXCEPT !.pool = @ \cup full])
    BY <1>2, <2>1, <2>3, Numbering DEF Written
  <2> QED BY <1>1, <2>2, <2>3 DEF Creating
<1>4. /\ t \in Txs /\ t \notin Foreign /\ t # NoTx
      /\ t \notin mapWallet \cup mapTransactions \cup chain /\ t \notin disk.tx
      /\ \A u \in mapWallet \cup chain : u # t
  BY <1>2, Numbering DEF Txs, NoTx, BooksInv, InStep, Payments
<1>5. vin \in [Txs -> SUBSET Coins] /\ key \in [Txs -> Keys \cup {NoKey}] /\ ins \subseteq CoinsOf(mapWallet)
  BY DEF BooksInv, TypeOK, Spendable
<1> HIDE DEF t
<1>6. /\ \A u \in Txs : u # t => vin'[u] = vin[u] /\ key'[u] = key[u]
      /\ vin'[t] = ins /\ key'[t] = k
  BY <1>2, <1>4, <1>5
<1>7. CoinsOf(mapWallet)' = CoinsOf(mapWallet) /\ mapWallet \subseteq Txs /\ chain \subseteq Txs
  <2>1. mapWallet \subseteq Txs /\ chain \subseteq Txs
    BY DEF BooksInv, TypeOK
  <2>2. \A u \in mapWallet : key'[u] = key[u]
    BY <1>4, <1>6, <2>1
  <2> QED BY <1>2, <2>1, <2>2 DEF CoinsOf
<1>8. CoinsOf(mapWallet) \subseteq Coins
  BY CoinsAreCoins DEF BooksInv
<1>9. TypeOK'
  BY <1>2, <1>3, <1>4, <1>5, <1>8 DEF BooksInv, TypeOK
<1>10. InStep'
  <2>1. /\ mapWallet \cup mapTransactions \cup chain \subseteq Foreign \cup Payments
        /\ chain \subseteq mapWallet /\ mapWallet = disk.tx /\ vfSpent = disk.spent
        /\ \A u \in Foreign : vin[u] = ForeignIns[u] /\ key[u] = NoKey
        /\ \A u \in Txs : vin[u] \subseteq CoinsOf(mapWallet)
    BY DEF BooksInv, InStep, Payments
  <2>2. /\ mapWallet' = disk'.tx /\ vfSpent' = disk'.spent /\ nKeys' <= nTxs'
        /\ (mapWallet \cup mapTransactions \cup chain)' \subseteq Foreign \cup Payments'
        /\ chain' \subseteq mapWallet'
    BY <1>2, <1>3, <2>1
  <2>3. \A u \in Foreign : vin'[u] = ForeignIns[u] /\ key'[u] = NoKey
    BY <1>4, <1>6, <2>1, Numbering
  <2>4. \A u \in Txs : vin'[u] \subseteq CoinsOf(mapWallet)'
    BY <1>5, <1>6, <1>7, <2>1
  <2> QED BY <2>2, <2>3, <2>4 DEF InStep, Payments
<1>11. DraftIsKnown'
  <2>1. mapTransactions \subseteq mapWallet
    BY <1>2, Numbering DEF BooksInv, DraftIsKnown
  <2>2. t \in Foreign \cup FirstCoins + 1 .. FirstCoins + nTxs'
    BY <1>2 DEF Payments
  <2> QED BY <1>2, <1>4, <2>1, <2>2 DEF DraftIsKnown
<1>12. BooksAreRight'
  <2>1. /\ \A u \in mapWallet : vin'[u] = vin[u]
        /\ \A u \in chain : vin'[u] = vin[u]
    BY <1>4, <1>6, <1>7
  <2>2. SpentBy(mapWallet)' = SpentBy(mapWallet) /\ SpentBy(chain)' = SpentBy(chain)
    BY <1>2, <2>1 DEF SpentBy
  <2>3. SpentBy(disk.tx)' = SpentBy(disk.tx)
    BY <1>3, <2>2, <1>2 DEF BooksInv, InStep
  <2> QED BY <1>2, <1>3, <2>2, <2>3 DEF BooksInv, BooksAreRight, NoCoinIsLost, WalletKnowsChain
<1> QED BY <1>9, <1>10, <1>11, <1>12 DEF BooksInv

\* Abort, Commit, KeepKey and Marked: a payment, or the handler of a transaction, goes on.
LEMMA BooksGoOn ==
  ASSUME BooksInv, Abort \/ Commit \/ KeepKey \/ Marked
  PROVE  BooksInv'
<1>1. /\ UNCHANGED <<nTxs, vin, key, mapWallet, vfSpent, nKeys, mapTransactions, mapNextTx, chain, who, crashes>>
      /\ disk'.tx = disk.tx /\ disk'.spent = disk.spent
      /\ disk' \in [tx : SUBSET Txs, spent : SUBSET Coins, pool : SUBSET Keys]
      /\ open' \subseteq {"wallet.dat", "blkindex.dat"}
      /\ updated' \in BOOLEAN /\ stale' \in BOOLEAN
  <2>1. /\ disk \in [tx : SUBSET Txs, spent : SUBSET Coins, pool : SUBSET Keys]
        /\ open \subseteq {"wallet.dat", "blkindex.dat"} /\ updated \in BOOLEAN /\ stale \in BOOLEAN
    BY DEF BooksInv, TypeOK
  <2>2. CASE Abort \/ Commit \/ Marked
    BY <2>1, <2>2 DEF Abort, Commit, Marked, txVars, memVars, nodeVars, poolVars, fileVars
  <2>3. CASE KeepKey
    BY <2>1, <2>3 DEF KeepKey, Written, txVars, memVars, nodeVars, poolVars, fileVars
  <2> QED BY <2>2, <2>3
<1>2. setKeyPool' \subseteq Keys
  <2>1. CASE Abort
    <3>1. draft \in Txs
      BY <2>1, Numbering DEF Abort, BooksInv, DraftIsKnown, TypeOK
    <3> QED BY <2>1, <3>1 DEF Abort, BooksInv, TypeOK
  <2>2. CASE Commit \/ KeepKey \/ Marked
    BY <2>2 DEF Commit, KeepKey, Marked, poolVars, BooksInv, TypeOK
  <2> QED BY <2>1, <2>2
<1>3. \/ pc = "drafted" /\ pc' = "idle" /\ draft' = NoTx
      \/ pc = "drafted" /\ pc' = "keep" /\ draft' = draft
      \/ pc = "keep" /\ pc' = "add" /\ draft' = draft
      \/ pc = "mark" /\ pc' = "done" /\ draft' = draft /\ vin[draft] \subseteq vfSpent
  <2>1. CASE Marked
    <3>1. draft \in Txs /\ pc = "mark" /\ ToMark = {}
      BY <2>1, Numbering DEF Marked, BooksInv, DraftIsKnown, TypeOK
    <3>2. vin[draft] \subseteq CoinsOf(mapWallet)
      BY <3>1 DEF BooksInv, InStep
    <3> QED BY <2>1, <3>1, <3>2 DEF Marked, ToMark
  <2> QED BY <2>1 DEF Abort, Commit, KeepKey
<1>4. TypeOK'
  BY <1>1, <1>2, <1>3 DEF BooksInv, TypeOK
<1>5. InStep'
  BY <1>1 DEF BooksInv, InStep, CoinsOf
<1>6. DraftIsKnown'
  <2>1. pc = "drafted" => who = "payment" /\ draft \notin Foreign
    BY DEF BooksInv, DraftIsKnown
  <2> QED BY <1>1, <1>3, <2>1, Numbering DEF BooksInv, DraftIsKnown
<1>7. BooksAreRight'
  BY <1>1 DEF BooksInv, InStep, BooksAreRight, NoCoinIsLost, WalletKnowsChain, SpentBy
<1> QED BY <1>4, <1>5, <1>6, <1>7 DEF BooksInv

\* AddToWallet: memory and the file record the transaction together.
LEMMA BooksAdd ==
  ASSUME BooksInv, AddToWallet
  PROVE  BooksInv'
<1>1. draft \in Txs /\ draft # NoTx /\ mapWallet = disk.tx /\ vfSpent = disk.spent
  BY Numbering DEF AddToWallet, BooksInv, DraftIsKnown, TypeOK, InStep
<1>2. /\ UNCHANGED <<nTxs, vin, key, vfSpent, setKeyPool, nKeys, mapTransactions, mapNextTx, chain>>
      /\ UNCHANGED <<who, draft, open, crashes>>
      /\ pc = "add" /\ pc' = "mark"
      /\ mapWallet' = mapWallet \cup {draft} /\ disk'.tx = mapWallet' /\ disk'.spent = vfSpent'
      /\ disk' \in [tx : SUBSET Txs, spent : SUBSET Coins, pool : SUBSET Keys]
      /\ updated' \in BOOLEAN /\ stale' \in BOOLEAN
  <2>1. /\ disk \in [tx : SUBSET Txs, spent : SUBSET Coins, pool : SUBSET Keys]
        /\ updated \in BOOLEAN /\ stale \in BOOLEAN
    BY DEF BooksInv, TypeOK
  <2>2. CASE draft \in mapWallet
    BY <1>1, <2>1, <2>2 DEF AddToWallet, txVars, poolVars, nodeVars, fileVars
  <2>3. CASE draft \notin mapWallet
    BY <1>1, <2>1, <2>3 DEF AddToWallet, Written, txVars, poolVars, nodeVars
  <2> QED BY <2>2, <2>3
<1>3. TypeOK'
  BY <1>1, <1>2 DEF BooksInv, TypeOK
<1>4. InStep'
  <2>1. CoinsOf(mapWallet) \subseteq CoinsOf(mapWallet)'
    BY <1>2 DEF CoinsOf
  <2>2. draft \in Foreign \cup Payments
    BY <1>2 DEF BooksInv, DraftIsKnown, Payments
  <2> QED BY <1>2, <2>1, <2>2 DEF BooksInv, InStep, Payments
<1>5. DraftIsKnown'
  BY <1>2 DEF BooksInv, DraftIsKnown
<1>6. BooksAreRight'
  <2>1. SpentBy(mapWallet) \subseteq SpentBy(mapWallet)' /\ SpentBy(chain)' = SpentBy(chain)
    BY <1>2 DEF SpentBy
  <2>2. SpentBy(disk.tx)' = SpentBy(mapWallet)'
    BY <1>2
  <2> QED BY <1>1, <1>2, <2>1, <2>2 DEF BooksInv, InStep, BooksAreRight, NoCoinIsLost, WalletKnowsChain
<1> QED BY <1>3, <1>4, <1>5, <1>6 DEF BooksInv

\* MarkSpent: what is marked is spent by the transaction at hand, which is recorded.
LEMMA BooksMark ==
  ASSUME BooksInv, MarkSpent
  PROVE  BooksInv'
<1>1. /\ draft \in Txs /\ draft \in mapWallet /\ pc = "mark"
      /\ mapWallet = disk.tx /\ vfSpent = disk.spent
  BY Numbering DEF MarkSpent, BooksInv, DraftIsKnown, TypeOK, InStep
<1>2. PICK c \in ToMark : vfSpent' = vfSpent \cup {c} /\ Written([disk EXCEPT !.spent = @ \cup {c}])
  BY DEF MarkSpent
<1>3. c \in Coins /\ c \in vin[draft]
  BY <1>1, <1>2 DEF ToMark, BooksInv, TypeOK
<1>4. /\ UNCHANGED <<nTxs, vin, key, mapWallet, setKeyPool, nKeys, mapTransactions, mapNextTx, chain>>
      /\ UNCHANGED <<pc, who, draft, open, crashes>>
      /\ disk'.tx = mapWallet' /\ disk'.spent = vfSpent' /\ vfSpent' = vfSpent \cup {c}
      /\ disk' \in [tx : SUBSET Txs, spent : SUBSET Coins, pool : SUBSET Keys]
      /\ updated' \in BOOLEAN /\ stale' \in BOOLEAN
  <2>1. disk \in [tx : SUBSET Txs, spent : SUBSET Coins, pool : SUBSET Keys]
    BY DEF BooksInv, TypeOK
  <2> QED BY <1>1, <1>2, <1>3, <2>1 DEF MarkSpent, Written, txVars, poolVars, nodeVars
<1>5. TypeOK'
  BY <1>3, <1>4 DEF BooksInv, TypeOK
<1>6. InStep'
  BY <1>4 DEF BooksInv, InStep, CoinsOf
<1>7. DraftIsKnown'
  BY <1>1, <1>4 DEF BooksInv, DraftIsKnown
<1>8. BooksAreRight'
  <2>1. SpentBy(mapWallet)' = SpentBy(mapWallet) /\ SpentBy(chain)' = SpentBy(chain)
    BY <1>4 DEF SpentBy
  <2>2. c \in SpentBy(mapWallet)
    BY <1>1, <1>3, SpentMeans
  <2>3. SpentBy(disk.tx)' = SpentBy(mapWallet)'
    BY <1>4
  <2> QED BY <1>1, <1>4, <2>1, <2>2, <2>3
         DEF BooksInv, InStep, BooksAreRight, NoCoinIsLost, WalletKnowsChain
<1> QED BY <1>5, <1>6, <1>7, <1>8 DEF BooksInv

\* SyncWithWallets: the transaction is one of a copy of the wallet, or recorded already.
LEMMA BooksSync ==
  ASSUME BooksInv, NEW t \in Txs, SyncWithWallets(t)
  PROVE  BooksInv'
<1>1. /\ UNCHANGED <<nTxs, vin, key, mapWallet, vfSpent, setKeyPool, nKeys, chain, disk>>
      /\ UNCHANGED <<updated, stale, crashes>>
      /\ pc = "idle" /\ pc' = "add" /\ draft' = t /\ who' \in {"block", "tx"}
      /\ open' = open \cup {"blkindex.dat"} \/ open' = open
      /\ \/ mapTransactions' = mapTransactions /\ mapNextTx' = mapNextTx
         \/ /\ t \in Foreign /\ mapTransactions' = mapTransactions \cup {t}
            /\ mapNextTx' = mapNextTx \cup vin[t]
      /\ t \in mapWallet \cup Foreign
  <2>1. CASE who' = "block" /\ open' = open \cup {"blkindex.dat"} /\ UNCHANGED <<mapTransactions, mapNextTx>>
             /\ t \in mapWallet \cup Foreign
    BY <2>1 DEF SyncWithWallets, txVars, memVars, poolVars, fileVars
  <2>2. CASE t \in Foreign /\ who' = "tx" /\ AddToMemoryPoolUnchecked(t) /\ UNCHANGED open
    BY <2>2 DEF SyncWithWallets, AddToMemoryPoolUnchecked, txVars, memVars, poolVars, fileVars
  <2> QED BY <2>1, <2>2 DEF SyncWithWallets
<1>2. draft = NoTx /\ t # NoTx /\ mapTransactions \subseteq mapWallet
  BY <1>1, Numbering DEF BooksInv, DraftIsKnown
<1>3. TypeOK'
  <2>1. vin[t] \subseteq Coins
    BY DEF BooksInv, TypeOK
  <2> QED BY <1>1, <2>1 DEF BooksInv, TypeOK
<1>4. InStep'
  BY <1>1 DEF BooksInv, InStep, CoinsOf
<1>5. DraftIsKnown'
  <2>1. t \in Foreign \cup mapWallet /\ t \in Foreign \cup Payments
    BY <1>1, <1>2 DEF BooksInv, InStep, Payments
  <2>2. mapTransactions' \subseteq mapWallet' \cup ({draft'} \cap Foreign)
    BY <1>1, <1>2
  <2>3. Payments' = Payments
    BY <1>1 DEF Payments
  <2> QED BY <1>1, <1>2, <2>1, <2>2, <2>3 DEF DraftIsKnown, Payments
<1>6. BooksAreRight'
  BY <1>1 DEF BooksInv, BooksAreRight, NoCoinIsLost, WalletKnowsChain, SpentBy
<1> QED BY <1>3, <1>4, <1>5, <1>6 DEF BooksInv

\* Return: what a block confirms has been recorded, with its coins marked, by now.
LEMMA BooksReturn ==
  ASSUME BooksInv, Return
  PROVE  BooksInv'
<1>1. /\ UNCHANGED <<nTxs, vin, key, mapWallet, vfSpent, setKeyPool, nKeys, disk>>
      /\ UNCHANGED <<updated, stale, who, crashes>>
      /\ pc = "done" /\ pc' = "idle" /\ draft' = NoTx /\ open' = {}
      /\ mapTransactions' \subseteq mapTransactions \cup {draft}
      /\ mapNextTx' \subseteq mapNextTx \cup vin[draft]
      /\ chain' = chain \/ chain' = chain \cup {draft}
  BY DEF Return, AddToMemoryPoolUnchecked, RemoveFromMemoryPool, txVars, memVars, poolVars, fileVars, nodeVars
<1>2. /\ draft \in Txs /\ draft \in mapWallet /\ vin[draft] \subseteq vfSpent
      /\ mapTransactions \subseteq mapWallet /\ mapWallet \subseteq Foreign \cup Payments
      /\ mapWallet = disk.tx /\ vfSpent = disk.spent
  BY <1>1, Numbering DEF BooksInv, DraftIsKnown, InStep, TypeOK, Payments
<1>3. TypeOK'
  <2>1. vin[draft] \subseteq Coins
    BY <1>2 DEF BooksInv, TypeOK
  <2> QED BY <1>1, <1>2, <2>1 DEF BooksInv, TypeOK
<1>4. InStep'
  <2>1. CoinsOf(mapWallet)' = CoinsOf(mapWallet) /\ Payments' = Payments
    BY <1>1 DEF CoinsOf, Payments
  <2>2. (mapWallet \cup mapTransactions \cup chain)' \subseteq Foreign \cup Payments' /\ chain' \subseteq mapWallet'
    BY <1>1, <1>2, <2>1 DEF BooksInv, InStep
  <2> QED BY <1>1, <2>1, <2>2 DEF BooksInv, InStep, Payments
<1>5. DraftIsKnown'
  BY <1>1, <1>2 DEF DraftIsKnown
<1>6. BooksAreRight'
  <2>1. chain' \subseteq mapWallet
    BY <1>1, <1>2 DEF BooksInv, InStep
  <2>2. SpentBy(chain)' \subseteq vfSpent
    <3>1. SpentBy(chain) \subseteq vfSpent
      BY DEF BooksInv, BooksAreRight, WalletKnowsChain
    <3>2. \A u \in chain : vin[u] \subseteq vfSpent
      BY <3>1, SpentMeans
    <3>3. \A u \in chain' : vin'[u] \subseteq vfSpent
      BY <1>1, <1>2, <3>2
    <3> QED BY <3>3 DEF SpentBy
  <2>3. SpentBy(mapWallet)' = SpentBy(mapWallet) /\ SpentBy(disk.tx)' = SpentBy(disk.tx)
    BY <1>1 DEF SpentBy
  <2> QED BY <1>1, <1>2, <2>1, <2>2, <2>3 DEF BooksInv, BooksAreRight, NoCoinIsLost, WalletKnowsChain
<1> QED BY <1>3, <1>4, <1>5, <1>6 DEF BooksInv

\* Disconnect: the chain has less, and what the pool takes back was recorded.
LEMMA BooksDisconnect ==
  ASSUME BooksInv, NEW t \in Txs, Disconnect(t)
  PROVE  BooksInv'
<1>1. /\ UNCHANGED <<nTxs, vin, key, mapWallet, vfSpent, setKeyPool, nKeys, disk>>
      /\ UNCHANGED <<updated, stale, pc, who, draft, open, crashes>>
      /\ pc = "idle" /\ t \in chain /\ chain' = chain \ {t}
      /\ mapTransactions' \subseteq mapTransactions \cup {t}
      /\ mapNextTx' \subseteq mapNextTx \cup vin[t]
  BY DEF Disconnect, AddToMemoryPoolUnchecked, txVars, memVars, poolVars, fileVars
<1>2. draft = NoTx /\ mapTransactions \subseteq mapWallet /\ chain \subseteq mapWallet
  BY <1>1, Numbering DEF BooksInv, DraftIsKnown, InStep
<1>3. TypeOK'
  <2>1. vin[t] \subseteq Coins
    BY DEF BooksInv, TypeOK
  <2> QED BY <1>1, <2>1 DEF BooksInv, TypeOK
<1>4. InStep'
  BY <1>1 DEF BooksInv, InStep, CoinsOf
<1>5. DraftIsKnown'
  BY <1>1, <1>2 DEF BooksInv, DraftIsKnown
<1>6. BooksAreRight'
  <2>1. SpentBy(chain)' \subseteq SpentBy(chain)
    BY <1>1 DEF SpentBy
  <2>2. SpentBy(mapWallet)' = SpentBy(mapWallet) /\ SpentBy(disk.tx)' = SpentBy(disk.tx)
    BY <1>1 DEF SpentBy
  <2> QED BY <1>1, <2>1, <2>2 DEF BooksInv, BooksAreRight, NoCoinIsLost, WalletKnowsChain
<1> QED BY <1>3, <1>4, <1>5, <1>6 DEF BooksInv

\* CrashAndRestart: the file has what memory had, so that there is nothing to find missing,
\* and what is read from it is what the node knew.
LEMMA Restarted ==
  ASSUME BooksInv, CrashAndRestart
  PROVE  /\ UNCHANGED <<nTxs, vin, key, mapWallet, vfSpent, nKeys, disk, chain, who>>
         /\ setKeyPool' = disk.pool /\ crashes < MaxCrashes /\ crashes' = crashes + 1
         /\ mapTransactions' \subseteq mapWallet /\ mapTransactions' \cap chain = {}
         /\ mapNextTx' = SpentBy(mapTransactions')
         /\ updated' \in BOOLEAN /\ stale' \in BOOLEAN
         /\ pc' = "idle" /\ draft' = NoTx /\ open' = {}
<1> DEFINE missing == (SpentBy(chain) \cap CoinsOf(disk.tx \cap chain)) \ disk.spent
           found == IF missing = {} THEN {} ELSE chain
<1>1. SpentBy(chain) \subseteq disk.spent
  BY DEF BooksInv, BooksAreRight, WalletKnowsChain
<1>2. missing = {} /\ found = {} /\ SpentBy(found) = {}
  BY <1>1 DEF SpentBy
<1>3. /\ crashes < MaxCrashes /\ crashes' = crashes + 1
      /\ mapWallet' = disk.tx \cup found
      /\ vfSpent' = disk.spent \cup missing \cup SpentBy(found)
      /\ disk' = [disk EXCEPT !.tx = mapWallet', !.spent = vfSpent']
      /\ setKeyPool' = disk.pool
      /\ mapTransactions' \in Reaccepted(mapWallet' \ chain)
      /\ mapNextTx' = SpentBy(mapTransactions')
      /\ updated' = (disk' # disk)
      /\ stale' = (stale \/ updated')
      /\ pc' = "idle" /\ draft' = NoTx /\ open' = {}
      /\ UNCHANGED <<txVars, nKeys, chain, who>>
  BY DEF CrashAndRestart
<1> HIDE DEF missing, found
<1>4. mapWallet' = disk.tx /\ vfSpent' = disk.spent /\ mapWallet = disk.tx /\ vfSpent = disk.spent
  BY <1>2, <1>3 DEF BooksInv, InStep
<1>5. disk' = disk
  BY <1>3, <1>4 DEF BooksInv, TypeOK
<1>6. mapTransactions' \subseteq mapWallet' \ chain
  BY <1>3 DEF Reaccepted
<1>7. updated' \in BOOLEAN /\ stale' \in BOOLEAN
  BY <1>3
<1> QED BY <1>3, <1>4, <1>5, <1>6, <1>7 DEF txVars

\* A crash and a restart.
LEMMA BooksCrash ==
  ASSUME BooksInv, CrashAndRestart
  PROVE  BooksInv'
<1>1. /\ UNCHANGED <<nTxs, vin, key, mapWallet, vfSpent, nKeys, disk, chain, who>>
      /\ setKeyPool' = disk.pool /\ crashes < MaxCrashes /\ crashes' = crashes + 1
      /\ mapTransactions' \subseteq mapWallet /\ mapNextTx' = SpentBy(mapTransactions')
      /\ updated' \in BOOLEAN /\ stale' \in BOOLEAN
      /\ pc' = "idle" /\ draft' = NoTx /\ open' = {}
  BY Restarted
<1>2. TypeOK'
  <2>1. crashes' \in 0..MaxCrashes
    BY <1>1, Numbering DEF BooksInv, TypeOK
  <2>2. mapTransactions' \subseteq Txs /\ \A t \in Txs : vin[t] \subseteq Coins
    BY <1>1 DEF BooksInv, TypeOK
  <2>3. mapNextTx' \subseteq Coins
    BY <1>1, <2>2, SpentMeans
  <2> QED BY <1>1, <2>1, <2>2, <2>3 DEF BooksInv, TypeOK
<1>3. InStep'
  BY <1>1 DEF BooksInv, InStep, CoinsOf
<1>4. DraftIsKnown'
  BY <1>1 DEF DraftIsKnown
<1>5. BooksAreRight'
  BY <1>1 DEF BooksInv, BooksAreRight, NoCoinIsLost, WalletKnowsChain, SpentBy
<1> QED BY <1>2, <1>3, <1>4, <1>5 DEF BooksInv

\* The first state has no transactions of the wallet.
LEMMA BooksInit ==
  ASSUME Init
  PROVE  BooksInv
<1>1. /\ nTxs = 0 /\ nKeys = 0 /\ crashes = 0 /\ 0 \in 0..MaxTxs /\ 0 \in 0..MaxCrashes
      /\ \A t \in Foreign : ForeignIns[t] \subseteq 1..FirstCoins /\ 1..FirstCoins \subseteq Coins
      /\ vin = [t \in Txs |-> IF t \in Foreign THEN ForeignIns[t] ELSE {}]
      /\ key = [t \in Txs |-> NoKey]
      /\ mapWallet = {} /\ vfSpent = {} /\ setKeyPool = {}
      /\ disk = [tx |-> {}, spent |-> {}, pool |-> {}]
      /\ mapTransactions = {} /\ mapNextTx = {} /\ chain = {}
      /\ pc = "idle" /\ who = "payment" /\ draft = NoTx
      /\ open = {} /\ updated = FALSE /\ stale = FALSE
  BY Numbering DEF Init, Coins
<1>2. \A t \in Txs : vin[t] \subseteq 1..FirstCoins
  BY <1>1
<1>3. /\ vin \in [Txs -> SUBSET Coins]
      /\ key \in [Txs -> Keys \cup {NoKey}]
      /\ disk \in [tx : SUBSET Txs, spent : SUBSET Coins, pool : SUBSET Keys]
  BY <1>1
<1>4. TypeOK
  BY <1>1, <1>3 DEF TypeOK
<1>5. InStep
  BY <1>1, <1>2, Numbering DEF InStep, CoinsOf
<1>6. DraftIsKnown
  BY <1>1 DEF DraftIsKnown
<1>7. BooksAreRight
  BY <1>1 DEF BooksAreRight, NoCoinIsLost, WalletKnowsChain, SpentBy
<1> QED BY <1>4, <1>5, <1>6, <1>7 DEF BooksInv

\* Every step.
LEMMA BooksStep ==
  ASSUME BooksInv, [Next]_vars
  PROVE  BooksInv'
<1>1. CASE CreateTransaction
  BY <1>1, BooksCreate
<1>2. CASE Abort \/ Commit \/ KeepKey \/ Marked
  BY <1>2, BooksGoOn
<1>3. CASE AddToWallet
  BY <1>3, BooksAdd
<1>4. CASE MarkSpent
  BY <1>4, BooksMark
<1>5. CASE Return
  BY <1>5, BooksReturn
<1>6. ASSUME NEW t \in Txs, SyncWithWallets(t) PROVE BooksInv'
  BY <1>6, BooksSync
<1>7. ASSUME NEW t \in Txs, Disconnect(t) PROVE BooksInv'
  BY <1>7, BooksDisconnect
<1>8. CASE Flush \/ Backup \/ UNCHANGED vars
  BY <1>8, BooksAside
<1>9. CASE CrashAndRestart
  BY <1>9, BooksCrash
<1> QED BY <1>1, <1>2, <1>3, <1>4, <1>5, <1>6, <1>7, <1>8, <1>9 DEF Next, Steps

\* In every state.
LEMMA BooksInvCorrect == Spec => []BooksInv
<1>1. Init => BooksInv
  BY BooksInit
<1>2. BooksInv /\ [Next]_vars => BooksInv'
  BY BooksStep
<1> QED BY <1>1, <1>2, PTL DEF Spec

\* Through crashes in the middle of CommitTransaction or of ConnectBlock, the books are right
\* about what was spent: every coin marked spent is spent by a recorded transaction, and all
\* that the chain has confirmed of ours is recorded with its coins marked, in memory and in
\* wallet.dat (AddToWallet, WalletUpdateSpent, ReacceptWalletTransactions).
THEOREM BooksCorrect == Spec => []BooksAreRight
<1>1. BooksInv => BooksAreRight
  BY DEF BooksInv
<1> QED BY <1>1, BooksInvCorrect, PTL

-----------------------------------------------------------------------------
(* The keys: KeysInv is kept.                                              *)

\* Steps that leave the keys and what the file has of them alone, and that end no handler's
\* work with its key unfinished.
LEMMA KeysUnchanged ==
  ASSUME KeysInv, UNCHANGED <<key, nKeys, setKeyPool>>,
         disk'.pool = disk.pool, disk'.tx = disk.tx,
         \/ UNCHANGED <<pc, draft>>
         \/ pc' \in {"idle", "mark", "done"}
         \/ pc = "drafted" /\ pc' = "keep" /\ draft' = draft
  PROVE  KeysInv'
<1>1. ChangeKeyIsTaken'
  BY DEF KeysInv, ChangeKeyIsTaken
<1> QED BY <1>1 DEF KeysInv

\* CreateTransaction: the key is taken out of the pool in memory, and its record is there.
LEMMA KeysCreate ==
  ASSUME BooksInv, KeysInv, CreateTransaction
  PROVE  KeysInv'
<1>1. PICK ins \in SUBSET Spendable, k \in Keys \cup {NoKey}, full \in SUBSET Keys :
          Creating(ins, k, full)
  BY Creates DEF BooksInv
<1> DEFINE t == FirstCoins + nTxs + 1
<1>2. /\ pc' = "drafted" /\ draft' = t /\ key' = [key EXCEPT ![t] = k]
      /\ k = NoKey \/ k \in full
      /\ setKeyPool' = full \ {k} /\ NoKey \notin Keys
  BY <1>1 DEF Creating, Keys, NoKey
<1>3. /\ t \in Txs /\ t \notin disk.tx
      /\ \A u \in disk.tx : u \in Txs /\ u # t
  BY <1>1, Numbering DEF Creating, Txs, BooksInv, InStep, Payments, TypeOK
<1>4. /\ disk'.tx = disk.tx /\ full \subseteq disk'.pool /\ disk'.pool \subseteq 1..nKeys'
      /\ nKeys' \in Nat /\ nKeys \in Nat /\ nKeys <= nKeys'
      /\ disk'.pool = disk.pool \/ (disk'.pool = disk.pool \cup {nKeys + 1} /\ nKeys + 1 > nKeys)
  <2>1. /\ disk \in [tx : SUBSET Txs, spent : SUBSET Coins, pool : SUBSET Keys] /\ nKeys \in Nat
        /\ setKeyPool \subseteq disk.pool /\ disk.pool \subseteq 1..nKeys
    BY Numbering DEF BooksInv, TypeOK, KeysInv
  <2>2. CASE full = setKeyPool /\ UNCHANGED <<nKeys, fileVars>>
    BY <2>1, <2>2 DEF fileVars
  <2>3. CASE /\ full = {nKeys + 1} /\ nKeys' = nKeys + 1
             /\ Written([disk EXCEPT !.pool = @ \cup full])
    <3>1. disk'.tx = disk.tx /\ disk'.pool = disk.pool \cup {nKeys + 1}
      BY <2>1, <2>3 DEF Written
    <3>2. disk.pool \cup {nKeys + 1} \subseteq 1..(nKeys + 1)
      BY <2>1
    <3> QED BY <2>1, <2>3, <3>1, <3>2
  <2> QED BY <1>1, <2>2, <2>3 DEF Creating
<1>5. key \in [Txs -> Keys \cup {NoKey}] /\ \A u \in Txs : key[u] \in 0..nKeys
  BY DEF BooksInv, TypeOK, KeysInv
<1> HIDE DEF t
<1>6. key'[t] = k /\ \A u \in Txs : u # t => key'[u] = key[u]
  BY <1>2, <1>3, <1>5
<1>7. k \in 0..nKeys'
  BY <1>2, <1>4 DEF NoKey
<1>8. \A u \in Txs : key'[u] \in 0..nKeys'
  BY <1>4, <1>5, <1>6, <1>7
<1>9. ChangeKeyIsTaken'
  <2>1. \A u \in disk.tx : key'[u] = key[u]
    BY <1>3, <1>6
  <2>2. \A u \in disk.tx : key[u] \notin disk'.pool \ {NoKey}
    <3>1. \A u \in disk.tx : key[u] \notin disk.pool \ {NoKey}
      BY DEF KeysInv, ChangeKeyIsTaken
    <3>2. \A u \in disk.tx : key[u] # nKeys + 1
      BY <1>3, <1>4, <1>5
    <3> QED BY <1>4, <3>1, <3>2
  <2> QED BY <1>4, <2>1, <2>2 DEF KeysInv, ChangeKeyIsTaken
<1>10. k \in (disk'.pool \ setKeyPool') \cup {NoKey}
  BY <1>2, <1>4
<1> QED BY <1>2, <1>4, <1>6, <1>8, <1>9, <1>10 DEF KeysInv

\* Abort: the key goes back, and its record is there still.
LEMMA KeysAbort ==
  ASSUME BooksInv, KeysInv, Abort
  PROVE  KeysInv'
<1>1. /\ key[draft] \in disk.pool \cup {NoKey}
      /\ setKeyPool' = setKeyPool \cup ({key[draft]} \ {NoKey})
      /\ UNCHANGED <<key, nKeys, disk>> /\ pc' = "idle"
  BY DEF Abort, KeysInv, txVars, fileVars
<1>2. ChangeKeyIsTaken'
  BY <1>1 DEF KeysInv, ChangeKeyIsTaken
<1> QED BY <1>1, <1>2 DEF KeysInv

\* KeepKey: the record is erased before the transaction has one, and whose key it was cannot
\* have been recorded, as its record was there.
LEMMA KeysKeep ==
  ASSUME BooksInv, KeysInv, KeepKey
  PROVE  KeysInv'
<1>1. /\ pc = "keep" /\ pc' = "add" /\ UNCHANGED <<key, nKeys, setKeyPool, draft>>
      /\ disk'.tx = disk.tx /\ disk'.pool = disk.pool \ ({key[draft]} \ {NoKey})
  <2>1. /\ disk \in [tx : SUBSET Txs, spent : SUBSET Coins, pool : SUBSET Keys]
    BY DEF BooksInv, TypeOK
  <2>2. CASE key[draft] = NoKey
    BY <2>1, <2>2 DEF KeepKey, txVars, poolVars, fileVars
  <2>3. CASE key[draft] # NoKey
    BY <2>1, <2>3 DEF KeepKey, Written, txVars, poolVars, fileVars
  <2> QED BY <2>2, <2>3
<1>2. key[draft] \in (disk.pool \ setKeyPool) \cup {NoKey} /\ setKeyPool \subseteq Keys /\ NoKey \notin Keys
  BY <1>1 DEF KeysInv, BooksInv, TypeOK, NoKey, Keys
<1>3. setKeyPool' \subseteq disk'.pool /\ disk'.pool \subseteq 1..nKeys'
  BY <1>1, <1>2 DEF KeysInv
<1>4. /\ key[draft] \notin disk'.pool \ {NoKey}
      /\ \A t \in disk.tx : key[draft] # NoKey => key[t] # key[draft]
  BY <1>1, <1>2 DEF KeysInv, ChangeKeyIsTaken
<1>5. ChangeKeyIsTaken'
  BY <1>1 DEF KeysInv, ChangeKeyIsTaken
<1> QED BY <1>1, <1>3, <1>4, <1>5 DEF KeysInv

\* AddToWallet: nobody recorded shares the key with the transaction.
LEMMA KeysAdd ==
  ASSUME BooksInv, KeysInv, AddToWallet
  PROVE  KeysInv'
<1>1. /\ pc = "add" /\ pc' = "mark" /\ UNCHANGED <<key, nKeys, setKeyPool, draft>>
      /\ disk'.tx = disk.tx \cup {draft} /\ disk'.pool = disk.pool
  <2>1. /\ disk \in [tx : SUBSET Txs, spent : SUBSET Coins, pool : SUBSET Keys]
        /\ mapWallet = disk.tx
    BY DEF BooksInv, TypeOK, InStep
  <2>2. CASE draft \in mapWallet
    BY <2>1, <2>2 DEF AddToWallet, txVars, poolVars, fileVars
  <2>3. CASE draft \notin mapWallet
    BY <2>1, <2>3 DEF AddToWallet, Written, txVars, poolVars, fileVars
  <2> QED BY <2>2, <2>3
<1>2. /\ key[draft] \notin disk.pool \ {NoKey}
      /\ \A t \in disk.tx \ {draft} : key[draft] # NoKey => key[t] # key[draft]
  BY <1>1 DEF KeysInv
<1>3. ChangeKeyIsTaken'
  BY <1>1, <1>2 DEF KeysInv, ChangeKeyIsTaken
<1> QED BY <1>1, <1>3 DEF KeysInv

\* SyncWithWallets: the transaction has no key of ours, or it is recorded.
LEMMA KeysSync ==
  ASSUME BooksInv, KeysInv, NEW t \in Txs, SyncWithWallets(t)
  PROVE  KeysInv'
<1>1. /\ UNCHANGED <<key, nKeys, setKeyPool, disk>> /\ pc = "idle" /\ pc' = "add" /\ draft' = t
      /\ t \in mapWallet \cup Foreign
  BY DEF SyncWithWallets, txVars, poolVars, fileVars
<1>2. key[t] = NoKey \/ t \in disk.tx
  BY <1>1, Numbering DEF BooksInv, InStep, DraftIsKnown
<1>3. /\ key[t] \notin disk.pool \ {NoKey}
      /\ \A u \in disk.tx \ {t} : key[t] # NoKey => key[u] # key[t]
  BY <1>2 DEF KeysInv, ChangeKeyIsTaken
<1>4. ChangeKeyIsTaken'
  BY <1>1 DEF KeysInv, ChangeKeyIsTaken
<1> QED BY <1>1, <1>3, <1>4 DEF KeysInv

\* CrashAndRestart: the pool is what the file has of it.
LEMMA KeysCrash ==
  ASSUME BooksInv, KeysInv, CrashAndRestart
  PROVE  KeysInv'
<1>1. UNCHANGED <<key, nKeys, disk>> /\ setKeyPool' = disk.pool /\ pc' = "idle"
  BY Restarted
<1>2. ChangeKeyIsTaken'
  BY <1>1 DEF KeysInv, ChangeKeyIsTaken
<1> QED BY <1>1, <1>2 DEF KeysInv

\* Every step.
LEMMA KeysStep ==
  ASSUME BooksInv, KeysInv, [Next]_vars
  PROVE  KeysInv'
<1>1. CASE CreateTransaction
  BY <1>1, KeysCreate
<1>2. CASE Abort
  BY <1>2, KeysAbort
<1>3. CASE KeepKey
  BY <1>3, KeysKeep
<1>4. CASE AddToWallet
  BY <1>4, KeysAdd
<1>5. ASSUME NEW t \in Txs, SyncWithWallets(t) PROVE KeysInv'
  BY <1>5, KeysSync
<1>6. CASE CrashAndRestart
  BY <1>6, KeysCrash
<1>7. CASE Commit \/ Marked \/ Return \/ Flush \/ Backup \/ UNCHANGED vars
  <2>1. /\ UNCHANGED <<key, nKeys, setKeyPool, disk>>
        /\ \/ UNCHANGED <<pc, draft>>
           \/ pc' \in {"idle", "mark", "done"}
           \/ pc = "drafted" /\ pc' = "keep" /\ draft' = draft
    BY <1>7 DEF Commit, Marked, Return, Flush, Backup, vars, txVars, poolVars, fileVars
  <2> QED BY <2>1, KeysUnchanged
<1>8. CASE MarkSpent
  <2>1. PICK c \in ToMark : Written([disk EXCEPT !.spent = @ \cup {c}])
    BY <1>8 DEF MarkSpent
  <2>2. disk'.pool = disk.pool /\ disk'.tx = disk.tx
    BY <2>1 DEF Written, BooksInv, TypeOK
  <2>3. UNCHANGED <<key, nKeys, setKeyPool, pc, draft>>
    BY <1>8 DEF MarkSpent, txVars, poolVars
  <2> QED BY <2>2, <2>3, KeysUnchanged
<1>9. ASSUME NEW t \in Txs, Disconnect(t) PROVE KeysInv'
  <2>1. UNCHANGED <<key, nKeys, setKeyPool, disk, pc, draft>>
    BY <1>9 DEF Disconnect, txVars, poolVars, fileVars
  <2> QED BY <2>1, KeysUnchanged
<1> QED BY <1>1, <1>2, <1>3, <1>4, <1>5, <1>6, <1>7, <1>8, <1>9 DEF Next, Steps

\* In every state.
LEMMA KeysInvCorrect == Spec => []KeysInv
<1>1. Init => KeysInv
  BY Numbering DEF Init, KeysInv, ChangeKeyIsTaken, NoKey
<1>2. BooksInv /\ KeysInv /\ [Next]_vars => KeysInv'
  BY KeysStep
<1> QED BY <1>1, <1>2, BooksInvCorrect, PTL DEF Spec

\* "Take key pair from key pool so it won't be used again": the key of a recorded transaction
\* is in no pool that a restart loads, and no two recorded transactions share one, through
\* aborted payments and crashes between the writes (KeepKey, ReturnKey, LoadWallet).
THEOREM KeysCorrect == Spec => []ChangeKeyIsTaken
<1>1. KeysInv => ChangeKeyIsTaken
  BY DEF KeysInv
<1> QED BY <1>1, KeysInvCorrect, PTL

-----------------------------------------------------------------------------
(* The payments: as long as the node stays up, nothing competes with them.  *)

\* Two transactions that share no coin, and one that shares none with a set of them.
LEMMA Disjoint ==
  ASSUME NEW t, NEW ts
  PROVE  vin[t] \cap SpentBy(ts) = {} <=> \A u \in ts : vin[t] \cap vin[u] = {}
BY SpentMeans

\* Steps that change neither what the pool, the chain and the wallet have nor the marks,
\* while a handler goes on or is given up.
LEMMA CompeteGoOn ==
  ASSUME BooksInv, BooksInv', NothingCompetes,
         Abort \/ Commit \/ KeepKey \/ Marked \/ Flush \/ Backup \/ UNCHANGED vars
  PROVE  NothingCompetes'
<1>1. UNCHANGED <<vin, key, mapWallet, vfSpent, mapTransactions, mapNextTx, chain, crashes, who>>
  BY DEF Abort, Commit, KeepKey, Marked, Flush, Backup, vars, txVars, memVars, nodeVars
<1> SUFFICES ASSUME crashes = 0 PROVE NothingCompetes'
  BY <1>1 DEF NothingCompetes
<1>2. RecordedAreMarked /\ ChangeIsThere /\ EntriesAreFree /\ DraftStands
  BY DEF NothingCompetes
<1>3. \/ pc = "drafted" /\ pc' = "idle" /\ draft \notin mapWallet
      \/ pc = "drafted" /\ pc' = "keep" /\ draft' = draft /\ "wallet.dat" \in open'
      \/ pc = "keep" /\ pc' = "add" /\ UNCHANGED <<draft, open>>
      \/ pc = "mark" /\ pc' = "done" /\ draft' = draft /\ vin[draft] \subseteq vfSpent
      \/ UNCHANGED <<pc, draft, open>>
  <2>1. CASE Marked
    BY <1>1, <2>1 DEF Marked, BooksInv, DraftIsKnown
  <2>2. CASE Abort
    <3>1. pc = "drafted" => who = "payment"
      BY DEF BooksInv, DraftIsKnown
    <3> QED BY <2>2, <3>1 DEF Abort, BooksInv, DraftIsKnown
  <2>3. CASE Commit \/ KeepKey \/ Flush \/ Backup \/ UNCHANGED vars
    BY <2>3 DEF Commit, KeepKey, Flush, Backup, vars
  <2> QED BY <2>1, <2>2, <2>3
<1>4. RecordedAreMarked'
  BY <1>1, <1>2, <1>3 DEF RecordedAreMarked
<1>5. ChangeIsThere'
  BY <1>1, <1>2, <1>3 DEF ChangeIsThere
<1>6. EntriesAreFree'
  BY <1>1, <1>2 DEF EntriesAreFree, Compatible, SpentBy
<1>7. DraftStands'
  <2>1. draft' = draft => (Acceptable(draft)' <=> Acceptable(draft)) /\ (Valid(draft)' <=> Valid(draft))
    BY <1>1 DEF Acceptable, Valid, SpentBy, CoinsOf
  <2> QED BY <1>1, <1>2, <1>3, <2>1 DEF DraftStands
<1> QED BY <1>4, <1>5, <1>6, <1>7 DEF NothingCompetes

\* CreateTransaction: at that moment everything recorded is marked and in the pool or in a
\* block, if it gives change, so that coins that are not marked are coins that the memory
\* pool knows and nothing spends.
LEMMA CompeteCreate ==
  ASSUME BooksInv, BooksInv', NothingCompetes, CreateTransaction
  PROVE  NothingCompetes'
<1>1. PICK ins \in SUBSET Spendable, k \in Keys \cup {NoKey}, full \in SUBSET Keys :
          Creating(ins, k, full)
  BY Creates DEF BooksInv
<1> DEFINE t == FirstCoins + nTxs + 1
<1>2. /\ pc = "idle" /\ pc' = "drafted" /\ who' = "payment" /\ draft' = t
      /\ vin' = [vin EXCEPT ![t] = ins] /\ key' = [key EXCEPT ![t] = k]
      /\ UNCHANGED <<mapWallet, vfSpent, mapTransactions, mapNextTx, chain, open, crashes>>
  BY <1>1 DEF Creating, memVars, nodeVars
<1> SUFFICES ASSUME crashes = 0 PROVE NothingCompetes'
  BY <1>2 DEF NothingCompetes
<1>3. RecordedAreMarked /\ ChangeIsThere /\ EntriesAreFree
  BY DEF NothingCompetes
<1>4. /\ t \in Txs /\ t \notin mapWallet \cup mapTransactions \cup chain
      /\ draft = NoTx /\ NoTx \notin Txs
      /\ mapTransactions \cup chain \subseteq mapWallet /\ mapWallet \subseteq Txs
  BY <1>1, Numbering DEF Creating, Txs, BooksInv, InStep, DraftIsKnown, Payments, TypeOK
<1>5. vin \in [Txs -> SUBSET Coins] /\ key \in [Txs -> Keys \cup {NoKey}]
  BY DEF BooksInv, TypeOK
<1> HIDE DEF t
<1>6. vin'[t] = ins /\ key'[t] = k /\ \A u \in mapWallet : vin'[u] = vin[u] /\ key'[u] = key[u]
  BY <1>2, <1>4, <1>5
<1>7. RecordedAreMarked'
  BY <1>2, <1>3, <1>6 DEF RecordedAreMarked
<1>8. ChangeIsThere'
  BY <1>2, <1>3, <1>4, <1>6 DEF ChangeIsThere
<1>9. /\ SpentBy(mapTransactions)' = SpentBy(mapTransactions) /\ SpentBy(chain)' = SpentBy(chain)
      /\ EntriesAreFree'
  <2>1. SpentBy(mapTransactions)' = SpentBy(mapTransactions) /\ SpentBy(chain)' = SpentBy(chain)
    BY <1>2, <1>4, <1>6 DEF SpentBy
  <2>2. Compatible(chain)'
    BY <1>2, <1>3, <1>4, <1>6 DEF EntriesAreFree, Compatible
  <2> QED BY <1>2, <1>3, <2>1, <2>2 DEF EntriesAreFree
<1>10. Acceptable(draft)'
  <2>1. ins \subseteq CoinsOf(mapWallet) /\ ins \cap vfSpent = {}
    BY DEF Spendable
  <2>2. \A u \in mapWallet : vin[u] \subseteq vfSpent
    BY <1>2, <1>3 DEF RecordedAreMarked
  <2>3. ins \subseteq CoinsOf(mapTransactions \cup chain)
    BY <1>3, <1>4, <2>1 DEF CoinsOf, ChangeIsThere
  <2>4. CoinsOf(mapTransactions \cup chain)' = CoinsOf(mapTransactions \cup chain)
    BY <1>2, <1>4, <1>6 DEF CoinsOf
  <2>5. ins \cap SpentBy(mapTransactions) = {} /\ ins \cap SpentBy(chain) = {}
    BY <1>4, <2>1, <2>2, SpentMeans
  <2>6. ins \cap mapNextTx = {}
    BY <1>3, <2>5 DEF EntriesAreFree
  <2> QED BY <1>2, <1>4, <1>6, <1>9, <2>3, <2>4, <2>5, <2>6 DEF Acceptable
<1>11. DraftStands'
  BY <1>2, <1>10 DEF DraftStands
<1> QED BY <1>7, <1>8, <1>9, <1>11 DEF NothingCompetes

\* AddToWallet and MarkSpent: what is recorded now is what is being marked.
LEMMA CompeteRecord ==
  ASSUME BooksInv, BooksInv', NothingCompetes, AddToWallet \/ MarkSpent
  PROVE  NothingCompetes'
<1>1. /\ UNCHANGED <<vin, key, mapTransactions, mapNextTx, chain, crashes, who, draft, open>>
      /\ pc' = "mark" /\ pc \in {"add", "mark"}
      /\ \/ pc = "mark" /\ mapWallet' = mapWallet
         \/ pc = "add" /\ mapWallet' = mapWallet \cup {draft}
      /\ vfSpent \subseteq vfSpent'
  BY DEF AddToWallet, MarkSpent, txVars, nodeVars
<1> SUFFICES ASSUME crashes = 0 PROVE NothingCompetes'
  BY <1>1 DEF NothingCompetes
<1>2. RecordedAreMarked /\ ChangeIsThere /\ EntriesAreFree /\ DraftStands
  BY DEF NothingCompetes
<1>3. RecordedAreMarked'
  <2>1. pc = "add" => who = "payment" \/ draft \in Foreign \/ draft \in mapWallet
    BY DEF BooksInv, DraftIsKnown
  <2> QED BY <1>1, <1>2, <2>1 DEF RecordedAreMarked
<1>4. ChangeIsThere'
  BY <1>1, <1>2 DEF ChangeIsThere
<1>5. EntriesAreFree'
  BY <1>1, <1>2 DEF EntriesAreFree, Compatible, SpentBy
<1>6. DraftStands'
  <2>1. (Acceptable(draft)' <=> Acceptable(draft)) /\ (Valid(draft)' <=> Valid(draft))
    BY <1>1 DEF Acceptable, Valid, SpentBy, CoinsOf
  <2> QED BY <1>1, <1>2, <2>1 DEF DraftStands
<1> QED BY <1>3, <1>4, <1>5, <1>6 DEF NothingCompetes

\* AddToMemoryPoolUnchecked, of a transaction that competes with nothing in the chain.
LEMMA EntriesAdded ==
  ASSUME EntriesAreFree, NEW t, t \notin chain, vin[t] \cap SpentBy(chain) = {},
         UNCHANGED <<vin, chain>>,
         mapTransactions' = mapTransactions \cup {t}, mapNextTx' = mapNextTx \cup vin[t]
  PROVE  EntriesAreFree'
<1>1. SpentBy(mapTransactions)' = SpentBy(mapTransactions) \cup vin[t] /\ SpentBy(chain)' = SpentBy(chain)
  <2>1. SpentBy(chain)' = SpentBy(chain)
    BY DEF SpentBy
  <2>2. SpentBy(mapTransactions)' = UNION {vin[u] : u \in mapTransactions \cup {t}}
    BY DEF SpentBy
  <2>3. UNION {vin[u] : u \in mapTransactions \cup {t}} = SpentBy(mapTransactions) \cup vin[t]
    BY DEF SpentBy
  <2> QED BY <2>1, <2>2, <2>3
<1>2. Compatible(chain)'
  BY DEF EntriesAreFree, Compatible
<1> QED BY <1>1, <1>2 DEF EntriesAreFree

\* SyncWithWallets: a transaction that the pool has just taken competes with nothing there.
LEMMA CompeteSync ==
  ASSUME BooksInv, BooksInv', NothingCompetes, NEW t \in Txs, SyncWithWallets(t)
  PROVE  NothingCompetes'
<1>1. /\ UNCHANGED <<vin, key, mapWallet, vfSpent, chain, crashes>>
      /\ pc = "idle" /\ pc' = "add" /\ draft' = t
      /\ \/ /\ who' = "block" /\ UNCHANGED <<mapTransactions, mapNextTx>>
            /\ t \in mapWallet \cup Foreign /\ Valid(t)
         \/ /\ who' = "tx" /\ mapTransactions' = mapTransactions \cup {t}
            /\ mapNextTx' = mapNextTx \cup vin[t]
            /\ t \in Foreign /\ Acceptable(t)
  BY DEF SyncWithWallets, AddToMemoryPoolUnchecked, txVars, memVars
<1> SUFFICES ASSUME crashes = 0 PROVE NothingCompetes'
  BY <1>1 DEF NothingCompetes
<1>2. RecordedAreMarked /\ ChangeIsThere /\ EntriesAreFree
  BY DEF NothingCompetes
<1>3. draft = NoTx /\ NoTx \notin Txs /\ mapWallet \subseteq Txs
  BY <1>1, Numbering DEF BooksInv, DraftIsKnown, TypeOK
<1>4. RecordedAreMarked'
  BY <1>1, <1>2 DEF RecordedAreMarked
<1>5. ChangeIsThere'
  BY <1>1, <1>2, <1>3 DEF ChangeIsThere
<1>6. EntriesAreFree'
  <2>1. CASE UNCHANGED <<mapTransactions, mapNextTx>>
    BY <1>1, <1>2, <2>1 DEF EntriesAreFree, Compatible, SpentBy
  <2>2. CASE /\ mapTransactions' = mapTransactions \cup {t} /\ mapNextTx' = mapNextTx \cup vin[t]
             /\ Acceptable(t)
    BY <1>1, <1>2, <2>2, EntriesAdded DEF Acceptable
  <2> QED BY <1>1, <2>1, <2>2
<1>7. DraftStands'
  <2>1. Valid(draft)' <=> Valid(t)
    BY <1>1 DEF Valid, SpentBy, CoinsOf
  <2>2. t \in mapTransactions \/ key[t] = NoKey
    BY <1>1, <1>2, <1>3 DEF ChangeIsThere, Valid, BooksInv, InStep
  <2> QED BY <1>1, <2>1, <2>2 DEF DraftStands
<1> QED BY <1>4, <1>5, <1>6, <1>7 DEF NothingCompetes

\* Return: a payment competes with nothing in the pool and in the chain, and what a block
\* confirms with nothing in the chain; what it confirms of ours was in the pool.
LEMMA CompeteReturn ==
  ASSUME BooksInv, BooksInv', NothingCompetes, Return
  PROVE  NothingCompetes'
<1>1. /\ UNCHANGED <<vin, key, mapWallet, vfSpent, crashes>>
      /\ pc = "done" /\ pc' = "idle" /\ draft' = NoTx
  BY DEF Return, txVars, memVars
<1> SUFFICES ASSUME crashes = 0 PROVE NothingCompetes'
  BY <1>1 DEF NothingCompetes
<1>2. RecordedAreMarked /\ ChangeIsThere /\ EntriesAreFree /\ DraftStands
  BY DEF NothingCompetes
<1>3. RecordedAreMarked' /\ DraftStands'
  BY <1>1, <1>2 DEF RecordedAreMarked, DraftStands
<1>4. CASE /\ who = "payment"
           /\ IF Acceptable(draft) THEN AddToMemoryPoolUnchecked(draft)
              ELSE UNCHANGED <<mapTransactions, mapNextTx>>
           /\ UNCHANGED chain
  <2>1. /\ Acceptable(draft) /\ mapTransactions' = mapTransactions \cup {draft}
        /\ mapNextTx' = mapNextTx \cup vin[draft]
    BY <1>1, <1>2, <1>4 DEF DraftStands, AddToMemoryPoolUnchecked
  <2>2. ChangeIsThere'
    BY <1>1, <1>2, <1>4, <2>1 DEF ChangeIsThere
  <2>3. EntriesAreFree'
    BY <1>1, <1>2, <1>4, <2>1, EntriesAdded DEF Acceptable
  <2> QED BY <1>3, <2>2, <2>3 DEF NothingCompetes
<1>5. CASE who = "block" /\ chain' = chain \cup {draft} /\ RemoveFromMemoryPool(draft)
  <2>1. /\ Valid(draft) /\ mapTransactions' = mapTransactions \ {draft}
        /\ mapNextTx' = mapNextTx \ vin[draft]
    BY <1>1, <1>2, <1>5 DEF DraftStands, RemoveFromMemoryPool
  <2>2. draft \notin chain /\ \A u \in chain : vin[draft] \cap vin[u] = {}
    BY <2>1, Disjoint DEF Valid
  <2>3. ChangeIsThere'
    BY <1>1, <1>2, <1>5, <2>1 DEF ChangeIsThere
  <2>4. mapTransactions' \cap chain' = {} /\ Compatible(chain)'
    BY <1>1, <1>2, <1>5, <2>1, <2>2 DEF EntriesAreFree, Compatible
  <2>5. mapNextTx' \subseteq SpentBy(mapTransactions)'
    <3>1. \A c \in mapNextTx' : \E u \in mapTransactions \ {draft} : c \in vin[u]
      BY <1>2, <2>1, SpentMeans DEF EntriesAreFree
    <3> QED BY <1>1, <2>1, <3>1 DEF SpentBy
  <2>6. mapNextTx' \cap SpentBy(chain)' = {}
    <3>1. \A c \in mapNextTx', u \in chain \cup {draft} : c \notin vin[u]
      BY <1>2, <2>1, SpentMeans DEF EntriesAreFree
    <3> QED BY <1>1, <1>5, <3>1 DEF SpentBy
  <2> QED BY <1>3, <2>3, <2>4, <2>5, <2>6 DEF NothingCompetes, EntriesAreFree
<1>6. CASE who # "payment" /\ UNCHANGED nodeVars
  <2>1. draft \in mapTransactions \/ key[draft] = NoKey
    BY <1>1, <1>2, <1>6 DEF DraftStands
  <2>2. mapTransactions' = mapTransactions /\ mapNextTx' = mapNextTx /\ chain' = chain
    BY <1>6 DEF nodeVars
  <2>3. ChangeIsThere'
    BY <1>1, <1>2, <2>1, <2>2 DEF ChangeIsThere
  <2>4. EntriesAreFree'
    BY <1>1, <1>2, <2>2 DEF EntriesAreFree, Compatible, SpentBy
  <2> QED BY <1>3, <2>3, <2>4 DEF NothingCompetes
<1> QED BY <1>4, <1>5, <1>6 DEF Return

\* Disconnect: mapNextTx has no entry for what the chain spends, so that the pool takes back
\* what leaves it, whatever rivals it has.
LEMMA CompeteDisconnect ==
  ASSUME BooksInv, BooksInv', NothingCompetes, NEW t \in Txs, Disconnect(t)
  PROVE  NothingCompetes'
<1>1. /\ UNCHANGED <<vin, key, mapWallet, vfSpent, pc, who, draft, open, crashes>>
      /\ pc = "idle" /\ t \in chain /\ chain' = chain \ {t}
      /\ IF t \notin mapTransactions /\ vin[t] \cap mapNextTx = {}
         THEN AddToMemoryPoolUnchecked(t) ELSE UNCHANGED <<mapTransactions, mapNextTx>>
  BY DEF Disconnect, txVars, memVars
<1> SUFFICES ASSUME crashes = 0 PROVE NothingCompetes'
  BY <1>1 DEF NothingCompetes
<1>2. RecordedAreMarked /\ ChangeIsThere /\ EntriesAreFree
  BY DEF NothingCompetes
<1>3. RecordedAreMarked' /\ DraftStands'
  BY <1>1, <1>2 DEF RecordedAreMarked, DraftStands
<1>4. /\ mapTransactions' = mapTransactions \cup {t} /\ mapNextTx' = mapNextTx \cup vin[t]
      /\ \A u \in chain : u # t => vin[t] \cap vin[u] = {}
  <2>1. vin[t] \subseteq SpentBy(chain)
    BY <1>1, SpentMeans
  <2>2. t \notin mapTransactions /\ vin[t] \cap mapNextTx = {}
    BY <1>1, <1>2, <2>1 DEF EntriesAreFree
  <2> QED BY <1>1, <1>2, <2>2 DEF AddToMemoryPoolUnchecked, EntriesAreFree, Compatible
<1>5. ChangeIsThere'
  BY <1>1, <1>2, <1>4 DEF ChangeIsThere
<1>6. EntriesAreFree'
  <2>1. mapTransactions' \cap chain' = {} /\ Compatible(chain)'
    BY <1>1, <1>2, <1>4 DEF EntriesAreFree, Compatible
  <2>2. mapNextTx' \subseteq SpentBy(mapTransactions)'
    <3>1. \A c \in mapNextTx' : \E u \in mapTransactions \cup {t} : c \in vin[u]
      BY <1>2, <1>4, SpentMeans DEF EntriesAreFree
    <3> QED BY <1>1, <1>4, <3>1 DEF SpentBy
  <2>3. mapNextTx' \cap SpentBy(chain)' = {}
    <3>1. \A c \in mapNextTx', u \in chain \ {t} : c \notin vin[u]
      BY <1>2, <1>4, SpentMeans DEF EntriesAreFree
    <3> QED BY <1>1, <3>1 DEF SpentBy
  <2> QED BY <2>1, <2>2, <2>3 DEF EntriesAreFree
<1> QED BY <1>3, <1>5, <1>6 DEF NothingCompetes

\* Every step.
LEMMA CompeteStep ==
  ASSUME BooksInv, BooksInv', NothingCompetes, [Next]_vars
  PROVE  NothingCompetes'
<1>1. CASE CreateTransaction
  BY <1>1, CompeteCreate
<1>2. CASE Abort \/ Commit \/ KeepKey \/ Marked \/ Flush \/ Backup \/ UNCHANGED vars
  BY <1>2, CompeteGoOn
<1>3. CASE AddToWallet \/ MarkSpent
  BY <1>3, CompeteRecord
<1>4. CASE Return
  BY <1>4, CompeteReturn
<1>5. ASSUME NEW t \in Txs, SyncWithWallets(t) PROVE NothingCompetes'
  BY <1>5, CompeteSync
<1>6. ASSUME NEW t \in Txs, Disconnect(t) PROVE NothingCompetes'
  BY <1>6, CompeteDisconnect
<1>7. CASE CrashAndRestart
  <2>1. crashes \in Nat /\ crashes' = crashes + 1
    BY <1>7, Restarted, Numbering DEF BooksInv, TypeOK
  <2> QED BY <2>1 DEF NothingCompetes
<1> QED BY <1>1, <1>2, <1>3, <1>4, <1>5, <1>6, <1>7 DEF Next, Steps

\* In every state.
LEMMA CompeteCorrect == Spec => []NothingCompetes
<1>1. Init => NothingCompetes
  BY DEF Init, NothingCompetes, RecordedAreMarked, ChangeIsThere, EntriesAreFree, Compatible, SpentBy, DraftStands
<1>2. BooksInv /\ BooksInv' /\ NothingCompetes /\ [Next]_vars => NothingCompetes'
  BY CompeteStep
<1> QED BY <1>1, <1>2, BooksInvCorrect, PTL DEF Spec

\* "This must not fail. The transaction has already been signed and recorded": while the node
\* stays up AcceptToMemoryPool takes every payment that CommitTransaction has recorded, however
\* blocks, reorganizations, copies of the wallet and other payments come between.
THEOREM CommitCorrect == Spec => []CommitDoesNotFail
<1>1. NothingCompetes => CommitDoesNotFail
  BY DEF NothingCompetes, DraftStands, CommitDoesNotFail
<1> QED BY <1>1, CompeteCorrect, PTL

\* "keep the database open to defeat the auto-flush": neither ThreadFlushWalletDB nor
\* BackupWallet makes wallet.dat complete without its log while a payment is half written.
THEOREM FlushesCorrect == Spec => FlushesWhole
<1>1. ASSUME BooksInv, KeysInv, NothingCompetes, [Next]_vars,
             stale, ~stale', crashes = 0, NEW t \in disk.tx \ Foreign
      PROVE  vin[t] \subseteq disk.spent /\ key[t] \notin disk.pool
  <2>1. "wallet.dat" \notin open
    <3>1. CASE Flush \/ Backup
      BY <3>1 DEF Flush, Backup
    <3>2. CASE CrashAndRestart
      BY <1>1, <3>2 DEF CrashAndRestart
    <3>3. CASE CreateTransaction \/ Abort \/ Steps \/ UNCHANGED vars
      BY <1>1, <3>3 DEF CreateTransaction, Abort, Steps, Commit, KeepKey, AddToWallet, MarkSpent, Marked,
                        Return, Written, fileVars, vars
    <3>4. CASE \E u \in Txs : SyncWithWallets(u) \/ Disconnect(u)
      BY <1>1, <3>4 DEF SyncWithWallets, Disconnect, fileVars
    <3> QED BY <1>1, <3>1, <3>2, <3>3, <3>4 DEF Next
  <2>2. RecordedAreMarked /\ DraftStands /\ mapWallet = disk.tx /\ vfSpent = disk.spent
    BY <1>1 DEF NothingCompetes, BooksInv, InStep
  <2>3. vin[t] \subseteq disk.spent
    BY <1>1, <2>1, <2>2 DEF RecordedAreMarked, DraftStands
  <2>4. disk.pool \subseteq Keys /\ NoKey \notin Keys
    BY <1>1 DEF BooksInv, TypeOK, Keys, NoKey
  <2> QED BY <1>1, <2>3, <2>4 DEF KeysInv, ChangeKeyIsTaken
<1>2. BooksInv /\ KeysInv /\ NothingCompetes /\ [Next]_vars =>
        [stale /\ ~stale' /\ crashes = 0 =>
           \A t \in disk.tx \ Foreign : vin[t] \subseteq disk.spent /\ key[t] \notin disk.pool]_vars
  BY <1>1
<1> QED BY <1>2, BooksInvCorrect, KeysInvCorrect, CompeteCorrect, PTL DEF Spec, FlushesWhole

=============================================================================
