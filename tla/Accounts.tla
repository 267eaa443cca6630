------------------------------- MODULE Accounts -------------------------------
(***************************************************************************)
(* The accounts of the RPC methods: names that addresses are booked under. *)
(* No coin belongs to one; a balance is what the wallet's transactions     *)
(* paid to the addresses of a name, less what was sent in its name.        *)
(*                                                                         *)
(* w holds the wallet's transactions, the address book, the current key of *)
(* each account and the entries of move.  A transaction has the coins it   *)
(* spends, outputs [to, value], the account it was sent from, and whether  *)
(* it is a coinbase, and is final; the block of the main chain that has it *)
(* (at, or 0) and how deep that is, the block the wallet was last told of  *)
(* (hashBlock), and the copies of what it was made of (vtxPrev), each with *)
(* the block of its own.  A block has one number for every transaction in  *)
(* it: 1 and 2 are the first block that has one and another.  Our keys are *)
(* 1..nKeys, each for its own address; 0 is an address of somebody else.   *)
(* Times, names of other people and the caches of amounts are left out.    *)
(***************************************************************************)
EXTENDS SequencesExt, Integers

CONSTANT COINBASE_DEPTH  \* COINBASE_MATURITY + 20, where a coinbase is worth something

Empty(accounts) ==
  [txs |-> <<>>, mapAddressBook |-> <<>>, nKeys |-> 0,
   vchPubKey |-> [a \in accounts |-> 0], entries |-> <<>>]

SumOver(S, Value(_)) == MapThenSumSet(Value, S)
OutsOf(tx) == DOMAIN tx.vout
Coins(w) == UNION {{<<i, o>> : o \in OutsOf(w.txs[i])} : i \in DOMAIN w.txs}
ValueOf(w, coin) == w.txs[coin[1]].vout[coin[2]].value
IsOurs(w, out) == out.to \in 1..w.nKeys
Booked(w, address) == address \in DOMAIN w.mapAddressBook

\* An output of ours whose address is not in the book.
IsChange(w, out) == IsOurs(w, out) /\ ~Booked(w, out.to)

Debit(w, tx) == SumOver(tx.vin, LAMBDA coin : ValueOf(w, coin))
IsFromMe(w, tx) == \E coin \in tx.vin : ValueOf(w, coin) > 0
Spent(w) == UNION {w.txs[i].vin : i \in DOMAIN w.txs}

\* How deep a transaction is for who saw it in a block: not at all when it is in another one.
SeenDepth(tx, hashBlock) == IF tx.at # 0 /\ tx.at = hashBlock THEN tx.depth ELSE 0
GetDepthInMainChain(tx) == SeenDepth(tx, tx.hashBlock)

\* Final and in a block, or made by us of what is; the latter is judged by the copies that came
\* with the transaction.
IsConfirmed(w, i) ==
  LET copies == (i :> w.txs[i].hashBlock) @@ w.txs[i].vtxPrev
      confirmed[j \in DOMAIN copies] ==
        /\ w.txs[j].final
        /\ \/ SeenDepth(w.txs[j], copies[j]) >= 1
           \/ IsFromMe(w, w.txs[j]) /\ \A coin \in w.txs[j].vin : coin[1] \in DOMAIN copies /\ confirmed[coin[1]]
  IN confirmed[i]

\* A coinbase is worth nothing before its time.
IsImmature(tx) == tx.coinbase /\ GetDepthInMainChain(tx) < COINBASE_DEPTH

\* Final and confirmed, and for a coinbase mature: its coins are in the balance until spent.
IsCounted(w, i) == w.txs[i].final /\ IsConfirmed(w, i) /\ ~IsImmature(w.txs[i])
GetBalance(w) ==
  LET counted == {i \in DOMAIN w.txs : IsCounted(w, i)} IN
  SumOver({coin \in Coins(w) \ Spent(w) : coin[1] \in counted /\ IsOurs(w, w.txs[coin[1]].vout[coin[2]])},
      LAMBDA coin : ValueOf(w, coin))

-----------------------------------------------------------------------------
\* GetAmounts: what a transaction generated, sent, cost and received; change is neither sent
\* nor received.
Credit(w, tx) == SumOver({o \in OutsOf(tx) : IsOurs(w, tx.vout[o])}, LAMBDA o : tx.vout[o].value)
Generated(w, tx) == IF tx.coinbase /\ ~IsImmature(tx) THEN Credit(w, tx) ELSE 0
ValueOut(tx) == SumOver(OutsOf(tx), LAMBDA o : tx.vout[o].value)
Fee(w, tx) == IF IsFromMe(w, tx) THEN Debit(w, tx) - ValueOut(tx) ELSE 0
Shown(w, tx) ==
  IF tx.coinbase THEN {}
  ELSE LET fromMe == IsFromMe(w, tx) IN {o \in OutsOf(tx) : ~(fromMe /\ IsChange(w, tx.vout[o]))}
SentBy(w, tx) ==
  IF IsFromMe(w, tx) THEN SumOver(Shown(w, tx), LAMBDA o : tx.vout[o].value) ELSE 0
ReceivedOn(w, tx, addresses) ==
  SumOver({o \in Shown(w, tx) : IsOurs(w, tx.vout[o]) /\ tx.vout[o].to \in addresses},
      LAMBDA o : tx.vout[o].value)

\* What is received on an address that is not in the book is the account "".  Mutant: it is
\* nobody's.
BelongsToIfBooked(w, address, account) == Booked(w, address) /\ w.mapAddressBook[address] = account

BelongsTo(w, address, account) ==
  IF Booked(w, address) THEN w.mapAddressBook[address] = account ELSE account = ""
AddressesOf(w, account) == {address \in 1..w.nKeys : BelongsTo(w, address, account)}

EntriesOf(w, account) ==
  SumOver({i \in DOMAIN w.entries : w.entries[i].account = account}, LAMBDA i : w.entries[i].nCreditDebit)

\* What is not final is left out of a balance and of what was received, though it is listed.
Final(w) == {i \in DOMAIN w.txs : w.txs[i].final}
Deep(w, nMinDepth) == {i \in DOMAIN w.txs : GetDepthInMainChain(w.txs[i]) >= nMinDepth}

GetAccountBalance(w, account, nMinDepth) ==
  LET addresses == AddressesOf(w, account)
      final == Final(w)
  IN EntriesOf(w, account)
       + SumOver(final \cap Deep(w, nMinDepth), LAMBDA i : ReceivedOn(w, w.txs[i], addresses))
       + (IF account = "" THEN SumOver(final, LAMBDA i : Generated(w, w.txs[i])) ELSE 0)
       - SumOver({i \in final : w.txs[i].account = account}, LAMBDA i : SentBy(w, w.txs[i]) + Fee(w, w.txs[i]))

\* getbalance "*".
GetBalanceOfAll(w, nMinDepth) ==
  LET final == Final(w) IN
  SumOver(final \cap Deep(w, nMinDepth), LAMBDA i : ReceivedOn(w, w.txs[i], 1..w.nKeys))
    + SumOver(final, LAMBDA i : Generated(w, w.txs[i]) - SentBy(w, w.txs[i]) - Fee(w, w.txs[i]))

\* listaccounts starts from the names of our addresses and puts each amount where it belongs.
ListAccounts(w, nMinDepth) ==
  LET named == {w.mapAddressBook[a] : a \in DOMAIN w.mapAddressBook \cap 1..w.nKeys}
      deep == Deep(w, nMinDepth)
      listed == named \cup {w.txs[i].account : i \in DOMAIN w.txs}
                  \cup {w.entries[i].account : i \in DOMAIN w.entries}
                  \cup (IF deep # {} THEN {""} ELSE {})
      Received(a) == LET addresses == AddressesOf(w, a) IN SumOver(deep, LAMBDA i : ReceivedOn(w, w.txs[i], addresses))
  IN [a \in listed |->
        EntriesOf(w, a) + Received(a)
          + (IF a = "" THEN SumOver(deep, LAMBDA i : Generated(w, w.txs[i])) ELSE 0)
          - SumOver({i \in DOMAIN w.txs : w.txs[i].account = a},
                LAMBDA i : SentBy(w, w.txs[i]) + Fee(w, w.txs[i]))]

-----------------------------------------------------------------------------
\* The methods that list: an entry says what a transaction did to an account.
Entry(account, category, amount, fee) ==
  [account |-> account, category |-> category, amount |-> amount, fee |-> fee]

\* ListTransactions, of one transaction: every output that was sent has the whole fee.
Listed(w, tx, accounts, nMinDepth) ==
  LET category == IF ~IsImmature(tx) THEN "generate" ELSE IF GetDepthInMainChain(tx) > 0 THEN "immature" ELSE "orphan"
      generated == IF tx.coinbase /\ Credit(w, tx) # 0 /\ "" \in accounts
                   THEN <<Entry("", category, Credit(w, tx), 0)>> ELSE <<>>
      isShown == Shown(w, tx)
      shown == SelectSeq([o \in OutsOf(tx) |-> o], LAMBDA o : o \in isShown)
      sent == IF IsFromMe(w, tx) /\ tx.account \in accounts
              THEN [i \in DOMAIN shown |-> Entry(tx.account, "send", -tx.vout[shown[i]].value, -Fee(w, tx))] ELSE <<>>
      AccountOf(o) == IF Booked(w, tx.vout[o].to) THEN w.mapAddressBook[tx.vout[o].to] ELSE ""
      received == SelectSeq(shown, LAMBDA o : IsOurs(w, tx.vout[o]) /\ AccountOf(o) \in accounts)
  IN generated \o sent
       \o (IF GetDepthInMainChain(tx) < nMinDepth THEN <<>>
           ELSE [i \in DOMAIN received |-> Entry(AccountOf(received[i]), "receive", tx.vout[received[i]].value, 0)])

\* listtransactions: the nCount newest, after nFrom transactions of any account and moves of
\* those asked for (ListAccountCreditDebit).
\* (Moves are the oldest here, for there is no time.)
ListTransactions(w, accounts, nCount, nFrom) ==
  LET moved == SelectSeq(w.entries, LAMBDA m : m.account \in accounts)
      moves == [i \in DOMAIN moved |-> <<Entry(moved[i].account, "move", moved[i].nCreditDebit, 0)>>]
      items == moves \o [i \in DOMAIN w.txs |-> Reverse(Listed(w, w.txs[i], accounts, 0))]
      RECURSIVE Gather(_, _)
      Gather(i, ret) == IF i = 0 \/ Len(ret) >= nCount THEN ret ELSE Gather(i - 1, ret \o items[i])
      newest == Gather(Len(items) - nFrom, <<>>)
  IN Reverse(SubSeq(newest, 1, IF Len(newest) > nCount THEN nCount ELSE Len(newest)))

\* What an address received, and listreceivedbyaddress and listreceivedbyaccount.
Tally(w, address, nMinDepth) ==
  SumOver({i \in Deep(w, nMinDepth) \cap Final(w) : ~w.txs[i].coinbase}, LAMBDA i :
      SumOver({o \in OutsOf(w.txs[i]) : w.txs[i].vout[o].to = address}, LAMBDA o : w.txs[i].vout[o].value))
TallyOf(w, addresses, nMinDepth) == SumOver(addresses, LAMBDA a : Tally(w, a, nMinDepth))
GetAccountPubKeys(w, account) ==
  {a \in DOMAIN w.mapAddressBook : a \in 1..w.nKeys /\ w.mapAddressBook[a] = account}
GetReceivedByAccount(w, account, nMinDepth) == TallyOf(w, GetAccountPubKeys(w, account), nMinDepth)
ListReceivedByAccount(w, nMinDepth) ==
  LET received == {a \in DOMAIN w.mapAddressBook \cap 1..w.nKeys : Tally(w, a, nMinDepth) > 0}
  IN [account \in {w.mapAddressBook[a] : a \in received} |->
        TallyOf(w, {a \in received : w.mapAddressBook[a] = account}, nMinDepth)]

-----------------------------------------------------------------------------
SetAddressBookName(w, address, name) ==
  [w EXCEPT !.mapAddressBook = [a \in DOMAIN @ \cup {address} |-> IF a = address THEN name ELSE @[a]]]

GetNewAddress(w, account) ==
  SetAddressBookName([w EXCEPT !.nKeys = @ + 1], w.nKeys + 1, account)

\* The current key of an account, a new one if it has been used.
HasBeenUsed(w, key) == \E i \in DOMAIN w.txs : \E o \in OutsOf(w.txs[i]) : w.txs[i].vout[o].to = key

GetAccountAddress(w, account, bForceNew) ==
  IF w.vchPubKey[account] = 0 \/ HasBeenUsed(w, w.vchPubKey[account]) \/ bForceNew
  THEN [GetNewAddress(w, account) EXCEPT !.vchPubKey[account] = w.nKeys + 1]
  ELSE w

\* Mutant: the account keeps its key.
SetAccountOnly(w, address, account) == SetAddressBookName(w, address, account)

\* "Detect when changing the account of an address that is the 'unused current key' of another
\* account."
SetAccount(w, address, account) ==
  LET old == w.mapAddressBook[address]
      asked == GetAccountAddress(w, old, FALSE)
      left == IF asked.vchPubKey[old] = address THEN GetAccountAddress(asked, old, TRUE) ELSE asked
  IN SetAddressBookName(IF Booked(w, address) THEN left ELSE w, address, account)

Move(w, from, to, nAmount) ==
  [w EXCEPT !.entries = @ \o <<[account |-> from, nCreditDebit |-> -nAmount],
                               [account |-> to, nCreditDebit |-> nAmount]>>]

Out(to, value) == [to |-> to, value |-> value]
Tx(vin, vout, account, vtxPrev) ==
  [vin |-> vin, vout |-> vout, account |-> account, vtxPrev |-> vtxPrev, coinbase |-> FALSE, final |-> TRUE,
   at |-> 0, depth |-> 0, hashBlock |-> 0]

\* Somebody pays, with a lock time perhaps, which the pool does not mind; a block of ours pays a
\* key that is in no book.
Receive(w, address, value, final) ==
  [w EXCEPT !.txs = Append(@, [Tx({}, <<Out(address, value)>>, "", <<>>) EXCEPT !.final = final])]
Generate(w, value) ==
  LET tx == Tx({}, <<Out(w.nKeys + 1, value)>>, "", <<>>) IN
  [w EXCEPT !.nKeys = @ + 1,
            !.txs = Append(@, [tx EXCEPT !.coinbase = TRUE, !.at = 1, !.depth = 1, !.hashBlock = 1])]

\* What SelectCoins may take in its last round: see CoinSelection.
Spendable(w) ==
  {coin \in Coins(w) \ Spent(w) :
     LET tx == w.txs[coin[1]] IN
     /\ IsOurs(w, tx.vout[coin[2]]) /\ IsCounted(w, coin[1])
     /\ GetDepthInMainChain(tx) >= 1 \/ IsFromMe(w, tx)}

\* AddSupportingTransactions: of all that a payment is made of, with the block that has it now,
\* or that the wallet saw it in.  (Nothing here is so deep that what it spends is left out.)
Ancestors(w, coins) ==
  LET before[i \in DOMAIN w.txs] == {i} \cup UNION {before[coin[1]] : coin \in w.txs[i].vin}
  IN UNION {before[coin[1]] : coin \in coins}
Supporting(w, coins) ==
  [i \in Ancestors(w, coins) |-> IF w.txs[i].at # 0 THEN w.txs[i].at ELSE w.txs[i].hashBlock]

\* CreateTransaction, with the coins and the fee that it decides on, and CommitTransaction; the
\* change goes to a new key.
Paid(payments) == SumOver(DOMAIN payments, LAMBDA i : payments[i].value)
Pay(w, account, payments, coins, nFee) ==
  LET nChange == SumOver(coins, LAMBDA coin : ValueOf(w, coin)) - Paid(payments) - nFee
      copies == Supporting(w, coins)
  IN IF nChange < 0 THEN w
     ELSE IF nChange = 0 THEN [w EXCEPT !.txs = Append(@, Tx(coins, payments, account, copies))]
     ELSE [w EXCEPT !.txs = Append(@, Tx(coins, Append(payments, Out(w.nKeys + 1, nChange)), account, copies)),
                    !.nKeys = @ + 1]
SendFrom(w, account, address, nAmount, coins, nFee) ==
  IF nAmount > GetAccountBalance(w, account, 1) \/ nAmount > GetBalance(w)
  THEN w ELSE Pay(w, account, <<Out(address, nAmount)>>, coins, nFee)
\* To addresses that are all different.
SendMany(w, account, payments, coins, nFee) ==
  IF Paid(payments) > GetAccountBalance(w, account, 1)
  THEN w ELSE Pay(w, account, payments, coins, nFee)

\* The chain, as the wallet hears of it: a block with the transaction is connected, or is tried
\* in a reorganization that comes to nothing; more blocks come; its block is disconnected, of
\* which nobody tells the wallet.  And a lock time passes, or is ahead again when the best block
\* or the clock went back.
Connect(w, i, b) == [w EXCEPT !.txs[i] = [@ EXCEPT !.at = b, !.depth = 1, !.hashBlock = b]]
Try(w, i, b) == [w EXCEPT !.txs[i].hashBlock = b]
Deepen(w, i) == [w EXCEPT !.txs[i].depth = @ + 1]
Disconnect(w, i) == [w EXCEPT !.txs[i] = [@ EXCEPT !.at = 0, !.depth = 0]]
PassLockTime(w, i) == [w EXCEPT !.txs[i].final = ~@]
================================================================================
