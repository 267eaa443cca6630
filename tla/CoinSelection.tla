----------------------------- MODULE CoinSelection -----------------------------
(***************************************************************************)
(* Which coins pay (wallet.cpp): SelectCoinsMinConf, its three rounds, and  *)
(* the loop of CreateTransaction that raises the fee until it is enough.    *)
(* A wallet is a function from its coins to their value, their depth and   *)
(* whether they come from us.  A choice that the code leaves to chance is  *)
(* any member of a set.                                                     *)
(***************************************************************************)
EXTENDS FiniteSetsExt, Integers

CONSTANTS
  CENT,              \* the least change worth an output
  nTransactionFee,   \* what the user pays for each thousand bytes
  MIN_TX_FEE,        \* and what the network asks for
  InputsPerThousand  \* how many inputs make a thousand bytes

CoinSelectionAssumption ==
  {CENT, InputsPerThousand} \subseteq Nat \ {0} /\ {nTransactionFee, MIN_TX_FEE} \subseteq Nat

ASSUME CoinSelectionAssumption

Total(wallet, coins) == MapThenSumSet(LAMBDA c : wallet[c].value, coins)

\* The coins a round may use.
Eligible(wallet, nConfMine, nConfTheirs) ==
  {c \in DOMAIN wallet : wallet[c].depth >= (IF wallet[c].mine THEN nConfMine ELSE nConfTheirs)}

\* Mutant: the subset is to reach the target, with no thought of the change.
ApproximateTight(wallet, lower, target) ==
  {lower} \cup
  {s \in SUBSET lower : Total(wallet, s) >= target
                     /\ \E c \in s : Total(wallet, s \ {c}) < target}

\* "Solve subset sum by stochastic approximation": all of them, or a set that some coin
\* brought to the target.
Approximate(wallet, lower, target) ==
  LET goal == IF Total(wallet, lower) >= target + CENT THEN target + CENT ELSE target
  IN {lower} \cup
     {s \in SUBSET lower : Total(wallet, s) >= goal /\ \E c \in s : Total(wallet, s \ {c}) < goal}

\* What SelectCoinsMinConf may return: none is failure.
SelectCoinsMinConf(wallet, target, coins) ==
  LET value(c) == wallet[c].value
      exact == {c \in coins : value(c) = target}
      lower == {c \in coins : value(c) < target + CENT}
      larger == coins \ lower
      lowest == {{c} : c \in {d \in larger : \A e \in larger : value(d) <= value(e)}}
      total == Total(wallet, lower)
      closer(s) == larger # {} /\ \A l \in lowest : Total(wallet, l) <= Total(wallet, s)
  IN CASE exact # {} -> {{c} : c \in exact}
       [] exact = {} /\ total \in {target, target + CENT} -> {lower}
       [] exact = {} /\ total \notin {target, target + CENT}
            /\ total < target + (IF larger = {} THEN 0 ELSE CENT) -> lowest
       [] OTHER -> UNION {IF closer(s) THEN lowest ELSE {s} : s \in Approximate(wallet, lower, target)}

\* Mutant: the last round still wants coins of others to be deep.
RoundsDeep == <<[mine |-> 1, theirs |-> 6], [mine |-> 1, theirs |-> 1], [mine |-> 0, theirs |-> 6]>>

\* The confirmations that each round of SelectCoins asks for.
Rounds == <<[mine |-> 1, theirs |-> 6], [mine |-> 1, theirs |-> 1], [mine |-> 0, theirs |-> 1]>>

SelectCoins(wallet, target) ==
  LET Round(i) == SelectCoinsMinConf(wallet, target, Eligible(wallet, Rounds[i].mine, Rounds[i].theirs))
  IN IF Round(1) # {} THEN Round(1) ELSE IF Round(2) # {} THEN Round(2) ELSE Round(3)

-----------------------------------------------------------------------------
\* What a transaction with these inputs must pay: nPayFee and nMinFee.  It is free of the
\* second when its coins are old enough, but not when it has an output of less than a CENT.
RequiredFee(coins, nValue, free) ==
  LET thousands == 1 + Cardinality(coins) \div InputsPerThousand
      nMinFee == CASE ~free -> MIN_TX_FEE * thousands
                   [] free /\ nValue < CENT -> MIN_TX_FEE
                   [] OTHER -> 0
  IN Max({nTransactionFee * thousands, nMinFee})

\* Mutant: the fee is raised out of the change, with the coins as they are.
CreateTransactionOnce(wallet, nValue) ==
  LET Try(nFeeRet) ==
        {[coins |-> s, fee |-> Max({nFeeRet, RequiredFee(s, nValue, free)}), free |-> free] :
           s \in SelectCoins(wallet, nValue + nFeeRet), free \in BOOLEAN}
  IN Try(nTransactionFee)

\* CreateTransaction: the coins it may end up with, the fee that it reports and whether
\* they were old enough; coins = {} is failure.
CreateTransaction(wallet, nValue) ==
  LET Failure == [coins |-> {}, fee |-> 0, free |-> FALSE]
      Try[nFeeRet \in Nat] ==
        IF SelectCoins(wallet, nValue + nFeeRet) = {} THEN {Failure}
        ELSE UNION {LET need == RequiredFee(s, nValue, free)
                    IN IF nFeeRet < need THEN Try[need]
                       ELSE {[coins |-> s, fee |-> nFeeRet, free |-> free]} :
                      s \in SelectCoins(wallet, nValue + nFeeRet), free \in BOOLEAN}
  IN Try[nTransactionFee]

\* What is left over is an output of the transaction, or an additional fee.
Change(wallet, nValue, t) ==
  LET nChange == Total(wallet, t.coins) - nValue - t.fee IN IF nChange >= CENT THEN nChange ELSE 0
================================================================================
