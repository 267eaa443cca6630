-------------------------------- MODULE Headers --------------------------------
(***************************************************************************)
(* What a header must say, and what its block may hold and create          *)
(* (main.cpp, main.h): the target that GetNextWorkRequired computes from   *)
(* the headers before it, a time after their median, transactions that are *)
(* final by then, and the subsidy at its height.  A header is a record of  *)
(* its time and its target; headers[1] has height 0.                       *)
(***************************************************************************)
EXTENDS SequencesExt, Integers

CONSTANTS
  TargetSpacing,                \* nTargetSpacing
  OldTimespan, NewTimespan,     \* nTargetTimespan: two weeks, and a day
  RevisedFrom, FullPeriodFrom,  \* 20055: the day; 43000: the full period is measured
  TargetLimit,                  \* bnProofOfWorkLimit
  Mantissa, Base,               \* of the compact form of a target: 2^23 and 2^8
  MedianTimeSpan,               \* nMedianTimeSpan
  Subsidy, Halving, LastSubsidy, \* 96 (of COIN), 210000, 227499
  LOCKTIME_THRESHOLD,           \* 500000000: where times begin
  SequenceFinal                 \* UINT_MAX

HeadersAssumption ==
  /\ {TargetSpacing, OldTimespan, NewTimespan, TargetLimit, Mantissa, Halving, MedianTimeSpan,
      Subsidy, LastSubsidy} \subseteq Nat \ {0}
  /\ {RevisedFrom, FullPeriodFrom} \subseteq Nat /\ Base \in Nat \ {0, 1}
  /\ TargetSpacing <= NewTimespan /\ TargetSpacing <= OldTimespan /\ 50 <= NewTimespan

ASSUME HeadersAssumption
ASSUME LockTimeAssumption == {LOCKTIME_THRESHOLD, SequenceFinal} \subseteq Nat \ {0}

nTargetTimespan(height) == IF height > RevisedFrom THEN NewTimespan ELSE OldTimespan
nInterval(height) == nTargetTimespan(height) \div TargetSpacing

\* What SetCompact makes of GetCompact: the leading bytes remain.
Compact(bn) ==
  LET Scale[n \in Nat] == IF n < Mantissa THEN 1 ELSE Base * Scale[n \div Base]
  IN (bn \div Scale[bn]) * Scale[bn]

\* Mutant: the period is a block short.
GoBackShort(height) == nInterval(height) - 1

\* blockstogoback: one less than the period until FullPeriodFrom, and at the first retarget.
GoBack(height) ==
  IF height >= FullPeriodFrom /\ height # nInterval(height)
  THEN nInterval(height) ELSE nInterval(height) - 1

\* nActualTimespan for the header at this height, before bounds.
Retargets(height) == height % nInterval(height) = 0
pindexFirst(height) == height - GoBack(height)
Timespan(headers, height) == headers[height].time - headers[pindexFirst(height)].time

\* Mutant: a swap of the steps.
BoundedSwapped(span, height) ==
  LET target == nTargetTimespan(height)
      nTwoPercent == target \div 50
  IN CASE height <= RevisedFrom -> Max({target \div 4, Min({span, target * 4})})
       [] height > RevisedFrom /\ span < nTwoPercent * 16 -> nTwoPercent * 47
       [] height > RevisedFrom /\ span \in nTwoPercent * 16 .. nTwoPercent * 32 - 1 -> nTwoPercent * 45
       [] height > RevisedFrom /\ span \in nTwoPercent * 32 .. target - 1 -> nTwoPercent * 49
       [] OTHER -> Min({span, target * 4})

\* "Limit adjustment step".
Bounded(span, height) ==
  LET target == nTargetTimespan(height)
      nTwoPercent == target \div 50
  IN CASE height <= RevisedFrom -> Max({target \div 4, Min({span, target * 4})})
       [] height > RevisedFrom /\ span < nTwoPercent * 16 -> nTwoPercent * 45
       [] height > RevisedFrom /\ span \in nTwoPercent * 16 .. nTwoPercent * 32 - 1 -> nTwoPercent * 47
       [] height > RevisedFrom /\ span \in nTwoPercent * 32 .. target - 1 -> nTwoPercent * 49
       [] OTHER -> Min({span, target * 4})

\* The target of the header that comes after these.
GetNextWorkRequired(headers) ==
  LET height == Len(headers)
      bnNew == (Last(headers).target * Bounded(Timespan(headers, height), height))
                 \div nTargetTimespan(height)
  IN IF Retargets(height) THEN Compact(Min({bnNew, TargetLimit})) ELSE Last(headers).target

-----------------------------------------------------------------------------
\* The middle one of the last times, the later of two.
GetMedianTimePast(headers) ==
  LET recent == [i \in 1..Min({Len(headers), MedianTimeSpan}) |-> headers[Len(headers) + 1 - i].time]
      sorted == SortSeq(recent, <)
  IN sorted[Len(sorted) \div 2 + 1]

\* "Check timestamp against prev", in AcceptBlock.
TimeIsLate(headers, time) == time > GetMedianTimePast(headers)

\* AcceptBlock, as far as it looks at headers.
Extended(headers, time) ==
  Append(headers, [time |-> time, target |-> GetNextWorkRequired(headers)])

-----------------------------------------------------------------------------
\* Of a block without fees.
GetBlockValue(nHeight) ==
  IF nHeight >= LastSubsidy THEN 0 ELSE Subsidy \div 2^(nHeight \div Halving)

-----------------------------------------------------------------------------
\* A lock time is a height or a time.  It is looked at when the miner puts a block together, and
\* by AcceptBlock when the block has its own height and time.

\* The node's own view: its best height, and the time that its peers agree on.
View(nBestHeight, nAdjustedTime) == [height |-> nBestHeight, time |-> nAdjustedTime]

\* A transaction is a record of its lock time and the sequence numbers of its inputs; a height or
\* a time of zero stands for the node's own.
IsFinal(tx, nBlockHeight, nBlockTime, view) ==
  LET height == IF nBlockHeight = 0 THEN view.height ELSE nBlockHeight
      time == IF nBlockTime = 0 THEN view.time ELSE nBlockTime
  IN \/ tx.nLockTime = 0
     \/ tx.nLockTime < IF tx.nLockTime < LOCKTIME_THRESHOLD THEN height ELSE time
     \/ \A i \in DOMAIN tx.vin : tx.vin[i] = SequenceFinal

\* CreateNewBlock takes what is final now, for a block on top of the best one.
Collects(tx, view) == IsFinal(tx, 0, 0, view)
\* The time of the block, when it is made and "every few seconds" from then on.
BlockTime(nMedianTimePast, nAdjustedTime) ==
  IF nMedianTimePast + 1 > nAdjustedTime THEN nMedianTimePast + 1 ELSE nAdjustedTime
\* "Check that all transactions are finalized", in AcceptBlock.
AcceptsLock(tx, nHeight, nTime, view) == IsFinal(tx, nHeight, nTime, view)
================================================================================
