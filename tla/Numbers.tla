-------------------------------- MODULE Numbers --------------------------------
(***************************************************************************)
(* How numbers are kept, written and read: uint256.h, the byte forms of    *)
(* CBigNum (bignum.h), base58.h, the amounts of util.cpp and its estimate  *)
(* of the time.  Scaled: a word of uint256 and a byte have two bits (32    *)
(* and 8), a hex digit one (4), the 58 characters are 3.                   *)
(***************************************************************************)
EXTENDS SequencesExt, Integers

CONSTANTS
  WIDTH,                  \* words of an unsigned number
  COIN,                   \* what an amount is counted in
  MaxWhole, MaxInt,       \* 14 digits; the largest int64
  MainVersion, TestVersion, HashBytes, \* 138, 111 and 20
  MaxOffset, NearOffset   \* 70 and 5 minutes

Digits(n, base, k) == [i \in 1..k |-> (n \div base^(i - 1)) % base]
NumberOf(digits, base) == FoldLeftDomain(LAMBDA v, i : v + digits[i] * base^(i - 1), 0, digits)
AbsOf(n) == IF n < 0 THEN -n ELSE n

(***************************************************************************)
(* base_uint: words, the lowest first.                                     *)
(***************************************************************************)
Plus(a, b) ==
  FoldLeftDomain(LAMBDA r, i : LET n == r.carry + a[i] + b[i] IN
                               [pn |-> Append(r.pn, n % 4), carry |-> n \div 4],
                 [pn |-> <<>>, carry |-> 0], a).pn
PlusPlus(a) ==
  LET stop == {i \in 1..WIDTH : a[i] # 3 \/ i = WIDTH}
      last == CHOOSE i \in stop : \A j \in stop : i <= j
  IN  [i \in 1..WIDTH |-> IF i < last THEN 0 ELSE IF i = last THEN (a[i] + 1) % 4 ELSE a[i]]
MinusMinus(a) ==
  LET stop == {i \in 1..WIDTH : a[i] # 0 \/ i = WIDTH}
      last == CHOOSE i \in stop : \A j \in stop : i <= j
  IN  [i \in 1..WIDTH |-> IF i < last THEN 3 ELSE IF i = last THEN (a[i] + 3) % 4 ELSE a[i]]
Negated(a) == PlusPlus([i \in 1..WIDTH |-> 3 - a[i]])
Minus(a, b) == Plus(a, Negated(b))

\* |= is + here, for the bits are different ones.
ShiftLeft(a, shift) ==
  LET k == shift \div 2
      s == shift % 2
  IN  [i \in 1..WIDTH |->
         (IF i - k - 1 >= 1 /\ s # 0 THEN a[i - k - 1] \div 2^(2 - s) ELSE 0)
           + (IF i - k >= 1 THEN (a[i - k] * 2^s) % 4 ELSE 0)]
ShiftRight(a, shift) ==
  LET k == shift \div 2
      s == shift % 2
  IN  [i \in 1..WIDTH |->
         (IF i + k + 1 <= WIDTH /\ s # 0 THEN (a[i + k + 1] * 2^(2 - s)) % 4 ELSE 0)
           + (IF i + k <= WIDTH THEN a[i + k] \div 2^s ELSE 0)]
Less(a, b) == \E i \in 1..WIDTH : a[i] < b[i] /\ \A j \in i + 1..WIDTH : a[j] = b[j]

\* Two hex digits are a byte, and here a word; the last digits are those that count.
GetHex(a) == Reverse(FlattenSeq([i \in 1..WIDTH |-> <<a[i] % 2, a[i] \div 2>>]))
SetHex(hex) ==
  LET digit(i) == IF i <= Len(hex) THEN hex[Len(hex) + 1 - i] ELSE 0
  IN  [i \in 1..WIDTH |-> digit(2 * i - 1) + 2 * digit(2 * i)]

(***************************************************************************)
(* CBigNum: bytes with the lowest first, the sign in the highest bit.      *)
(***************************************************************************)
\* Mutant: no byte is put before a highest bit that is not the sign.
GetVchBare(n) ==
  LET size == CHOOSE k \in 0..10 : 4^k > AbsOf(n) /\ (k = 0 \/ 4^(k - 1) <= AbsOf(n))
      bytes == Digits(AbsOf(n), 4, size)
  IN  IF size = 0 THEN <<>> ELSE [bytes EXCEPT ![size] = IF n < 0 /\ @ < 2 THEN @ + 2 ELSE @]

\* The bytes of a number, as getvch gets them from the library: no leading zeroes.
GetVch(n) ==
  LET size == CHOOSE k \in 0..10 : 4^k > AbsOf(n) /\ (k = 0 \/ 4^(k - 1) <= AbsOf(n))
      bytes == Digits(AbsOf(n), 4, size)
  IN  IF size = 0 THEN <<>>
      ELSE IF Last(bytes) >= 2 THEN Append(bytes, IF n < 0 THEN 2 ELSE 0)
      ELSE [bytes EXCEPT ![size] = IF n < 0 THEN @ + 2 ELSE @]
SetVch(bytes) ==
  IF bytes = <<>> THEN 0
  ELSE IF Last(bytes) >= 2 THEN -NumberOf([bytes EXCEPT ![Len(bytes)] = @ - 2], 4)
  ELSE NumberOf(bytes, 4)
\* setint64, setuint64 and setuint256 write the k bytes of a word themselves, from the highest:
\* none that is zero before the first that is not, which takes the sign or gets a byte for it.
SetWord(n, k) ==
  SetVch(Reverse(FoldRight(LAMBDA c, p :
    LET sign == IF n < 0 THEN 2 ELSE 0 IN
    IF p # <<>> THEN Append(p, c)
    ELSE IF c = 0 THEN <<>>
    ELSE IF c >= 2 THEN <<sign, c>> ELSE <<c + sign>>, Digits(AbsOf(n), 4, k), <<>>)))
\* The lowest bytes, without the sign.
GetUint256(n) ==
  LET bytes == GetVch(n)
      unsigned == [i \in DOMAIN bytes |-> IF i = Len(bytes) THEN bytes[i] % 2 ELSE bytes[i]]
  IN  [i \in 1..WIDTH |-> IF i <= Len(bytes) THEN unsigned[i] ELSE 0]

(***************************************************************************)
(* base58.h: bytes and characters with the highest first.  Characters are  *)
(* 0..2, the first of them stands for zero; others are " " and "?".        *)
(***************************************************************************)
LeadingZeros(s) == CHOOSE k \in 0..Len(s) : (k = Len(s) \/ s[k + 1] # 0) /\ \A i \in 1..k : s[i] = 0
ZeroSeq(k) == [i \in 1..k |-> 0]
EncodeBase58(bytes) ==
  LET bn == NumberOf(Reverse(bytes), 4)
      size == CHOOSE k \in 0..10 : 3^k > bn /\ (k = 0 \/ 3^(k - 1) <= bn)
  IN  Reverse(Digits(bn, 3, size) \o ZeroSeq(LeadingZeros(bytes)))

IsSpace(c) == c = 3
IsDigit(c) == c \in 0..2
SkipSpaces(s) ==
  LET k == CHOOSE k \in 0..Len(s) : (k = Len(s) \/ ~IsSpace(s[k + 1])) /\ \A i \in 1..k : IsSpace(s[i])
  IN  SubSeq(s, k + 1, Len(s))
Bad == <<-1>>
DecodeBase58(str) ==
  LET s == SkipSpaces(str)
      end == CHOOSE k \in 0..Len(s) : (k = Len(s) \/ ~IsDigit(s[k + 1])) /\ \A i \in 1..k : IsDigit(s[i])
      bytes == GetVch(NumberOf(Reverse(SubSeq(s, 1, end)), 3))
      \* "Trim off sign byte if present"
      trimmed == IF Len(bytes) >= 2 /\ Last(bytes) = 0 /\ bytes[Len(bytes) - 1] >= 2
                 THEN Front(bytes) ELSE bytes
      zeros == LeadingZeros([i \in DOMAIN s |-> IF IsDigit(s[i]) THEN s[i] ELSE 1])
  IN  IF SkipSpaces(SubSeq(s, end + 1, Len(s))) # <<>> THEN Bad
      ELSE ZeroSeq(zeros) \o Reverse(trimmed)

Checksum(bytes) == <<FoldLeft(LAMBDA h, b : (3 * h + b + 1) % 4, 1, bytes)>>
EncodeBase58Check(bytes) == EncodeBase58(bytes \o Checksum(bytes))
DecodeBase58Check(str) ==
  LET bytes == DecodeBase58(str) IN
  IF bytes = Bad \/ bytes = <<>> \/ Checksum(Front(bytes)) # <<Last(bytes)>> THEN Bad ELSE Front(bytes)
\* fTestNet is whether the node was started with -testnet.
ADDRESSVERSION(fTestNet) == IF fTestNet THEN TestVersion ELSE MainVersion
BITCOIN_ADDRESSVERSION(fTestNet) == IF fTestNet THEN TestVersion ELSE 0
Hash160ToAddress(hash, fTestNet) == EncodeBase58Check(<<ADDRESSVERSION(fTestNet)>> \o hash)
AddressToHash160(str, fTestNet) ==
  LET bytes == DecodeBase58Check(str) IN
  IF \/ bytes = Bad \/ Len(bytes) # HashBytes + 1
     \/ Head(bytes) = BITCOIN_ADDRESSVERSION(fTestNet) \/ Head(bytes) > ADDRESSVERSION(fTestNet)
  THEN Bad ELSE Tail(bytes)

(***************************************************************************)
(* Amounts, as text: a character is a digit, or Dot, Hyphen or Blank.        *)
(***************************************************************************)
Dot == 10
Hyphen == 11
Blank == 12
DecimalDigits == 0..9
Decimals == CHOOSE k \in 0..9 : 10^k = COIN
Wrapped(n) == ((n + MaxInt + 1) % (2 * (MaxInt + 1))) - MaxInt - 1
Decimal(n) ==
  LET size == CHOOSE k \in 1..10 : 10^k > n /\ (k = 1 \/ 10^(k - 1) <= n) IN Reverse(Digits(n, 10, size))

\* "Right-trim excess 0's before the decimal point": two decimals stay.
FormatMoney(n) ==
  LET str == Decimal(AbsOf(n) \div COIN) \o <<Dot>> \o Reverse(Digits(AbsOf(n) % COIN, 10, Decimals))
      Trims(k) == \A i \in 0..k - 1 : str[Len(str) - i] = 0 /\ str[Len(str) - i - 2] \in DecimalDigits
      nTrim == CHOOSE k \in 0..Decimals : Trims(k) /\ ~Trims(k + 1)
  IN  (IF n < 0 THEN <<Hyphen>> ELSE <<>>) \o SubSeq(str, 1, Len(str) - nTrim)

RunOf(s, from, chars) ==
  CHOOSE k \in 0..Len(s) : /\ \A i \in from..from + k - 1 : i <= Len(s) /\ s[i] \in chars
                           /\ from + k > Len(s) \/ s[from + k] \notin chars
NoMoney == -MaxInt - 1
ParseMoney(s) ==
  LET first == 1 + RunOf(s, 1, {Blank})
      wholes == RunOf(s, first, DecimalDigits)
      point == first + wholes
      dotted == point <= Len(s) /\ s[point] = Dot
      most == RunOf(s, point + 1, DecimalDigits)
      \* nMult gets to zero after the last decimal.
      units == IF ~dotted THEN 0 ELSE IF most > Decimals THEN Decimals ELSE most
      rest == IF dotted THEN point + 1 + units ELSE point
      nUnits == NumberOf(Reverse(SubSeq(s, point + 1, point + units) \o ZeroSeq(Decimals - units)), 10)
      nWhole == NumberOf(Reverse(SubSeq(s, first, point - 1)), 10)
  IN  IF (\E i \in rest..Len(s) : s[i] # Blank) \/ wholes > MaxWhole THEN NoMoney
      ELSE Wrapped(nWhole * COIN + nUnits)

(***************************************************************************)
(* AddTimeData: "Never go to sea with two chronometers; take one or three" *)
(***************************************************************************)
NoTimeData == [setKnown |-> {}, vTimeOffsets |-> <<>>, nTimeOffset |-> 0, fDone |-> FALSE, used |-> <<0>>]
AddTimeData(t, ip, offset) ==
  LET added == (IF t.vTimeOffsets = <<>> THEN <<0>> ELSE t.vTimeOffsets) \o <<offset>>
      sorted == SortSeq(added, LAMBDA a, b : a < b)
      nMedian == sorted[Len(sorted) \div 2 + 1]
      near == AbsOf(nMedian) < MaxOffset
      fMatch == \E i \in DOMAIN added : added[i] # 0 /\ AbsOf(added[i]) < NearOffset
      known == t.setKnown \cup {ip}
  IN  IF ip \in t.setKnown THEN t
      ELSE IF Len(added) < 5 \/ Len(added) % 2 = 0
      THEN [t EXCEPT !.setKnown = known, !.vTimeOffsets = added]
      ELSE [setKnown |-> known, vTimeOffsets |-> sorted, used |-> sorted,
            nTimeOffset |-> IF near THEN nMedian ELSE 0,
            fDone |-> t.fDone \/ (~near /\ ~fMatch)]
================================================================================
