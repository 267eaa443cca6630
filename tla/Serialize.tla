-------------------------------- MODULE Serialize --------------------------------
(***************************************************************************)
(* What is sent and stored as bytes: the templates of serialize.h and the  *)
(* READWRITE lists of the classes.  A layout says what a value is made of; *)
(* the same list writes, reads and counts, with other branches in each.    *)
(* Hashes and numbers have one byte or two.                                *)
(***************************************************************************)
EXTENDS Encoding

CONSTANTS
  AUXPOW,      \* the bit of a block's version, BLOCK_VERSION_AUXPOW
  DatedFrom    \* the version that addresses have a time from, 31402

Word(k) == [kind |-> "word", size |-> k]
Text == [kind |-> "text"]                      \* a string, a vector of bytes, a script
VectorOf(T) == [kind |-> "seq", of |-> T]
SetOf(T) == [kind |-> "set", of |-> T]
Rec(fields) == [kind |-> "record", fields |-> fields]
MapOf(K, T) == [kind |-> "map", of |-> Rec(<<K, T>>)]
Nothing == [kind |-> "none"]

\* A field that is not in every form of a record: "when" names the condition.
When(T, when) == [kind |-> "field", of |-> T, when |-> when]
\* Present if the version in another field says so; CDiskBlockIndex does not count its size.
Merged(T, at, counted) == [kind |-> "merged", of |-> T, at |-> at, counted |-> counted]
HeaderOnly(T) == [kind |-> "header", of |-> T]

Holds(when, nType, nVersion) ==
  CASE when = "unhashed" -> "GETHASH" \notin nType
    [] when = "whole" -> "BLOCKHEADERONLY" \notin nType
    [] when = "disk" -> "DISK" \in nType
    [] when = "dated" -> "DISK" \in nType \/ (nVersion >= DatedFrom /\ "GETHASH" \notin nType)
IsMerged(nBlockVersion) == (nBlockVersion \div AUXPOW) % 2 = 1
\* before: the fields in front of it.
Present(T, before, nType, nVersion) ==
  CASE T.kind = "field" -> Holds(T.when, nType, nVersion)
    [] T.kind = "merged" -> IsMerged(before[T.at])
    [] OTHER -> TRUE
Inner(T) == IF T.kind \in {"field", "merged", "header"} THEN T.of ELSE T
TypeFor(T, nType) == IF T.kind = "header" THEN nType \cup {"BLOCKHEADERONLY"} ELSE nType

\* A map is the set of its pairs.
Members(T, v) == IF T.kind \in {"set", "map"} THEN SetToSeq(v) ELSE v
Gathered(T, s) == IF T.kind \in {"set", "map"} THEN ToSet(s) ELSE s

RECURSIVE Default(_)
Default(T) ==
  CASE T.kind = "word" -> 0
    [] T.kind \in {"text", "seq", "none"} -> <<>>
    [] T.kind \in {"set", "map"} -> {}
    [] T.kind = "record" -> [i \in DOMAIN T.fields |-> Default(T.fields[i])]
    [] OTHER -> Default(T.of)

RECURSIVE Written(_, _, _, _)
Written(T, v, nType, nVersion) ==
  CASE T.kind = "word" -> LittleEndian(v, T.size)
    [] T.kind = "none" -> <<>>
    [] T.kind = "text" -> WriteCompactSize(Len(v)) \o v
    [] T.kind \in {"seq", "set", "map"} ->
         LET s == Members(T, v)
         IN  WriteCompactSize(Len(s)) \o FlattenSeq([i \in DOMAIN s |-> Written(T.of, s[i], nType, nVersion)])
    [] T.kind = "record" ->
         FlattenSeq([i \in DOMAIN T.fields |->
           LET F == T.fields[i] IN
           IF Present(F, v, nType, nVersion) THEN Written(Inner(F), v[i], TypeFor(F, nType), nVersion) ELSE <<>>])

RECURSIVE GetSerializeSize(_, _, _, _)
GetSerializeSize(T, v, nType, nVersion) ==
  CASE T.kind = "word" -> T.size
    [] T.kind = "none" -> 0
    [] T.kind = "text" -> GetSizeOfCompactSize(Len(v)) + Len(v)
    [] T.kind \in {"seq", "set", "map"} ->
         LET s == Members(T, v)
         IN  FoldLeft(LAMBDA n, e : n + GetSerializeSize(T.of, e, nType, nVersion), GetSizeOfCompactSize(Len(s)), s)
    [] T.kind = "record" ->
         FoldLeftDomain(LAMBDA n, i :
           LET F == T.fields[i] IN
           IF Present(F, v, nType, nVersion) /\ (F.kind = "merged" => F.counted)
           THEN n + GetSerializeSize(Inner(F), v[i], TypeFor(F, nType), nVersion) ELSE n, 0, T.fields)

\* Bytes that are missing throw, and so does whoever reads on.
Thrown == [ok |-> FALSE, value |-> <<>>, rest |-> <<>>]
Got(value, rest) == [ok |-> TRUE, value |-> value, rest |-> rest]
RECURSIVE Read(_, _, _, _), ReadMany(_, _, _, _, _), ReadFields(_, _, _, _, _)
Read(T, is, nType, nVersion) ==
  LET size == ReadCompactSize(is) IN
  CASE T.kind = "word" ->
         IF Len(is) < T.size THEN Thrown
         ELSE Got(FromBytes(SubSeq(is, 1, T.size)), SubSeq(is, T.size + 1, Len(is)))
    [] T.kind = "none" -> Got(<<>>, is)
    [] T.kind = "text" ->
         IF ~size.ok \/ Len(size.rest) < size.size THEN Thrown
         ELSE Got(SubSeq(size.rest, 1, size.size), SubSeq(size.rest, size.size + 1, Len(size.rest)))
    [] T.kind \in {"seq", "set", "map"} ->
         LET r == ReadMany(T.of, size.size, size.rest, nType, nVersion)
         IN  IF ~size.ok \/ ~r.ok THEN Thrown ELSE Got(Gathered(T, r.value), r.rest)
    [] T.kind = "record" -> ReadFields(T, <<>>, is, nType, nVersion)
ReadMany(T, n, is, nType, nVersion) ==
  IF n = 0 THEN Got(<<>>, is)
  ELSE LET first == Read(T, is, nType, nVersion)
           others == ReadMany(T, n - 1, first.rest, nType, nVersion)
       IN  IF ~first.ok THEN Thrown
           ELSE IF ~others.ok THEN Thrown ELSE Got(<<first.value>> \o others.value, others.rest)
\* A field that is not there is as in a new object: Init, vtx.clear(), auxpow.reset().
ReadFields(T, before, is, nType, nVersion) ==
  IF Len(before) = Len(T.fields) THEN Got(before, is)
  ELSE LET F == T.fields[Len(before) + 1]
           r == IF Present(F, before, nType, nVersion) THEN Read(Inner(F), is, TypeFor(F, nType), nVersion)
                ELSE Got(Default(F), is)
       IN  IF ~r.ok THEN Thrown ELSE ReadFields(T, Append(before, r.value), r.rest, nType, nVersion)

(***************************************************************************)
(* The classes: main.h, auxpow.h, net.h, wallet.h.                         *)
(***************************************************************************)
Hash == Word(1)
FileVersion == When(Word(1), "unhashed")        \* "if (!(nType & SER_GETHASH)) READWRITE(nVersion);"
DiskTxPos == Rec(<<Word(1), Word(1), Word(1)>>) \* nFile, nBlockPos, nTxPos
OutPoint == Rec(<<Hash, Word(1)>>)
TxIn == Rec(<<OutPoint, Text, Word(1)>>)        \* prevout, scriptSig, nSequence
TxOut == Rec(<<Word(2), Text>>)                 \* nValue, scriptPubKey
Transaction == Rec(<<Word(1), VectorOf(TxIn), VectorOf(TxOut), Word(1)>>) \* nVersion, vin, vout, nLockTime
MerkleTx == Rec(<<Transaction, Hash, VectorOf(Hash), Word(1)>>) \* hashBlock, vMerkleBranch, nIndex
TxIndexRecord == Rec(<<FileVersion, DiskTxPos, VectorOf(DiskTxPos)>>)  \* pos, vSpent

\* nVersion, hashPrevBlock, hashMerkleRoot, nTime, nBits, nNonce
HeaderFields == <<Word(1), Hash, Hash, Word(1), Word(1), Word(1)>>
\* A parent block has no parent block: its version has no such bit.
BlockOf(auxpow) == Rec(HeaderFields \o <<Merged(auxpow, 1, TRUE), When(VectorOf(Transaction), "whole")>>)
AuxPow == Rec(<<MerkleTx, VectorOf(Hash), Word(1), HeaderOnly(BlockOf(Nothing))>>) \* vChainMerkleBranch, nChainIndex
Block == BlockOf(AuxPow)
\* hashNext, nFile, nBlockPos, nHeight, and the header
DiskBlockIndex ==
  Rec(<<FileVersion, Hash, Word(1), Word(1), Word(1)>> \o HeaderFields \o <<Merged(AuxPow, 6, FALSE)>>)
BlockLocator == Rec(<<FileVersion, VectorOf(Hash)>>)
UnsignedAlert ==
  Rec(<<Word(1), Word(2), Word(2), Word(1), Word(1), SetOf(Word(1)), Word(1), Word(1), SetOf(Text), Word(1),
        Text, Text, Text>>)
Alert == Rec(<<Text, Text>>)
\* nVersion, nTime, nServices, pchReserved, ip, port
Address == Rec(<<When(Word(1), "disk"), When(Word(2), "dated"), Word(1), Word(2), Word(1), Word(1)>>)
Inv == Rec(<<Word(1), Hash>>)
KeyPoolRecord == Rec(<<FileVersion, Word(1), Text>>)                    \* nTime, vchPubKey
WalletKey == Rec(<<FileVersion, Text, Word(1), Word(1), Text>>)
Account == Rec(<<FileVersion, Text>>)
AccountingEntry == Rec(<<FileVersion, Word(2), Word(1), Text, Text>>)

(***************************************************************************)
(* CWalletTx: members are put into mapValue while it is written, and taken *)
(* out of it when it has been read.                                        *)
(***************************************************************************)
FROMACCOUNT == <<1>>
SPENT == <<2>>
VERSIONKEY == <<3>>
Hidden == {FROMACCOUNT, SPENT, VERSIONKEY}
WalletTxRecord ==
  Rec(<<MerkleTx, VectorOf(MerkleTx), MapOf(Text, Text), VectorOf(Rec(<<Text, Text>>)), Word(1), Word(1), Word(1), Word(1)>>)
Lacking(mapValue, keys) == {p \in mapValue : p[1] \notin keys}
Mapped(mapValue, key) == IF \E p \in mapValue : p[1] = key THEN (CHOOSE p \in mapValue : p[1] = key)[2] ELSE <<>>
ToRecord(w) ==
  LET spent == [i \in DOMAIN w.vfSpent |-> IF w.vfSpent[i] THEN 1 ELSE 0]
      mapValue == Lacking(w.mapValue, {FROMACCOUNT, SPENT})
                    \cup {<<FROMACCOUNT, w.strFromAccount>>, <<SPENT, spent>>}
  IN  <<w.tx, w.vtxPrev, mapValue, w.vOrderForm, w.fTimeReceivedIsTxTime, w.nTimeReceived, w.fFromMe,
        IF 1 \in ToSet(spent) THEN 1 ELSE 0>>
FromRecord(r) ==
  LET outputs == Len(r[1][1][3])
      spent == IF \E p \in r[3] : p[1] = SPENT THEN Mapped(r[3], SPENT) ELSE [i \in 1..outputs |-> r[8]]
  IN  [tx |-> r[1], vtxPrev |-> r[2], mapValue |-> Lacking(r[3], Hidden), vOrderForm |-> r[4],
       fTimeReceivedIsTxTime |-> r[5], nTimeReceived |-> r[6], fFromMe |-> r[7],
       strFromAccount |-> Mapped(r[3], FROMACCOUNT), vfSpent |-> [i \in DOMAIN spent |-> spent[i] # 0]]
================================================================================
