-------------------------------- MODULE Encoding --------------------------------
(***************************************************************************)
(* Scripts and sizes as bytes: CScript (script.h) and the compact size     *)
(* (serialize.h).  Scaled: a byte is one of eight; one below OP_PUSHDATA1  *)
(* (3, for 76) is the size of the data that follows, a size below 5 (253)  *)
(* is its own byte.                                                        *)
(***************************************************************************)
EXTENDS SequencesExt, Integers

CONSTANTS
  MaxSize,          \* 0x02000000
  PushOnlyLimit     \* 200

PUSHDATA1 == 3
PUSHDATA2 == 4
ONE == 5            \* OP_1, and the last of the numbers, OP_16
CHECKSIG == 6
DUP == 7            \* every other operation

\* n as k bytes, the lowest first.
LittleEndian(n, k) == [i \in 1..k |-> (n \div 8^(i - 1)) % 8]
FromBytes(bytes) == FoldRight(LAMBDA b, v : b + 8 * v, bytes, 0)

(***************************************************************************)
(* The size that is written before a sequence of anything.                 *)
(***************************************************************************)
GetSizeOfCompactSize(n) == CASE n < 5 -> 1 [] n \in 5..8^2 - 1 -> 1 + 2 [] n \in 8^2..8^4 - 1 -> 1 + 4 [] OTHER -> 1 + 8
WriteCompactSize(n) ==
  CASE n < 5 -> <<n>>
    [] n \in 5..8^2 - 1 -> <<5>> \o LittleEndian(n, 2)
    [] n \in 8^2..8^4 - 1 -> <<6>> \o LittleEndian(n, 4)
    [] OTHER -> <<7>> \o LittleEndian(n, 8)
\* What is read of a stream, and what is left of it; bytes that are missing, or a size that
\* is too large, throw.
Failure == [ok |-> FALSE, size |-> 0, rest |-> <<>>]
ReadCompactSize(is) ==
  LET k == IF is = <<>> THEN 0 ELSE CASE Head(is) < 5 -> 0 [] Head(is) = 5 -> 2 [] Head(is) = 6 -> 4 [] OTHER -> 8
      size == IF k = 0 THEN Head(is) ELSE FromBytes(SubSeq(is, 2, k + 1))
  IN  IF is = <<>> \/ Len(is) < k + 1 THEN Failure
      ELSE IF size > MaxSize THEN Failure
      ELSE [ok |-> TRUE, size |-> size, rest |-> SubSeq(is, k + 2, Len(is))]

(***************************************************************************)
(* Data is pushed with its size, an operation is a byte.                   *)
(***************************************************************************)
PushBytes(b) ==
  (CASE Len(b) < PUSHDATA1 -> <<Len(b)>>
     [] Len(b) \in PUSHDATA1..7 -> <<PUSHDATA1, Len(b)>>
     [] OTHER -> <<PUSHDATA2>> \o LittleEndian(Len(b), 2)) \o b

\* The operation at pc and its data; pc is where GetOp2 leaves it, also when it fails.
GetOp2(s, pc) ==
  LET opcode == s[pc]
      sizes == CASE opcode = PUSHDATA1 -> 1 [] opcode = PUSHDATA2 -> 2 [] OTHER -> 0
      data == pc + 1 + sizes
      nSize == IF opcode < PUSHDATA1 THEN opcode
               ELSE IF opcode <= PUSHDATA2 THEN FromBytes(SubSeq(s, pc + 1, pc + sizes)) ELSE 0
      Fails(at) == [ok |-> FALSE, opcode |-> -1, vch |-> <<>>, pc |-> at]
  IN  IF pc > Len(s) THEN Fails(pc)
      ELSE IF Len(s) - pc < sizes THEN Fails(pc + 1)
      ELSE IF Len(s) - data + 1 < nSize THEN Fails(data)
      ELSE [ok |-> TRUE, opcode |-> opcode, vch |-> SubSeq(s, data, data + nSize - 1), pc |-> data + nSize]

\* All operations of a script, up to one that fails.
RECURSIVE OpsFrom(_, _)
OpsFrom(s, pc) ==
  LET op == GetOp2(s, pc) IN IF op.ok THEN <<op>> \o OpsFrom(s, op.pc) ELSE <<>>
Parses(s) == LET ops == OpsFrom(s, 1) IN (IF ops = <<>> THEN 1 ELSE Last(ops).pc) = Len(s) + 1

StartsWith(s, pc, b) == Len(s) - pc + 1 >= Len(b) /\ SubSeq(s, pc, pc + Len(b) - 1) = b
\* "while (...) erase(...)", and on to the next operation.
RECURSIVE DeleteFrom(_, _, _)
DeleteFrom(s, pc, b) ==
  IF StartsWith(s, pc, b) THEN DeleteFrom(SubSeq(s, 1, pc - 1) \o SubSeq(s, pc + Len(b), Len(s)), pc, b)
  ELSE LET op == GetOp2(s, pc) IN IF op.ok THEN DeleteFrom(s, op.pc, b) ELSE s
DeleteBytes(s, b) == IF b = <<>> THEN s ELSE DeleteFrom(s, 1, b)

GetSigOpCount(s) == Len(SelectSeq(OpsFrom(s, 1), LAMBDA op : op.opcode = CHECKSIG))
IsPushOnly(s) ==
  Len(s) <= PushOnlyLimit /\ Parses(s) /\ \A i \in DOMAIN OpsFrom(s, 1) : OpsFrom(s, 1)[i].opcode <= ONE

\* OP_DUP OP_HASH160 and the hash, OP_EQUALVERIFY OP_CHECKSIG: the hash has two bytes (20).
SetBitcoinAddress(hash) == <<DUP, DUP>> \o PushBytes(hash) \o <<DUP, CHECKSIG>>
NoHash == <<>>
GetBitcoinAddressHash160(s) ==
  LET ops == OpsFrom(s, 1) IN
  IF /\ Len(ops) = 5 /\ Parses(s)
     /\ ops[1].opcode = DUP /\ ops[2].opcode = DUP /\ Len(ops[3].vch) = 2
     /\ ops[4].opcode = DUP /\ ops[5].opcode = CHECKSIG
  THEN ops[3].vch ELSE NoHash
================================================================================
