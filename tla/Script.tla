-------------------------------- MODULE Script --------------------------------
(***************************************************************************)
(* Scripts (script.cpp): a stack machine that decides whether an input may *)
(* spend an output, and the signatures it checks.                          *)
(*                                                                         *)
(* A script is a sequence of ops: <<"push", v>>, <<"OP_N", n>> for OP_1 to *)
(* OP_16 and OP_1NEGATE, <<"partial", n>> for a push whose data are the    *)
(* next n ops, and <<name>> for the rest.  A value is <<"num", n>>, in its *)
(* one shortest form, <<"negzero">>, <<"key", k>>, <<"hash", op, v>>,      *)
(* <<"bytes", ops>>, or <<"sig", k, d, type>>, which only the owner of k   *)
(* can make for the digest d.  The first element tells kinds apart, so     *)
(* that values compare.  Encoding has the bytes, and pushes in a form that *)
(* is longer than needed; the size of a script is left out.                *)
(***************************************************************************)
EXTENDS SequencesExt, Integers

MaxOps == 201
MaxStack == 1000
MaxKeys == 20
MaxNum == 2147483647

Num(n) == <<"num", n>>
Bool(b) == Num(IF b THEN 1 ELSE 0)
Key(k) == <<"key", k>>
Hash160(v) == <<"hash", "OP_HASH160", v>>
Push(v) == <<"push", v>>
Op(name) == <<name>>

CastToBool(v) == v # Num(0) /\ v # <<"negzero">>

\* CastToBigNum throws at more than four bytes, which is what the other kinds have.
IsNum(v) == v = <<"negzero">> \/ (v[1] = "num" /\ v[2] \in -MaxNum .. MaxNum)
CastToBigNum(v) == IF v[1] = "num" THEN v[2] ELSE 0

Abs(n) == IF n < 0 THEN -n ELSE n
SizeOf(v) ==
  CASE v[1] = "num" -> Cardinality({b \in {1, 128, 32768, 8388608} : Abs(v[2]) >= b})
    [] v[1] = "negzero" -> 1
    [] v[1] = "key" -> 65
    [] v[1] = "hash" -> IF v[2] \in {"OP_RIPEMD160", "OP_SHA1", "OP_HASH160"} THEN 20 ELSE 32
    [] v[1] = "sig" -> 72
    [] v[1] = "bytes" -> Len(v[2])

\* GetOp, again and again: what a push takes is data, whatever it looks like, and there is
\* no reading on where less is left than it takes.
RECURSIVE Ops(_)
Ops(script) ==
  IF script = <<>> THEN <<>>
  ELSE LET op == Head(script) rest == Tail(script) IN
       IF op[1] # "partial" THEN <<op>> \o Ops(rest)
       ELSE IF Len(rest) < op[2] THEN <<Op("end")>>
       ELSE <<Push(<<"bytes", SubSeq(rest, 1, op[2])>>)>> \o Ops(SubSeq(rest, op[2] + 1, Len(rest)))

FindAndDelete(ops, op) == SelectSeq(ops, LAMBDA o : o # op)

-----------------------------------------------------------------------------
\* The transaction c.tx that input c.nIn signs, blanked as the hash type <<base, anyone>>
\* wants it; or the number 1, which is what comes of an input without its output.
One == [vin |-> <<>>, vout |-> <<>>, type |-> <<"one", FALSE>>]

Outputs(c, type) ==
  CASE type[1] = "ALL" -> c.tx.vout
    [] type[1] = "NONE" -> <<>>
    [] type[1] = "SINGLE" -> [i \in 1..c.nIn |-> IF i < c.nIn THEN "null" ELSE c.tx.vout[i]]

SignatureHash(code, c, type) ==
  LET vin == [i \in DOMAIN c.tx.vin |->
                [prevout |-> c.tx.vin[i].prevout,
                 scriptSig |-> IF i = c.nIn THEN FindAndDelete(code, Op("OP_CODESEPARATOR")) ELSE <<>>,
                 nSequence |-> IF i = c.nIn \/ type[1] = "ALL" THEN c.tx.vin[i].nSequence ELSE 0]]
  IN IF type[1] = "SINGLE" /\ c.nIn > Len(c.tx.vout) THEN One
     ELSE [vin |-> IF type[2] THEN <<vin[c.nIn]>> ELSE vin, vout |-> Outputs(c, type), type |-> type]

Sig(k, code, c, type) == <<"sig", k, SignatureHash(code, c, type), type>>

\* The hash type is the last byte of the signature: every caller leaves it to that.
CheckSig(vchSig, vchPubKey, code, c) ==
  /\ vchPubKey[1] = "key" /\ vchSig[1] = "sig"
  /\ vchSig = Sig(vchPubKey[2], code, c, vchSig[4])

-----------------------------------------------------------------------------
\* The machine: nothing is done any more once it failed.
Machine(stack) ==
  [ok |-> TRUE, stack |-> stack, altstack |-> <<>>, vfExec |-> <<>>, nOpCount |-> 0,
   pbegincodehash |-> 1]

Has(m, n) == Len(m.stack) >= n
Top(m, i) == m.stack[Len(m.stack) + 1 - i]
Without(m, n) == SubSeq(m.stack, 1, Len(m.stack) - n)

\* Take n values and give others, if there are n and the condition holds.
Replace(m, n, condition, given) ==
  IF Has(m, n) /\ condition THEN [m EXCEPT !.stack = Without(m, n) \o given]
  ELSE [m EXCEPT !.ok = FALSE]

\* An op that leaves a result, or whose VERIFY form fails unless the result is true.
Result(m, n, condition, v, verify) ==
  IF verify THEN Replace(m, n, condition /\ CastToBool(v), <<>>)
  ELSE Replace(m, n, condition, <<v>>)

\* What these take, x1 x2 ..., and what they leave.
Shuffle ==
  [OP_2DROP |-> <<2, <<>>>>,           OP_2DUP |-> <<2, <<1, 2, 1, 2>>>>,
   OP_3DUP |-> <<3, <<1, 2, 3, 1, 2, 3>>>>, OP_2OVER |-> <<4, <<1, 2, 3, 4, 1, 2>>>>,
   OP_2ROT |-> <<6, <<3, 4, 5, 6, 1, 2>>>>, OP_2SWAP |-> <<4, <<3, 4, 1, 2>>>>,
   OP_DROP |-> <<1, <<>>>>,            OP_DUP |-> <<1, <<1, 1>>>>,
   OP_NIP |-> <<2, <<2>>>>,            OP_OVER |-> <<2, <<1, 2, 1>>>>,
   OP_ROT |-> <<3, <<2, 3, 1>>>>,      OP_SWAP |-> <<2, <<2, 1>>>>,
   OP_TUCK |-> <<2, <<2, 1, 2>>>>]

Shuffled(m, op) ==
  LET n == Shuffle[op][1] order == Shuffle[op][2] IN
  Replace(m, n, TRUE, [i \in DOMAIN order |-> Top(m, n + 1 - order[i])])

PickOrRoll(m, op) ==
  LET n == CastToBigNum(Top(m, 1))
      at == Len(m.stack) - 1 - n
  IN IF ~Has(m, 2) \/ ~IsNum(Top(m, 1)) \/ n < 0 \/ n >= Len(m.stack) - 1
     THEN [m EXCEPT !.ok = FALSE]
     ELSE [m EXCEPT !.stack = Append(IF op = "OP_ROLL" THEN RemoveAt(Without(m, 1), at)
                                     ELSE Without(m, 1), m.stack[at])]

Unary(op, n) ==
  CASE op = "OP_1ADD" -> n + 1 [] op = "OP_1SUB" -> n - 1
    [] op = "OP_NEGATE" -> -n  [] op = "OP_ABS" -> Abs(n)
    [] op = "OP_NOT" -> IF n = 0 THEN 1 ELSE 0
    [] op = "OP_0NOTEQUAL" -> IF n # 0 THEN 1 ELSE 0
UnaryOps == {"OP_1ADD", "OP_1SUB", "OP_NEGATE", "OP_ABS", "OP_NOT", "OP_0NOTEQUAL"}

Binary(op, a, b) ==
  CASE op = "OP_ADD" -> Num(a + b)          [] op = "OP_SUB" -> Num(a - b)
    [] op = "OP_MIN" -> Num(IF a < b THEN a ELSE b)
    [] op = "OP_MAX" -> Num(IF a > b THEN a ELSE b)
    [] op = "OP_BOOLAND" -> Bool(a # 0 /\ b # 0) [] op = "OP_BOOLOR" -> Bool(a # 0 \/ b # 0)
    [] op \in {"OP_NUMEQUAL", "OP_NUMEQUALVERIFY"} -> Bool(a = b)
    [] op = "OP_NUMNOTEQUAL" -> Bool(a # b)
    [] op = "OP_LESSTHAN" -> Bool(a < b)    [] op = "OP_LESSTHANOREQUAL" -> Bool(a <= b)
    [] op = "OP_GREATERTHAN" -> Bool(a > b) [] op = "OP_GREATERTHANOREQUAL" -> Bool(a >= b)
BinaryOps ==
  {"OP_ADD", "OP_SUB", "OP_MIN", "OP_MAX", "OP_BOOLAND", "OP_BOOLOR", "OP_NUMEQUAL",
   "OP_NUMEQUALVERIFY", "OP_NUMNOTEQUAL", "OP_LESSTHAN", "OP_LESSTHANOREQUAL",
   "OP_GREATERTHAN", "OP_GREATERTHANOREQUAL"}

Within(m) ==
  LET min == CastToBigNum(Top(m, 2)) max == CastToBigNum(Top(m, 1)) n == CastToBigNum(Top(m, 3)) IN
  Replace(m, 3, \A i \in 1..3 : IsNum(Top(m, i)), <<Bool(min <= n /\ n < max)>>)

HashOps == {"OP_RIPEMD160", "OP_SHA1", "OP_SHA256", "OP_HASH160", "OP_HASH256"}

-----------------------------------------------------------------------------
Executing(m) == FALSE \notin {m.vfExec[i] : i \in DOMAIN m.vfExec}

\* OP_IF and its kin are looked at in a branch that is not taken as well.
If(m, negated) ==
  IF ~Executing(m) THEN [m EXCEPT !.vfExec = Append(@, FALSE)]
  ELSE IF ~Has(m, 1) THEN [m EXCEPT !.ok = FALSE]
  ELSE [m EXCEPT !.vfExec = Append(@, CastToBool(Top(m, 1)) # negated), !.stack = Without(m, 1)]

Else(m) ==
  IF m.vfExec = <<>> THEN [m EXCEPT !.ok = FALSE]
  ELSE [m EXCEPT !.vfExec[Len(m.vfExec)] = ~@]

EndIf(m) ==
  IF m.vfExec = <<>> THEN [m EXCEPT !.ok = FALSE] ELSE [m EXCEPT !.vfExec = Front(@)]

ToAltStack(m) ==
  IF Has(m, 1) THEN [m EXCEPT !.stack = Without(m, 1), !.altstack = Append(@, Top(m, 1))]
  ELSE [m EXCEPT !.ok = FALSE]

FromAltStack(m) ==
  IF m.altstack # <<>> THEN [m EXCEPT !.stack = Append(@, Last(m.altstack)), !.altstack = Front(@)]
  ELSE [m EXCEPT !.ok = FALSE]

\* The code that a signature signs: from the last separator on, without the signatures.
Code(m, ops, sigs) ==
  SelectSeq(SubSeq(ops, m.pbegincodehash, Len(ops)), LAMBDA op : \A s \in sigs : op # Push(s))

OpCheckSig(m, ops, c, verify) ==
  LET fSuccess == CheckSig(Top(m, 2), Top(m, 1), Code(m, ops, {Top(m, 2)}), c)
  IN Result(m, 2, TRUE, Bool(fSuccess), verify)

\* From the top: the number of keys, the keys, the number of signatures, the signatures, and
\* one value more that is taken and not looked at.  Each signature is checked against the
\* next keys until one fits.
CheckMultiSig(m, ops, c, verify) ==
  LET nKeys == CastToBigNum(Top(m, 1))
      nSigs == CastToBigNum(Top(m, 2 + nKeys))
      keys == [i \in 1..nKeys |-> Top(m, 1 + i)]
      sigs == [i \in 1..nSigs |-> Top(m, 2 + nKeys + i)]
      code == Code(m, ops, {sigs[i] : i \in 1..nSigs})
      unmatched == FoldLeft(LAMBDA left, k : IF left # <<>> /\ CheckSig(Head(left), k, code, c)
                                             THEN Tail(left) ELSE left, sigs, keys)
      counted == [m EXCEPT !.nOpCount = @ + nKeys]
  IN IF /\ Has(m, 1) /\ IsNum(Top(m, 1)) /\ nKeys \in 0..MaxKeys
        /\ counted.nOpCount <= MaxOps
        /\ Has(m, 2 + nKeys) /\ IsNum(Top(m, 2 + nKeys)) /\ nSigs \in 0..nKeys
     THEN Result(counted, 3 + nKeys + nSigs, TRUE, Bool(unmatched = <<>>), verify)
     ELSE [m EXCEPT !.ok = FALSE]

-----------------------------------------------------------------------------
\* The op at i of ops does this.
Execute(m, ops, i, c) ==
  LET op == ops[i][1]
      a == CastToBigNum(Top(m, 2))
      b == CastToBigNum(Top(m, 1))
  IN CASE op = "push" -> [m EXCEPT !.stack = Append(@, ops[i][2])]
       [] op = "OP_N" -> [m EXCEPT !.stack = Append(@, Num(ops[i][2]))]
       [] op = "OP_NOP" -> m
       [] op \in {"OP_IF", "OP_NOTIF"} -> If(m, op = "OP_NOTIF")
       [] op = "OP_ELSE" -> Else(m)
       [] op = "OP_ENDIF" -> EndIf(m)
       [] op = "OP_VERIFY" -> Result(m, 1, TRUE, Top(m, 1), TRUE)
       [] op = "OP_TOALTSTACK" -> ToAltStack(m)
       [] op = "OP_FROMALTSTACK" -> FromAltStack(m)
       [] op \in DOMAIN Shuffle -> Shuffled(m, op)
       [] op \in {"OP_PICK", "OP_ROLL"} -> PickOrRoll(m, op)
       [] op = "OP_IFDUP" ->
            Replace(m, 1, TRUE, IF CastToBool(Top(m, 1)) THEN <<Top(m, 1), Top(m, 1)>> ELSE <<Top(m, 1)>>)
       [] op = "OP_DEPTH" -> [m EXCEPT !.stack = Append(@, Num(Len(m.stack)))]
       [] op = "OP_SIZE" -> Replace(m, 1, TRUE, <<Top(m, 1), Num(SizeOf(Top(m, 1)))>>)
       [] op \in {"OP_EQUAL", "OP_EQUALVERIFY"} ->
            Result(m, 2, TRUE, Bool(Top(m, 1) = Top(m, 2)), op = "OP_EQUALVERIFY")
       [] op \in UnaryOps -> Result(m, 1, IsNum(Top(m, 1)), Num(Unary(op, b)), FALSE)
       [] op \in BinaryOps ->
            Result(m, 2, IsNum(Top(m, 1)) /\ IsNum(Top(m, 2)), Binary(op, a, b), op = "OP_NUMEQUALVERIFY")
       [] op = "OP_WITHIN" -> Within(m)
       [] op \in HashOps -> Result(m, 1, TRUE, <<"hash", op, Top(m, 1)>>, FALSE)
       [] op = "OP_CODESEPARATOR" -> [m EXCEPT !.pbegincodehash = i + 1]
       [] op \in {"OP_CHECKSIG", "OP_CHECKSIGVERIFY"} -> OpCheckSig(m, ops, c, op = "OP_CHECKSIGVERIFY")
       [] op \in {"OP_CHECKMULTISIG", "OP_CHECKMULTISIGVERIFY"} ->
            CheckMultiSig(m, ops, c, op = "OP_CHECKMULTISIGVERIFY")
       [] OTHER -> [m EXCEPT !.ok = FALSE]

\* Refused even in a branch that is not taken.
DisabledOps ==
  {"OP_CAT", "OP_SUBSTR", "OP_LEFT", "OP_RIGHT", "OP_INVERT", "OP_AND", "OP_OR", "OP_XOR",
   "OP_2MUL", "OP_2DIV", "OP_MUL", "OP_DIV", "OP_MOD", "OP_LSHIFT", "OP_RSHIFT"}
BranchOps == {"OP_IF", "OP_NOTIF", "OP_VERIF", "OP_VERNOTIF", "OP_ELSE", "OP_ENDIF"}

\* One turn of the loop: what is counted, what is refused at sight, what is executed.
Step(m, ops, i, c) ==
  LET op == ops[i][1]
      counted == IF op \in {"push", "OP_N", "OP_RESERVED"} THEN m ELSE [m EXCEPT !.nOpCount = @ + 1]
      done == IF Executing(m) \/ op \in BranchOps THEN Execute(counted, ops, i, c) ELSE counted
  IN [done EXCEPT !.ok = /\ m.ok /\ op \notin DisabledOps \cup {"end"}
                         /\ op = "push" => SizeOf(ops[i][2]) <= 520
                         /\ counted.nOpCount <= MaxOps
                         /\ @
                         /\ Len(done.stack) + Len(done.altstack) <= MaxStack]

EvalScript(stack, script, c) ==
  LET ops == Ops(script)
      end == FoldLeft(LAMBDA m, i : IF m.ok THEN Step(m, ops, i, c) ELSE m, Machine(stack),
                      [i \in DOMAIN ops |-> i])
  IN [end EXCEPT !.ok = @ /\ end.vfExec = <<>>]

Verdict(m) == m.ok /\ m.stack # <<>> /\ CastToBool(Last(m.stack))

\* Mutant: one script is made of the two.
VerifyScriptAsOne(scriptSig, scriptPubKey, c) == Verdict(EvalScript(<<>>, scriptSig \o scriptPubKey, c))

VerifyScript(scriptSig, scriptPubKey, c) ==
  LET m == EvalScript(<<>>, scriptSig, c) IN
  m.ok /\ Verdict(EvalScript(m.stack, scriptPubKey, c))

-----------------------------------------------------------------------------
PayToPubKey(v) == <<Push(v), Op("OP_CHECKSIG")>>
PayToPubKeyHash(v) ==
  <<Op("OP_DUP"), Op("OP_HASH160"), Push(v), Op("OP_EQUALVERIFY"), Op("OP_CHECKSIG")>>

\* Solver: what a standard script asks for, and whether it is standard at all.
Asked(script) ==
  {<<"OP_PUBKEY", op[2]>> : op \in {o \in ToSet(script) :
      o[1] = "push" /\ script = PayToPubKey(o[2]) /\ SizeOf(o[2]) \in 33..120}}
    \cup {<<"OP_PUBKEYHASH", op[2]>> : op \in {o \in ToSet(script) :
      o[1] = "push" /\ script = PayToPubKeyHash(o[2]) /\ SizeOf(o[2]) = 20}}
IsStandard(script) == Asked(script) # {}

\* The key of the store that can sign for it.  (mapPubKeys has the keys of the store.)
Signers(keystore, script) ==
  {k \in keystore : <<"OP_PUBKEY", Key(k)>> \in Asked(script)
                      \/ <<"OP_PUBKEYHASH", Hash160(Key(k))>> \in Asked(script)}
IsMine(keystore, script) == Signers(keystore, script) # {}

\* What Solver then puts together.
Solution(keystore, script, c, type) ==
  LET k == CHOOSE k \in Signers(keystore, script) : TRUE
      given == IF Len(script) = Len(PayToPubKey(Key(k))) THEN <<>> ELSE <<Push(Key(k))>>
  IN <<Push(Sig(k, script, c, type))>> \o given

SignSignature(keystore, script, c, type) ==
  IsMine(keystore, script) /\ VerifyScript(Solution(keystore, script, c, type), script, c)
================================================================================
