---------------------------- MODULE BlockSyncProofs ----------------------------
(***************************************************************************)
(* A block is asked for once at a time, of however many peers.             *)
(***************************************************************************)
EXTENDS MCBlockSync, FiniteSetTheorems, SequenceTheorems, WellFoundedInduction, TLAPS

\* Some number of a set is the least.
LEMMA LeastNatural ==
  ASSUME NEW X, X \subseteq Nat, X # {}
  PROVE  \E n \in X : \A m \in X : n <= m
<1> DEFINE T == {0..n : n \in X}
<1>1. T \subseteq FiniteSubsetsOf(Nat) /\ T # {}
  <2>1. \A n \in X : IsFiniteSet(0..n) /\ 0..n \subseteq Nat
    BY FS_Interval
  <2> QED BY <2>1 DEF FiniteSubsetsOf
<1>2. IsWellFoundedOn(StrictSubsetOrdering(Nat), FiniteSubsetsOf(Nat))
  BY FS_StrictSubsetOrderingWellFounded
<1>3. PICK x \in T : \A y \in T : ~ (<<y, x>> \in StrictSubsetOrdering(Nat))
  <2> HIDE DEF T
  <2> QED BY <1>1, <1>2, WFMin
<1>4. PICK n \in X : x = 0..n
  OBVIOUS
<1>5. ASSUME NEW m \in X, ~(n <= m) PROVE FALSE
  <2>1. 0..m \subseteq 0..n /\ 0..m # 0..n /\ 0..m \in T
    BY <1>5
  <2>2. <<0..m, x>> \in StrictSubsetOrdering(Nat)
    BY <2>1, <1>4 DEF StrictSubsetOrdering
  <2> QED BY <1>3, <2>1, <2>2
<1> QED BY <1>5

\* Induction over the numbers, for a set instead of a predicate.
LEMMA Induction ==
  ASSUME NEW X, 0 \in X, \A n \in Nat : n \in X => n + 1 \in X
  PROVE  Nat \subseteq X
<1> SUFFICES ASSUME ~(Nat \subseteq X) PROVE FALSE OBVIOUS
<1>1. PICK n \in Nat \ X : \A m \in Nat \ X : n <= m
  <2> DEFINE Y == Nat \ X
  <2>1. Y \subseteq Nat /\ Y # {} OBVIOUS
  <2> HIDE DEF Y
  <2>2. \E n \in Y : \A m \in Y : n <= m BY <2>1, LeastNatural
  <2> QED BY <2>2 DEF Y
<1>2. n \in Nat /\ n \notin X /\ n # 0
  OBVIOUS
<1>3. n - 1 \in Nat /\ n - 1 \in X
  BY <1>1, <1>2
<1>4. (n - 1) + 1 = n
  BY <1>2
<1> QED  BY <1>2, <1>3, <1>4

\* The places of a set of numbers, counted from below: one for each number of 1 to as many as they are.
LEMMA Ranks ==
  ASSUME NEW I, I \subseteq Nat, IsFiniteSet(I)
  PROVE  /\ Cardinality(I) \in Nat
         /\ \A i \in I : Cardinality({j \in I : j <= i}) \in 1..Cardinality(I)
         /\ \A i, h \in I : Cardinality({j \in I : j <= i}) = Cardinality({j \in I : j <= h}) => i = h
         /\ \A k \in 1..Cardinality(I) : \E i \in I : Cardinality({j \in I : j <= i}) = k
<1> DEFINE Below(i) == {j \in I : j <= i}
           rank == [i \in I |-> Cardinality(Below(i))]
<1>1. Cardinality(I) \in Nat
  BY FS_CardinalityType
<1>2. ASSUME NEW i \in I PROVE /\ IsFiniteSet(Below(i)) /\ Cardinality(Below(i)) \in Nat
                               /\ Cardinality(Below(i)) \in 1..Cardinality(I)
  <2>1. Below(i) \in SUBSET I /\ i \in Below(i)
    BY <1>2
  <2>2. IsFiniteSet(Below(i)) /\ Cardinality(Below(i)) <= Cardinality(I)
    <3> HIDE DEF Below
    <3> QED  BY <2>1, FS_Subset
  <2>3. Cardinality(Below(i)) \in Nat /\ Cardinality(Below(i)) # 0
    <3> HIDE DEF Below
    <3> QED  BY <2>1, <2>2, FS_CardinalityType, FS_EmptySet
  <2> QED  BY <1>1, <2>2, <2>3
<1>3. ASSUME NEW i \in I, NEW h \in I, Cardinality(Below(i)) = Cardinality(Below(h)) PROVE i = h
  <2>1. \A x, y \in I : x <= y /\ Below(x) = Below(y) => x = y
    <3>1. \A x, y \in I : x <= y /\ Below(x) = Below(y) => y \in Below(x)
      OBVIOUS
    <3> QED  BY <3>1
  <2>2. ASSUME NEW x \in I, NEW y \in I, x <= y PROVE Below(x) \in SUBSET Below(y)
    <3>1. ASSUME NEW j \in I, j <= x PROVE j <= y
      BY <2>2, <3>1
    <3> QED  BY <3>1
  <2>3. i <= h \/ h <= i
    OBVIOUS
  <2>4. ASSUME NEW x \in I, NEW y \in I, x <= y, Cardinality(Below(x)) = Cardinality(Below(y)) PROVE x = y
    <3>1. Below(x) \in SUBSET Below(y) /\ IsFiniteSet(Below(y))
      BY <1>2, <2>2, <2>4
    <3>2. Below(x) = Below(y)
      <4> HIDE DEF Below
      <4> QED  BY <2>4, <3>1, FS_Subset
    <3> QED  BY <2>1, <2>4, <3>2
  <2> HIDE DEF Below
  <2> QED  BY <1>3, <2>3, <2>4
<1>4. rank \in Injection(I, 1..Cardinality(I))
  <2> HIDE DEF Below
  <2>1. rank \in [I -> 1..Cardinality(I)]
    BY <1>2
  <2>2. \A i, h \in I : rank[i] = rank[h] => i = h
    BY <1>3
  <2> HIDE DEF rank
  <2> QED  BY <2>1, <2>2 DEF Injection, IsInjective
<1>5. IsFiniteSet(1..Cardinality(I)) /\ Cardinality(1..Cardinality(I)) = Cardinality(I)
  BY <1>1, FS_Interval
<1>6. rank \in Surjection(I, 1..Cardinality(I))
  <2> HIDE DEF rank
  <2> QED  BY <1>4, <1>5, FS_Injection
<1>7. \A k \in 1..Cardinality(I) : \E i \in I : Cardinality(Below(i)) = k
  <2> HIDE DEF Below
  <2> QED  BY <1>6 DEF Surjection
<1> QED  BY <1>1, <1>2, <1>3, <1>7

\* What is picked of a sequence are its members at the places, each of them once.
LEMMA ThoseOfSeq ==
  ASSUME NEW S, NEW s \in Seq(S), NEW I, I \subseteq DOMAIN s
  PROVE  /\ Those(s, I) \in Seq(S)
         /\ \A k \in DOMAIN Those(s, I) : \E i \in I : Those(s, I)[k] = s[i]
         /\ \A i \in I : \E k \in DOMAIN Those(s, I) : Those(s, I)[k] = s[i]
         /\ \A k, l \in DOMAIN Those(s, I) : k # l =>
              \E i, j \in I : i # j /\ Those(s, I)[k] = s[i] /\ Those(s, I)[l] = s[j]
<1> DEFINE Rank(i) == Cardinality({j \in I : j <= i})
           At(k) == CHOOSE i \in I : Rank(i) = k
<1>1. I \subseteq Nat /\ IsFiniteSet(I) /\ DOMAIN s = 1..Len(s) /\ Len(s) \in Nat
  <2>1. DOMAIN s = 1..Len(s) /\ Len(s) \in Nat
    BY LenProperties
  <2>2. IsFiniteSet(1..Len(s))
    BY <2>1, FS_Interval
  <2> QED  BY <2>1, <2>2, FS_Subset
<1>2. /\ Cardinality(I) \in Nat
      /\ \A i \in I : Rank(i) \in 1..Cardinality(I)
      /\ \A i, h \in I : Rank(i) = Rank(h) => i = h
      /\ \A k \in 1..Cardinality(I) : \E i \in I : Rank(i) = k
  BY <1>1, Ranks
<1>3. Those(s, I) = [k \in 1..Cardinality(I) |-> s[At(k)]]
  BY DEF Those
<1> HIDE DEF Rank
<1>4. \A k \in 1..Cardinality(I) : At(k) \in I /\ Rank(At(k)) = k
  BY <1>2
<1>5. \A i \in I : At(Rank(i)) = i
  BY <1>2, <1>4
<1> HIDE DEF At
<1>6. \A k \in 1..Cardinality(I) : s[At(k)] \in S
  BY <1>1, <1>4
<1>7. Those(s, I) \in [1..Cardinality(I) -> S]
  BY <1>3, <1>6
<1>8. Those(s, I) \in Seq(S)
  BY <1>2, <1>7
<1>9. DOMAIN Those(s, I) = 1..Cardinality(I)
  BY <1>3
<1>10. \A k, l \in 1..Cardinality(I) : k # l => At(k) # At(l)
  BY <1>4
<1> QED  BY <1>2, <1>3, <1>4, <1>5, <1>8, <1>9, <1>10

-----------------------------------------------------------------------------
\* A sequence of anything.
Members(s) == {s[i] : i \in DOMAIN s}
IsSeq(s) == s \in Seq(Members(s))

\* What the messages have to be for their handlers to read them; a request names a block once.
IsRequest(m) ==
  m.type = "getdata" =>
    /\ IsSeq(m.vInv)
    /\ \A i, j \in DOMAIN m.vInv : m.vInv[i] \in Blocks /\ m.vInv[i] = m.vInv[j] => i = j
IsAnswer(m) == m.type = "inv" => IsSeq(m.vInv)
ToOK(c) == IsSeq(c) /\ \A i \in DOMAIN c : IsRequest(c[i])
FromOK(c) == IsSeq(c) /\ \A i \in DOMAIN c : IsAnswer(c[i])

ChannelsOK ==
  /\ vInventoryToSend = [p \in Peers |-> vInventoryToSend[p]]
  /\ toPeer = [p \in Peers |-> toPeer[p]] /\ fromPeer = [p \in Peers |-> fromPeer[p]]
  /\ \A p \in Peers :
       IsSeq(vInventoryToSend[p]) /\ ToOK(toPeer[p]) /\ FromOK(fromPeer[p])

\* What there is to ask, given the times of the last requests: requests for one block are for
\* different times, and for none that we do not have after the last.
AsksOK(ask, asked) ==
  /\ ask = [p \in Peers |-> ask[p]] /\ \A p \in Peers : IsSeq(ask[p])
  /\ asked \in [Blocks -> Nat \cup {-1}]
  /\ \A p \in Peers : \A i \in DOMAIN ask[p] :
       /\ ask[p][i] = [hash |-> ask[p][i].hash, due |-> ask[p][i].due]
       /\ ask[p][i].hash \in Blocks =>
            /\ ask[p][i].due \in Nat
            /\ AlreadyHave(ask[p][i].hash) \/ ask[p][i].due <= asked[ask[p][i].hash]
  /\ \A p, q \in Peers : \A i \in DOMAIN ask[p], j \in DOMAIN ask[q] :
       /\ ask[p][i].hash \in Blocks /\ ask[p][i].hash = ask[q][j].hash
       /\ ask[p][i].due = ask[q][j].due
       => p = q /\ i = j

Ways == {"to", "from"}
\* The i-th message on a way to or from p asks for b of a peer that answers, or is b.
Token(b, p, way, i) ==
  \/ way = "to" /\ p \notin silent /\ i \in DOMAIN toPeer[p] /\ Carries(toPeer[p][i], b)
  \/ way = "from" /\ i \in DOMAIN fromPeer[p] /\ Carries(fromPeer[p][i], b)
SomeToken(b) == \E p \in Peers, way \in Ways, i \in Nat : Token(b, p, way, i)

\* While b is under way, another request for it is not due.
Waits(b, ask, asked) ==
  SomeToken(b) => asked[b] >= 0 /\ \A p \in Peers : \A i \in DOMAIN ask[p] :
                                     ask[p][i].hash = b => ask[p][i].due # 0

TokensOK ==
  \A b \in Blocks :
    /\ AlreadyHave(b) => ~SomeToken(b)
    /\ \A p, q \in Peers : \A v, w \in Ways : \A i, j \in Nat :
         Token(b, p, v, i) /\ Token(b, q, w, j) => p = q /\ v = w /\ i = j

SyncInv ==
  /\ ChannelsOK
  /\ AsksOK(mapAskFor, mapAlreadyAskedFor)
  /\ TokensOK
  /\ \A b \in Blocks : Waits(b, mapAskFor, mapAlreadyAskedFor)

DownloadInv == part = "two" /\ Prompt => SyncInv

\* What a sequence is.
LEMMA SeqIs ==
  ASSUME NEW s, IsSeq(s)
  PROVE  s \in Seq(Members(s)) /\ Len(s) \in Nat /\ DOMAIN s = 1..Len(s)
<1>1. s \in Seq(Members(s))
  BY DEF IsSeq
<1> QED  BY <1>1, LenProperties

\* A sequence of members of a set is one.
LEMMA AnySeq == ASSUME NEW S, NEW s \in Seq(S) PROVE IsSeq(s)
<1>1. Len(s) \in Nat /\ s \in [1..Len(s) -> S]
  BY LenProperties
<1>2. s \in [1..Len(s) -> Members(s)]
  BY <1>1 DEF Members
<1> QED  BY <1>1, <1>2 DEF IsSeq

\* So is a function from the first numbers.
LEMMA FirstNumbers ==
  ASSUME NEW n \in Nat, NEW s, DOMAIN s = 1..n, s = [i \in 1..n |-> s[i]]
  PROVE  IsSeq(s) /\ Len(s) = n
<1> DEFINE S == {s[i] : i \in 1..n}
<1>1. s \in [1..n -> S]
  OBVIOUS
<1> HIDE DEF S
<1>2. s \in Seq(S)
  BY <1>1
<1> QED  BY <1>2, AnySeq, LenProperties

\* One element, and none.
LEMMA ShortSeqs == IsSeq(<<>>) /\ DOMAIN <<>> = {} /\ \A x : IsSeq(<<x>>) /\ DOMAIN <<x>> = {1} /\ <<x>>[1] = x
<1>1. <<>> \in Seq({}) /\ DOMAIN <<>> = {}
  OBVIOUS
<1>2. ASSUME NEW x PROVE IsSeq(<<x>>) /\ DOMAIN <<x>> = {1} /\ <<x>>[1] = x
  <2>1. <<x>> \in Seq({x}) /\ DOMAIN <<x>> = {1} /\ <<x>>[1] = x
    OBVIOUS
  <2> QED  BY <2>1, AnySeq
<1> QED  BY <1>1, <1>2, AnySeq

\* t is s without its first element.
IsTail(s, t) ==
  /\ IsSeq(t)
  /\ 1 \in DOMAIN s /\ s[1] = Head(s)
  /\ \A i \in DOMAIN t : i \in Nat /\ i # 0 /\ i + 1 \in DOMAIN s /\ t[i] = s[i + 1]
  /\ \A i \in DOMAIN s : i \in Nat /\ (i # 1 => i - 1 \in DOMAIN t /\ t[i - 1] = s[i])
\* Tail is that.
LEMMA TailIs == ASSUME NEW s, IsSeq(s), s # <<>> PROVE IsTail(s, Tail(s))
<1>1. s \in Seq(Members(s)) /\ Len(s) \in Nat /\ DOMAIN s = 1..Len(s)
  BY SeqIs
<1>2. /\ Tail(s) \in Seq(Members(s)) /\ Len(Tail(s)) = Len(s) - 1 /\ Len(s) # 0
      /\ \A i \in 1..Len(Tail(s)) : Tail(s)[i] = s[i + 1]
  BY <1>1, HeadTailProperties, EmptySeq
<1>3. IsSeq(Tail(s)) /\ DOMAIN Tail(s) = 1..(Len(s) - 1)
  BY <1>2, AnySeq, LenProperties
<1>4. Head(s) = s[1]
  BY <1>1, HeadTailProperties
<1> QED  BY <1>1, <1>2, <1>3, <1>4 DEF IsTail

\* u is s with t behind it.
IsConcat(s, t, u) ==
  /\ IsSeq(u) /\ Len(s) \in Nat
  /\ \A i \in DOMAIN s : i \in Nat /\ i <= Len(s) /\ i \in DOMAIN u /\ u[i] = s[i]
  /\ \A i \in DOMAIN t : i \in Nat /\ i # 0 /\ Len(s) + i \in DOMAIN u /\ u[Len(s) + i] = t[i]
  /\ \A i \in DOMAIN u :
       /\ i \in Nat
       /\ \/ i \in DOMAIN s /\ u[i] = s[i]
          \/ i > Len(s) /\ i - Len(s) \in DOMAIN t /\ u[i] = t[i - Len(s)]
\* Concatenation is that.
LEMMA ConcatIs == ASSUME NEW s, NEW t, IsSeq(s), IsSeq(t) PROVE IsConcat(s, t, s \o t)
<1> DEFINE S == Members(s) \cup Members(t)
<1>1. /\ s \in Seq(Members(s)) /\ Len(s) \in Nat /\ DOMAIN s = 1..Len(s)
      /\ t \in Seq(Members(t)) /\ Len(t) \in Nat /\ DOMAIN t = 1..Len(t)
  BY SeqIs
<1>2. s \in Seq(S) /\ t \in Seq(S)
  <2>1. Members(s) \subseteq S /\ Members(t) \subseteq S
    OBVIOUS
  <2> HIDE DEF S
  <2> QED  BY <1>1, <2>1, SeqMonotonic
<1> HIDE DEF S
<1>3. /\ s \o t \in Seq(S) /\ Len(s \o t) = Len(s) + Len(t)
      /\ \A i \in 1..Len(s) + Len(t) : (s \o t)[i] = IF i <= Len(s) THEN s[i] ELSE t[i - Len(s)]
  BY <1>2, ConcatProperties
<1>4. IsSeq(s \o t) /\ DOMAIN (s \o t) = 1..(Len(s) + Len(t))
  BY <1>3, AnySeq, LenProperties
<1> QED  BY <1>1, <1>3, <1>4 DEF IsConcat

\* And so is one more element.
LEMMA AppendIs == ASSUME NEW s, NEW x, IsSeq(s) PROVE IsConcat(s, <<x>>, Append(s, x))
<1> DEFINE S == Members(s) \cup {x}
<1>1. s \in Seq(Members(s)) /\ Len(s) \in Nat /\ DOMAIN s = 1..Len(s)
  BY SeqIs
<1>2. s \in Seq(S) /\ x \in S
  <2>1. Members(s) \subseteq S /\ x \in S
    OBVIOUS
  <2> HIDE DEF S
  <2> QED  BY <1>1, <2>1, SeqMonotonic
<1> HIDE DEF S
<1>3. /\ Append(s, x) \in Seq(S) /\ Len(Append(s, x)) = Len(s) + 1
      /\ \A i \in 1..Len(s) : Append(s, x)[i] = s[i]
      /\ Append(s, x)[Len(s) + 1] = x
  BY <1>2, AppendProperties
<1>4. IsSeq(Append(s, x)) /\ DOMAIN Append(s, x) = 1..(Len(s) + 1)
  BY <1>3, AnySeq, LenProperties
<1>5. DOMAIN <<x>> = {1} /\ <<x>>[1] = x
  BY ShortSeqs
<1> QED  BY <1>1, <1>3, <1>4, <1>5 DEF IsConcat

\* u is s with x behind it, at place new.
IsMore(s, x, u) ==
  /\ IsSeq(u)
  /\ \E new \in Nat :
       /\ new \notin DOMAIN s /\ new \in DOMAIN u /\ u[new] = x
       /\ \A i \in DOMAIN s : i \in DOMAIN u /\ u[i] = s[i]
       /\ \A i \in DOMAIN u : i \in Nat /\ (i = new \/ (i \in DOMAIN s /\ u[i] = s[i]))
\* Append is that.
LEMMA AppendIsMore == ASSUME NEW s, NEW x, IsSeq(s) PROVE IsMore(s, x, Append(s, x))
<1> DEFINE u == Append(s, x)
<1>1. IsConcat(s, <<x>>, u)
  BY AppendIs
<1>2. DOMAIN <<x>> = {1} /\ <<x>>[1] = x
  BY ShortSeqs
<1>3. Len(s) \in Nat /\ DOMAIN s = 1..Len(s)
  BY SeqIs
<1> HIDE DEF u
<1>4. /\ Len(s) + 1 \in Nat /\ Len(s) + 1 \notin DOMAIN s
      /\ Len(s) + 1 \in DOMAIN u /\ u[Len(s) + 1] = x
  BY <1>1, <1>2, <1>3 DEF IsConcat
<1>5. \A i \in DOMAIN u : i \in Nat /\ (i = Len(s) + 1 \/ (i \in DOMAIN s /\ u[i] = s[i]))
  <2>1. ASSUME NEW i \in DOMAIN u, i > Len(s), i - Len(s) \in {1} PROVE i = Len(s) + 1
    BY <1>1, <1>3, <2>1 DEF IsConcat
  <2> QED  BY <1>1, <1>2, <2>1 DEF IsConcat
<1>6. IsMore(s, x, u)
  BY <1>1, <1>4, <1>5 DEF IsMore, IsConcat
<1> QED  BY <1>6 DEF u

\* p has the elements of s at the places I, each of them once.
IsPick(s, I, p) ==
  /\ IsSeq(p)
  /\ \A k \in DOMAIN p : \E i \in I : p[k] = s[i]
  /\ \A i \in I : \E k \in DOMAIN p : p[k] = s[i]
  /\ \A k, l \in DOMAIN p : k # l => \E i, j \in I : i # j /\ p[k] = s[i] /\ p[l] = s[j]
\* Those is that.
LEMMA ThoseAre == ASSUME NEW s, IsSeq(s), NEW I, I \subseteq DOMAIN s PROVE IsPick(s, I, Those(s, I))
<1>1. s \in Seq(Members(s))
  BY SeqIs
<1> QED  BY <1>1, ThoseOfSeq, AnySeq DEF IsPick

\* u is s with x put in somewhere: at place new, and what is at k was at old[k].
IsInsert(s, x, u) ==
  /\ IsSeq(u)
  /\ \E new \in DOMAIN u, old \in [DOMAIN u -> Nat] :
       /\ u[new] = x
       /\ \A k \in DOMAIN u : k # new => old[k] \in DOMAIN s /\ u[k] = s[old[k]]
       /\ \A k, l \in DOMAIN u : k # new /\ l # new /\ old[k] = old[l] => k = l
\* Inserted is that.
LEMMA InsertedIs ==
  ASSUME NEW ask, IsSeq(ask), NEW b, NEW due
  PROVE  IsInsert(ask, [hash |-> b, due |-> due], Inserted(ask, b, due))
<1> DEFINE I == {i \in DOMAIN ask : ask[i].due <= due}
           n == Cardinality(I)
           x == [hash |-> b, due |-> due]
           S == Members(ask)
           before == SubSeq(ask, 1, n)
           after == SubSeq(ask, n + 1, Len(ask))
<1>1. ask \in Seq(S) /\ Len(ask) \in Nat /\ DOMAIN ask = 1..Len(ask)
  BY SeqIs
<1>2. n \in Nat /\ n <= Len(ask)
  <2>1. IsFiniteSet(1..Len(ask)) /\ Cardinality(1..Len(ask)) = Len(ask)
    BY <1>1, FS_Interval
  <2>2. I \in SUBSET (1..Len(ask))
    BY <1>1
  <2> HIDE DEF I
  <2>3. IsFiniteSet(I) /\ Cardinality(I) <= Cardinality(1..Len(ask))
    BY <2>1, <2>2, FS_Subset
  <2> QED  BY <2>1, <2>3, FS_CardinalityType
<1> HIDE DEF n, S
<1>3. /\ before \in Seq(S) /\ Len(before) = n
      /\ \A i \in 1..n : before[i] = ask[i]
  <2>1. \A i \in 1..n : ask[i] \in S
    BY <1>1, <1>2
  <2>2. \A i, m \in Nat : i \in 1..m => 1 + i - 1 = i
    OBVIOUS
  <2> QED  BY <1>1, <1>2, <2>1, <2>2, SubSeqProperties
<1>4. /\ after \in Seq(S) /\ Len(after) = Len(ask) - n
      /\ \A i \in 1..(Len(ask) - n) : after[i] = ask[n + i]
  <2>1. \A i \in (n + 1)..Len(ask) : ask[i] \in S
    <3>1. \A i \in 1..Len(ask) : ask[i] \in S
      BY <1>1
    <3> QED  BY <1>1, <1>2, <3>1
  <2>2. n + 1 \in Int /\ Len(ask) \in Int
    BY <1>1, <1>2
  <2>3. /\ after \in Seq(S)
        /\ Len(after) = IF n + 1 <= Len(ask) THEN Len(ask) - (n + 1) + 1 ELSE 0
        /\ \A i \in 1..(Len(ask) - (n + 1) + 1) : after[i] = ask[n + 1 + i - 1]
    BY ONLY <2>1, <2>2, SubSeqProperties
  <2>4. Len(ask) - (n + 1) + 1 = Len(ask) - n /\ \A i \in 1..(Len(ask) - n) : n + 1 + i - 1 = n + i
    BY <1>1, <1>2
  <2> HIDE DEF after
  <2>5. ASSUME NEW i \in 1..(Len(ask) - n) PROVE after[i] = ask[n + i]
    <3>1. i \in 1..(Len(ask) - (n + 1) + 1) /\ n + 1 + i - 1 = n + i
      BY <2>4
    <3> QED  BY ONLY <2>3, <3>1
  <2>6. Len(after) = Len(ask) - n
    <3>1. CASE n + 1 <= Len(ask)
      BY ONLY <2>3, <2>4, <3>1
    <3>2. CASE n = Len(ask)
      <4>1. ~(n + 1 <= Len(ask)) /\ Len(ask) - n = 0
        BY <1>1, <3>2
      <4> QED  BY ONLY <2>3, <4>1
    <3>3. n + 1 <= Len(ask) \/ n = Len(ask)
      <4>1. \A i, j \in Nat : i <= j => i + 1 <= j \/ i = j
        OBVIOUS
      <4> QED  BY ONLY <1>1, <1>2, <4>1
    <3> QED  BY ONLY <3>1, <3>2, <3>3
  <2> QED  BY ONLY <2>3, <2>5, <2>6
<1>5. Inserted(ask, b, due) = before \o <<x>> \o after
  BY DEF Inserted, n
<1> HIDE DEF before, after, x
<1> DEFINE front == before \o <<x>>
<1>6. IsSeq(before) /\ IsSeq(after) /\ IsSeq(<<x>>) /\ DOMAIN <<x>> = {1} /\ <<x>>[1] = x
      /\ DOMAIN before = 1..n /\ DOMAIN after = 1..(Len(ask) - n)
  BY <1>3, <1>4, AnySeq, ShortSeqs, LenProperties
<1>7. IsConcat(before, <<x>>, front)
  BY <1>6, ConcatIs
<1> HIDE DEF front
<1>8. IsSeq(front) /\ DOMAIN front = 1..(n + 1) /\ front[n + 1] = x /\ \A i \in 1..n : front[i] = ask[i]
  <2>1. Len(before) = n /\ IsSeq(front)
    BY <1>3, <1>7 DEF IsConcat
  <2>2. \A i \in 1..n : i \in DOMAIN front /\ front[i] = ask[i]
    BY <1>3, <1>6, <1>7 DEF IsConcat
  <2>3. n + 1 \in DOMAIN front /\ front[n + 1] = x
    BY <1>6, <1>7, <2>1 DEF IsConcat
  <2>4. \A i \in DOMAIN front : i \in 1..(n + 1)
    <3>1. ASSUME NEW i \in DOMAIN front PROVE i \in Nat /\ (i \in 1..n \/ (i > n /\ i - n \in {1}))
      BY <1>6, <1>7, <2>1 DEF IsConcat
    <3> QED  BY <1>2, <3>1
  <2>5. \A i \in 1..(n + 1) : i \in 1..n \/ i = n + 1
    BY <1>2
  <2> QED  BY <2>1, <2>2, <2>3, <2>4, <2>5
<1>9. Len(front) = n + 1
  BY <1>2, <1>8, SeqIs
<1>10. IsConcat(front, after, front \o after)
  BY <1>6, <1>8, ConcatIs
<1> DEFINE all == front \o after
<1>11. Inserted(ask, b, due) = all
  BY <1>5 DEF front
<1> HIDE DEF all
<1>12. IsSeq(all) /\ n + 1 \in DOMAIN all /\ all[n + 1] = x
  BY <1>2, <1>8, <1>10 DEF IsConcat, all
<1>13. ASSUME NEW k \in DOMAIN all
       PROVE  /\ k \in Nat
              /\ \/ k <= n /\ k \in DOMAIN ask /\ all[k] = ask[k]
                 \/ k = n + 1 /\ all[k] = x
                 \/ k > n + 1 /\ k - 1 \in DOMAIN ask /\ all[k] = ask[k - 1]
  <2>1. k \in Nat /\ (k \in DOMAIN front \/ (k > n + 1 /\ k - (n + 1) \in DOMAIN after))
    BY <1>9, <1>10, <1>13 DEF IsConcat, all
  <2>2. CASE k \in DOMAIN front
    <3>1. all[k] = front[k] /\ k \in 1..(n + 1)
      BY <1>8, <1>10, <2>2 DEF IsConcat, all
    <3> QED  BY <1>1, <1>2, <1>8, <3>1
  <2>3. CASE k > n + 1 /\ k - (n + 1) \in DOMAIN after
    <3>1. k - (n + 1) \in 1..(Len(ask) - n) /\ n + 1 + (k - (n + 1)) = k
      BY <1>2, <1>6, <2>1, <2>3
    <3>2. all[k] = after[k - (n + 1)]
      BY <1>9, <1>10, <2>3, <3>1 DEF IsConcat, all
    <3>3. after[k - (n + 1)] = ask[k - 1]
      <4>1. PICK j \in 1..(Len(ask) - n) : j = k - (n + 1)
        BY <3>1
      <4>2. after[j] = ask[n + j]
        BY ONLY <1>4, <4>1
      <4>3. n + j = k - 1
        BY ONLY <1>1, <1>2, <2>1, <4>1
      <4> QED  BY ONLY <4>1, <4>2, <4>3
    <3> QED  BY <1>1, <1>2, <2>1, <2>3, <3>1, <3>2, <3>3
  <2> QED  BY <2>1, <2>2, <2>3
<1> DEFINE old == [k \in DOMAIN all |-> IF k > n THEN k - 1 ELSE k]
<1>14. old \in [DOMAIN all -> Nat]
  BY <1>2, <1>13
<1>15. \A k \in DOMAIN all : k # n + 1 => old[k] \in DOMAIN ask /\ all[k] = ask[old[k]]
  BY <1>2, <1>13
<1>16. \A k, l \in DOMAIN all : k # n + 1 /\ l # n + 1 /\ old[k] = old[l] => k = l
  BY <1>2, <1>13
<1> HIDE DEF old
<1>17. IsInsert(ask, x, all)
  BY <1>12, <1>14, <1>15, <1>16 DEF IsInsert
<1> QED  BY <1>11, <1>17 DEF x

\* One more request, for a block that we do not have, after all others for it.
LEMMA AskedFor ==
  ASSUME NEW p \in Peers, NEW ask, NEW asked, NEW b, ~AlreadyHave(b), AsksOK(ask, asked),
         \A c \in Blocks : Waits(c, ask, asked),
         NEW more, more = [ask EXCEPT ![p] = Inserted(ask[p], b, asked[b] + 1)],
         NEW later, later = [asked EXCEPT ![b] = asked[b] + 1]
  PROVE  AsksOK(more, later) /\ \A c \in Blocks : Waits(c, more, later)
<1> DEFINE due == asked[b] + 1
           x == [hash |-> b, due |-> due]
<1>1. /\ ask = [q \in Peers |-> ask[q]] /\ DOMAIN ask = Peers /\ \A q \in Peers : IsSeq(ask[q])
      /\ asked \in [Blocks -> Nat \cup {-1}]
  BY DEF AsksOK
<1>2. more = [q \in Peers |-> more[q]] /\ more[p] = Inserted(ask[p], b, due) /\ \A q \in Peers : q # p => more[q] = ask[q]
  BY <1>1
<1>3. IsInsert(ask[p], x, more[p])
  BY <1>1, <1>2, InsertedIs
<1>4. /\ later \in [Blocks -> Nat \cup {-1}]
      /\ \A c \in Blocks : c # b => later[c] = asked[c]
      /\ b \in Blocks => due \in Nat /\ later[b] = due /\ asked[b] < due /\ (asked[b] >= 0 => due # 0)
  <2>1. b \in Blocks => due \in Nat /\ asked[b] < due /\ (asked[b] >= 0 => due # 0)
    BY <1>1
  <2>2. later = [asked EXCEPT ![b] = due]
    OBVIOUS
  <2> HIDE DEF due
  <2>3. \A c \in Blocks : later[c] = IF c = b THEN due ELSE asked[c]
    BY <1>1, <2>2
  <2>4. later \in [Blocks -> Nat \cup {-1}]
    <3>1. CASE b \in Blocks
      BY <1>1, <2>1, <2>2, <3>1
    <3>2. CASE b \notin Blocks
      BY <1>1, <2>2, <3>2
    <3> QED  BY <3>1, <3>2
  <2> QED  BY <2>1, <2>3, <2>4
<1>5. x.hash = b /\ x.due = due /\ x = [hash |-> x.hash, due |-> x.due]
  OBVIOUS
<1> HIDE DEF x, due
<1>6. PICK new \in DOMAIN more[p], old \in [DOMAIN more[p] -> Nat] :
        /\ more[p][new] = x
        /\ \A k \in DOMAIN more[p] : k # new => old[k] \in DOMAIN ask[p] /\ more[p][k] = ask[p][old[k]]
        /\ \A k, l \in DOMAIN more[p] : k # new /\ l # new /\ old[k] = old[l] => k = l
  BY <1>3 DEF IsInsert
<1> DEFINE Was(q, i) == IF q = p THEN old[i] ELSE i
<1>7. ASSUME NEW q \in Peers, NEW i \in DOMAIN more[q], ~(q = p /\ i = new)
      PROVE  Was(q, i) \in DOMAIN ask[q] /\ more[q][i] = ask[q][Was(q, i)]
  BY <1>2, <1>6, <1>7
<1>8. ASSUME NEW q \in Peers, NEW i \in DOMAIN more[q], NEW j \in DOMAIN more[q],
             ~(q = p /\ i = new), ~(q = p /\ j = new), Was(q, i) = Was(q, j)
      PROVE  i = j
  BY <1>6, <1>8
<1> HIDE DEF Was
<1>9. ASSUME NEW q \in Peers, NEW i \in DOMAIN more[q], more[q][i].hash \in Blocks
      PROVE  /\ more[q][i].due \in Nat
             /\ AlreadyHave(more[q][i].hash) \/ more[q][i].due <= later[more[q][i].hash]
  <2>1. CASE q = p /\ i = new
    BY <1>4, <1>5, <1>6, <1>9, <2>1
  <2>2. CASE ~(q = p /\ i = new)
    <3>1. PICK k \in DOMAIN ask[q] : more[q][i] = ask[q][k]
      BY <1>7, <2>2
    <3> DEFINE a == ask[q][k]
    <3>2. a.due \in Nat /\ (AlreadyHave(a.hash) \/ a.due <= asked[a.hash])
      BY <1>9, <3>1 DEF AsksOK
    <3>3. a.hash \in Blocks /\ more[q][i] = a
      BY <1>9, <3>1
    <3> HIDE DEF a
    <3>4. a.hash # b => later[a.hash] = asked[a.hash]
      BY <1>4, <3>3
    <3>5. a.hash = b => a.due <= later[a.hash]
      <4>1. ASSUME a.hash = b PROVE a.due <= asked[b] /\ asked[b] < due /\ later[b] = due /\ due \in Nat
        BY <1>4, <3>2, <3>3, <4>1
      <4>2. asked[b] \in Int \/ b \notin Blocks
        BY <1>1
      <4> QED  BY <3>2, <3>3, <4>1, <4>2
    <3> QED  BY <3>2, <3>3, <3>4, <3>5
  <2> QED  BY <2>1, <2>2
<1>10. ASSUME NEW q \in Peers, NEW i \in DOMAIN more[q], ~(q = p /\ i = new), more[q][i].hash = b, b \in Blocks
       PROVE  more[q][i].due # due
  <2>1. PICK k \in DOMAIN ask[q] : more[q][i] = ask[q][k]
    BY <1>7, <1>10
  <2>2. ask[q][k].due <= asked[b] /\ ask[q][k].due \in Nat
    BY <1>10, <2>1 DEF AsksOK
  <2>3. asked[b] \in Int /\ asked[b] < due /\ due \in Nat
    BY <1>1, <1>4, <1>10
  <2> QED  BY <2>1, <2>2, <2>3
<1>11. ASSUME NEW q \in Peers, NEW r \in Peers, NEW i \in DOMAIN more[q], NEW j \in DOMAIN more[r],
              more[q][i].hash \in Blocks, more[q][i].hash = more[r][j].hash, more[q][i].due = more[r][j].due
       PROVE  q = r /\ i = j
  <2>1. CASE ~(q = p /\ i = new) /\ ~(r = p /\ j = new)
    <3>1. /\ Was(q, i) \in DOMAIN ask[q] /\ more[q][i] = ask[q][Was(q, i)]
          /\ Was(r, j) \in DOMAIN ask[r] /\ more[r][j] = ask[r][Was(r, j)]
      BY <1>7, <2>1
    <3>2. q = r /\ Was(q, i) = Was(r, j)
      BY <1>11, <3>1 DEF AsksOK
    <3> QED  BY <1>8, <2>1, <3>2
  <2>2. CASE q = p /\ i = new /\ ~(r = p /\ j = new)
    BY <1>5, <1>6, <1>10, <1>11, <2>2
  <2>3. CASE r = p /\ j = new /\ ~(q = p /\ i = new)
    BY <1>5, <1>6, <1>10, <1>11, <2>3
  <2> QED  BY <2>1, <2>2, <2>3
<1>12. ASSUME NEW q \in Peers, NEW i \in DOMAIN more[q]
       PROVE  more[q][i] = [hash |-> more[q][i].hash, due |-> more[q][i].due]
  <2>1. CASE q = p /\ i = new
    BY <1>5, <1>6, <2>1
  <2>2. CASE ~(q = p /\ i = new)
    BY <1>7, <2>2 DEF AsksOK
  <2> QED  BY <2>1, <2>2
<1>13. AsksOK(more, later)
  <2>1. IsSeq(more[p])
    BY <1>3 DEF IsInsert
  <2>2. \A q \in Peers : IsSeq(more[q])
    BY <1>1, <1>2, <2>1
  <2> QED  BY ONLY <1>2, <1>4, <1>9, <1>11, <1>12, <2>2 DEF AsksOK
<1>14. ASSUME NEW c \in Blocks, SomeToken(c)
       PROVE  /\ later[c] >= 0
              /\ \A q \in Peers : \A i \in DOMAIN more[q] : more[q][i].hash = c => more[q][i].due # 0
  <2>1. asked[c] >= 0 /\ \A q \in Peers : \A i \in DOMAIN ask[q] : ask[q][i].hash = c => ask[q][i].due # 0
    BY <1>14 DEF Waits
  <2>2. later[c] >= 0 /\ (c = b => due # 0)
    BY <1>4, <2>1
  <2>3. ASSUME NEW q \in Peers, NEW i \in DOMAIN more[q], more[q][i].hash = c PROVE more[q][i].due # 0
    <3>1. CASE q = p /\ i = new
      BY <1>5, <1>6, <2>2, <2>3, <3>1
    <3>2. CASE ~(q = p /\ i = new)
      BY <1>7, <2>1, <2>3, <3>2
    <3> QED  BY <3>1, <3>2
  <2> QED  BY <2>2, <2>3
<1> QED  BY <1>13, <1>14 DEF Waits

\* Requests for blocks and nothing else.
OnlyGetBlocks(c) == IsSeq(c) /\ \A i \in DOMAIN c : c[i].type = "getblocks"
\* Such are the messages of PushGetBlocks.
LEMMA GetBlocksOnly == \A begin, end, last : OnlyGetBlocks(GetBlocksFor(begin, end, last))
<1> TAKE begin, end, last
<1> DEFINE m == [type |-> "getblocks", vHave |-> Locate(begin), hashStop |-> end]
<1>1. m.type = "getblocks"
  OBVIOUS
<1> HIDE DEF m
<1>2. OnlyGetBlocks(<<>>) /\ OnlyGetBlocks(<<m>>)
  BY <1>1, ShortSeqs DEF OnlyGetBlocks
<1> QED  BY <1>2 DEF GetBlocksFor, m

\* One batch of them behind another.
LEMMA MoreGetBlocks ==
  ASSUME NEW c, NEW d, OnlyGetBlocks(c), OnlyGetBlocks(d) PROVE OnlyGetBlocks(c \o d)
<1>1. IsConcat(c, d, c \o d)
  BY ConcatIs DEF OnlyGetBlocks
<1> DEFINE e == c \o d
<1> HIDE DEF e
<1>2. IsConcat(c, d, e)
  BY <1>1 DEF e
<1>3. OnlyGetBlocks(e)
  BY <1>2 DEF IsConcat, OnlyGetBlocks
<1> QED  BY <1>3 DEF e

\* What an inv from p has changed so far leaves the requests in order.
HeardOK(p, s) ==
  /\ s = [asked |-> s.asked, ask |-> s.ask, last |-> s.last, out |-> s.out]
  /\ AsksOK([mapAskFor EXCEPT ![p] = s.ask], s.asked)
  /\ \A c \in Blocks : Waits(c, [mapAskFor EXCEPT ![p] = s.ask], s.asked)
  /\ OnlyGetBlocks(s.out)

\* One entry of it does.
LEMMA HeardOne ==
  ASSUME NEW p \in Peers, NEW s, HeardOK(p, s), NEW b
  PROVE  HeardOK(p, HearOf(s, b))
<1>1. CASE ~AlreadyHave(b)
  <2> DEFINE ask == [mapAskFor EXCEPT ![p] = s.ask]
             due == s.asked[b] + 1
             more == [mapAskFor EXCEPT ![p] = Inserted(s.ask, b, due)]
             later == [s.asked EXCEPT ![b] = due]
             t == [asked |-> later, ask |-> Inserted(s.ask, b, due), last |-> s.last, out |-> s.out]
  <2>1. p \in DOMAIN mapAskFor
    <3>1. DOMAIN [mapAskFor EXCEPT ![p] = s.ask] = Peers
      BY DEF HeardOK, AsksOK
    <3> QED  BY <3>1
  <2>2. ask[p] = s.ask /\ more = [ask EXCEPT ![p] = Inserted(ask[p], b, due)]
    BY <2>1
  <2>3. AsksOK(ask, s.asked) /\ \A c \in Blocks : Waits(c, ask, s.asked)
    BY DEF HeardOK
  <2>4. HearOf(s, b) = t
    <3>1. HearOf(s, b) = [s EXCEPT !.asked[b] = due, !.ask = Inserted(s.ask, b, due)]
      BY <1>1 DEF HearOf, AskFor
    <3>2. s = [asked |-> s.asked, ask |-> s.ask, last |-> s.last, out |-> s.out]
      BY DEF HeardOK
    <3> HIDE DEF due
    <3> QED  BY <3>1, <3>2
  <2>5. t.asked = later /\ t.ask = Inserted(s.ask, b, due) /\ t.last = s.last /\ t.out = s.out
        /\ t = [asked |-> later, ask |-> Inserted(s.ask, b, due), last |-> s.last, out |-> s.out]
    OBVIOUS
  <2> HIDE DEF ask, more, later
  <2>6. AsksOK(more, later) /\ \A c \in Blocks : Waits(c, more, later)
    <3>1. later = [s.asked EXCEPT ![b] = s.asked[b] + 1]
      BY DEF later
    <3>2. more = [ask EXCEPT ![p] = Inserted(ask[p], b, s.asked[b] + 1)]
      BY <2>2
    <3> HIDE DEF due, t
    <3> QED  BY ONLY <1>1, <2>3, <3>1, <3>2, p \in Peers, AskedFor
  <2> HIDE DEF due, t
  <2>7. HeardOK(p, t)
    <3>1. OnlyGetBlocks(t.out)
      BY <2>5 DEF HeardOK
    <3>2. [mapAskFor EXCEPT ![p] = t.ask] = more
      BY <2>5 DEF more
    <3> QED  BY <2>5, <2>6, <3>1, <3>2 DEF HeardOK
  <2> QED  BY <2>4, <2>7
<1>2. CASE AlreadyHave(b) /\ b \notin mapOrphanBlocks
  BY <1>2 DEF HearOf
<1>3. CASE AlreadyHave(b) /\ b \in mapOrphanBlocks
  <2> DEFINE root == GetOrphanRoot(b, mapOrphanBlocks)
             out == s.out \o GetBlocksFor(pindexBest, root, s.last)
             t == [asked |-> s.asked, ask |-> s.ask, last |-> <<pindexBest, root>>, out |-> out]
  <2>1. HearOf(s, b) = t
    <3>1. s = [asked |-> s.asked, ask |-> s.ask, last |-> s.last, out |-> s.out]
      BY DEF HeardOK
    <3>2. HearOf(s, b) = [s EXCEPT !.out = out, !.last = <<pindexBest, root>>]
      BY <1>3 DEF HearOf
    <3> HIDE DEF out, root
    <3> QED  BY <3>1, <3>2
  <2>2. OnlyGetBlocks(out)
    <3>1. OnlyGetBlocks(s.out) /\ OnlyGetBlocks(GetBlocksFor(pindexBest, root, s.last))
      BY GetBlocksOnly DEF HeardOK
    <3> HIDE DEF root
    <3> QED  BY <3>1, MoreGetBlocks
  <2>3. t.asked = s.asked /\ t.ask = s.ask /\ t.out = out
        /\ t = [asked |-> t.asked, ask |-> t.ask, last |-> t.last, out |-> t.out]
    OBVIOUS
  <2> HIDE DEF t, out, root
  <2> QED  BY <2>1, <2>2, <2>3 DEF HeardOK
<1> QED  BY <1>1, <1>2, <1>3

\* All of them do.
LEMMA HeardAll ==
  ASSUME NEW p \in Peers, AsksOK(mapAskFor, mapAlreadyAskedFor),
         \A c \in Blocks : Waits(c, mapAskFor, mapAlreadyAskedFor), NEW vInv, IsSeq(vInv)
  PROVE  HeardOK(p, HearOfAll(p, vInv))
<1> DEFINE first == [asked |-> mapAlreadyAskedFor, ask |-> mapAskFor[p], last |-> lastGetBlocks[p],
                     out |-> <<>>]
           Next1(f, k) == IF k = 0 THEN first ELSE HearOf(f[k - 1], vInv[k])
           s[k \in 0..Len(vInv)] == Next1(s, k)
           Goes1(f, l) == f = [k \in 0..l |-> Next1(f, k)]
           X == {l \in Nat : \E f : Goes1(f, l)}
<1>1. Len(vInv) \in Nat
  BY SeqIs
<1>2. 0 \in X
  <2>1. Goes1([k \in 0..0 |-> first], 0)
    OBVIOUS
  <2> QED  BY <2>1
<1>3. ASSUME NEW l \in Nat, l \in X PROVE l + 1 \in X
  <2>1. PICK f : Goes1(f, l)
    BY <1>3
  <2> DEFINE g == [k \in 0..(l + 1) |-> IF k = l + 1 THEN HearOf(f[l], vInv[l + 1]) ELSE f[k]]
  <2> HIDE DEF first
  <2>2. ASSUME NEW k \in 0..(l + 1) PROVE g[k] = Next1(g, k)
    <3>1. CASE k = l + 1
      <4>1. k # 0 /\ k - 1 = l /\ l \in 0..(l + 1) /\ l # l + 1
        BY <3>1
      <4>2. g[l] = f[l]
        BY <4>1
      <4>3. g[k] = HearOf(f[l], vInv[k])
        BY <3>1
      <4> HIDE DEF g
      <4> QED  BY <4>1, <4>2, <4>3
    <3>2. CASE k # l + 1
      <4>1. k \in 0..l /\ (k # 0 => k - 1 \in 0..(l + 1) /\ k - 1 # l + 1)
        BY <2>2, <3>2
      <4>2. g[k] = f[k] /\ (k # 0 => g[k - 1] = f[k - 1])
        BY <3>2, <4>1
      <4>3. f[k] = Next1(f, k)
        BY <2>1, <4>1
      <4> HIDE DEF g
      <4> QED  BY <4>2, <4>3
    <3> QED  BY <3>1, <3>2
  <2>3. g = [k \in 0..(l + 1) |-> g[k]]
    OBVIOUS
  <2> HIDE DEF g, Next1
  <2>4. Goes1(g, l + 1)
    BY <2>2, <2>3
  <2> QED  BY <2>4
<1>4. Len(vInv) \in X
  <2> HIDE DEF X
  <2> QED  BY <1>1, <1>2, <1>3, Induction
<1>5. Goes1(s, Len(vInv))
  <2>1. \E f : Goes1(f, Len(vInv))
    BY <1>4
  <2>2. s = CHOOSE f : Goes1(f, Len(vInv))
    BY DEF s
  <2> HIDE DEF s, Goes1
  <2> QED  BY <2>1, <2>2
<1>6. \A k \in 0..Len(vInv) : s[k] = Next1(s, k)
  <2> HIDE DEF s, Next1
  <2> QED  BY <1>5
<1> DEFINE Y == {k \in Nat : k <= Len(vInv) => HeardOK(p, s[k])}
<1> HIDE DEF s
<1>7. 0 \in Y
  <2>1. s[0] = first
    BY <1>1, <1>6
  <2>2. first.ask = mapAskFor[p] /\ first.asked = mapAlreadyAskedFor /\ first.out = <<>>
        /\ first = [asked |-> first.asked, ask |-> first.ask, last |-> first.last, out |-> first.out]
    OBVIOUS
  <2> HIDE DEF first
  <2>3. [mapAskFor EXCEPT ![p] = mapAskFor[p]] = mapAskFor
    <3>1. mapAskFor = [q \in Peers |-> mapAskFor[q]]
      BY DEF AsksOK
    <3> QED  BY <3>1
  <2>4. OnlyGetBlocks(<<>>)
    BY ShortSeqs DEF OnlyGetBlocks
  <2>5. HeardOK(p, first)
    BY <2>2, <2>3, <2>4 DEF HeardOK
  <2> QED  BY <2>1, <2>5
<1>8. ASSUME NEW k \in Nat, k \in Y PROVE k + 1 \in Y
  <2> SUFFICES ASSUME k + 1 <= Len(vInv) PROVE HeardOK(p, s[k + 1])
    OBVIOUS
  <2>1. HeardOK(p, s[k])
    BY <1>1, <1>8
  <2>2. s[k + 1] = HearOf(s[k], vInv[k + 1])
    <3>1. k + 1 \in 0..Len(vInv) /\ k + 1 # 0 /\ (k + 1) - 1 = k
      BY <1>1
    <3> QED  BY <1>6, <3>1
  <2> HIDE DEF first
  <2> QED  BY <2>1, <2>2, HeardOne
<1>9. Len(vInv) \in Y
  <2> HIDE DEF Y
  <2> QED  BY <1>1, <1>7, <1>8, Induction
<1>10. HearOfAll(p, vInv) = s[Len(vInv)]
  BY DEF HearOfAll, s
<1> QED  BY <1>1, <1>9, <1>10

\* What has been sent for the first k entries of a getdata: each block once, and no other.
Served(vInv, k, out) ==
  /\ FromOK(out)
  /\ \A i \in DOMAIN out :
       /\ out[i].type \in {"block", "inv"}
       /\ out[i].type = "block" => \E l \in 1..k : vInv[l] = out[i].block
  /\ \A i, j \in DOMAIN out :
       out[i].type = "block" /\ out[j].type = "block" /\ out[i].block \in Blocks
         /\ out[i].block = out[j].block
       => i = j
\* The names of the blocks of a request.
NamesOnce(vInv) ==
  /\ IsSeq(vInv)
  /\ \A i, j \in DOMAIN vInv : vInv[i] \in Blocks /\ vInv[i] = vInv[j] => i = j

\* One more block, the next that is named.
LEMMA ServedBlock ==
  ASSUME NEW vInv, NamesOnce(vInv), NEW k \in Nat, k + 1 <= Len(vInv), NEW out, Served(vInv, k, out)
  PROVE  Served(vInv, k + 1, Append(out, [type |-> "block", block |-> vInv[k + 1]]))
<1> DEFINE m == [type |-> "block", block |-> vInv[k + 1]]
           u == Append(out, m)
<1>1. IsSeq(vInv) /\ Len(vInv) \in Nat /\ DOMAIN vInv = 1..Len(vInv)
  BY SeqIs DEF NamesOnce
<1>2. m.type = "block" /\ m.block = vInv[k + 1]
  OBVIOUS
<1> HIDE DEF m
<1>3. IsMore(out, m, u)
  BY AppendIsMore DEF Served, FromOK
<1> HIDE DEF u
<1>4. PICK new \in Nat : /\ new \notin DOMAIN out /\ new \in DOMAIN u /\ u[new] = m
                         /\ \A i \in DOMAIN u : i = new \/ (i \in DOMAIN out /\ u[i] = out[i])
  BY <1>3 DEF IsMore
<1>5. FromOK(u)
  BY <1>2, <1>3, <1>4 DEF FromOK, IsMore, Served, IsAnswer
<1>6. ASSUME NEW i \in DOMAIN u
      PROVE  /\ u[i].type \in {"block", "inv"}
             /\ u[i].type = "block" => \E l \in 1..(k + 1) : vInv[l] = u[i].block
  <2>1. CASE i = new
    BY <1>2, <1>4, <2>1
  <2>2. CASE i \in DOMAIN out /\ u[i] = out[i]
    <3>1. \A l \in 1..k : l \in 1..(k + 1)
      OBVIOUS
    <3> QED  BY <2>2, <3>1 DEF Served
  <2> QED  BY <1>4, <2>1, <2>2
<1>7. ASSUME NEW i \in DOMAIN out, out[i].type = "block", out[i].block \in Blocks
      PROVE  out[i].block # vInv[k + 1]
  <2>1. PICK l \in 1..k : vInv[l] = out[i].block
    BY <1>7 DEF Served
  <2>2. l \in DOMAIN vInv /\ k + 1 \in DOMAIN vInv /\ l # k + 1
    BY <1>1
  <2> QED  BY <1>7, <2>1, <2>2 DEF NamesOnce
<1>8. ASSUME NEW i \in DOMAIN u, NEW j \in DOMAIN u, u[i].type = "block", u[j].type = "block",
             u[i].block \in Blocks, u[i].block = u[j].block
      PROVE  i = j
  <2>1. CASE i = new /\ j # new
    BY <1>2, <1>4, <1>7, <1>8, <2>1
  <2>2. CASE j = new /\ i # new
    BY <1>2, <1>4, <1>7, <1>8, <2>2
  <2>3. CASE i # new /\ j # new
    BY <1>4, <1>8, <2>3 DEF Served
  <2> QED  BY <2>1, <2>2, <2>3
<1>9. Served(vInv, k + 1, u)
  BY <1>5, <1>6, <1>8 DEF Served
<1> QED  BY <1>9 DEF u, m

\* And an announcement.
LEMMA ServedInv ==
  ASSUME NEW vInv, NEW k, NEW out, Served(vInv, k, out), NEW b
  PROVE  Served(vInv, k, Append(out, [type |-> "inv", vInv |-> <<b>>]))
<1> DEFINE m == [type |-> "inv", vInv |-> <<b>>]
           u == Append(out, m)
<1>1. m.type = "inv" /\ IsSeq(m.vInv)
  BY ShortSeqs
<1> HIDE DEF m
<1>2. IsMore(out, m, u)
  BY AppendIsMore DEF Served, FromOK
<1> HIDE DEF u
<1>3. PICK new \in Nat : /\ new \notin DOMAIN out /\ new \in DOMAIN u /\ u[new] = m
                         /\ \A i \in DOMAIN u : i = new \/ (i \in DOMAIN out /\ u[i] = out[i])
  BY <1>2 DEF IsMore
<1>4. FromOK(u)
  BY <1>1, <1>2, <1>3 DEF FromOK, IsMore, Served, IsAnswer
<1>5. \A i \in DOMAIN u : /\ u[i].type \in {"block", "inv"}
                          /\ u[i].type = "block" => i \in DOMAIN out /\ u[i] = out[i]
  BY <1>1, <1>3 DEF Served
<1>6. Served(vInv, k, u)
  BY <1>4, <1>5 DEF Served
<1> QED  BY <1>6 DEF u, m

\* A longer beginning.
LEMMA ServedOn ==
  ASSUME NEW vInv, NEW k \in Nat, NEW out, Served(vInv, k, out) PROVE Served(vInv, k + 1, out)
<1>1. \A l \in 1..k : l \in 1..(k + 1)
  OBVIOUS
<1> QED  BY <1>1 DEF Served

\* What a peer sends in answer to a request.
LEMMA ServedAll ==
  ASSUME NEW p, NEW vInv, NamesOnce(vInv)
  PROVE  Served(vInv, Len(vInv), ServeAll(p, vInv).out)
<1> DEFINE first == [out |-> <<>>, continue |-> hashContinue[p]]
           Next1(f, k) == IF k = 0 THEN first ELSE SendOne(p, f[k - 1], vInv[k])
           s[k \in 0..Len(vInv)] == Next1(s, k)
           Goes1(f, l) == f = [k \in 0..l |-> Next1(f, k)]
           X == {l \in Nat : \E f : Goes1(f, l)}
<1>1. IsSeq(vInv) /\ Len(vInv) \in Nat
  BY SeqIs DEF NamesOnce
<1>2. 0 \in X
  <2>1. Goes1([k \in 0..0 |-> first], 0)
    OBVIOUS
  <2> QED  BY <2>1
<1>3. ASSUME NEW l \in Nat, l \in X PROVE l + 1 \in X
  <2>1. PICK f : Goes1(f, l)
    BY <1>3
  <2> DEFINE g == [k \in 0..(l + 1) |-> IF k = l + 1 THEN SendOne(p, f[l], vInv[l + 1]) ELSE f[k]]
  <2> HIDE DEF first
  <2>2. ASSUME NEW k \in 0..(l + 1) PROVE g[k] = Next1(g, k)
    <3>1. CASE k = l + 1
      <4>1. k # 0 /\ k - 1 = l /\ l \in 0..(l + 1) /\ l # l + 1
        BY <3>1
      <4>2. g[l] = f[l]
        BY <4>1
      <4>3. g[k] = SendOne(p, f[l], vInv[k])
        BY <3>1
      <4> HIDE DEF g
      <4> QED  BY <4>1, <4>2, <4>3
    <3>2. CASE k # l + 1
      <4>1. k \in 0..l /\ (k # 0 => k - 1 \in 0..(l + 1) /\ k - 1 # l + 1)
        BY <2>2, <3>2
      <4>2. g[k] = f[k] /\ (k # 0 => g[k - 1] = f[k - 1])
        BY <3>2, <4>1
      <4>3. f[k] = Next1(f, k)
        BY <2>1, <4>1
      <4> HIDE DEF g
      <4> QED  BY <4>2, <4>3
    <3> QED  BY <3>1, <3>2
  <2>3. g = [k \in 0..(l + 1) |-> g[k]]
    OBVIOUS
  <2> HIDE DEF g, Next1
  <2>4. Goes1(g, l + 1)
    BY <2>2, <2>3
  <2> QED  BY <2>4
<1>4. Len(vInv) \in X
  <2> HIDE DEF X
  <2> QED  BY <1>1, <1>2, <1>3, Induction
<1>5. Goes1(s, Len(vInv))
  <2>1. \E f : Goes1(f, Len(vInv))
    BY <1>4
  <2>2. s = CHOOSE f : Goes1(f, Len(vInv))
    BY DEF s
  <2> HIDE DEF s, Goes1
  <2> QED  BY <2>1, <2>2
<1>6. \A k \in 0..Len(vInv) : s[k] = Next1(s, k)
  <2> HIDE DEF s, Next1
  <2> QED  BY <1>5
<1> DEFINE Good(t, k) == t = [out |-> t.out, continue |-> t.continue] /\ Served(vInv, k, t.out)
           Y == {k \in Nat : k <= Len(vInv) => Good(s[k], k)}
<1> HIDE DEF s
<1>7. 0 \in Y
  <2>1. s[0] = first
    BY <1>1, <1>6
  <2>2. first.out = <<>> /\ first = [out |-> first.out, continue |-> first.continue]
    OBVIOUS
  <2> HIDE DEF first
  <2>3. Served(vInv, 0, <<>>)
    BY ShortSeqs DEF Served, FromOK
  <2> QED  BY <2>1, <2>2, <2>3
<1>8. ASSUME NEW k \in Nat, k \in Y PROVE k + 1 \in Y
  <2> SUFFICES ASSUME k + 1 <= Len(vInv) PROVE Good(s[k + 1], k + 1)
    OBVIOUS
  <2>1. Good(s[k], k)
    BY <1>1, <1>8
  <2>2. s[k + 1] = SendOne(p, s[k], vInv[k + 1])
    <3>1. k + 1 \in 0..Len(vInv) /\ k + 1 # 0 /\ (k + 1) - 1 = k
      BY <1>1
    <3> QED  BY <1>6, <3>1
  <2> HIDE DEF first
  <2>3. PICK t : t = s[k] /\ t = [out |-> t.out, continue |-> t.continue] /\ Served(vInv, k, t.out)
    BY <2>1
  <2> DEFINE b == vInv[k + 1]
             sent == Append(t.out, [type |-> "block", block |-> b])
             more == Append(sent, [type |-> "inv", vInv |-> <<tip[p]>>])
  <2>4. Served(vInv, k + 1, sent) /\ Served(vInv, k + 1, t.out)
    BY <2>3, ServedBlock, ServedOn
  <2>5. Served(vInv, k + 1, more)
    <3> HIDE DEF sent
    <3> QED  BY <2>4, ServedInv
  <2>6. \/ SendOne(p, t, b) = t
        \/ SendOne(p, t, b) = [t EXCEPT !.out = sent]
        \/ SendOne(p, t, b) = [out |-> more, continue |-> NoBlock]
    BY DEF SendOne
  <2> HIDE DEF sent, more, b
  <2>7. [t EXCEPT !.out = sent] = [out |-> sent, continue |-> t.continue]
    BY <2>3
  <2>8. PICK u : u = SendOne(p, t, b)
    OBVIOUS
  <2>9. Good(u, k + 1)
    BY <2>3, <2>4, <2>5, <2>6, <2>7, <2>8
  <2> QED  BY <2>2, <2>3, <2>8, <2>9 DEF b
<1>9. Len(vInv) \in Y
  <2> HIDE DEF Y
  <2> QED  BY <1>1, <1>7, <1>8, Induction
<1>10. ServeAll(p, vInv) = s[Len(vInv)]
  BY DEF ServeAll, s
<1> QED  BY <1>1, <1>9, <1>10

\* What a peer announces is a sequence.
LEMMA AnnouncedIs ==
  ASSUME NEW p, IsSeq(vInventoryToSend[p]), NEW s, IsSeq(s) PROVE IsSeq(Announced(p, s))
<1> DEFINE I == {i \in DOMAIN s : s[i] \notin setInventoryKnown[p]}
           t == Those(s, I)
<1>1. IsSeq(t)
  <2>1. I \subseteq DOMAIN s
    OBVIOUS
  <2> HIDE DEF I
  <2>2. IsPick(s, I, Those(s, I))
    BY <2>1, ThoseAre
  <2> QED  BY <2>2 DEF IsPick
<1>2. Announced(p, s) = vInventoryToSend[p] \o t
  BY DEF Announced
<1> HIDE DEF t
<1>3. IsConcat(vInventoryToSend[p], t, vInventoryToSend[p] \o t)
  BY <1>1, ConcatIs
<1> QED  BY <1>2, <1>3 DEF IsConcat

\* So are the blocks after one, and as many of them as a batch has.
LEMMA BatchIs ==
  ASSUME NEW best, NEW b, NEW stop, NEW limit
  PROVE  LET rest == After(best, b) IN IsSeq(SubSeq(rest, 1, Batch(rest, stop, limit).n))
<1> DEFINE S == {c \in Blocks : c \in Branch[best] /\ Height[c] > Height[b]}
           size == Cardinality(S)
           rest == After(best, b)
<1>1. size \in Nat
  <2>1. IsFiniteSet(Blocks) /\ S \in SUBSET Blocks
    BY LocatorAssumption DEF LocatorAssumption
  <2> HIDE DEF S
  <2>2. IsFiniteSet(S)
    BY <2>1, FS_Subset
  <2> QED  BY <2>2, FS_CardinalityType
<1>2. IsSeq(rest)
  <2>1. rest = [i \in 1..size |-> AtHeight(best, Height[b] + i)]
    BY DEF After
  <2> HIDE DEF rest, size
  <2>2. DOMAIN rest = 1..size /\ rest = [i \in 1..size |-> rest[i]]
    BY <2>1
  <2> QED  BY <1>1, <2>2, FirstNumbers
<1>3. Len(rest) \in Nat
  <2> HIDE DEF rest
  <2> QED  BY <1>2, SeqIs
<1> HIDE DEF rest, size, S
<1>4. Batch(rest, stop, limit).n \in Nat
  <2> DEFINE nBytes[n \in 0..Len(rest)] == IF n = 0 THEN 0 ELSE nBytes[n - 1] + Size[rest[n]]
             limits == {n \in 1..Len(rest) : n >= limit \/ nBytes[n] >= ByteLimit}
             stops == {n \in 0..Len(rest) - 1 : rest[n + 1] = stop} \cup {Len(rest)}
             end == CHOOSE n \in limits \cup stops : \A m \in limits \cup stops : n <= m
  <2>1. Batch(rest, stop, limit) = [n |-> end, more |-> end \in limits]
    BY DEF Batch
  <2>2. Batch(rest, stop, limit).n = end
    <3> HIDE DEF end, limits
    <3> QED  BY <2>1
  <2> HIDE DEF nBytes
  <2> DEFINE ends == limits \cup stops
  <2>3. ends \subseteq Nat /\ ends # {}
    BY <1>3
  <2>4. end = CHOOSE n \in ends : \A m \in ends : n <= m
    OBVIOUS
  <2> HIDE DEF ends, end
  <2>5. \E n \in ends : \A m \in ends : n <= m
    BY <2>3, LeastNatural
  <2>6. end \in ends
    BY <2>4, <2>5
  <2> QED  BY <2>2, <2>3, <2>6
<1> DEFINE n == Batch(rest, stop, limit).n
           T == {rest[i] : i \in 1..n}
<1>5. SubSeq(rest, 1, n) \in Seq(T)
  <2>1. \A i \in 1..n : rest[i] \in T
    OBVIOUS
  <2>2. n \in Int
    BY <1>4
  <2> HIDE DEF T, n
  <2> QED  BY <2>1, <2>2, SubSeqProperties
<1>6. IsSeq(SubSeq(rest, 1, n))
  <2> HIDE DEF T, n
  <2> QED  BY <1>5, AnySeq
<1> QED  BY <1>6 DEF rest

-----------------------------------------------------------------------------
\* Messages are taken and moved up, and no request is sent.
TokensMoved(off) ==
  \A b \in Blocks : \A p \in Peers : \A v \in Ways : \A i \in Nat :
    Token(b, p, v, i)' => Token(b, p, v, i + off[p][v])

\* What is under way stays so, and once.
LEMMA TokensStay ==
  ASSUME TokensOK, NEW off \in [Peers -> [Ways -> Nat]], TokensMoved(off),
         \A b \in Blocks : AlreadyHave(b)' => AlreadyHave(b) \/ ~SomeToken(b)'
  PROVE  TokensOK' /\ \A b \in Blocks : SomeToken(b)' => SomeToken(b)
<1>1. \A p \in Peers : \A v \in Ways : off[p][v] \in Nat
  OBVIOUS
<1>2. ASSUME NEW b \in Blocks, SomeToken(b)' PROVE SomeToken(b)
  <2>1. PICK p \in Peers, v \in Ways, i \in Nat : Token(b, p, v, i)'
    BY <1>2 DEF SomeToken
  <2>2. Token(b, p, v, i + off[p][v]) /\ i + off[p][v] \in Nat
    BY <1>1, <2>1 DEF TokensMoved
  <2> QED  BY <2>2 DEF SomeToken
<1>3. ASSUME NEW b \in Blocks, NEW p \in Peers, NEW q \in Peers, NEW v \in Ways, NEW w \in Ways,
             NEW i \in Nat, NEW j \in Nat, Token(b, p, v, i)', Token(b, q, w, j)'
      PROVE  p = q /\ v = w /\ i = j
  <2>1. Token(b, p, v, i + off[p][v]) /\ Token(b, q, w, j + off[q][w])
    BY <1>3 DEF TokensMoved
  <2>2. i + off[p][v] \in Nat /\ j + off[q][w] \in Nat /\ off[p][v] \in Nat /\ off[q][w] \in Nat
    BY <1>1
  <2>3. p = q /\ v = w /\ i + off[p][v] = j + off[q][w]
    BY <2>1, <2>2 DEF TokensOK
  <2> QED  BY <2>2, <2>3
<1>4. \A b \in Blocks : AlreadyHave(b)' => ~SomeToken(b)'
  BY <1>2 DEF TokensOK
<1> QED  BY <1>2, <1>3, <1>4 DEF TokensOK

\* A step that asks nothing and brings nothing.
LEMMA QuietStep ==
  ASSUME SyncInv, UNCHANGED <<mapAskFor, mapAlreadyAskedFor, chainVars>>, ChannelsOK',
         NEW off \in [Peers -> [Ways -> Nat]], TokensMoved(off)
  PROVE  SyncInv'
<1>1. \A b : AlreadyHave(b)' <=> AlreadyHave(b)
  BY DEF AlreadyHave, chainVars
<1>2. TokensOK' /\ \A b \in Blocks : SomeToken(b)' => SomeToken(b)
  BY <1>1, TokensStay DEF SyncInv
<1>3. AsksOK(mapAskFor, mapAlreadyAskedFor)'
  <2>1. AsksOK(mapAskFor, mapAlreadyAskedFor)
    BY DEF SyncInv
  <2> QED  BY <1>1, <2>1 DEF AsksOK
<1>4. \A b \in Blocks : Waits(b, mapAskFor, mapAlreadyAskedFor)'
  BY <1>2 DEF SyncInv, Waits
<1> QED  BY <1>2, <1>3, <1>4 DEF SyncInv

\* Channels stay in order when a message is taken, or sent.
LEMMA TailOK ==
  ASSUME NEW c, c # <<>>
  PROVE  /\ ToOK(c) => ToOK(Tail(c)) /\ IsTail(c, Tail(c))
         /\ FromOK(c) => FromOK(Tail(c)) /\ IsTail(c, Tail(c))
<1> DEFINE t == Tail(c)
<1>1. IsSeq(c) => IsTail(c, t)
  BY TailIs
<1> HIDE DEF t
<1>2. ASSUME IsTail(c, t) PROVE (ToOK(c) => ToOK(t)) /\ (FromOK(c) => FromOK(t))
  BY <1>2 DEF ToOK, FromOK, IsTail
<1> QED  BY <1>1, <1>2 DEF t, ToOK, FromOK

\* The same when several are sent.
LEMMA ConcatOK ==
  ASSUME NEW c, NEW d
  PROVE  /\ ToOK(c) /\ ToOK(d) => ToOK(c \o d) /\ IsConcat(c, d, c \o d)
         /\ FromOK(c) /\ FromOK(d) => FromOK(c \o d) /\ IsConcat(c, d, c \o d)
<1> DEFINE u == c \o d
<1>1. IsSeq(c) /\ IsSeq(d) => IsConcat(c, d, u)
  BY ConcatIs
<1> HIDE DEF u
<1>2. ASSUME IsConcat(c, d, u)
      PROVE  (ToOK(c) /\ ToOK(d) => ToOK(u)) /\ (FromOK(c) /\ FromOK(d) => FromOK(u))
  BY <1>2 DEF ToOK, FromOK, IsConcat
<1> QED  BY <1>1, <1>2 DEF u, ToOK, FromOK

\* And one.
LEMMA AppendOK ==
  ASSUME NEW c, NEW m
  PROVE  /\ ToOK(c) /\ IsRequest(m) => ToOK(Append(c, m)) /\ IsMore(c, m, Append(c, m))
         /\ FromOK(c) /\ IsAnswer(m) => FromOK(Append(c, m)) /\ IsMore(c, m, Append(c, m))
<1> DEFINE u == Append(c, m)
<1>1. IsSeq(c) => IsMore(c, m, u)
  BY AppendIsMore
<1> HIDE DEF u
<1>2. ASSUME IsMore(c, m, u)
      PROVE  (ToOK(c) /\ IsRequest(m) => ToOK(u)) /\ (FromOK(c) /\ IsAnswer(m) => FromOK(u))
  BY <1>2 DEF ToOK, FromOK, IsMore
<1> QED  BY <1>1, <1>2 DEF u, ToOK, FromOK

\* A getblocks is a request, and carries no block.
LEMMA GetBlocksOK ==
  ASSUME NEW c, OnlyGetBlocks(c)
  PROVE  ToOK(c) /\ \A i \in DOMAIN c : \A b : ~Carries(c[i], b)
<1>1. \A i \in DOMAIN c : c[i].type # "getdata" /\ c[i].type # "block"
  BY DEF OnlyGetBlocks
<1> QED  BY <1>1 DEF OnlyGetBlocks, ToOK, IsRequest, Carries

\* What the invariant says of a channel and of the tables.
LEMMA Parts ==
  ASSUME SyncInv, NEW p \in Peers
  PROVE  /\ IsSeq(vInventoryToSend[p]) /\ ToOK(toPeer[p]) /\ FromOK(fromPeer[p])
         /\ vInventoryToSend = [q \in Peers |-> vInventoryToSend[q]]
         /\ toPeer = [q \in Peers |-> toPeer[q]] /\ fromPeer = [q \in Peers |-> fromPeer[q]]
         /\ mapAskFor = [q \in Peers |-> mapAskFor[q]] /\ IsSeq(mapAskFor[p])
         /\ DOMAIN vInventoryToSend = Peers /\ DOMAIN toPeer = Peers /\ DOMAIN fromPeer = Peers
         /\ DOMAIN mapAskFor = Peers
         /\ mapAlreadyAskedFor \in [Blocks -> Nat \cup {-1}]
BY DEF SyncInv, ChannelsOK, AsksOK

\* A table in which the entry of p is another.
LEMMA Changed ==
  ASSUME NEW f, f = [q \in Peers |-> f[q]], NEW p \in Peers, NEW x, NEW g, g = [f EXCEPT ![p] = x]
  PROVE  g = [q \in Peers |-> g[q]] /\ g[p] = x /\ \A q \in Peers : q # p => g[q] = f[q]
OBVIOUS

\* Where the messages of one way to or from p have moved up.
Off(p, way) == [q \in Peers |-> [v \in Ways |-> IF q = p /\ v = way THEN 1 ELSE 0]]
\* It is a table of numbers.
LEMMA OffIs ==
  ASSUME NEW p, NEW way
  PROVE  /\ Off(p, way) \in [Peers -> [Ways -> Nat]]
         /\ \A q \in Peers, v \in Ways : Off(p, way)[q][v] = IF q = p /\ v = way THEN 1 ELSE 0
BY DEF Off

\* The messages that there were, moved up where one was taken; others may have come that carry no block.
LEMMA MovedUp ==
  ASSUME SyncInv, NEW p, NEW way,
         \A q \in Peers : q \in silent => q \in silent' \/ toPeer'[q] = <<>>,
         \A q \in Peers : \A i \in DOMAIN toPeer'[q] :
           /\ i \in Nat
           /\ \/ \A b : ~Carries(toPeer'[q][i], b)
              \/ /\ i + Off(p, way)[q]["to"] \in DOMAIN toPeer[q]
                 /\ toPeer'[q][i] = toPeer[q][i + Off(p, way)[q]["to"]],
         \A q \in Peers : \A i \in DOMAIN fromPeer'[q] :
           /\ i \in Nat
           /\ \/ \A b : ~Carries(fromPeer'[q][i], b)
              \/ /\ i + Off(p, way)[q]["from"] \in DOMAIN fromPeer[q]
                 /\ fromPeer'[q][i] = fromPeer[q][i + Off(p, way)[q]["from"]]
  PROVE  TokensMoved(Off(p, way))
<1> SUFFICES ASSUME NEW b \in Blocks, NEW q \in Peers, NEW v \in Ways, NEW i \in Nat, Token(b, q, v, i)'
             PROVE  Token(b, q, v, i + Off(p, way)[q][v])
  BY DEF TokensMoved
<1>1. CASE v = "to"
  <2>1. q \notin silent /\ i \in DOMAIN toPeer'[q] /\ Carries(toPeer'[q][i], b)
    <3>1. q \notin silent' /\ i \in DOMAIN toPeer'[q] /\ Carries(toPeer'[q][i], b)
      BY <1>1 DEF Token, Carries
    <3>2. toPeer'[q] # <<>>
      BY <3>1
    <3> QED  BY <3>1, <3>2
  <2>2. /\ i + Off(p, way)[q]["to"] \in DOMAIN toPeer[q]
        /\ toPeer'[q][i] = toPeer[q][i + Off(p, way)[q]["to"]]
    BY <2>1
  <2> QED  BY <1>1, <2>1, <2>2 DEF Token
<1>2. CASE v = "from"
  <2>1. i \in DOMAIN fromPeer'[q] /\ Carries(fromPeer'[q][i], b)
    BY <1>2 DEF Token, Carries
  <2>2. /\ i + Off(p, way)[q]["from"] \in DOMAIN fromPeer[q]
        /\ fromPeer'[q][i] = fromPeer[q][i + Off(p, way)[q]["from"]]
    BY <2>1
  <2> QED  BY <1>2, <2>1, <2>2 DEF Token
<1> QED  BY <1>1, <1>2 DEF Ways

\* Tables that no handler changes, and positions that are numbers.
LEMMA Places ==
  ASSUME SyncInv
  PROVE  \A q \in Peers : /\ \A i \in DOMAIN toPeer[q] : i \in Nat
                          /\ \A i \in DOMAIN fromPeer[q] : i \in Nat
<1> TAKE q \in Peers
<1>1. IsSeq(toPeer[q]) /\ IsSeq(fromPeer[q])
  BY Parts DEF ToOK, FromOK
<1>2. DOMAIN toPeer[q] = 1..Len(toPeer[q]) /\ DOMAIN fromPeer[q] = 1..Len(fromPeer[q])
  BY <1>1, SeqIs
<1>3. Len(toPeer[q]) \in Nat /\ Len(fromPeer[q]) \in Nat
  BY <1>1, SeqIs
<1> QED  BY <1>2, <1>3

\* Receiving a getblocks.
LEMMA ReceiveGetBlocksStep == ASSUME SyncInv, NEW p \in Peers, ReceiveGetBlocks(p) PROVE SyncInv'
<1> DEFINE msg == Head(toPeer[p])
           rest == After(tip[p], GetBlockIndex(msg.vHave, tip[p]))
           batch == Batch(rest, msg.hashStop, Limit(msg.vHave, tip[p]))
           blocks == SubSeq(rest, 1, batch.n)
           box == toPeer[p]
<1>1. /\ toPeer[p] # <<>>
      /\ vInventoryToSend' = [vInventoryToSend EXCEPT ![p] = Announced(p, blocks)]
      /\ toPeer' = [toPeer EXCEPT ![p] = Tail(box)]
      /\ UNCHANGED <<mapAskFor, mapAlreadyAskedFor, chainVars, fromPeer, silent>>
  BY DEF ReceiveGetBlocks, ourVars, netVars
<1>2. IsSeq(blocks)
  BY BatchIs
<1> HIDE DEF blocks
<1>3. IsSeq(Announced(p, blocks))
  BY <1>2, Parts, AnnouncedIs
<1>4. ToOK(Tail(box)) /\ IsTail(box, Tail(box))
  BY <1>1, Parts, TailOK
<1>5. /\ vInventoryToSend' = [q \in Peers |-> vInventoryToSend'[q]]
      /\ vInventoryToSend'[p] = Announced(p, blocks)
      /\ \A q \in Peers : q # p => vInventoryToSend'[q] = vInventoryToSend[q]
  BY <1>1, Parts, Changed
<1>6. /\ toPeer' = [q \in Peers |-> toPeer'[q]] /\ toPeer'[p] = Tail(box)
      /\ \A q \in Peers : q # p => toPeer'[q] = toPeer[q]
  BY <1>1, Parts, Changed
<1>7. ChannelsOK'
  BY <1>1, <1>3, <1>4, <1>5, <1>6 DEF SyncInv, ChannelsOK
<1>8. TokensMoved(Off(p, "to"))
  <2>1. ASSUME NEW q \in Peers, NEW i \in DOMAIN toPeer'[q]
        PROVE  /\ i \in Nat /\ i + Off(p, "to")[q]["to"] \in DOMAIN toPeer[q]
               /\ toPeer'[q][i] = toPeer[q][i + Off(p, "to")[q]["to"]]
    <3>1. CASE q = p
      <4>1. Off(p, "to")[q]["to"] = 1
        BY <3>1, OffIs DEF Ways
      <4> QED  BY <1>4, <1>6, <2>1, <3>1, <4>1 DEF IsTail
    <3>2. CASE q # p
      <4>1. Off(p, "to")[q]["to"] = 0 /\ i \in Nat /\ toPeer'[q] = toPeer[q]
        BY <1>6, <2>1, <3>2, OffIs, Places DEF Ways
      <4> QED  BY <2>1, <4>1
    <3> QED  BY <3>1, <3>2
  <2>2. ASSUME NEW q \in Peers, NEW i \in DOMAIN fromPeer'[q]
        PROVE  /\ i \in Nat /\ i + Off(p, "to")[q]["from"] \in DOMAIN fromPeer[q]
               /\ fromPeer'[q][i] = fromPeer[q][i + Off(p, "to")[q]["from"]]
    <3>1. Off(p, "to")[q]["from"] = 0 /\ i \in Nat /\ fromPeer' = fromPeer
      BY <1>1, <2>2, OffIs, Places DEF Ways
    <3> QED  BY <2>2, <3>1
  <2> QED  BY <1>1, <2>1, <2>2, MovedUp
<1> QED  BY <1>1, <1>7, <1>8, OffIs, QuietStep

\* Sending an inv.
LEMMA SendInvStep == ASSUME SyncInv, NEW p \in Peers, SendInv(p) PROVE SyncInv'
<1> DEFINE vInv == Fresh(p, vInventoryToSend[p])
           m == [type |-> "inv", vInv |-> vInv]
           box == fromPeer[p]
           new == IF vInv = <<>> THEN box ELSE Append(box, m)
<1>1. /\ vInventoryToSend' = [vInventoryToSend EXCEPT ![p] = <<>>]
      /\ fromPeer' = [fromPeer EXCEPT ![p] = new]
      /\ UNCHANGED <<mapAskFor, mapAlreadyAskedFor, chainVars, toPeer, silent>>
  BY DEF SendInv, ourVars, netVars
<1>2. IsSeq(vInv)
  <2> DEFINE s == vInventoryToSend[p]
             I == {i \in DOMAIN s : s[i] \notin setInventoryKnown[p] /\ \A j \in 1..(i - 1) : s[j] # s[i]}
  <2>1. IsSeq(s) /\ I \subseteq DOMAIN s
    BY Parts
  <2>2. vInv = Those(s, I)
    BY DEF Fresh
  <2> HIDE DEF s, I
  <2>3. IsPick(s, I, Those(s, I))
    BY <2>1, ThoseAre
  <2> QED  BY <2>2, <2>3 DEF IsPick
<1>3. m.type = "inv" /\ m.vInv = vInv
  OBVIOUS
<1> HIDE DEF m, vInv
<1>4. IsAnswer(m) /\ \A b : ~Carries(m, b)
  BY <1>2, <1>3 DEF IsAnswer, Carries
<1>5. FromOK(box) /\ FromOK(Append(box, m)) /\ IsMore(box, m, Append(box, m))
  BY <1>4, Parts, AppendOK
<1>6. FromOK(new)
  BY <1>5
<1>7. \A i \in DOMAIN new : /\ i \in Nat
                            /\ (\A b : ~Carries(new[i], b)) \/ (i \in DOMAIN box /\ new[i] = box[i])
  <2>1. \A i \in DOMAIN box : i \in Nat
    BY Places
  <2> DEFINE more == Append(box, m)
  <2>2. \A i \in DOMAIN more : /\ i \in Nat
                               /\ more[i] = m \/ (i \in DOMAIN box /\ more[i] = box[i])
    <3>1. IsMore(box, m, more)
      BY <1>5
    <3> HIDE DEF more, box
    <3> QED  BY <3>1 DEF IsMore
  <2>3. new = box \/ new = more
    OBVIOUS
  <2> HIDE DEF more, box, new
  <2> QED  BY <1>4, <2>1, <2>2, <2>3
<1> HIDE DEF new
<1>8. /\ vInventoryToSend' = [q \in Peers |-> vInventoryToSend'[q]] /\ vInventoryToSend'[p] = <<>>
      /\ \A q \in Peers : q # p => vInventoryToSend'[q] = vInventoryToSend[q]
  BY <1>1, Parts, Changed
<1>9. /\ fromPeer' = [q \in Peers |-> fromPeer'[q]] /\ fromPeer'[p] = new
      /\ \A q \in Peers : q # p => fromPeer'[q] = fromPeer[q]
  BY <1>1, Parts, Changed
<1>10. ChannelsOK'
  BY <1>1, <1>6, <1>8, <1>9, ShortSeqs DEF SyncInv, ChannelsOK
<1> DEFINE off == Off(p, "none")
<1>11. \A q \in Peers : off[q]["to"] = 0 /\ off[q]["from"] = 0
  BY OffIs DEF Ways
<1> HIDE DEF off
<1>12. TokensMoved(off)
  <2>1. ASSUME NEW q \in Peers, NEW i \in DOMAIN toPeer'[q]
        PROVE  i \in Nat /\ i + off[q]["to"] \in DOMAIN toPeer[q] /\ toPeer'[q][i] = toPeer[q][i + off[q]["to"]]
    BY <1>1, <1>11, <2>1, Places
  <2>2. ASSUME NEW q \in Peers, NEW i \in DOMAIN fromPeer'[q]
        PROVE  /\ i \in Nat
               /\ \/ \A b : ~Carries(fromPeer'[q][i], b)
                  \/ i + off[q]["from"] \in DOMAIN fromPeer[q] /\ fromPeer'[q][i] = fromPeer[q][i + off[q]["from"]]
    <3>1. i \in Nat /\ ((\A b : ~Carries(fromPeer'[q][i], b)) \/ (i \in DOMAIN fromPeer[q] /\ fromPeer'[q][i] = fromPeer[q][i]))
      BY <1>7, <1>9, <2>2, Places
    <3>2. i + off[q]["from"] = i
      BY <1>11, <3>1
    <3> QED  BY <3>1, <3>2
  <2> QED  BY <1>1, <2>1, <2>2, MovedUp DEF off
<1> QED  BY <1>1, <1>10, <1>12, OffIs, QuietStep DEF off

\* A peer's branch grows.
LEMMA ExtendStep == ASSUME SyncInv, NEW p \in Peers, Extend(p) PROVE SyncInv'
<1>1. PICK b : vInventoryToSend' = [vInventoryToSend EXCEPT ![p] =
                                      IF connected[p] THEN Announced(p, <<b>>) ELSE @]
  BY DEF Extend
<1>2. UNCHANGED <<mapAskFor, mapAlreadyAskedFor, chainVars, toPeer, fromPeer, silent>>
  BY DEF Extend, ourVars
<1> DEFINE new == IF connected[p] THEN Announced(p, <<b>>) ELSE vInventoryToSend[p]
<1>3. IsSeq(new)
  <2>1. IsSeq(vInventoryToSend[p])
    BY Parts
  <2>2. IsSeq(Announced(p, <<b>>))
    BY <2>1, ShortSeqs, AnnouncedIs
  <2> QED  BY <2>1, <2>2
<1>4. vInventoryToSend' = [vInventoryToSend EXCEPT ![p] = new]
  BY <1>1
<1> HIDE DEF new
<1>5. /\ vInventoryToSend' = [q \in Peers |-> vInventoryToSend'[q]] /\ vInventoryToSend'[p] = new
      /\ \A q \in Peers : q # p => vInventoryToSend'[q] = vInventoryToSend[q]
  BY <1>4, Parts, Changed
<1>6. ChannelsOK'
  BY <1>2, <1>3, <1>5 DEF SyncInv, ChannelsOK
<1> DEFINE off == Off(p, "none")
<1>7. \A q \in Peers : off[q]["to"] = 0 /\ off[q]["from"] = 0
  BY OffIs DEF Ways
<1> HIDE DEF off
<1>8. TokensMoved(off)
  <2>1. \A q \in Peers : \A i \in DOMAIN toPeer'[q] : i \in Nat /\ i + off[q]["to"] = i
    BY <1>2, <1>7, Places
  <2>2. \A q \in Peers : \A i \in DOMAIN fromPeer'[q] : i \in Nat /\ i + off[q]["from"] = i
    BY <1>2, <1>7, Places
  <2> QED  BY <1>2, <2>1, <2>2, MovedUp DEF off
<1> QED  BY <1>2, <1>6, <1>8, OffIs, QuietStep DEF off

\* A new connection, with or without a request for blocks.
LEMMA ConnectStep == ASSUME SyncInv, NEW p \in Peers, Connect(p) PROVE SyncInv'
<1>1. UNCHANGED <<mapAskFor, mapAlreadyAskedFor, chainVars, vInventoryToSend, fromPeer, silent>>
  BY DEF Connect, peerVars
<1> DEFINE new == GetBlocksFor(pindexBest, NoBlock, <<>>)
           off == Off(p, "none")
<1>2. toPeer' = toPeer \/ toPeer' = [toPeer EXCEPT ![p] = new]
  BY DEF Connect
<1>3. ToOK(new) /\ \A i \in DOMAIN new : i \in Nat /\ \A b : ~Carries(new[i], b)
  <2>1. OnlyGetBlocks(new)
    BY GetBlocksOnly
  <2> HIDE DEF new
  <2>2. DOMAIN new = 1..Len(new) /\ Len(new) \in Nat
    BY <2>1, SeqIs DEF OnlyGetBlocks
  <2> QED  BY <2>1, <2>2, GetBlocksOK
<1> HIDE DEF new
<1>4. /\ toPeer' = [q \in Peers |-> toPeer'[q]]
      /\ \A q \in Peers : toPeer'[q] = toPeer[q] \/ toPeer'[q] = new
  BY <1>2, Parts, Changed
<1>5. ChannelsOK'
  BY <1>1, <1>3, <1>4 DEF SyncInv, ChannelsOK
<1>6. \A q \in Peers : off[q]["to"] = 0 /\ off[q]["from"] = 0
  BY OffIs DEF Ways
<1> HIDE DEF off
<1>7. TokensMoved(off)
  <2>1. ASSUME NEW q \in Peers, NEW i \in DOMAIN toPeer'[q]
        PROVE  /\ i \in Nat
               /\ \/ \A b : ~Carries(toPeer'[q][i], b)
                  \/ i + off[q]["to"] \in DOMAIN toPeer[q] /\ toPeer'[q][i] = toPeer[q][i + off[q]["to"]]
    <3>1. CASE toPeer'[q] = new
      BY <1>3, <2>1, <3>1
    <3>2. CASE toPeer'[q] = toPeer[q]
      <4>1. i \in Nat /\ i + off[q]["to"] = i
        BY <1>6, <2>1, <3>2, Places
      <4> QED  BY <2>1, <3>2, <4>1
    <3> QED  BY <1>4, <3>1, <3>2
  <2>2. \A q \in Peers : \A i \in DOMAIN fromPeer'[q] : i \in Nat /\ i + off[q]["from"] = i
    BY <1>1, <1>6, Places
  <2> QED  BY <1>1, <2>1, <2>2, MovedUp DEF off
<1> QED  BY <1>1, <1>5, <1>7, OffIs, QuietStep DEF off

\* A peer falls silent.
LEMMA FallSilentStep == ASSUME SyncInv, NEW p \in Peers, FallSilent(p) PROVE SyncInv'
<1>1. /\ UNCHANGED <<mapAskFor, mapAlreadyAskedFor, chainVars, vInventoryToSend, toPeer, fromPeer>>
      /\ silent \subseteq silent'
  BY DEF FallSilent, peerVars, ourVars
<1> DEFINE off == Off(p, "none")
<1>2. \A q \in Peers : off[q]["to"] = 0 /\ off[q]["from"] = 0
  BY OffIs DEF Ways
<1> HIDE DEF off
<1>3. TokensMoved(off)
  <2>1. \A q \in Peers : \A i \in DOMAIN toPeer'[q] : i \in Nat /\ i + off[q]["to"] = i
    BY <1>1, <1>2, Places
  <2>2. \A q \in Peers : \A i \in DOMAIN fromPeer'[q] : i \in Nat /\ i + off[q]["from"] = i
    BY <1>1, <1>2, Places
  <2> QED  BY <1>1, <2>1, <2>2, MovedUp DEF off
<1>4. ChannelsOK'
  BY <1>1 DEF SyncInv, ChannelsOK
<1> QED  BY <1>1, <1>3, <1>4, OffIs, QuietStep DEF off

\* What is asked stays asked when we come to have more blocks.
LEMMA AsksStay ==
  ASSUME AsksOK(mapAskFor, mapAlreadyAskedFor), UNCHANGED mapAskFor,
         mapAlreadyAskedFor' \in [Blocks -> Nat \cup {-1}],
         \A b \in Blocks : AlreadyHave(b) => AlreadyHave(b)',
         \A b \in Blocks : mapAlreadyAskedFor'[b] = mapAlreadyAskedFor[b] \/ AlreadyHave(b)'
  PROVE  AsksOK(mapAskFor, mapAlreadyAskedFor)'
BY DEF AsksOK

\* Receiving an inv.
LEMMA ReceiveInvStep == ASSUME SyncInv, NEW p \in Peers, ReceiveInv(p) PROVE SyncInv'
<1> DEFINE s == HearOfAll(p, Head(fromPeer[p]).vInv)
           in == fromPeer[p]
           out == toPeer[p]
<1>1. /\ fromPeer[p] # <<>> /\ Head(in).type = "inv"
      /\ mapAlreadyAskedFor' = s.asked
      /\ mapAskFor' = [mapAskFor EXCEPT ![p] = s.ask]
      /\ toPeer' = [toPeer EXCEPT ![p] = out \o s.out]
      /\ fromPeer' = [fromPeer EXCEPT ![p] = Tail(in)]
      /\ UNCHANGED <<chainVars, vInventoryToSend, silent>>
  BY DEF ReceiveInv, peerVars, netVars
<1>2. FromOK(Tail(in)) /\ IsTail(in, Tail(in))
  BY <1>1, Parts, TailOK
<1>3. HeardOK(p, s)
  <2>1. IsSeq(Head(in).vInv)
    <3>1. FromOK(in) /\ 1 \in DOMAIN in /\ in[1] = Head(in)
      BY <1>2, Parts DEF IsTail
    <3> HIDE DEF in
    <3> QED  BY <1>1, <3>1 DEF FromOK, IsAnswer
  <2>2. AsksOK(mapAskFor, mapAlreadyAskedFor) /\ \A c \in Blocks : Waits(c, mapAskFor, mapAlreadyAskedFor)
    BY DEF SyncInv
  <2> QED  BY <2>1, <2>2, HeardAll
<1> HIDE DEF s
<1>4. OnlyGetBlocks(s.out) /\ ToOK(s.out) /\ \A i \in DOMAIN s.out : \A b : ~Carries(s.out[i], b)
  BY <1>3, GetBlocksOK DEF HeardOK
<1>5. ToOK(out \o s.out) /\ IsConcat(out, s.out, out \o s.out)
  BY <1>4, Parts, ConcatOK
<1>6. /\ toPeer' = [q \in Peers |-> toPeer'[q]] /\ toPeer'[p] = out \o s.out
      /\ \A q \in Peers : q # p => toPeer'[q] = toPeer[q]
  BY <1>1, Parts, Changed
<1>7. /\ fromPeer' = [q \in Peers |-> fromPeer'[q]] /\ fromPeer'[p] = Tail(in)
      /\ \A q \in Peers : q # p => fromPeer'[q] = fromPeer[q]
  BY <1>1, Parts, Changed
<1>8. ChannelsOK'
  BY <1>1, <1>2, <1>5, <1>6, <1>7 DEF SyncInv, ChannelsOK
<1> DEFINE off == Off(p, "from")
<1>9. TokensMoved(off)
  <2>1. ASSUME NEW q \in Peers, NEW i \in DOMAIN toPeer'[q]
        PROVE  /\ i \in Nat
               /\ \/ \A b : ~Carries(toPeer'[q][i], b)
                  \/ i + off[q]["to"] \in DOMAIN toPeer[q] /\ toPeer'[q][i] = toPeer[q][i + off[q]["to"]]
    <3>1. i \in Nat /\ ((\A b : ~Carries(toPeer'[q][i], b)) \/ (i \in DOMAIN toPeer[q] /\ toPeer'[q][i] = toPeer[q][i]))
      <4>1. CASE q = p
        BY <1>4, <1>5, <1>6, <2>1, <4>1 DEF IsConcat
      <4>2. CASE q # p
        BY <1>6, <2>1, <4>2, Places
      <4> QED  BY <4>1, <4>2
    <3>2. off[q]["to"] = 0
      BY OffIs DEF Ways
    <3>3. i + off[q]["to"] = i
      BY <3>1, <3>2
    <3> QED  BY <3>1, <3>3
  <2>2. ASSUME NEW q \in Peers, NEW i \in DOMAIN fromPeer'[q]
        PROVE  /\ i \in Nat /\ i + off[q]["from"] \in DOMAIN fromPeer[q]
               /\ fromPeer'[q][i] = fromPeer[q][i + off[q]["from"]]
    <3>1. CASE q = p
      <4>1. off[q]["from"] = 1
        BY <3>1, OffIs DEF Ways
      <4> QED  BY <1>2, <1>7, <2>2, <3>1, <4>1 DEF IsTail
    <3>2. CASE q # p
      <4>1. off[q]["from"] = 0 /\ i \in Nat /\ fromPeer'[q] = fromPeer[q]
        BY <1>7, <2>2, <3>2, OffIs, Places DEF Ways
      <4> QED  BY <2>2, <4>1
    <3> QED  BY <3>1, <3>2
  <2> HIDE DEF off
  <2> QED  BY <1>1, <2>1, <2>2, MovedUp DEF off
<1>10. \A b : AlreadyHave(b)' <=> AlreadyHave(b)
  BY <1>1 DEF AlreadyHave, chainVars
<1>11. TokensOK' /\ \A b \in Blocks : SomeToken(b)' => SomeToken(b)
  <2>1. off \in [Peers -> [Ways -> Nat]] /\ TokensOK
    BY OffIs DEF SyncInv
  <2> HIDE DEF off
  <2> QED  BY <1>9, <1>10, <2>1, TokensStay
<1>12. AsksOK(mapAskFor', mapAlreadyAskedFor') /\ \A c \in Blocks : Waits(c, mapAskFor', mapAlreadyAskedFor')
  BY <1>1, <1>3 DEF HeardOK
<1>13. AsksOK(mapAskFor, mapAlreadyAskedFor)'
  BY <1>10, <1>12 DEF AsksOK
<1>14. \A c \in Blocks : Waits(c, mapAskFor, mapAlreadyAskedFor)'
  BY <1>11, <1>12 DEF Waits
<1> QED  BY <1>8, <1>11, <1>13, <1>14 DEF SyncInv

\* Receiving a block.
LEMMA ReceiveBlockStep == ASSUME SyncInv, NEW p \in Peers, ReceiveBlock(p) PROVE SyncInv'
<1> PICK b : b = Head(fromPeer[p]).block
  OBVIOUS
<1> DEFINE in == fromPeer[p]
           out == toPeer[p]
<1>1. /\ fromPeer[p] # <<>> /\ Head(in).type = "block" /\ Head(in).block = b
      /\ fromPeer' = [fromPeer EXCEPT ![p] = Tail(in)]
      /\ UNCHANGED <<mapAskFor, vInventoryToSend, silent>>
  BY DEF ReceiveBlock, peerVars, netVars
<1>2. \/ AlreadyHave(b) /\ UNCHANGED <<chainVars, mapAlreadyAskedFor, toPeer>>
      \/ /\ ~AlreadyHave(b) /\ HoldOrphan(p, b)
         /\ mapAlreadyAskedFor' = [mapAlreadyAskedFor EXCEPT ![b] = -1]
      \/ /\ ~AlreadyHave(b) /\ AcceptBlock(b) /\ UNCHANGED toPeer
         /\ mapAlreadyAskedFor' = [mapAlreadyAskedFor EXCEPT ![b] = -1]
  BY DEF ReceiveBlock
<1>3. FromOK(Tail(in)) /\ IsTail(in, Tail(in))
  BY <1>1, Parts, TailOK
<1>4. \E d : OnlyGetBlocks(d) /\ (toPeer' = toPeer \/ toPeer' = [toPeer EXCEPT ![p] = out \o d])
  <2>1. CASE UNCHANGED toPeer
    BY <2>1, GetBlocksOnly
  <2>2. CASE HoldOrphan(p, b)
    <3> DEFINE d == GetBlocksFor(pindexBest, GetOrphanRoot(b, mapOrphanBlocks), lastGetBlocks[p])
    <3>1. toPeer' = [toPeer EXCEPT ![p] = out \o d]
      BY <2>2 DEF HoldOrphan
    <3>2. OnlyGetBlocks(d)
      BY GetBlocksOnly
    <3> HIDE DEF d
    <3> QED  BY <3>1, <3>2
  <2> QED  BY <1>2, <2>1, <2>2
<1>5. PICK d : OnlyGetBlocks(d) /\ (toPeer' = toPeer \/ toPeer' = [toPeer EXCEPT ![p] = out \o d])
  BY <1>4
<1>6. ToOK(out \o d) /\ IsConcat(out, d, out \o d) /\ \A i \in DOMAIN d : \A c : ~Carries(d[i], c)
  BY <1>5, Parts, ConcatOK, GetBlocksOK
<1>7. /\ toPeer' = [q \in Peers |-> toPeer'[q]]
      /\ \A q \in Peers : toPeer'[q] = toPeer[q] \/ (q = p /\ toPeer'[q] = out \o d)
  BY <1>5, Parts, Changed
<1>8. /\ fromPeer' = [q \in Peers |-> fromPeer'[q]] /\ fromPeer'[p] = Tail(in)
      /\ \A q \in Peers : q # p => fromPeer'[q] = fromPeer[q]
  BY <1>1, Parts, Changed
<1>9. ChannelsOK'
  BY <1>1, <1>3, <1>6, <1>7, <1>8 DEF SyncInv, ChannelsOK
<1> DEFINE off == Off(p, "from")
<1>10. TokensMoved(off)
  <2>1. ASSUME NEW q \in Peers, NEW i \in DOMAIN toPeer'[q]
        PROVE  /\ i \in Nat
               /\ \/ \A c : ~Carries(toPeer'[q][i], c)
                  \/ i + off[q]["to"] \in DOMAIN toPeer[q] /\ toPeer'[q][i] = toPeer[q][i + off[q]["to"]]
    <3>1. i \in Nat /\ ((\A c : ~Carries(toPeer'[q][i], c)) \/ (i \in DOMAIN toPeer[q] /\ toPeer'[q][i] = toPeer[q][i]))
      <4>1. CASE q = p /\ toPeer'[q] = out \o d
        BY <1>6, <2>1, <4>1 DEF IsConcat
      <4>2. CASE toPeer'[q] = toPeer[q]
        BY <2>1, <4>2, Places
      <4> QED  BY <1>7, <4>1, <4>2
    <3>2. off[q]["to"] = 0
      BY OffIs DEF Ways
    <3>3. i + off[q]["to"] = i
      BY <3>1, <3>2
    <3> QED  BY <3>1, <3>3
  <2>2. ASSUME NEW q \in Peers, NEW i \in DOMAIN fromPeer'[q]
        PROVE  /\ i \in Nat /\ i + off[q]["from"] \in DOMAIN fromPeer[q]
               /\ fromPeer'[q][i] = fromPeer[q][i + off[q]["from"]]
    <3>1. CASE q = p
      <4>1. off[q]["from"] = 1
        BY <3>1, OffIs DEF Ways
      <4> QED  BY <1>3, <1>8, <2>2, <3>1, <4>1 DEF IsTail
    <3>2. CASE q # p
      <4>1. off[q]["from"] = 0 /\ i \in Nat /\ fromPeer'[q] = fromPeer[q]
        BY <1>8, <2>2, <3>2, OffIs, Places DEF Ways
      <4> QED  BY <2>2, <4>1
    <3> QED  BY <3>1, <3>2
  <2> HIDE DEF off
  <2> QED  BY <1>1, <2>1, <2>2, MovedUp DEF off
<1>11. \/ (\A c : AlreadyHave(c)' <=> AlreadyHave(c)) /\ mapAlreadyAskedFor' = mapAlreadyAskedFor
       \/ /\ \A c : AlreadyHave(c)' <=> AlreadyHave(c) \/ c = b
          /\ mapAlreadyAskedFor' = [mapAlreadyAskedFor EXCEPT ![b] = -1]
  <2>1. CASE UNCHANGED <<chainVars, mapAlreadyAskedFor>>
    BY <2>1 DEF AlreadyHave, chainVars
  <2>2. CASE HoldOrphan(p, b) /\ mapAlreadyAskedFor' = [mapAlreadyAskedFor EXCEPT ![b] = -1]
    BY <2>2 DEF HoldOrphan, AlreadyHave
  <2>3. CASE AcceptBlock(b) /\ mapAlreadyAskedFor' = [mapAlreadyAskedFor EXCEPT ![b] = -1]
    <3>1. b \in Connects(b) /\ Connects(b) \subseteq {b} \cup mapOrphanBlocks
      BY DEF Connects
    <3>2. mapBlockIndex' = mapBlockIndex \cup Connects(b) /\ mapOrphanBlocks' = mapOrphanBlocks \ Connects(b)
      BY <2>3 DEF AcceptBlock
    <3> QED  BY <2>3, <3>1, <3>2 DEF AlreadyHave
  <2> QED  BY <1>2, <2>1, <2>2, <2>3
<1>12. b \in Blocks => ~SomeToken(b)'
  <2> SUFFICES ASSUME b \in Blocks, SomeToken(b)' PROVE FALSE
    OBVIOUS
  <2>1. PICK q \in Peers, v \in Ways, i \in Nat : Token(b, q, v, i)'
    BY DEF SomeToken
  <2>2. Token(b, p, "from", 1) /\ "from" \in Ways
    <3>1. 1 \in DOMAIN in /\ in[1] = Head(in)
      BY <1>3 DEF IsTail
    <3> QED  BY <1>1, <3>1 DEF Token, Carries, Ways
  <2>3. Token(b, q, v, i + off[q][v]) /\ i + off[q][v] \in Nat
    <3>1. off[q][v] \in Nat
      BY OffIs
    <3> HIDE DEF off
    <3> QED  BY <1>10, <2>1, <3>1 DEF TokensMoved
  <2>4. q = p /\ v = "from" /\ i + off[q][v] = 1
    BY <2>2, <2>3 DEF SyncInv, TokensOK
  <2>5. off[q][v] = 1
    BY <2>4, OffIs DEF Ways
  <2>6. i \in DOMAIN fromPeer'[p]
    BY <2>1, <2>4 DEF Token, Carries
  <2>7. i # 0
    BY <1>3, <1>8, <2>6 DEF IsTail
  <2> QED  BY <2>4, <2>5, <2>7
<1>13. TokensOK' /\ \A c \in Blocks : SomeToken(c)' => SomeToken(c)
  <2>1. off \in [Peers -> [Ways -> Nat]] /\ TokensOK
    BY OffIs DEF SyncInv
  <2>2. \A c \in Blocks : AlreadyHave(c)' => AlreadyHave(c) \/ ~SomeToken(c)'
    BY <1>11, <1>12
  <2> HIDE DEF off
  <2> QED  BY <1>10, <2>1, <2>2, TokensStay
<1>14. AsksOK(mapAskFor, mapAlreadyAskedFor)'
  <2>1. mapAlreadyAskedFor \in [Blocks -> Nat \cup {-1}] /\ AsksOK(mapAskFor, mapAlreadyAskedFor)
    BY Parts DEF SyncInv
  <2>2. mapAlreadyAskedFor' \in [Blocks -> Nat \cup {-1}]
    BY <1>11, <2>1
  <2>3. \A c \in Blocks : mapAlreadyAskedFor'[c] = mapAlreadyAskedFor[c] \/ AlreadyHave(c)'
    BY <1>11, <2>1
  <2>4. \A c \in Blocks : AlreadyHave(c) => AlreadyHave(c)'
    BY <1>11
  <2> QED  BY <1>1, <2>1, <2>2, <2>3, <2>4, AsksStay
<1>15. \A c \in Blocks : Waits(c, mapAskFor, mapAlreadyAskedFor)'
  <2>1. ASSUME NEW c \in Blocks, SomeToken(c)' PROVE mapAlreadyAskedFor'[c] = mapAlreadyAskedFor[c] /\ SomeToken(c)
    BY <1>11, <1>12, <1>13, <2>1, Parts
  <2> QED  BY <1>1, <2>1 DEF SyncInv, Waits
<1> QED  BY <1>9, <1>13, <1>14, <1>15 DEF SyncInv

\* Asking for what is due.
LEMMA SendGetDataStep == ASSUME SyncInv, NEW p \in Peers, SendGetData(p) PROVE SyncInv'
<1> DEFINE ask == mapAskFor[p]
           due == {i \in DOMAIN ask : ask[i].due = 0}
           some == {i \in due : ~AlreadyHave(ask[i].hash)}
           left == DOMAIN ask \ due
           out == toPeer[p]
<1>1. PICK wanted, kept, m :
        /\ wanted = Those(ask, some) /\ kept = Those(ask, left)
        /\ m = [type |-> "getdata", vInv |-> [i \in DOMAIN wanted |-> wanted[i].hash]]
  OBVIOUS
<1>2. /\ mapAskFor' = [mapAskFor EXCEPT ![p] = kept]
      /\ toPeer' = toPeer \/ toPeer' = [toPeer EXCEPT ![p] = Append(out, m)]
      /\ UNCHANGED <<chainVars, mapAlreadyAskedFor, vInventoryToSend, fromPeer, silent>>
  <2>1. /\ mapAskFor' = [mapAskFor EXCEPT ![p] = Those(ask, left)]
        /\ toPeer' = [toPeer EXCEPT ![p] =
             IF wanted = <<>> THEN @
             ELSE Append(@, [type |-> "getdata", vInv |-> [i \in DOMAIN wanted |-> wanted[i].hash]])]
        /\ UNCHANGED <<chainVars, mapAlreadyAskedFor, vInventoryToSend, fromPeer, silent>>
    BY <1>1 DEF SendGetData, peerVars, netVars
  <2>2. [toPeer EXCEPT ![p] = toPeer[p]] = toPeer
    BY Parts
  <2> QED  BY <1>1, <2>1, <2>2
<1>3. IsSeq(ask) /\ some \subseteq DOMAIN ask /\ left \subseteq DOMAIN ask
  BY Parts
<1>4. IsPick(ask, some, wanted) /\ IsPick(ask, left, kept)
  <2> HIDE DEF some, left, ask
  <2> QED  BY <1>1, <1>3, ThoseAre
<1>5. \A i \in some : i \in DOMAIN ask /\ ask[i].due = 0 /\ ~AlreadyHave(ask[i].hash)
  OBVIOUS
<1>6. \A i \in left : i \in DOMAIN ask /\ ask[i].due # 0
  OBVIOUS
<1> HIDE DEF some, left, due
<1>7. \A q \in Peers : \A i \in DOMAIN mapAskFor[q], j \in DOMAIN mapAskFor[p] :
        mapAskFor[q][i].hash \in Blocks /\ mapAskFor[q][i].hash = ask[j].hash /\ mapAskFor[q][i].due = ask[j].due
        => q = p /\ i = j
  BY DEF SyncInv, AsksOK
<1>8. /\ m.type = "getdata" /\ DOMAIN m.vInv = DOMAIN wanted
      /\ \A i \in DOMAIN wanted : m.vInv[i] = wanted[i].hash
      /\ m.vInv = [i \in DOMAIN wanted |-> wanted[i].hash]
  BY <1>1
<1>9. IsRequest(m)
  <2>1. IsSeq(wanted)
    BY <1>4 DEF IsPick
  <2>2. DOMAIN wanted = 1..Len(wanted) /\ Len(wanted) \in Nat
    BY <2>1, SeqIs
  <2>3. IsSeq(m.vInv)
    <3> DEFINE v == m.vInv
    <3>1. DOMAIN v = 1..Len(wanted) /\ v = [i \in 1..Len(wanted) |-> v[i]]
      BY <1>8, <2>2
    <3> HIDE DEF v
    <3>2. IsSeq(v)
      BY <2>2, <3>1, FirstNumbers
    <3> QED  BY <3>2 DEF v
  <2>4. ASSUME NEW k \in DOMAIN m.vInv, NEW l \in DOMAIN m.vInv, m.vInv[k] \in Blocks, m.vInv[k] = m.vInv[l], k # l
        PROVE  FALSE
    <3>1. PICK i \in some, j \in some : i # j /\ wanted[k] = ask[i] /\ wanted[l] = ask[j]
      BY <1>4, <1>8, <2>4 DEF IsPick
    <3>2. ask[i].hash \in Blocks /\ ask[i].hash = ask[j].hash /\ ask[i].due = ask[j].due
      BY <1>5, <1>8, <2>4, <3>1
    <3> QED  BY <1>5, <1>7, <3>1, <3>2
  <2> QED  BY <2>3, <2>4 DEF IsRequest
<1>10. ToOK(Append(out, m)) /\ IsMore(out, m, Append(out, m))
  BY <1>9, Parts, AppendOK
<1>11. PICK new \in Nat : /\ new \notin DOMAIN out /\ Append(out, m)[new] = m
                          /\ \A i \in DOMAIN Append(out, m) :
                               i \in Nat /\ (i = new \/ (i \in DOMAIN out /\ Append(out, m)[i] = out[i]))
  BY <1>10 DEF IsMore
<1>12. /\ toPeer' = [q \in Peers |-> toPeer'[q]]
       /\ \A q \in Peers : toPeer'[q] = toPeer[q] \/ (q = p /\ toPeer'[q] = Append(out, m))
  BY <1>2, Parts, Changed
<1>13. ChannelsOK'
  BY <1>2, <1>10, <1>12 DEF SyncInv, ChannelsOK
<1>14. /\ mapAskFor' = [q \in Peers |-> mapAskFor'[q]] /\ mapAskFor'[p] = kept
       /\ \A q \in Peers : q # p => mapAskFor'[q] = mapAskFor[q]
  BY <1>2, Parts, Changed
<1>15. \A c : AlreadyHave(c)' <=> AlreadyHave(c)
  BY <1>2 DEF AlreadyHave, chainVars
<1>16. ASSUME NEW q \in Peers, NEW k \in DOMAIN mapAskFor'[q]
       PROVE  \E i \in DOMAIN mapAskFor[q] : /\ mapAskFor'[q][k] = mapAskFor[q][i]
                                             /\ q = p => mapAskFor[q][i].due # 0
  <2>1. CASE q = p
    <3>1. PICK i \in left : kept[k] = ask[i]
      BY <1>4, <1>14, <1>16, <2>1 DEF IsPick
    <3> QED  BY <1>6, <1>14, <2>1, <3>1
  <2>2. CASE q # p
    BY <1>14, <1>16, <2>2
  <2> QED  BY <2>1, <2>2
<1>17. ASSUME NEW q \in Peers, NEW r \in Peers, NEW k \in DOMAIN mapAskFor'[q], NEW l \in DOMAIN mapAskFor'[r],
              mapAskFor'[q][k].hash \in Blocks, mapAskFor'[q][k].hash = mapAskFor'[r][l].hash,
              mapAskFor'[q][k].due = mapAskFor'[r][l].due
       PROVE  q = r /\ k = l
  <2>1. q = r
    <3>1. PICK i \in DOMAIN mapAskFor[q] : mapAskFor'[q][k] = mapAskFor[q][i]
      BY <1>16
    <3>2. PICK j \in DOMAIN mapAskFor[r] : mapAskFor'[r][l] = mapAskFor[r][j]
      BY <1>16
    <3> QED  BY <1>17, <3>1, <3>2 DEF SyncInv, AsksOK
  <2>2. CASE q = p /\ k # l
    <3>1. PICK i \in left, j \in left : i # j /\ kept[k] = ask[i] /\ kept[l] = ask[j]
      BY <1>4, <1>14, <1>17, <2>1, <2>2 DEF IsPick
    <3> QED  BY <1>6, <1>7, <1>14, <1>17, <2>1, <2>2, <3>1
  <2>3. CASE q # p
    BY <1>14, <1>17, <2>1, <2>3 DEF SyncInv, AsksOK
  <2> QED  BY <2>1, <2>2, <2>3
<1>18. AsksOK(mapAskFor, mapAlreadyAskedFor)'
  <2>1. ASSUME NEW q \in Peers, NEW k \in DOMAIN mapAskFor'[q]
        PROVE  /\ mapAskFor'[q][k] = [hash |-> mapAskFor'[q][k].hash, due |-> mapAskFor'[q][k].due]
               /\ mapAskFor'[q][k].hash \in Blocks =>
                    /\ mapAskFor'[q][k].due \in Nat
                    /\ \/ AlreadyHave(mapAskFor'[q][k].hash)
                       \/ mapAskFor'[q][k].due <= mapAlreadyAskedFor[mapAskFor'[q][k].hash]
    <3>1. PICK i \in DOMAIN mapAskFor[q] : mapAskFor'[q][k] = mapAskFor[q][i]
      BY <1>16
    <3> QED  BY <3>1 DEF SyncInv, AsksOK
  <2>2. \A q \in Peers : IsSeq(mapAskFor'[q])
    BY <1>4, <1>14, Parts DEF IsPick
  <2>3. mapAlreadyAskedFor' = mapAlreadyAskedFor /\ mapAlreadyAskedFor \in [Blocks -> Nat \cup {-1}]
    BY <1>2, Parts
  <2> QED  BY <1>14, <1>15, <1>17, <2>1, <2>2, <2>3 DEF AsksOK
<1> DEFINE Named(c) == \E i \in DOMAIN wanted : wanted[i].hash = c
<1>19. ASSUME NEW c \in Blocks, Named(c)
       PROVE  /\ ~AlreadyHave(c) /\ ~SomeToken(c) /\ mapAlreadyAskedFor[c] >= 0
              /\ \A q \in Peers : \A k \in DOMAIN mapAskFor'[q] : mapAskFor'[q][k].hash = c => mapAskFor'[q][k].due # 0
  <2>1. PICK j \in some : ask[j].hash = c
    BY <1>4, <1>19 DEF IsPick
  <2>2. ask[j].due = 0 /\ j \in DOMAIN ask /\ ~AlreadyHave(c)
    BY <1>5, <2>1
  <2>3. ~SomeToken(c)
    BY <2>1, <2>2 DEF SyncInv, Waits
  <2>4. 0 <= mapAlreadyAskedFor[c]
    BY <2>1, <2>2 DEF SyncInv, AsksOK
  <2>5. ASSUME NEW q \in Peers, NEW k \in DOMAIN mapAskFor'[q], mapAskFor'[q][k].hash = c, mapAskFor'[q][k].due = 0
        PROVE  FALSE
    <3>1. PICK i \in DOMAIN mapAskFor[q] : mapAskFor'[q][k] = mapAskFor[q][i] /\ (q = p => mapAskFor[q][i].due # 0)
      BY <1>16
    <3> QED  BY <1>7, <2>1, <2>2, <2>5, <3>1
  <2>6. mapAlreadyAskedFor[c] >= 0
    BY <2>4, Parts
  <2> QED  BY <2>2, <2>3, <2>5, <2>6
<1>20. ASSUME NEW c \in Blocks, NEW q \in Peers, NEW v \in Ways, NEW i \in Nat, Token(c, q, v, i)'
       PROVE  Token(c, q, v, i) \/ (Named(c) /\ q = p /\ v = "to" /\ i = new)
  <2>1. CASE v = "from"
    BY <1>2, <1>20, <2>1 DEF Token, Carries
  <2>2. CASE v = "to"
    <3>1. q \notin silent /\ i \in DOMAIN toPeer'[q] /\ Carries(toPeer'[q][i], c)
      BY <1>2, <1>20, <2>2 DEF Token, Carries
    <3>2. CASE toPeer'[q] = toPeer[q]
      BY <2>2, <3>1, <3>2 DEF Token
    <3>3. CASE q = p /\ toPeer'[q] = Append(out, m)
      <4>1. CASE i = new
        <5>1. Carries(m, c)
          BY <1>11, <3>1, <3>3, <4>1
        <5>2. \E k \in DOMAIN m.vInv : m.vInv[k] = c
          BY <1>8, <5>1 DEF Carries
        <5> QED  BY <1>8, <2>2, <3>3, <4>1, <5>2
      <4>2. CASE i \in DOMAIN out /\ Append(out, m)[i] = out[i]
        BY <2>2, <3>1, <3>3, <4>2 DEF Token
      <4> QED  BY <1>11, <3>1, <3>3, <4>1, <4>2
    <3> QED  BY <1>12, <3>2, <3>3
  <2> QED  BY <2>1, <2>2 DEF Ways
<1> HIDE DEF Named
<1>21. ASSUME NEW c \in Blocks, SomeToken(c)' PROVE SomeToken(c) \/ Named(c)
  BY <1>20, <1>21 DEF SomeToken
<1>22. TokensOK'
  <2>1. \A c \in Blocks : AlreadyHave(c)' => ~SomeToken(c)'
    BY <1>15, <1>19, <1>21 DEF SyncInv, TokensOK
  <2>2. ASSUME NEW c \in Blocks, NEW q \in Peers, NEW r \in Peers, NEW v \in Ways, NEW w \in Ways,
               NEW i \in Nat, NEW j \in Nat, Token(c, q, v, i)', Token(c, r, w, j)'
        PROVE  q = r /\ v = w /\ i = j
    <3>1. CASE Named(c)
      <4>1. ~Token(c, q, v, i) /\ ~Token(c, r, w, j)
        BY <1>19, <3>1 DEF SomeToken
      <4> QED  BY <1>20, <2>2, <4>1
    <3>2. CASE ~Named(c)
      <4>1. Token(c, q, v, i) /\ Token(c, r, w, j)
        BY <1>20, <2>2, <3>2
      <4> QED  BY <4>1 DEF SyncInv, TokensOK
    <3> QED  BY <3>1, <3>2
  <2> QED  BY <2>1, <2>2 DEF TokensOK
<1>23. \A c \in Blocks : Waits(c, mapAskFor, mapAlreadyAskedFor)'
  <2>1. ASSUME NEW c \in Blocks, SomeToken(c)', ~Named(c)
        PROVE  /\ mapAlreadyAskedFor[c] >= 0
               /\ \A q \in Peers : \A k \in DOMAIN mapAskFor'[q] :
                    mapAskFor'[q][k].hash = c => mapAskFor'[q][k].due # 0
    <3>1. /\ mapAlreadyAskedFor[c] >= 0
          /\ \A q \in Peers : \A i \in DOMAIN mapAskFor[q] : mapAskFor[q][i].hash = c => mapAskFor[q][i].due # 0
      BY <1>21, <2>1 DEF SyncInv, Waits
    <3>2. ASSUME NEW q \in Peers, NEW k \in DOMAIN mapAskFor'[q], mapAskFor'[q][k].hash = c
          PROVE  mapAskFor'[q][k].due # 0
      <4>1. PICK i \in DOMAIN mapAskFor[q] : mapAskFor'[q][k] = mapAskFor[q][i]
        BY <1>16
      <4> QED  BY <3>1, <3>2, <4>1
    <3> QED  BY <3>1, <3>2
  <2>2. mapAlreadyAskedFor' = mapAlreadyAskedFor
    BY <1>2
  <2> QED  BY <1>19, <2>1, <2>2 DEF Waits
<1> QED  BY <1>13, <1>18, <1>22, <1>23 DEF SyncInv

\* Answering a request.
LEMMA ReceiveGetDataStep == ASSUME SyncInv, NEW p \in Peers, ReceiveGetData(p) PROVE SyncInv'
<1> DEFINE in == toPeer[p]
           box == fromPeer[p]
<1>1. PICK m, out : m = Head(in) /\ out = ServeAll(p, m.vInv).out
  OBVIOUS
<1>2. /\ in # <<>> /\ m.type = "getdata" /\ p \notin silent
      /\ fromPeer' = [fromPeer EXCEPT ![p] = box \o out]
      /\ toPeer' = [toPeer EXCEPT ![p] = Tail(in)]
      /\ UNCHANGED <<chainVars, mapAskFor, mapAlreadyAskedFor, vInventoryToSend, silent>>
  BY <1>1 DEF ReceiveGetData, ourVars, netVars
<1>3. ToOK(Tail(in)) /\ IsTail(in, Tail(in))
  BY <1>2, Parts, TailOK
<1>4. 1 \in DOMAIN in /\ in[1] = m
  BY <1>1, <1>3 DEF IsTail
<1>5. NamesOnce(m.vInv)
  <2>1. IsRequest(m)
    BY <1>4, Parts DEF ToOK
  <2> QED  BY <1>2, <2>1 DEF IsRequest, NamesOnce
<1>6. Served(m.vInv, Len(m.vInv), out) /\ DOMAIN m.vInv = 1..Len(m.vInv)
  BY <1>1, <1>5, ServedAll, SeqIs DEF NamesOnce
<1>7. FromOK(box \o out) /\ IsConcat(box, out, box \o out)
  BY <1>6, Parts, ConcatOK DEF Served
<1>8. /\ fromPeer' = [q \in Peers |-> fromPeer'[q]] /\ fromPeer'[p] = box \o out
      /\ \A q \in Peers : q # p => fromPeer'[q] = fromPeer[q]
  BY <1>2, Parts, Changed
<1>9. /\ toPeer' = [q \in Peers |-> toPeer'[q]] /\ toPeer'[p] = Tail(in)
      /\ \A q \in Peers : q # p => toPeer'[q] = toPeer[q]
  BY <1>2, Parts, Changed
<1>10. ChannelsOK'
  BY <1>2, <1>3, <1>7, <1>8, <1>9 DEF SyncInv, ChannelsOK
<1>11. \A b : AlreadyHave(b)' <=> AlreadyHave(b)
  BY <1>2 DEF AlreadyHave, chainVars
<1> DEFINE Sent(c, i) == /\ i - Len(box) \in DOMAIN out /\ out[i - Len(box)].type = "block"
                         /\ out[i - Len(box)].block = c
           off == Off(p, "to")
<1>12. \A q \in Peers, v \in Ways : off[q][v] = IF q = p /\ v = "to" THEN 1 ELSE 0
  BY OffIs
<1>13. "to" \in Ways /\ "from" \in Ways
  BY DEF Ways
<1>14. ASSUME NEW c, NEW i, Sent(c, i) PROVE Token(c, p, "to", 1)
  <2>1. PICK l \in 1..Len(m.vInv) : m.vInv[l] = c
    BY <1>6, <1>14 DEF Served
  <2>2. Carries(m, c)
    BY <1>2, <1>6, <2>1 DEF Carries
  <2> QED  BY <1>2, <1>4, <2>2 DEF Token
<1>15. ASSUME NEW c \in Blocks, NEW i \in Nat, NEW j \in Nat, Sent(c, i), Sent(c, j) PROVE i = j
  <2>1. i - Len(box) = j - Len(box)
    BY <1>6, <1>15 DEF Served
  <2>2. Len(box) \in Nat
    BY <1>7 DEF IsConcat
  <2> QED  BY <2>1, <2>2
<1> HIDE DEF off
<1>16. ASSUME NEW c \in Blocks, NEW q \in Peers, NEW v \in Ways, NEW i \in Nat, Token(c, q, v, i)'
       PROVE  \/ Token(c, q, v, i + off[q][v]) /\ (off[q][v] = 1 => i # 0)
              \/ q = p /\ v = "from" /\ Sent(c, i)
  <2>1. CASE v = "to"
    <3>1. q \notin silent /\ i \in DOMAIN toPeer'[q] /\ Carries(toPeer'[q][i], c)
      BY <1>2, <1>16, <2>1 DEF Token, Carries
    <3>2. CASE q = p
      <4>1. off[q][v] = 1
        BY <1>12, <2>1, <3>2
      <4>2. i # 0 /\ i + 1 \in DOMAIN in /\ Tail(in)[i] = in[i + 1]
        BY <1>3, <1>9, <3>1, <3>2 DEF IsTail
      <4> QED  BY <1>9, <2>1, <3>1, <3>2, <4>1, <4>2 DEF Token
    <3>3. CASE q # p
      <4>1. off[q][v] = 0 /\ i + off[q][v] = i
        BY <1>12, <3>3
      <4> QED  BY <1>9, <2>1, <3>1, <3>3, <4>1 DEF Token
    <3> QED  BY <3>2, <3>3
  <2>2. CASE v = "from"
    <3>1. i \in DOMAIN fromPeer'[q] /\ Carries(fromPeer'[q][i], c)
      BY <1>16, <2>2 DEF Token, Carries
    <3>2. off[q][v] = 0 /\ i + off[q][v] = i
      BY <1>12, <2>2
    <3>3. CASE q # p
      BY <1>8, <2>2, <3>1, <3>2, <3>3 DEF Token
    <3>4. CASE q = p /\ i \in DOMAIN box /\ (box \o out)[i] = box[i]
      BY <1>8, <2>2, <3>1, <3>2, <3>4 DEF Token
    <3>5. CASE q = p /\ i - Len(box) \in DOMAIN out /\ (box \o out)[i] = out[i - Len(box)]
      <4>1. Carries(out[i - Len(box)], c)
        BY <1>8, <3>1, <3>5
      <4>2. out[i - Len(box)].type # "getdata"
        BY <1>6, <3>5 DEF Served
      <4> QED  BY <2>2, <3>5, <4>1, <4>2 DEF Carries
    <3>6. q = p => \/ i \in DOMAIN box /\ (box \o out)[i] = box[i]
                   \/ i - Len(box) \in DOMAIN out /\ (box \o out)[i] = out[i - Len(box)]
      BY <1>7, <1>8, <3>1 DEF IsConcat
    <3> QED  BY <3>3, <3>4, <3>5, <3>6
  <2> QED  BY <2>1, <2>2 DEF Ways
<1> HIDE DEF Sent, in, box
<1>17. \A q \in Peers, v \in Ways : off[q][v] \in {0, 1} /\ off[p]["to"] = 1
  BY <1>12, <1>13
<1>18. \A c \in Blocks : SomeToken(c)' => SomeToken(c)
  <2> SUFFICES ASSUME NEW c \in Blocks, SomeToken(c)' PROVE SomeToken(c)
    OBVIOUS
  <2>1. PICK q \in Peers, v \in Ways, i \in Nat : Token(c, q, v, i)'
    BY DEF SomeToken
  <2>2. i + off[q][v] \in Nat
    BY <1>17
  <2>3. Token(c, q, v, i + off[q][v]) \/ Token(c, p, "to", 1)
    BY <1>14, <1>16, <2>1
  <2> QED  BY <1>13, <2>2, <2>3 DEF SomeToken
<1>19. TokensOK'
  <2>1. \A c \in Blocks : AlreadyHave(c)' => ~SomeToken(c)'
    BY <1>11, <1>18 DEF SyncInv, TokensOK
  <2>2. ASSUME NEW c \in Blocks, NEW i \in Nat, Sent(c, i),
               NEW r \in Peers, NEW w \in Ways, NEW j \in Nat,
               Token(c, r, w, j + off[r][w]), off[r][w] = 1 => j # 0
        PROVE  FALSE
    <3>1. Token(c, p, "to", 1)
      BY <1>14, <2>2
    <3>2. j + off[r][w] \in Nat
      BY <1>17
    <3>3. r = p /\ w = "to" /\ j + off[r][w] = 1
      BY <1>13, <2>2, <3>1, <3>2 DEF SyncInv, TokensOK
    <3> QED  BY <1>17, <2>2, <3>3
  <2>3. ASSUME NEW c \in Blocks, NEW q \in Peers, NEW r \in Peers, NEW v \in Ways, NEW w \in Ways,
               NEW i \in Nat, NEW j \in Nat, Token(c, q, v, i + off[q][v]), Token(c, r, w, j + off[r][w])
        PROVE  q = r /\ v = w /\ i = j
    <3>1. i + off[q][v] \in Nat /\ j + off[r][w] \in Nat /\ off[q][v] \in Nat /\ off[r][w] \in Nat
      BY <1>17
    <3>2. q = r /\ v = w /\ i + off[q][v] = j + off[r][w]
      BY <2>3, <3>1 DEF SyncInv, TokensOK
    <3> QED  BY <3>1, <3>2
  <2>4. ASSUME NEW c \in Blocks, NEW q \in Peers, NEW r \in Peers, NEW v \in Ways, NEW w \in Ways,
               NEW i \in Nat, NEW j \in Nat, Token(c, q, v, i)', Token(c, r, w, j)'
        PROVE  q = r /\ v = w /\ i = j
    <3>1. \/ Token(c, q, v, i + off[q][v]) /\ (off[q][v] = 1 => i # 0)
          \/ q = p /\ v = "from" /\ Sent(c, i)
      BY <1>16, <2>4
    <3>2. \/ Token(c, r, w, j + off[r][w]) /\ (off[r][w] = 1 => j # 0)
          \/ r = p /\ w = "from" /\ Sent(c, j)
      BY <1>16, <2>4
    <3> QED  BY <1>15, <2>2, <2>3, <3>1, <3>2
  <2> QED  BY <2>1, <2>4 DEF TokensOK
<1>20. AsksOK(mapAskFor, mapAlreadyAskedFor)'
  <2>1. AsksOK(mapAskFor, mapAlreadyAskedFor)
    BY DEF SyncInv
  <2> QED  BY <1>2, <1>11, <2>1 DEF AsksOK
<1>21. \A b \in Blocks : Waits(b, mapAskFor, mapAlreadyAskedFor)'
  BY <1>2, <1>18 DEF SyncInv, Waits
<1> QED  BY <1>10, <1>19, <1>20, <1>21 DEF SyncInv

\* Going away.
LEMMA DisconnectStep == ASSUME SyncInv, NEW p \in Peers, Disconnect(p) PROVE SyncInv'
<1>1. /\ mapAskFor' = [mapAskFor EXCEPT ![p] = <<>>]
      /\ toPeer' = [toPeer EXCEPT ![p] = <<>>]
      /\ fromPeer' = [fromPeer EXCEPT ![p] = <<>>]
      /\ vInventoryToSend' = [vInventoryToSend EXCEPT ![p] = <<>>]
      /\ silent' = silent \ {p}
      /\ UNCHANGED <<mapAlreadyAskedFor, chainVars>>
  BY DEF Disconnect
<1>2. /\ mapAskFor' = [q \in Peers |-> mapAskFor'[q]] /\ mapAskFor'[p] = <<>>
      /\ \A q \in Peers : q # p => mapAskFor'[q] = mapAskFor[q]
  BY <1>1, Parts, Changed
<1>3. /\ toPeer' = [q \in Peers |-> toPeer'[q]] /\ toPeer'[p] = <<>>
      /\ \A q \in Peers : q # p => toPeer'[q] = toPeer[q]
  BY <1>1, Parts, Changed
<1>4. /\ fromPeer' = [q \in Peers |-> fromPeer'[q]] /\ fromPeer'[p] = <<>>
      /\ \A q \in Peers : q # p => fromPeer'[q] = fromPeer[q]
  BY <1>1, Parts, Changed
<1>5. /\ vInventoryToSend' = [q \in Peers |-> vInventoryToSend'[q]] /\ vInventoryToSend'[p] = <<>>
      /\ \A q \in Peers : q # p => vInventoryToSend'[q] = vInventoryToSend[q]
  BY <1>1, Parts, Changed
<1>6. IsSeq(<<>>) /\ DOMAIN <<>> = {}
  BY ShortSeqs
<1>7. ChannelsOK'
  BY <1>3, <1>4, <1>5, <1>6 DEF SyncInv, ChannelsOK, ToOK, FromOK
<1>8. \A b : AlreadyHave(b)' <=> AlreadyHave(b)
  BY <1>1 DEF AlreadyHave, chainVars
<1> DEFINE off == Off(p, "none")
<1>9. \A q \in Peers : off[q]["to"] = 0 /\ off[q]["from"] = 0
  BY OffIs DEF Ways
<1> HIDE DEF off
<1>10. TokensMoved(off)
  <2>1. ASSUME NEW q \in Peers, NEW i \in DOMAIN toPeer'[q]
        PROVE  /\ i \in Nat /\ i + off[q]["to"] \in DOMAIN toPeer[q]
               /\ toPeer'[q][i] = toPeer[q][i + off[q]["to"]]
    <3>1. q # p /\ toPeer'[q] = toPeer[q]
      BY <1>3, <1>6, <2>1
    <3>2. i \in Nat /\ i + off[q]["to"] = i
      BY <1>9, <2>1, <3>1, Places
    <3> QED  BY <2>1, <3>1, <3>2
  <2>2. ASSUME NEW q \in Peers, NEW i \in DOMAIN fromPeer'[q]
        PROVE  /\ i \in Nat /\ i + off[q]["from"] \in DOMAIN fromPeer[q]
               /\ fromPeer'[q][i] = fromPeer[q][i + off[q]["from"]]
    <3>1. q # p /\ fromPeer'[q] = fromPeer[q]
      BY <1>4, <1>6, <2>2
    <3>2. i \in Nat /\ i + off[q]["from"] = i
      BY <1>9, <2>2, <3>1, Places
    <3> QED  BY <2>2, <3>1, <3>2
  <2>3. \A q \in Peers : q \in silent => q \in silent' \/ toPeer'[q] = <<>>
    BY <1>1, <1>3
  <2> QED  BY <2>1, <2>2, <2>3, MovedUp DEF off
<1>11. TokensOK' /\ \A b \in Blocks : SomeToken(b)' => SomeToken(b)
  <2>1. off \in [Peers -> [Ways -> Nat]] /\ TokensOK
    BY OffIs DEF SyncInv, off
  <2> QED  BY <1>8, <1>10, <2>1, TokensStay
<1>12. \A q \in Peers : \A i \in DOMAIN mapAskFor'[q] : q # p /\ i \in DOMAIN mapAskFor[q] /\ mapAskFor'[q] = mapAskFor[q]
  BY <1>2, <1>6
<1>13. AsksOK(mapAskFor, mapAlreadyAskedFor)'
  <2>1. AsksOK(mapAskFor, mapAlreadyAskedFor)
    BY DEF SyncInv
  <2>2. \A q \in Peers : IsSeq(mapAskFor'[q])
    BY <1>2, <1>6, <2>1 DEF AsksOK
  <2> QED  BY <1>1, <1>2, <1>8, <1>12, <2>1, <2>2 DEF AsksOK
<1>14. \A b \in Blocks : Waits(b, mapAskFor, mapAlreadyAskedFor)'
  BY <1>1, <1>11, <1>12 DEF SyncInv, Waits
<1> QED  BY <1>7, <1>11, <1>13, <1>14 DEF SyncInv

\* Two minutes pass, when all that was sent has been answered.
LEMMA TickStep == ASSUME SyncInv, Prompt, Tick PROVE SyncInv'
<1> DEFINE Less(d) == IF d = 0 THEN 0 ELSE d - 1
<1>1. /\ \A p \in Peers : ~Busy(p)
      /\ mapAlreadyAskedFor' =
           [b \in Blocks |-> IF mapAlreadyAskedFor[b] = -1 THEN -1 ELSE mapAlreadyAskedFor[b] - 1]
      /\ mapAskFor' = [p \in Peers |-> [i \in DOMAIN mapAskFor[p] |->
                         [mapAskFor[p][i] EXCEPT !.due = Less(mapAskFor[p][i].due)]]]
      /\ UNCHANGED <<chainVars, vInventoryToSend, toPeer, fromPeer, silent>>
  BY DEF Tick, peerVars, netVars
<1>2. ASSUME NEW p \in Peers
      PROVE  /\ fromPeer[p] = <<>> /\ (p \notin silent => toPeer[p] = <<>>)
             /\ \A i \in DOMAIN mapAskFor[p] : mapAskFor[p][i].due # 0
  BY <1>1 DEF Busy, Due
<1>3. \A b \in Blocks : ~SomeToken(b)'
  <2> SUFFICES ASSUME NEW b \in Blocks, NEW p \in Peers, NEW v \in Ways, NEW i \in Nat, Token(b, p, v, i)'
               PROVE  FALSE
    BY DEF SomeToken
  <2>1. i \in DOMAIN <<>>
    BY <1>1, <1>2 DEF Token, Carries
  <2> QED  BY <2>1, ShortSeqs
<1>4. ChannelsOK'
  BY <1>1 DEF SyncInv, ChannelsOK
<1>5. \A b : AlreadyHave(b)' <=> AlreadyHave(b)
  BY <1>1 DEF AlreadyHave, chainVars
<1>6. TokensOK'
  BY <1>3 DEF TokensOK, SomeToken
<1>7. \A b \in Blocks : Waits(b, mapAskFor, mapAlreadyAskedFor)'
  BY <1>3 DEF Waits
<1>8. mapAskFor' = [p \in Peers |-> mapAskFor'[p]]
  BY <1>1
<1>9. ASSUME NEW p \in Peers
      PROVE  /\ DOMAIN mapAskFor'[p] = DOMAIN mapAskFor[p]
             /\ \A i \in DOMAIN mapAskFor[p] :
                  mapAskFor'[p][i] = [mapAskFor[p][i] EXCEPT !.due = Less(mapAskFor[p][i].due)]
             /\ mapAskFor'[p] = [i \in DOMAIN mapAskFor[p] |-> mapAskFor'[p][i]]
  BY <1>1
<1>10. ASSUME NEW p \in Peers PROVE IsSeq(mapAskFor'[p])
  <2>1. DOMAIN mapAskFor[p] = 1..Len(mapAskFor[p]) /\ Len(mapAskFor[p]) \in Nat
    BY Parts, SeqIs
  <2> PICK s : s = mapAskFor'[p]
    OBVIOUS
  <2>2. PICK n \in Nat : s = mapAskFor'[p] /\ n = Len(mapAskFor[p])
    BY <2>1
  <2>3. DOMAIN s = 1..n /\ s = [i \in 1..n |-> s[i]]
    BY <1>9, <2>1, <2>2
  <2>4. IsSeq(s)
    BY ONLY <2>3, n \in Nat, FirstNumbers
  <2> QED  BY <2>2, <2>4
<1>11. AsksOK(mapAskFor, mapAlreadyAskedFor) /\ mapAlreadyAskedFor \in [Blocks -> Nat \cup {-1}]
  BY DEF SyncInv, AsksOK
<1>12. ASSUME NEW p \in Peers, NEW i \in DOMAIN mapAskFor'[p]
       PROVE  /\ i \in DOMAIN mapAskFor[p]
              /\ mapAskFor'[p][i].hash = mapAskFor[p][i].hash
              /\ mapAskFor'[p][i].due = mapAskFor[p][i].due - 1
              /\ mapAskFor'[p][i] = [hash |-> mapAskFor'[p][i].hash, due |-> mapAskFor'[p][i].due]
              /\ mapAskFor[p][i].hash \in Blocks => mapAskFor[p][i].due \in Nat /\ mapAskFor[p][i].due # 0
  <2>1. i \in DOMAIN mapAskFor[p] /\ mapAskFor[p][i].due # 0
    BY <1>2, <1>9
  <2> PICK a, d : a = mapAskFor[p][i] /\ d = Less(a.due)
    OBVIOUS
  <2>2. mapAskFor'[p][i] = [a EXCEPT !.due = d] /\ d = a.due - 1
    BY <1>9, <2>1
  <2>3. a = [hash |-> a.hash, due |-> a.due] /\ (a.hash \in Blocks => a.due \in Nat)
    BY <1>11, <2>1 DEF AsksOK
  <2>4. [a EXCEPT !.due = d] = [hash |-> a.hash, due |-> d]
    BY <2>3
  <2>5. mapAskFor'[p][i] = [hash |-> a.hash, due |-> d]
    BY <2>2, <2>4
  <2>6. mapAskFor'[p][i].hash = a.hash /\ mapAskFor'[p][i].due = d
    BY <2>5
  <2> QED  BY <2>1, <2>2, <2>3, <2>5, <2>6
<1> HIDE DEF Less
<1>13. mapAlreadyAskedFor' \in [Blocks -> Nat \cup {-1}]
  <2>1. ASSUME NEW b \in Blocks
        PROVE  (IF mapAlreadyAskedFor[b] = -1 THEN -1 ELSE mapAlreadyAskedFor[b] - 1) \in Nat \cup {-1}
    BY <1>11
  <2> QED  BY <1>1, <2>1
<1>14. ASSUME NEW p \in Peers, NEW i \in DOMAIN mapAskFor'[p], mapAskFor'[p][i].hash \in Blocks
       PROVE  /\ mapAskFor'[p][i].due \in Nat
              /\ AlreadyHave(mapAskFor'[p][i].hash) \/ mapAskFor'[p][i].due <= mapAlreadyAskedFor'[mapAskFor'[p][i].hash]
  <2> PICK b, d : b = mapAskFor[p][i].hash /\ d = mapAskFor[p][i].due
    OBVIOUS
  <2>1. /\ b \in Blocks /\ mapAskFor'[p][i].hash = b /\ mapAskFor'[p][i].due = d - 1 /\ d \in Nat /\ d # 0
        /\ i \in DOMAIN mapAskFor[p]
    BY <1>12, <1>14
  <2>2. AlreadyHave(b) \/ d <= mapAlreadyAskedFor[b]
    BY <1>11, <2>1 DEF AsksOK
  <2>3. mapAlreadyAskedFor[b] \in Nat \cup {-1}
        /\ mapAlreadyAskedFor'[b] = IF mapAlreadyAskedFor[b] = -1 THEN -1 ELSE mapAlreadyAskedFor[b] - 1
    BY <1>1, <1>11, <2>1
  <2>4. d <= mapAlreadyAskedFor[b] => d - 1 <= mapAlreadyAskedFor'[b]
    BY <2>1, <2>3
  <2> QED  BY <2>1, <2>2, <2>4
<1>15. ASSUME NEW p \in Peers, NEW q \in Peers, NEW i \in DOMAIN mapAskFor'[p], NEW j \in DOMAIN mapAskFor'[q],
              mapAskFor'[p][i].hash \in Blocks, mapAskFor'[p][i].hash = mapAskFor'[q][j].hash,
              mapAskFor'[p][i].due = mapAskFor'[q][j].due
       PROVE  p = q /\ i = j
  <2> PICK a, c : a = mapAskFor[p][i] /\ c = mapAskFor[q][j]
    OBVIOUS
  <2>1. /\ i \in DOMAIN mapAskFor[p] /\ mapAskFor'[p][i].hash = a.hash /\ mapAskFor'[p][i].due = a.due - 1
        /\ a.hash \in Blocks => a.due \in Nat
    BY <1>12
  <2>2. /\ j \in DOMAIN mapAskFor[q] /\ mapAskFor'[q][j].hash = c.hash /\ mapAskFor'[q][j].due = c.due - 1
        /\ c.hash \in Blocks => c.due \in Nat
    BY <1>12
  <2>3. a.hash \in Blocks /\ a.hash = c.hash /\ a.due - 1 = c.due - 1 /\ a.due \in Nat /\ c.due \in Nat
    BY ONLY <1>15, <2>1, <2>2
  <2>4. a.due = c.due
    BY ONLY <2>3
  <2> QED  BY <1>11, <2>1, <2>2, <2>3, <2>4 DEF AsksOK
<1>16. AsksOK(mapAskFor, mapAlreadyAskedFor)'
  BY <1>5, <1>8, <1>10, <1>12, <1>13, <1>14, <1>15 DEF AsksOK
<1> QED  BY <1>4, <1>6, <1>7, <1>16 DEF SyncInv

-----------------------------------------------------------------------------
\* At first nothing is asked, and nothing under way.
LEMMA SyncStarts == SyncInit => SyncInv
<1> SUFFICES ASSUME SyncInit PROVE SyncInv
  OBVIOUS
<1>1. /\ mapAlreadyAskedFor = [b \in Blocks |-> -1]
      /\ mapAskFor = [p \in Peers |-> <<>>] /\ toPeer = [p \in Peers |-> <<>>]
      /\ fromPeer = [p \in Peers |-> <<>>] /\ vInventoryToSend = [p \in Peers |-> <<>>]
  BY DEF SyncInit
<1>2. IsSeq(<<>>) /\ DOMAIN <<>> = {}
  BY ShortSeqs
<1>3. ChannelsOK
  BY <1>1, <1>2 DEF ChannelsOK, ToOK, FromOK
<1>4. AsksOK(mapAskFor, mapAlreadyAskedFor)
  <2>1. \A p \in Peers : mapAskFor[p] = <<>>
    BY <1>1
  <2>2. mapAlreadyAskedFor \in [Blocks -> Nat \cup {-1}]
    BY <1>1
  <2>3. mapAskFor = [p \in Peers |-> mapAskFor[p]]
    BY <1>1
  <2> QED  BY <1>2, <2>1, <2>2, <2>3 DEF AsksOK
<1>5. \A b \in Blocks : ~SomeToken(b)
  <2> SUFFICES ASSUME NEW b \in Blocks, NEW p \in Peers, NEW v \in Ways, NEW i \in Nat, Token(b, p, v, i)
               PROVE  FALSE
    BY DEF SomeToken
  <2>1. i \in DOMAIN <<>>
    BY <1>1 DEF Token
  <2> QED  BY <1>2, <2>1
<1>6. TokensOK /\ \A b \in Blocks : Waits(b, mapAskFor, mapAlreadyAskedFor)
  BY <1>5 DEF TokensOK, Waits, SomeToken
<1> QED  BY <1>3, <1>4, <1>6 DEF SyncInv

\* Every step keeps requests apart.
LEMMA SyncSteps == ASSUME SyncInv, Prompt, [SyncNext]_syncVars PROVE SyncInv'
<1>1. ASSUME NEW p \in Peers, PeerStep(p) PROVE SyncInv'
  BY <1>1, ReceiveGetBlocksStep, ReceiveGetDataStep, SendInvStep DEF PeerStep
<1>2. ASSUME NEW p \in Peers, OurStep(p) PROVE SyncInv'
  BY <1>2, ReceiveInvStep, ReceiveBlockStep, SendGetDataStep DEF OurStep
<1>3. ASSUME NEW p \in Peers, Connect(p) \/ Disconnect(p) \/ FallSilent(p) \/ Extend(p) PROVE SyncInv'
  BY <1>3, ConnectStep, DisconnectStep, FallSilentStep, ExtendStep
<1>4. CASE Tick
  BY <1>4, TickStep
<1>5. CASE UNCHANGED syncVars
  <2>1. UNCHANGED <<mapBlockIndex, mapOrphanBlocks, mapAskFor, mapAlreadyAskedFor, vInventoryToSend, toPeer, fromPeer, silent>>
    BY <1>5 DEF syncVars, chainVars, ourVars, peerVars, netVars
  <2>2. \A b : AlreadyHave(b)' <=> AlreadyHave(b)
    BY <2>1 DEF AlreadyHave
  <2>3. ChannelsOK'
    BY <2>1 DEF SyncInv, ChannelsOK
  <2>4. \A b, p, v, i : Token(b, p, v, i)' <=> Token(b, p, v, i)
    BY <2>1 DEF Token, Carries
  <2>5. \A b : SomeToken(b)' <=> SomeToken(b)
    BY <2>4 DEF SomeToken
  <2>6. TokensOK'
    BY <2>2, <2>4, <2>5 DEF SyncInv, TokensOK
  <2>7. AsksOK(mapAskFor, mapAlreadyAskedFor)'
    BY <2>1, <2>2 DEF SyncInv, AsksOK
  <2>8. \A b \in Blocks : Waits(b, mapAskFor, mapAlreadyAskedFor)'
    BY <2>1, <2>5 DEF SyncInv, Waits
  <2> QED  BY <2>3, <2>6, <2>7, <2>8 DEF SyncInv
<1> QED  BY <1>1, <1>2, <1>3, <1>4, <1>5 DEF SyncNext

\* What is under way is one token.
LEMMA SyncIsOnce == SyncInv => OneRequest
<1> SUFFICES ASSUME SyncInv, NEW b \in Blocks
             PROVE  Cardinality(UnderWay(b)) <= (IF AlreadyHave(b) THEN 0 ELSE 1)
  BY DEF OneRequest
<1>1. ASSUME NEW x \in UnderWay(b)
      PROVE  \E p \in Peers, v \in Ways, i \in Nat : x = <<<<p, v>>, i>> /\ Token(b, p, v, i)
  <2>1. PICK p \in Peers \ silent :
          x \in ({<<p, "to">>} \X {i \in DOMAIN toPeer[p] : Carries(toPeer[p][i], b)})
                  \cup ({<<p, "from">>} \X {i \in DOMAIN fromPeer[p] : Carries(fromPeer[p][i], b)})
    BY <1>1 DEF UnderWay
  <2>2. CASE x \in {<<p, "to">>} \X {i \in DOMAIN toPeer[p] : Carries(toPeer[p][i], b)}
    <3>1. PICK i \in DOMAIN toPeer[p] : Carries(toPeer[p][i], b) /\ x = <<<<p, "to">>, i>>
      BY <2>2
    <3>2. i \in Nat /\ Token(b, p, "to", i) /\ "to" \in Ways
      BY <3>1, Places DEF Token, Ways
    <3> QED  BY <3>1, <3>2
  <2>3. CASE x \in {<<p, "from">>} \X {i \in DOMAIN fromPeer[p] : Carries(fromPeer[p][i], b)}
    <3>1. PICK i \in DOMAIN fromPeer[p] : Carries(fromPeer[p][i], b) /\ x = <<<<p, "from">>, i>>
      BY <2>3
    <3>2. i \in Nat /\ Token(b, p, "from", i) /\ "from" \in Ways
      BY <3>1, Places DEF Token, Ways
    <3> QED  BY <3>1, <3>2
  <2> QED  BY <2>1, <2>2, <2>3
<1>2. ASSUME NEW x \in UnderWay(b), NEW y \in UnderWay(b) PROVE x = y
  <2>1. PICK p \in Peers, v \in Ways, i \in Nat : x = <<<<p, v>>, i>> /\ Token(b, p, v, i)
    BY <1>1
  <2>2. PICK q \in Peers, w \in Ways, j \in Nat : y = <<<<q, w>>, j>> /\ Token(b, q, w, j)
    BY <1>1
  <2> QED  BY <2>1, <2>2 DEF SyncInv, TokensOK
<1>3. AlreadyHave(b) => UnderWay(b) = {}
  BY <1>1 DEF SyncInv, TokensOK, SomeToken
<1> PICK S : S = UnderWay(b)
  OBVIOUS
<1>4. CASE S = {}
  <2>1. Cardinality(S) = 0
    BY <1>4, FS_EmptySet
  <2> QED  BY <2>1
<1>5. CASE S # {}
  <2>1. PICK x : S = {x}
    BY <1>2, <1>5
  <2>2. Cardinality(S) = 1
    BY <2>1, FS_Singleton
  <2> QED  BY <1>3, <1>5, <2>2
<1> QED  BY <1>4, <1>5

\* AskFor puts every further request for a block off by one retry after the last, made to any
\* peer: if peers answer within the time of a retry, no two requests for it, or answers, are
\* under way, and none when we have it.
THEOREM OneAtATime == DownloadSpec => []AskedOnce
<1>1. DownloadInit => DownloadInv
  BY SyncStarts DEF DownloadInit, DownloadInv
<1>2. DownloadInv /\ [DownloadNext]_<<part, syncVars>> => DownloadInv'
  <2> SUFFICES ASSUME DownloadInv, [DownloadNext]_<<part, syncVars>>, part' = "two", Prompt
               PROVE  SyncInv'
    BY SyncAssumption DEF DownloadInv
  <2>1. part = "two" /\ [SyncNext]_syncVars
    BY DEF DownloadNext
  <2>2. SyncInv
    BY <2>1 DEF DownloadInv
  <2> QED  BY <2>1, <2>2, SyncSteps
<1>3. DownloadInv => AskedOnce
  BY SyncIsOnce DEF DownloadInv, OneRequest, AskedOnce
<1> QED  BY <1>1, <1>2, <1>3, PTL DEF DownloadSpec
================================================================================
