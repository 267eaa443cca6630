---------------------------- MODULE NetworkProofs ----------------------------
(***************************************************************************)
(* What nodes tell one another, for any number of them.                    *)
(***************************************************************************)
EXTENDS MCNetwork, NodeProofs, FiniteSetTheorems, SequenceTheorems, WellFoundedInduction, TLAPS

\* A set as a sequence has all its elements and no others.
LEMMA SeqOfSet ==
  ASSUME NEW S, IsFiniteSet(S)
  PROVE  /\ Cardinality(S) \in Nat
         /\ SetToSeq(S) \in [1..Cardinality(S) -> S]
         /\ \A x \in S : \E i \in 1..Cardinality(S) : SetToSeq(S)[i] = x
<1>1. Cardinality(S) \in Nat /\ ExistsBijection(1..Cardinality(S), S)
  BY FS_CardinalityType
<1>2. \E f \in [1..Cardinality(S) -> S] : IsInjective(f)
  BY <1>1 DEF ExistsBijection, Bijection, Injection, IsInjective
<1>3. SetToSeq(S) \in [1..Cardinality(S) -> S] /\ IsInjective(SetToSeq(S))
  BY <1>2 DEF SetToSeq
<1>4. SetToSeq(S) \in Injection(1..Cardinality(S), S)
  BY <1>3 DEF Injection, IsInjective
<1>5. IsFiniteSet(1..Cardinality(S)) /\ Cardinality(1..Cardinality(S)) = Cardinality(S)
  BY <1>1, FS_Interval
<1>6. SetToSeq(S) \in Surjection(1..Cardinality(S), S)
  BY <1>4, <1>5, FS_Injection
<1> QED  BY <1>1, <1>3, <1>6 DEF Surjection

\* Messages put behind one another, and the first taken.
LEMMA Behind ==
  ASSUME NEW S, NEW s \in Seq(S), NEW t \in Seq(S)
  PROVE  /\ s \o t \in Seq(S)
         /\ \A i \in DOMAIN s : i \in DOMAIN (s \o t) /\ (s \o t)[i] = s[i]
         /\ \A i \in DOMAIN t : Len(s) + i \in DOMAIN (s \o t) /\ (s \o t)[Len(s) + i] = t[i]
         /\ \A i \in DOMAIN (s \o t) : \/ i \in DOMAIN s /\ (s \o t)[i] = s[i]
                                       \/ i - Len(s) \in DOMAIN t /\ (s \o t)[i] = t[i - Len(s)]
<1>1. Len(s) \in Nat /\ Len(t) \in Nat /\ DOMAIN s = 1..Len(s) /\ DOMAIN t = 1..Len(t)
  BY LenProperties
<1>2. /\ s \o t \in Seq(S) /\ Len(s \o t) = Len(s) + Len(t)
      /\ \A i \in 1..Len(s) + Len(t) : (s \o t)[i] = IF i <= Len(s) THEN s[i] ELSE t[i - Len(s)]
  BY ConcatProperties
<1>3. DOMAIN (s \o t) = 1..(Len(s) + Len(t))
  BY <1>2, LenProperties
<1> QED  BY <1>1, <1>2, <1>3

\* The first element of a sequence taken off: the others move up by one.
LEMMA FirstTaken ==
  ASSUME NEW S, NEW s \in Seq(S), s # <<>>
  PROVE  /\ Tail(s) \in Seq(S) /\ Head(s) \in S
         /\ 1 \in DOMAIN s /\ s[1] = Head(s)
         /\ \A i \in DOMAIN Tail(s) : i + 1 \in DOMAIN s /\ Tail(s)[i] = s[i + 1]
         /\ \A i \in DOMAIN s : i # 1 => i - 1 \in DOMAIN Tail(s) /\ Tail(s)[i - 1] = s[i]
BY LenProperties, HeadTailProperties

\* What is the image of a finite set is finite.
LEMMA OntoFinite ==
  ASSUME NEW S, NEW T, NEW f \in [S -> T], IsFiniteSet(S), \A t \in T : \E s \in S : f[s] = t
  PROVE  IsFiniteSet(T)
<1>1. f \in Surjection(S, T)
  BY DEF Surjection
<1> QED  BY <1>1, FS_Surjection

\* Some number of a set is the least; and what holds of 0 and goes from each number to the next holds of all.
LEMMA LeastNatural ==
  ASSUME NEW X, X \subseteq Nat, X # {}
  PROVE  \E n \in X : \A m \in X : n <= m
<1> DEFINE T == {0..n : n \in X}
<1>1. T \subseteq FiniteSubsetsOf(Nat) /\ T # {}
  <2>1. \A n \in X : IsFiniteSet(0..n) /\ 0..n \subseteq Nat
    BY FS_Interval
  <2> QED BY <2>1 DEF FiniteSubsetsOf
<1>2. IsWellFoundedOn(StrictSubsetOrdering(Nat), FiniteSubsetsOf(Nat))
  BY FS_StrictSubsetOrderingWellFounded
<1>3. PICK x \in T : \A y \in T : ~ (<<y, x>> \in StrictSubsetOrdering(Nat))
  <2> HIDE DEF T
  <2> QED BY <1>1, <1>2, WFMin
<1>4. PICK n \in X : x = 0..n
  OBVIOUS
<1>5. ASSUME NEW m \in X, ~(n <= m) PROVE FALSE
  <2>1. 0..m \subseteq 0..n /\ 0..m # 0..n /\ 0..m \in T
    BY <1>5
  <2>2. <<0..m, x>> \in StrictSubsetOrdering(Nat)
    BY <2>1, <1>4 DEF StrictSubsetOrdering
  <2> QED BY <1>3, <2>1, <2>2
<1> QED BY <1>5

\* Induction over the numbers, for a set instead of a predicate.
LEMMA Induction ==
  ASSUME NEW X, 0 \in X, \A n \in Nat : n \in X => n + 1 \in X
  PROVE  Nat \subseteq X
<1> SUFFICES ASSUME ~(Nat \subseteq X) PROVE FALSE OBVIOUS
<1>1. PICK n \in Nat \ X : \A m \in Nat \ X : n <= m
  <2> DEFINE Y == Nat \ X
  <2>1. Y \subseteq Nat /\ Y # {} OBVIOUS
  <2> HIDE DEF Y
  <2>2. \E n \in Y : \A m \in Y : n <= m BY <2>1, LeastNatural
  <2> QED BY <2>2 DEF Y
<1>2. n \in Nat /\ n \notin X /\ n # 0
  OBVIOUS
<1>3. n - 1 \in Nat /\ n - 1 \in X
  BY <1>1, <1>2
<1>4. (n - 1) + 1 = n
  BY <1>2
<1> QED  BY <1>2, <1>3, <1>4

\* The places of a set of numbers, counted from below: one for each number of 1 to as many as they are.
LEMMA Ranks ==
  ASSUME NEW I, I \subseteq Nat, IsFiniteSet(I)
  PROVE  /\ Cardinality(I) \in Nat
         /\ \A i \in I : Cardinality({j \in I : j <= i}) \in 1..Cardinality(I)
         /\ \A i, h \in I : Cardinality({j \in I : j <= i}) = Cardinality({j \in I : j <= h}) => i = h
         /\ \A k \in 1..Cardinality(I) : \E i \in I : Cardinality({j \in I : j <= i}) = k
<1> DEFINE Below(i) == {j \in I : j <= i}
           rank == [i \in I |-> Cardinality(Below(i))]
<1>1. Cardinality(I) \in Nat
  BY FS_CardinalityType
<1>2. ASSUME NEW i \in I PROVE /\ IsFiniteSet(Below(i)) /\ Cardinality(Below(i)) \in Nat
                               /\ Cardinality(Below(i)) \in 1..Cardinality(I)
  <2>1. Below(i) \in SUBSET I /\ i \in Below(i)
    BY <1>2
  <2>2. IsFiniteSet(Below(i)) /\ Cardinality(Below(i)) <= Cardinality(I)
    <3> HIDE DEF Below
    <3> QED  BY <2>1, FS_Subset
  <2>3. Cardinality(Below(i)) \in Nat /\ Cardinality(Below(i)) # 0
    <3> HIDE DEF Below
    <3> QED  BY <2>1, <2>2, FS_CardinalityType, FS_EmptySet
  <2> QED  BY <1>1, <2>2, <2>3
<1>3. ASSUME NEW i \in I, NEW h \in I, Cardinality(Below(i)) = Cardinality(Below(h)) PROVE i = h
  <2>1. \A x, y \in I : x <= y /\ Below(x) = Below(y) => x = y
    <3>1. \A x, y \in I : x <= y /\ Below(x) = Below(y) => y \in Below(x)
      OBVIOUS
    <3> QED  BY <3>1
  <2>2. ASSUME NEW x \in I, NEW y \in I, x <= y PROVE Below(x) \in SUBSET Below(y)
    <3>1. ASSUME NEW j \in I, j <= x PROVE j <= y
      BY <2>2, <3>1
    <3> QED  BY <3>1
  <2>3. i <= h \/ h <= i
    OBVIOUS
  <2>4. ASSUME NEW x \in I, NEW y \in I, x <= y, Cardinality(Below(x)) = Cardinality(Below(y)) PROVE x = y
    <3>1. Below(x) \in SUBSET Below(y) /\ IsFiniteSet(Below(y))
      BY <1>2, <2>2, <2>4
    <3>2. Below(x) = Below(y)
      <4> HIDE DEF Below
      <4> QED  BY <2>4, <3>1, FS_Subset
    <3> QED  BY <2>1, <2>4, <3>2
  <2> HIDE DEF Below
  <2> QED  BY <1>3, <2>3, <2>4
<1>4. rank \in Injection(I, 1..Cardinality(I))
  <2> HIDE DEF Below
  <2>1. rank \in [I -> 1..Cardinality(I)]
    BY <1>2
  <2>2. \A i, h \in I : rank[i] = rank[h] => i = h
    BY <1>3
  <2> HIDE DEF rank
  <2> QED  BY <2>1, <2>2 DEF Injection, IsInjective
<1>5. IsFiniteSet(1..Cardinality(I)) /\ Cardinality(1..Cardinality(I)) = Cardinality(I)
  BY <1>1, FS_Interval
<1>6. rank \in Surjection(I, 1..Cardinality(I))
  <2> HIDE DEF rank
  <2> QED  BY <1>4, <1>5, FS_Injection
<1>7. \A k \in 1..Cardinality(I) : \E i \in I : Cardinality(Below(i)) = k
  <2> HIDE DEF Below
  <2> QED  BY <1>6 DEF Surjection
<1> QED  BY <1>1, <1>2, <1>3, <1>7

\* What is picked of a sequence are its members at the places, each of them once.
LEMMA PickedOnes ==
  ASSUME NEW S, NEW s \in Seq(S), NEW I, I \subseteq DOMAIN s
  PROVE  /\ Picked(s, I) \in Seq(S)
         /\ \A k \in DOMAIN Picked(s, I) : \E i \in I : Picked(s, I)[k] = s[i]
         /\ \A i \in I : \E k \in DOMAIN Picked(s, I) : Picked(s, I)[k] = s[i]
         /\ \A k, l \in DOMAIN Picked(s, I) : k # l =>
              \E i, j \in I : i # j /\ Picked(s, I)[k] = s[i] /\ Picked(s, I)[l] = s[j]
<1> DEFINE Rank(i) == Cardinality({j \in I : j <= i})
           At(k) == CHOOSE i \in I : Rank(i) = k
<1>1. I \subseteq Nat /\ IsFiniteSet(I) /\ DOMAIN s = 1..Len(s) /\ Len(s) \in Nat
  <2>1. DOMAIN s = 1..Len(s) /\ Len(s) \in Nat
    BY LenProperties
  <2>2. IsFiniteSet(1..Len(s))
    BY <2>1, FS_Interval
  <2> QED  BY <2>1, <2>2, FS_Subset
<1>2. /\ Cardinality(I) \in Nat
      /\ \A i \in I : Rank(i) \in 1..Cardinality(I)
      /\ \A i, h \in I : Rank(i) = Rank(h) => i = h
      /\ \A k \in 1..Cardinality(I) : \E i \in I : Rank(i) = k
  BY <1>1, Ranks
<1>3. Picked(s, I) = [k \in 1..Cardinality(I) |-> s[At(k)]]
  BY DEF Picked
<1> HIDE DEF Rank
<1>4. \A k \in 1..Cardinality(I) : At(k) \in I /\ Rank(At(k)) = k
  BY <1>2
<1>5. \A i \in I : At(Rank(i)) = i
  BY <1>2, <1>4
<1> HIDE DEF At
<1>6. \A k \in 1..Cardinality(I) : s[At(k)] \in S
  BY <1>1, <1>4
<1>7. Picked(s, I) \in [1..Cardinality(I) -> S]
  BY <1>3, <1>6
<1>8. Picked(s, I) \in Seq(S)
  BY <1>2, <1>7
<1>9. DOMAIN Picked(s, I) = 1..Cardinality(I)
  BY <1>3
<1>10. \A k, l \in 1..Cardinality(I) : k # l => At(k) # At(l)
  BY <1>4
<1> QED  BY <1>2, <1>3, <1>4, <1>5, <1>8, <1>9, <1>10

\* The same, for a sequence that has a name.
IsPick(S, s, I, p) ==
  /\ p \in Seq(S)
  /\ \A k \in DOMAIN p : \E i \in I : p[k] = s[i]
  /\ \A i \in I : \E k \in DOMAIN p : p[k] = s[i]
  /\ \A k, l \in DOMAIN p : k # l => \E i, j \in I : i # j /\ p[k] = s[i] /\ p[l] = s[j]
\* What PickedOnes says, in that form.
LEMMA PickedIs ==
  ASSUME NEW S, NEW s \in Seq(S), NEW I, I \subseteq DOMAIN s
  PROVE  IsPick(S, s, I, Picked(s, I))
BY PickedOnes DEF IsPick

\* Alerts.
-----------------------------------------------------------------------------
AlertMessages == {Version} \cup {Alert(x) : x \in AlertTable}

AlertsTypeOK ==
  /\ open \subseteq Dials /\ heard \subseteq Ways
  /\ wire \in [Ways -> Seq(AlertMessages)]
  /\ mapAlerts \in [Hosts -> SUBSET AlertTable]
  /\ told \in [Hosts -> SUBSET AlertTable]
  /\ now \in Nat

\* n has x, or an alert that cancels it.
Answered(n, x) == \E z \in mapAlerts[n] : z = x \/ x.id \in z.cancels

\* What a node has been told of it still has, or has an answer to, and cancels nothing that it has.
HostSound(n) ==
  /\ mapAlerts[n] \subseteq told[n]
  /\ \A y \in told[n] : IsInEffect(y) => Answered(n, y)
  /\ \A x, y \in mapAlerts[n] : ~Cancels(y, x)

Linked(n, m) == <<n, m>> \in open \/ <<m, n>> \in open
VersionComes(n, m) == \E i \in DOMAIN wire[<<n, m>>] : wire[<<n, m>>][i] = Version
\* x is on its way from n to m, which will not throw it away.
AlertComes(n, m, x) ==
  \E i \in DOMAIN wire[<<n, m>>] :
    /\ wire[<<n, m>>][i] = Alert(x)
    /\ <<m, n>> \in heard \/ \E j \in 1..(i - 1) : wire[<<n, m>>][j] = Version
Concerns(x, n, m) == AppliesTo(x, n) \/ AppliesTo(x, m)

\* The handshake: n has called m.
CallSound(n, m) ==
  /\ VersionComes(n, m) \/ <<m, n>> \in heard
  /\ VersionComes(m, n) \/ <<n, m>> \in heard => <<m, n>> \in heard
  /\ <<m, n>> \in heard => VersionComes(m, n) \/ <<n, m>> \in heard

\* What n sends m is what it was told, and what n takes m to know m knows or will.
WaySound(n, m) ==
  /\ ~Linked(n, m) => /\ wire[<<n, m>>] = <<>> /\ <<n, m>> \notin heard
                      /\ \A x \in AlertTable : <<n, m, x>> \notin known
  /\ \A i \in DOMAIN wire[<<n, m>>] : \A x \in AlertTable :
       wire[<<n, m>>][i] = Alert(x) => x \in told[n]
  /\ <<n, m>> \in heard => \A x \in mapAlerts[n] : IsInEffect(x) => <<n, m, x>> \in known
  /\ \A x \in AlertTable :
       <<n, m, x>> \in known \ early /\ Concerns(x, n, m) => Answered(m, x) \/ AlertComes(n, m, x)

AlertsInv ==
  /\ AlertsTypeOK
  /\ \A n \in Hosts : HostSound(n)
  /\ \A n, m \in Hosts : <<n, m>> \in Ways => WaySound(n, m)
  /\ \A n, m \in Hosts : <<n, m>> \in open => CallSound(n, m)

\* What a way is.
LEMMA WaysAre ==
  ASSUME AlertsAssumption
  PROVE  /\ \A n, m \in Hosts : <<n, m>> \in Ways <=> <<n, m>> \in Dials \/ <<m, n>> \in Dials
         /\ \A n \in Hosts : <<n, n>> \notin Dials
         /\ \A n, m \in Hosts : <<n, m>> \in Ways => <<m, n>> \in Ways /\ n # m
         /\ \A w \in Ways : w = <<w[1], w[2]>> /\ w[1] \in Hosts /\ w[2] \in Hosts
BY DEF Ways, AlertsAssumption

\* An alert is not the version message, and is known by its message.
LEMMA AlertsDiffer == \A x, y : Alert(x) # Version /\ (Alert(x) = Alert(y) => x = y) /\ Alert(x).alert = x
<1>1. \A x : Alert(x).kind # Version.kind /\ Alert(x).alert = x
  BY DEF Alert, Version
<1> QED  BY <1>1

\* The properties follow.
LEMMA AlertsInvImplies == ASSUME AlertsAssumption, AlertsInv PROVE AlertsAreRight
<1>1. ASSUME NEW n \in Hosts, NEW x \in GetWarnings(n, 0), NEW y \in told[n], Cancels(y, x) PROVE FALSE
  <2>1. x \in mapAlerts[n] /\ IsInEffect(x) /\ IsInEffect(y) /\ x.id \in y.cancels
        /\ x \in AlertTable /\ y \in AlertTable
    BY <1>1 DEF GetWarnings, AppliesTo, Cancels, AlertsInv, AlertsTypeOK
  <2>2. PICK z \in mapAlerts[n] : z = y \/ y.id \in z.cancels
    BY <2>1 DEF AlertsInv, HostSound, Answered
  <2>3. z \in AlertTable
    BY <2>2 DEF AlertsInv, AlertsTypeOK
  <2>4. x.id \in z.cancels /\ y.expires <= z.expires
    BY <2>1, <2>2, <2>3 DEF AlertsAssumption
  <2>5. IsInEffect(z)
    BY <2>1, <2>3, <2>4 DEF IsInEffect, AlertsInv, AlertsTypeOK, AlertsAssumption
  <2> QED  BY <2>1, <2>2, <2>4, <2>5 DEF AlertsInv, HostSound, Cancels
<1>2. ASSUME NEW n \in Hosts, NEW m \in Hosts, <<n, m>> \in Ways, m \in Connected(n),
             \A v \in Ways : wire[v] = <<>>,
             NEW x \in mapAlerts[n], Concerns(x, n, m), <<n, m, x>> \notin early
      PROVE  x \in mapAlerts[m] \/ \E y \in mapAlerts[m] : Cancels(y, x)
  <2>1. <<m, n>> \in Ways /\ x \in AlertTable /\ IsInEffect(x)
    BY <1>2, WaysAre DEF AlertsInv, AlertsTypeOK, Concerns, AppliesTo
  <2>2. ~VersionComes(n, m) /\ ~VersionComes(m, n) /\ ~AlertComes(n, m, x)
    BY <1>2, <2>1 DEF VersionComes, AlertComes
  <2>3. <<n, m>> \in heard
    BY <1>2, <2>2 DEF Connected, AlertsInv, CallSound
  <2>4. <<n, m, x>> \in known
    BY <1>2, <2>1, <2>3 DEF AlertsInv, WaySound
  <2>5. Answered(m, x)
    BY <1>2, <2>1, <2>2, <2>4 DEF AlertsInv, WaySound
  <2>6. PICK z \in mapAlerts[m] : z = x \/ x.id \in z.cancels
    BY <2>5 DEF Answered
  <2>7. z \in AlertTable
    BY <2>6 DEF AlertsInv, AlertsTypeOK
  <2>8. x.id \in z.cancels => x.expires <= z.expires
    BY <2>1, <2>7 DEF AlertsAssumption
  <2>9. x.id \in z.cancels => IsInEffect(z)
    BY <2>1, <2>7, <2>8 DEF IsInEffect, AlertsInv, AlertsTypeOK, AlertsAssumption
  <2> QED  BY <2>6, <2>9 DEF Cancels
<1>3. AlertsAgree
  <2>1. SUFFICES ASSUME NEW w \in Ways, w[2] \in Connected(w[1]), \A v \in Ways : wire[v] = <<>>,
                        NEW x \in mapAlerts[w[1]], Concerns(x, w[1], w[2])
                 PROVE  \/ x \in mapAlerts[w[2]] \/ \E y \in mapAlerts[w[2]] : Cancels(y, x)
                        \/ <<w[1], w[2], x>> \in early
    BY DEF AlertsAgree, Concerns
  <2>2. w[1] \in Hosts /\ w[2] \in Hosts /\ <<w[1], w[2]>> \in Ways
    BY WaysAre
  <2> QED  BY <1>2, <2>1, <2>2
<1> QED  BY <1>1, <1>3 DEF AlertsAreRight, NoneIsCancelled

\* No node has been told anything yet.
LEMMA AlertsInitially ==
  ASSUME AlertsAssumption, NEW issued, NEW broken, AlertsInit(issued, broken)
  PROVE  AlertsInv
<1>1. AlertsTypeOK
  BY DEF AlertsInit, AlertsTypeOK
<1>2. \A n \in Hosts : HostSound(n)
  BY DEF AlertsInit, HostSound
<1>3. \A n, m \in Hosts : <<n, m>> \in Ways => WaySound(n, m)
  BY DEF AlertsInit, WaySound
<1> QED  BY <1>1, <1>2, <1>3 DEF AlertsInv, AlertsInit

\* ProcessAlert: the new alert is answered, what was answered stays so, and nothing is
\* cancelled that stays.
LEMMA ProcessAlertKeeps ==
  ASSUME AlertsAssumption, now \in Nat, NEW x \in AlertTable, NEW has, has \subseteq AlertTable,
         \A a, b \in has : ~Cancels(b, a)
  PROVE  LET new == ProcessAlert(x, has) IN
         /\ new.kept \subseteq has \cup {x} /\ new.kept \subseteq AlertTable
         /\ new.accepted \in BOOLEAN
         /\ new.accepted => x \in new.kept
         /\ x \in new.kept => new.accepted \/ x \in has
         /\ \A a, b \in new.kept : ~Cancels(b, a)
         /\ IsInEffect(x) => \E z \in new.kept : z = x \/ x.id \in z.cancels
         /\ \A y \in AlertTable :
              IsInEffect(y) /\ (\E z \in has : z = y \/ y.id \in z.cancels) =>
                \E z \in new.kept : z = y \/ y.id \in z.cancels
<1> DEFINE left == {y \in has : ~Cancels(x, y) /\ IsInEffect(y)}
           accepted == IsInEffect(x) /\ ~\E y \in left : Cancels(y, x)
           kept == IF ~IsInEffect(x) THEN has ELSE IF accepted THEN left \cup {x} ELSE left
<1>1. ProcessAlert(x, has).accepted = accepted /\ ProcessAlert(x, has).kept = kept
  BY DEF ProcessAlert
<1>2. kept \subseteq has \cup {x} /\ kept \subseteq AlertTable /\ (accepted => x \in kept)
      /\ (x \in kept => accepted \/ x \in has)
  OBVIOUS
<1>3. x.id \notin x.cancels
  BY DEF AlertsAssumption
<1>4. ASSUME NEW a \in kept, NEW b \in kept, Cancels(b, a) PROVE FALSE
  BY <1>3, <1>4 DEF Cancels
<1>5. IsInEffect(x) => \E z \in kept : z = x \/ x.id \in z.cancels
  BY DEF Cancels
<1>6. ASSUME NEW y \in AlertTable, IsInEffect(y), NEW z \in has, z = y \/ y.id \in z.cancels
      PROVE  \E v \in kept : v = y \/ y.id \in v.cancels
  <2>1. CASE ~IsInEffect(x)
    BY <1>6, <2>1
  <2>2. CASE IsInEffect(x)
    <3>1. y.id \in z.cancels => y.expires <= z.expires
      BY <1>6 DEF AlertsAssumption
    <3>2. IsInEffect(z)
      BY <1>6, <3>1 DEF IsInEffect, AlertsAssumption
    <3>3. CASE z \in left
      BY <1>6, <2>2, <3>3
    <3>4. CASE z \notin left
      <4>1. z.id \in x.cancels
        BY <1>6, <3>2, <3>4 DEF Cancels
      <4>2. y.id \in x.cancels
        BY <1>6, <4>1 DEF AlertsAssumption
      <4>3. PICK v \in kept : v = x \/ x.id \in v.cancels
        BY <1>5, <2>2
      <4>4. y.id \in v.cancels
        BY <1>2, <4>2, <4>3, <1>6 DEF AlertsAssumption
      <4> QED  BY <4>4
    <3> QED  BY <3>3, <3>4
  <2> QED  BY <2>1, <2>2
<1> HIDE DEF left, accepted, kept
<1>7. accepted \in BOOLEAN
  BY DEF accepted
<1> QED  BY <1>1, <1>2, <1>4, <1>5, <1>6, <1>7

\* RelayTo: what is due to a peer is known to it from then on, and is sent to it if it concerns one
\* of the two and the peer has been heard.
Tells(relay, n, m, xs, verd) ==
  /\ relay.messages[m] \in Seq({Alert(x) : x \in xs})
  /\ \A x \in xs : IsInEffect(x) => <<n, m, x>> \in known \cup relay.known
  /\ \A x \in AlertTable :
       <<n, m, x>> \in relay.known /\ <<n, m, x>> \notin relay.early /\ Concerns(x, n, m) =>
         /\ <<n, m>> \in verd
         /\ \E i \in DOMAIN relay.messages[m] : relay.messages[m][i] = Alert(x)
\* That is what RelayTo does for each peer it tells.
LEMMA RelayToTells ==
  ASSUME AlertsAssumption, NEW n \in Hosts, NEW xs, xs \subseteq AlertTable, NEW ms, ms \subseteq Hosts,
         NEW verd, NEW m \in ms
  PROVE  Tells(RelayTo(n, xs, ms, verd), n, m, xs, verd)
<1> DEFINE due == {r \in ms \X xs : IsInEffect(r[2]) /\ <<n, r[1], r[2]>> \notin known}
           sending == {r \in due : \/ <<n, r[1]>> \in verd /\ AppliesTo(r[2], r[1])
                                   \/ AppliesTo(r[2], n)
                                   \/ now < r[2].relayUntil}
           S == {r[2] : r \in {r \in sending : r[1] = m}}
           card == Cardinality({r \in sending : r[1] = m})
           relay == RelayTo(n, xs, ms, verd)
<1>1. /\ relay.known = {<<n, r[1], r[2]>> : r \in due}
      /\ relay.early = {<<n, r[1], r[2]>> : r \in {r \in due : <<n, r[1]>> \notin verd}}
      /\ relay.messages[m] = [i \in 1..card |-> Alert(SetToSeq(S)[i])]
  BY DEF RelayTo
<1>2. sending \subseteq ms \X xs
  OBVIOUS
<1> HIDE DEF due, sending, relay
<1>3. S \subseteq xs /\ IsFiniteSet(S)
  <2>1. S \subseteq xs
    BY <1>2
  <2> HIDE DEF S
  <2>2. S \in SUBSET AlertTable
    BY <2>1
  <2> QED  BY <2>1, <2>2, FS_Subset DEF AlertsAssumption
<1>4. card = Cardinality(S)
  <2> DEFINE R == {r \in sending : r[1] = m}
             f == [x \in S |-> <<m, x>>]
  <2>1. f \in [S -> R] /\ (\A x, y \in S : f[x] = f[y] => x = y) /\ \A r \in R : \E x \in S : f[x] = r
    <3>1. \A r \in R : r = <<m, r[2]>> /\ r[2] \in S
      BY <1>2
    <3>2. \A x \in S : <<m, x>> \in R
      BY <3>1
    <3> HIDE DEF R, S
    <3> QED  BY <3>1, <3>2
  <2> HIDE DEF R, S, f
  <2>2. ExistsBijection(S, R)
    <3>1. f \in Injection(S, R) /\ f \in Surjection(S, R)
      BY <2>1 DEF Injection, Surjection, IsInjective
    <3> QED  BY <3>1 DEF ExistsBijection, Bijection
  <2>3. Cardinality(R) = Cardinality(S)
    BY <1>3, <2>2, FS_Bijection
  <2>4. card = Cardinality(R)
    BY DEF R
  <2> HIDE DEF card
  <2> QED  BY <2>3, <2>4
<1>5. /\ card \in Nat
      /\ SetToSeq(S) \in [1..card -> S]
      /\ \A x \in S : \E i \in 1..card : SetToSeq(S)[i] = x
  <2> HIDE DEF S, card
  <2> QED  BY <1>3, <1>4, SeqOfSet
<1>6. relay.messages[m] \in Seq({Alert(x) : x \in xs})
  <2>1. [i \in 1..card |-> Alert(SetToSeq(S)[i])] \in [1..card -> {Alert(x) : x \in xs}]
    <3> HIDE DEF S, card
    <3> QED  BY <1>3, <1>5
  <2>2. \A T, k, g : k \in Nat /\ g \in [1..k -> T] => g \in Seq(T)
    OBVIOUS
  <2> HIDE DEF S, card
  <2> QED  BY ONLY <1>1, <1>5, <2>1, <2>2
<1>7. ASSUME NEW x \in xs, IsInEffect(x) PROVE <<n, m, x>> \in known \cup relay.known
  <2>1. CASE <<n, m, x>> \notin known
    <3>1. <<m, x>> \in due
      <4>1. <<m, x>> \in ms \X xs /\ <<m, x>>[1] = m /\ <<m, x>>[2] = x
        BY <1>7
      <4> QED  BY <1>7, <2>1, <4>1 DEF due
    <3>2. <<n, <<m, x>>[1], <<m, x>>[2]>> \in relay.known
      <4> HIDE DEF due, relay
      <4> QED  BY <1>1, <3>1
    <3> HIDE DEF relay
    <3> QED  BY <3>2
  <2> QED  BY <2>1
<1>8. ASSUME NEW x \in AlertTable, <<n, m, x>> \in relay.known, <<n, m, x>> \notin relay.early,
             Concerns(x, n, m)
      PROVE  /\ <<n, m>> \in verd
             /\ \E i \in DOMAIN relay.messages[m] : relay.messages[m][i] = Alert(x)
  <2>1. PICK r \in due : r = <<m, x>>
    <3>1. PICK r \in due : <<n, r[1], r[2]>> = <<n, m, x>>
      <4> HIDE DEF due, relay
      <4> QED  BY <1>1, <1>8
    <3>2. r = <<r[1], r[2]>>
      BY DEF due
    <3> HIDE DEF due, relay
    <3> QED  BY <3>1, <3>2
  <2>2. <<n, m>> \in verd
    <3> HIDE DEF due, relay
    <3> QED  BY <1>1, <1>8, <2>1
  <2>3. <<m, x>> \in sending
    BY <1>8, <2>1, <2>2 DEF Concerns, sending
  <2>4. x \in S
    <3>1. <<m, x>>[1] = m /\ <<m, x>>[2] = x
      OBVIOUS
    <3> QED  BY <2>3, <3>1
  <2>5. PICK i \in 1..card : SetToSeq(S)[i] = x
    <3> HIDE DEF S, card
    <3> QED  BY <1>5, <2>4
  <2>6. DOMAIN relay.messages[m] = 1..card /\ relay.messages[m][i] = Alert(x)
    <3> HIDE DEF S, card, relay
    <3> QED  BY <1>1, <2>5
  <2> QED  BY <2>2, <2>6
<1> HIDE DEF relay
<1>9. Tells(relay, n, m, xs, verd)
  BY <1>6, <1>7, <1>8 DEF Tells
<1> QED  BY <1>9 DEF relay

\* The first message of a way may have been read, and then its effect is there.
MayBeRead(n, m, rest) ==
  LET before == wire[<<n, m>>] IN
  \/ rest = before
  \/ /\ before # <<>> /\ rest = Tail(before)
     /\ Head(before) = Version => <<m, n>> \in heard'
     /\ \A x \in AlertTable :
          Head(before) = Alert(x) /\ <<m, n>> \in heard /\ IsInEffect(x) => Answered(m, x)'
\* What is taken from a way, and what is put in.
Goes(n, m, s) ==
  \E rest \in Seq(AlertMessages) : wire'[<<n, m>>] = rest \o s /\ MayBeRead(n, m, rest)

\* Whatever came still does, or has been read.
LEMMA Arrivals ==
  ASSUME AlertsTypeOK, NEW n \in Hosts, NEW m \in Hosts, <<n, m>> \in Ways,
         NEW s \in Seq(AlertMessages), Goes(n, m, s), heard \subseteq heard'
  PROVE  /\ VersionComes(n, m) => VersionComes(n, m)' \/ <<m, n>> \in heard'
         /\ \A x \in AlertTable :
              AlertComes(n, m, x) /\ IsInEffect(x) => AlertComes(n, m, x)' \/ Answered(m, x)'
         /\ VersionComes(n, m)' => VersionComes(n, m) \/ \E i \in DOMAIN s : s[i] = Version
         /\ \A i \in DOMAIN wire'[<<n, m>>] :
              (\E j \in DOMAIN wire[<<n, m>>] : wire'[<<n, m>>][i] = wire[<<n, m>>][j])
              \/ \E j \in DOMAIN s : wire'[<<n, m>>][i] = s[j]
         /\ \A x \in AlertTable, i \in DOMAIN s :
              s[i] = Alert(x) /\ (<<m, n>> \in heard' \/ VersionComes(n, m)
                                  \/ \E j \in 1..(i - 1) : s[j] = Version) => AlertComes(n, m, x)'
<1> DEFINE before == wire[<<n, m>>]
           after == wire'[<<n, m>>]
<1>1. before \in Seq(AlertMessages)
  BY DEF AlertsTypeOK
<1>2. PICK rest \in Seq(AlertMessages) :
        /\ after = rest \o s
        /\ \/ rest = before
           \/ /\ before # <<>> /\ rest = Tail(before)
              /\ Head(before) = Version => <<m, n>> \in heard'
              /\ \A x \in AlertTable :
                   Head(before) = Alert(x) /\ <<m, n>> \in heard /\ IsInEffect(x) => Answered(m, x)'
  BY DEF Goes, MayBeRead
<1>3. /\ \A i \in DOMAIN rest : i \in DOMAIN after /\ after[i] = rest[i]
      /\ \A i \in DOMAIN s : Len(rest) + i \in DOMAIN after /\ after[Len(rest) + i] = s[i]
      /\ \A i \in DOMAIN after : \/ i \in DOMAIN rest /\ after[i] = rest[i]
                                 \/ i - Len(rest) \in DOMAIN s /\ after[i] = s[i - Len(rest)]
      /\ Len(rest) \in Nat /\ DOMAIN rest = 1..Len(rest) /\ DOMAIN before = 1..Len(before)
      /\ DOMAIN s = 1..Len(s) /\ Len(s) \in Nat /\ Len(before) \in Nat
  <2>1. after = rest \o s
    BY <1>2
  <2>2. /\ Len(rest) \in Nat /\ DOMAIN rest = 1..Len(rest) /\ DOMAIN before = 1..Len(before)
        /\ DOMAIN s = 1..Len(s) /\ Len(s) \in Nat /\ Len(before) \in Nat
    BY <1>1, LenProperties
  <2> HIDE DEF before, after
  <2>3. /\ \A i \in DOMAIN rest : i \in DOMAIN after /\ after[i] = rest[i]
        /\ \A i \in DOMAIN s : Len(rest) + i \in DOMAIN after /\ after[Len(rest) + i] = s[i]
        /\ \A i \in DOMAIN after : \/ i \in DOMAIN rest /\ after[i] = rest[i]
                                   \/ i - Len(rest) \in DOMAIN s /\ after[i] = s[i - Len(rest)]
    BY <2>1, Behind
  <2> QED  BY <2>2, <2>3
<1>4. CASE rest = before
  <2> HIDE DEF before, after
  <2>1. (\E i \in DOMAIN before : before[i] = Version) => \E i \in DOMAIN after : after[i] = Version
    BY <1>3, <1>4
  <2>2. ASSUME NEW x \in AlertTable, NEW i \in DOMAIN before, before[i] = Alert(x),
               <<m, n>> \in heard \/ \E j \in 1..(i - 1) : before[j] = Version
        PROVE  \E k \in DOMAIN after :
                 after[k] = Alert(x) /\ (<<m, n>> \in heard' \/ \E j \in 1..(k - 1) : after[j] = Version)
    <3>1. i \in DOMAIN after /\ after[i] = Alert(x)
      BY <1>3, <1>4, <2>2
    <3>2. ASSUME NEW j \in 1..(i - 1) PROVE after[j] = before[j]
      <4>1. i \in 1..Len(before)
        BY <1>3
      <4>2. j \in 1..Len(before)
        BY <1>3, <4>1
      <4>3. j \in DOMAIN rest
        BY <1>3, <1>4, <4>2
      <4> QED  BY <1>3, <1>4, <4>3
    <3>3. CASE <<m, n>> \in heard
      BY <3>1, <3>3
    <3>4. CASE \E j \in 1..(i - 1) : before[j] = Version
      <4>1. PICK j \in 1..(i - 1) : before[j] = Version
        BY <3>4
      <4>2. after[j] = Version
        BY <3>2, <4>1
      <4> QED  BY <3>1, <4>2
    <3> QED  BY <2>2, <3>3, <3>4
  <2>3. (\E i \in DOMAIN after : after[i] = Version) =>
          (\E i \in DOMAIN before : before[i] = Version) \/ \E i \in DOMAIN s : s[i] = Version
    BY <1>3, <1>4
  <2>4. \A i \in DOMAIN after : (\E j \in DOMAIN before : after[i] = before[j])
                                 \/ \E j \in DOMAIN s : after[i] = s[j]
    BY <1>3, <1>4
  <2>5. ASSUME NEW x \in AlertTable, NEW i \in DOMAIN s, s[i] = Alert(x),
               \/ <<m, n>> \in heard' \/ \E j \in DOMAIN before : before[j] = Version
               \/ \E j \in 1..(i - 1) : s[j] = Version
        PROVE  \E k \in DOMAIN after :
                 after[k] = Alert(x) /\ (<<m, n>> \in heard' \/ \E j \in 1..(k - 1) : after[j] = Version)
    <3>1. Len(rest) + i \in DOMAIN after /\ after[Len(rest) + i] = Alert(x)
      BY <1>3, <2>5
    <3>2. CASE <<m, n>> \in heard'
      BY <3>1, <3>2
    <3>3. CASE \E j \in DOMAIN before : before[j] = Version
      <4>1. PICK j \in DOMAIN before : before[j] = Version
        BY <3>3
      <4>2. j \in 1..(Len(rest) + i - 1) /\ after[j] = Version
        BY <1>3, <1>4, <4>1
      <4> QED  BY <3>1, <4>2
    <3>4. CASE \E j \in 1..(i - 1) : s[j] = Version
      <4>1. PICK j \in 1..(i - 1) : s[j] = Version
        BY <3>4
      <4>2. j \in DOMAIN s
        BY <1>3, <4>1
      <4>3. Len(rest) + j \in 1..(Len(rest) + i - 1) /\ after[Len(rest) + j] = Version
        BY <1>3, <4>1, <4>2
      <4> QED  BY <3>1, <4>3
    <3> QED  BY <2>5, <3>2, <3>3, <3>4
  <2> QED  BY <2>1, <2>2, <2>3, <2>4, <2>5 DEF VersionComes, AlertComes, before, after
<1>5. CASE rest # before
  <2>1. /\ before # <<>> /\ rest = Tail(before)
        /\ Head(before) = Version => <<m, n>> \in heard'
        /\ \A x \in AlertTable :
             Head(before) = Alert(x) /\ <<m, n>> \in heard /\ IsInEffect(x) => Answered(m, x)'
    BY <1>2, <1>5
  <2>2. /\ 1 \in DOMAIN before /\ before[1] = Head(before)
        /\ \A i \in DOMAIN rest : i + 1 \in DOMAIN before /\ rest[i] = before[i + 1]
        /\ \A i \in DOMAIN before : i # 1 => i - 1 \in DOMAIN rest /\ rest[i - 1] = before[i]
    BY <1>1, <2>1, FirstTaken
  <2> HIDE DEF before, after
  <2>3. ASSUME NEW i \in DOMAIN before, before[i] = Version
        PROVE  (\E j \in DOMAIN after : after[j] = Version) \/ <<m, n>> \in heard'
    <3>1. CASE i = 1
      BY <2>1, <2>2, <2>3, <3>1
    <3>2. CASE i # 1
      <4>1. i - 1 \in DOMAIN rest /\ rest[i - 1] = Version
        BY <2>2, <2>3, <3>2
      <4> QED  BY <1>3, <4>1
    <3> QED  BY <3>1, <3>2
  <2>4. ASSUME NEW x \in AlertTable, IsInEffect(x), NEW i \in DOMAIN before, before[i] = Alert(x),
               <<m, n>> \in heard \/ \E j \in 1..(i - 1) : before[j] = Version
        PROVE  Answered(m, x)' \/ \E k \in DOMAIN after :
                 after[k] = Alert(x) /\ (<<m, n>> \in heard' \/ \E j \in 1..(k - 1) : after[j] = Version)
    <3>1. CASE i = 1
      BY <1>3, <2>1, <2>2, <2>4, <3>1
    <3>2. CASE i # 1
      <4>1. i - 1 \in DOMAIN after /\ after[i - 1] = Alert(x)
        BY <1>3, <2>2, <2>4, <3>2
      <4>2. CASE <<m, n>> \in heard'
        BY <4>1, <4>2
      <4>3. CASE <<m, n>> \notin heard'
        <5>1. PICK j \in 1..(i - 1) : before[j] = Version
          BY <2>4, <4>3
        <5>2. j # 1 /\ j \in DOMAIN before
          BY <1>3, <2>1, <2>2, <2>4, <4>3, <5>1
        <5>3. j - 1 \in 1..(i - 1 - 1) /\ after[j - 1] = Version
          BY <1>3, <2>2, <5>1, <5>2
        <5> QED  BY <4>1, <5>3
      <4> QED  BY <4>2, <4>3
    <3> QED  BY <3>1, <3>2
  <2>5. (\E i \in DOMAIN after : after[i] = Version) =>
          (\E i \in DOMAIN before : before[i] = Version) \/ \E i \in DOMAIN s : s[i] = Version
    BY <1>3, <2>2
  <2>6. \A i \in DOMAIN after : (\E j \in DOMAIN before : after[i] = before[j])
                                 \/ \E j \in DOMAIN s : after[i] = s[j]
    BY <1>3, <2>2
  <2>7. ASSUME NEW x \in AlertTable, NEW i \in DOMAIN s, s[i] = Alert(x),
               \/ <<m, n>> \in heard' \/ \E j \in DOMAIN before : before[j] = Version
               \/ \E j \in 1..(i - 1) : s[j] = Version
        PROVE  \E k \in DOMAIN after :
                 after[k] = Alert(x) /\ (<<m, n>> \in heard' \/ \E j \in 1..(k - 1) : after[j] = Version)
    <3>1. Len(rest) + i \in DOMAIN after /\ after[Len(rest) + i] = Alert(x)
      BY <1>3, <2>7
    <3>2. CASE <<m, n>> \in heard'
      BY <3>1, <3>2
    <3>3. CASE <<m, n>> \notin heard' /\ \E j \in DOMAIN before : before[j] = Version
      <4>1. PICK j \in DOMAIN before : before[j] = Version
        BY <3>3
      <4>2. j - 1 \in DOMAIN rest /\ rest[j - 1] = Version
        BY <2>1, <2>2, <3>3, <4>1
      <4>3. j - 1 \in 1..(Len(rest) + i - 1) /\ after[j - 1] = Version
        BY <1>3, <4>2
      <4> QED  BY <3>1, <4>3
    <3>4. CASE \E j \in 1..(i - 1) : s[j] = Version
      <4>1. PICK j \in 1..(i - 1) : s[j] = Version
        BY <3>4
      <4>2. j \in DOMAIN s
        BY <1>3, <4>1
      <4>3. Len(rest) + j \in 1..(Len(rest) + i - 1) /\ after[Len(rest) + j] = Version
        BY <1>3, <4>1, <4>2
      <4> QED  BY <3>1, <4>3
    <3> QED  BY <2>7, <3>2, <3>3, <3>4
  <2> QED  BY <2>3, <2>4, <2>5, <2>6, <2>7 DEF VersionComes, AlertComes, before, after
<1> QED  BY <1>4, <1>5

\* What a step adds to a way is sound if what it sends was told and what it takes to be known arrives.
LEMMA WayStep ==
  ASSUME AlertsAssumption, AlertsTypeOK, now' = now, NEW n \in Hosts, NEW m \in Hosts, <<n, m>> \in Ways,
         WaySound(n, m), NEW s \in Seq(AlertMessages), Goes(n, m, s), heard \subseteq heard',
         told[n] \subseteq told'[n],
         \A x \in AlertTable : IsInEffect(x) /\ Answered(m, x) => Answered(m, x)',
         Linked(n, m) => Linked(n, m)',
         ~Linked(n, m)' => /\ s = <<>> /\ <<n, m>> \notin heard'
                           /\ \A x \in AlertTable : <<n, m, x>> \notin known',
         \A i \in DOMAIN s : \A x \in AlertTable : s[i] = Alert(x) => x \in told'[n],
         <<n, m>> \in heard' => \A x \in mapAlerts'[n] : IsInEffect(x) => <<n, m, x>> \in known',
         \A x \in AlertTable : <<n, m, x>> \in known' \ early' /\ Concerns(x, n, m) =>
           \/ <<n, m, x>> \in known \ early
           \/ Answered(m, x)'
           \/ \E i \in DOMAIN s : s[i] = Alert(x) /\ (<<m, n>> \in heard' \/ VersionComes(n, m)
                                                      \/ \E j \in 1..(i - 1) : s[j] = Version)
  PROVE  WaySound(n, m)'
<1>1. \A i \in DOMAIN wire'[<<n, m>>] :
        (\E j \in DOMAIN wire[<<n, m>>] : wire'[<<n, m>>][i] = wire[<<n, m>>][j])
        \/ \E j \in DOMAIN s : wire'[<<n, m>>][i] = s[j]
  BY ONLY Arrivals, AlertsTypeOK, n \in Hosts, m \in Hosts, <<n, m>> \in Ways,
          s \in Seq(AlertMessages), Goes(n, m, s), heard \subseteq heard'
<1> USE DEF Concerns, AppliesTo, IsInEffect
<1>2. ~Linked(n, m)' => wire'[<<n, m>>] = <<>>
  <2>1. SUFFICES ASSUME ~Linked(n, m)' PROVE wire'[<<n, m>>] = <<>>
    OBVIOUS
  <2>2. wire[<<n, m>>] = <<>> /\ s = <<>>
    BY <2>1 DEF WaySound
  <2>3. PICK rest \in Seq(AlertMessages) :
          wire'[<<n, m>>] = rest \o s /\ (rest = wire[<<n, m>>] \/ wire[<<n, m>>] # <<>>)
    BY DEF Goes, MayBeRead
  <2>4. rest = <<>>
    BY <2>2, <2>3
  <2>5. <<>> \o <<>> = <<>>
    OBVIOUS
  <2> QED  BY <2>2, <2>3, <2>4, <2>5
<1>3. ASSUME NEW i \in DOMAIN wire'[<<n, m>>], NEW x \in AlertTable, wire'[<<n, m>>][i] = Alert(x)
      PROVE  x \in told'[n]
  <2>1. \/ \E j \in DOMAIN wire[<<n, m>>] : wire'[<<n, m>>][i] = wire[<<n, m>>][j]
        \/ \E j \in DOMAIN s : wire'[<<n, m>>][i] = s[j]
    BY <1>1
  <2> QED  BY <1>3, <2>1 DEF WaySound
<1>4. ASSUME NEW x \in AlertTable, <<n, m, x>> \in known' \ early', Concerns(x, n, m)
      PROVE  Answered(m, x)' \/ AlertComes(n, m, x)'
  <2>1. IsInEffect(x)
    BY <1>4
  <2>2. CASE <<n, m, x>> \in known \ early
    <3>1. Answered(m, x) \/ AlertComes(n, m, x)
      BY <1>4, <2>2 DEF WaySound
    <3>2. AlertComes(n, m, x) => AlertComes(n, m, x)' \/ Answered(m, x)'
      BY <2>1, Arrivals
    <3> QED  BY <2>1, <3>1, <3>2
  <2>3. CASE \E i \in DOMAIN s : s[i] = Alert(x) /\ (<<m, n>> \in heard' \/ VersionComes(n, m)
                                                     \/ \E j \in 1..(i - 1) : s[j] = Version)
    BY <2>3, Arrivals
  <2> QED  BY <1>4, <2>2, <2>3
<1>5. \A x : Concerns(x, n, m)' <=> Concerns(x, n, m)
  OBVIOUS
<1> QED  BY <1>2, <1>3, <1>4, <1>5 DEF WaySound

\* A version message stays on its way until it is heard, and the callee's is sent when it has heard
\* the caller's.
LEMMA CallStep ==
  ASSUME AlertsTypeOK, NEW n \in Hosts, NEW m \in Hosts, <<n, m>> \in Ways, <<m, n>> \in Ways,
         CallSound(n, m), NEW s \in Seq(AlertMessages), NEW t \in Seq(AlertMessages),
         Goes(n, m, s), Goes(m, n, t), heard \subseteq heard',
         \A i \in DOMAIN t : t[i] = Version => <<m, n>> \in heard',
         <<n, m>> \in heard' => <<n, m>> \in heard \/ VersionComes(m, n),
         <<m, n>> \in heard' => <<m, n>> \in heard \/ VersionComes(m, n)'
  PROVE  CallSound(n, m)'
<1>1. VersionComes(n, m) => VersionComes(n, m)' \/ <<m, n>> \in heard'
  BY Arrivals
<1>2. VersionComes(m, n) => VersionComes(m, n)' \/ <<n, m>> \in heard'
  BY Arrivals
<1>3. VersionComes(m, n)' => VersionComes(m, n) \/ \E i \in DOMAIN t : t[i] = Version
  BY Arrivals
<1> QED  BY <1>1, <1>2, <1>3 DEF CallSound

\* What RelayTo takes to be known is of the peers it deals with.
LEMMA RelayToKnows ==
  ASSUME NEW n, NEW xs, NEW ms, NEW verd, NEW r \in RelayTo(n, xs, ms, verd).known
  PROVE  \E m \in ms, x \in xs : r = <<n, m, x>>
<1> DEFINE due == {q \in ms \X xs : IsInEffect(q[2]) /\ <<n, q[1], q[2]>> \notin known}
<1>1. r \in {<<n, q[1], q[2]>> : q \in due}
  BY DEF RelayTo
<1>2. PICK q \in due : r = <<n, q[1], q[2]>>
  BY <1>1
<1> QED  BY <1>2

\* The node that an alert comes to.
LEMMA AlertHosts ==
  ASSUME AlertsAssumption, AlertsInv, now' = now, NEW n \in Hosts, NEW m, NEW x \in AlertTable, NEW rest,
         AlertMessage(n, m, x, rest)
  PROVE  /\ mapAlerts' \in [Hosts -> SUBSET AlertTable] /\ told' \in [Hosts -> SUBSET AlertTable]
         /\ \A k \in Hosts : HostSound(k)'
         /\ \A k \in Hosts : told[k] \subseteq told'[k]
         /\ \A k \in Hosts, y \in AlertTable : IsInEffect(y) /\ Answered(k, y) => Answered(k, y)'
         /\ IsInEffect(x) => Answered(n, x)'
         /\ \A k \in Hosts : k # n => mapAlerts'[k] = mapAlerts[k]
         /\ mapAlerts'[n] \subseteq mapAlerts[n] \cup {x}
         /\ x \in mapAlerts'[n] => ProcessAlert(x, mapAlerts[n]).accepted \/ x \in mapAlerts[n]
         /\ ProcessAlert(x, mapAlerts[n]).accepted \in BOOLEAN
         /\ ProcessAlert(x, mapAlerts[n]).accepted => IsInEffect(x) /\ x \in told'[n]
<1> DEFINE result == ProcessAlert(x, mapAlerts[n])
<1>1. /\ mapAlerts \in [Hosts -> SUBSET AlertTable] /\ told \in [Hosts -> SUBSET AlertTable]
      /\ now \in Nat /\ \A k \in Hosts : HostSound(k)
  BY DEF AlertsInv, AlertsTypeOK
<1>2. mapAlerts[n] \subseteq AlertTable /\ \A a, b \in mapAlerts[n] : ~Cancels(b, a)
  BY <1>1 DEF HostSound
<1>3. /\ result.kept \subseteq mapAlerts[n] \cup {x} /\ result.kept \subseteq AlertTable
      /\ result.accepted \in BOOLEAN
      /\ result.accepted => x \in result.kept
      /\ x \in result.kept => result.accepted \/ x \in mapAlerts[n]
      /\ \A a, b \in result.kept : ~Cancels(b, a)
      /\ IsInEffect(x) => \E z \in result.kept : z = x \/ x.id \in z.cancels
      /\ \A y \in AlertTable :
           IsInEffect(y) /\ (\E z \in mapAlerts[n] : z = y \/ y.id \in z.cancels) =>
             \E z \in result.kept : z = y \/ y.id \in z.cancels
  BY <1>1, <1>2, ProcessAlertKeeps
<1>4. result.accepted => IsInEffect(x)
  BY DEF ProcessAlert
<1> HIDE DEF result
<1>5. /\ mapAlerts' = [mapAlerts EXCEPT ![n] = result.kept]
      /\ result.accepted => told' = [told EXCEPT ![n] = @ \cup {x}]
      /\ ~result.accepted => told' = told
  BY DEF AlertMessage, result
<1>6. /\ mapAlerts' \in [Hosts -> SUBSET AlertTable] /\ mapAlerts'[n] = result.kept
      /\ \A k \in Hosts : k # n => mapAlerts'[k] = mapAlerts[k]
  BY <1>1, <1>3, <1>5
<1>7. /\ told' \in [Hosts -> SUBSET AlertTable]
      /\ \A k \in Hosts : told[k] \subseteq told'[k]
      /\ \A k \in Hosts : \A y \in told'[k] : y \in told[k] \/ (k = n /\ y = x /\ result.accepted)
      /\ result.accepted => x \in told'[n]
  BY <1>1, <1>3, <1>5
<1>8. \A k \in Hosts, y \in AlertTable : IsInEffect(y) /\ Answered(k, y) => Answered(k, y)'
  <2>1. SUFFICES ASSUME NEW k \in Hosts, NEW y \in AlertTable, IsInEffect(y), Answered(k, y)
                 PROVE  Answered(k, y)'
    OBVIOUS
  <2>2. CASE k = n
    BY <1>3, <1>6, <2>1, <2>2 DEF Answered
  <2>3. CASE k # n
    BY <1>6, <2>1, <2>3 DEF Answered
  <2> QED  BY <2>2, <2>3
<1>9. IsInEffect(x) => Answered(n, x)'
  BY <1>3, <1>6 DEF Answered
<1>10. ASSUME NEW k \in Hosts PROVE HostSound(k)'
  <2>1. mapAlerts'[k] \subseteq told'[k]
    <3>1. CASE k = n
      BY <1>1, <1>3, <1>6, <1>7, <3>1 DEF HostSound
    <3>2. CASE k # n
      BY <1>1, <1>6, <1>7, <3>2 DEF HostSound
    <3> QED  BY <3>1, <3>2
  <2>2. ASSUME NEW y \in told'[k], IsInEffect(y) PROVE Answered(k, y)'
    <3>1. CASE y \in told[k]
      <4>1. y \in AlertTable /\ Answered(k, y)
        BY <1>1, <2>2, <3>1 DEF HostSound
      <4> QED  BY <1>8, <2>2, <4>1
    <3>2. CASE k = n /\ y = x
      BY <1>9, <2>2, <3>2
    <3> QED  BY <1>7, <3>1, <3>2
  <2>3. \A y : IsInEffect(y)' = IsInEffect(y)
    BY DEF IsInEffect
  <2>4. \A a, b : Cancels(b, a)' = Cancels(b, a)
    BY DEF IsInEffect, Cancels
  <2>5. \A a, b \in mapAlerts'[k] : ~Cancels(b, a)
    <3>1. CASE k = n
      BY <1>3, <1>6, <3>1
    <3>2. CASE k # n
      BY <1>1, <1>6, <3>2 DEF HostSound
    <3> QED  BY <3>1, <3>2
  <2> QED  BY <2>1, <2>2, <2>3, <2>4, <2>5 DEF HostSound
<1>11. x \in mapAlerts'[n] => result.accepted \/ x \in mapAlerts[n]
  BY <1>3, <1>6
<1> QED  BY <1>3, <1>4, <1>6, <1>7, <1>8, <1>9, <1>10, <1>11 DEF result

\* An alert that comes to n, from m or from beyond the model (m = n), leaves every way sound.
LEMMA AlertWays ==
  ASSUME AlertsAssumption, AlertsInv, UNCHANGED <<now, open, heard>>, NEW n \in Hosts, NEW m \in Hosts,
         NEW x \in AlertTable, m # n => x \in told[m] /\ Linked(n, m),
         NEW rest \in [Ways -> Seq(AlertMessages)], AlertMessage(n, m, x, rest),
         \A k, l \in Hosts : <<k, l>> \in Ways => MayBeRead(k, l, rest[<<k, l>>])
  PROVE  /\ wire' \in [Ways -> Seq(AlertMessages)]
         /\ \A k, l \in Hosts : <<k, l>> \in Ways => WaySound(k, l)'
         /\ \A k, l \in Hosts : <<k, l>> \in open => CallSound(k, l)'
<1> DEFINE accepted == ProcessAlert(x, mapAlerts[n]).accepted
           others == Connected(n) \ {m}
           relay == RelayTo(n, {x}, others, heard)
           to(k, l) == IF accepted /\ k = n /\ l \in others THEN relay.messages[l] ELSE <<>>
<1>1. /\ AlertsTypeOK
      /\ \A k, l \in Hosts : <<k, l>> \in Ways => WaySound(k, l)
      /\ \A k, l \in Hosts : <<k, l>> \in open => CallSound(k, l)
  BY DEF AlertsInv
<1>2. /\ \A k, l \in Hosts : <<k, l>> \in Ways => <<l, k>> \in Ways /\ k # l
      /\ \A w \in Ways : w = <<w[1], w[2]>> /\ w[1] \in Hosts /\ w[2] \in Hosts
      /\ \A k, l \in Hosts : <<k, l>> \in open => <<k, l>> \in Ways
  BY <1>1, WaysAre DEF AlertsTypeOK
<1>3. /\ mapAlerts' \in [Hosts -> SUBSET AlertTable] /\ told' \in [Hosts -> SUBSET AlertTable]
      /\ \A k \in Hosts : told[k] \subseteq told'[k]
      /\ \A k \in Hosts, y \in AlertTable : IsInEffect(y) /\ Answered(k, y) => Answered(k, y)'
      /\ \A k \in Hosts : k # n => mapAlerts'[k] = mapAlerts[k]
      /\ mapAlerts'[n] \subseteq mapAlerts[n] \cup {x}
      /\ x \in mapAlerts'[n] => accepted \/ x \in mapAlerts[n]
      /\ accepted \in BOOLEAN
      /\ accepted => IsInEffect(x) /\ x \in told'[n]
  BY AlertHosts
<1>4. /\ accepted => known' = known \cup relay.known \cup {<<n, m, x>>}
      /\ accepted => early' = early \cup relay.early
      /\ ~accepted => known' = known /\ early' = early
  BY DEF AlertMessage, RelayTo
<1>5. ASSUME NEW k \in Hosts, NEW l \in Hosts, <<k, l>> \in Ways
      PROVE  wire'[<<k, l>>] = IF accepted /\ k = n /\ l \in others
                               THEN rest[<<k, l>>] \o relay.messages[l] ELSE rest[<<k, l>>]
  <2>1. CASE accepted
    <3>1. wire' = [w \in Ways |-> IF w[1] = n /\ w[2] \in others
                                  THEN rest[w] \o relay.messages[w[2]] ELSE rest[w]]
      BY <2>1 DEF AlertMessage, RelayTo
    <3>2. <<k, l>>[1] = k /\ <<k, l>>[2] = l
      OBVIOUS
    <3> HIDE DEF accepted, relay, others
    <3> QED  BY <1>5, <2>1, <3>1, <3>2
  <2>2. CASE ~accepted
    BY <1>5, <2>2 DEF AlertMessage
  <2> QED  BY <2>1, <2>2
<1>6. others \subseteq Hosts /\ {x} \subseteq AlertTable
  BY DEF Connected
<1>7. \A l \in others :
        /\ relay.messages[l] \in Seq({Alert(y) : y \in {x}})
        /\ IsInEffect(x) => <<n, l, x>> \in known \cup relay.known
        /\ \A y \in AlertTable :
             <<n, l, y>> \in relay.known /\ <<n, l, y>> \notin relay.early /\ Concerns(y, n, l) =>
               <<n, l>> \in heard /\ \E i \in DOMAIN relay.messages[l] : relay.messages[l][i] = Alert(y)
  <2> HIDE DEF accepted, others, relay
  <2>1. TAKE l \in others
  <2> DEFINE xs == {x}
  <2>2. xs \subseteq AlertTable /\ relay = RelayTo(n, xs, others, heard)
    BY DEF relay
  <2> HIDE DEF xs
  <2>3. Tells(relay, n, l, xs, heard)
    BY <1>6, <2>2, RelayToTells
  <2> QED  BY <2>3 DEF Tells, xs
<1>8. \A r \in relay.known : \E l \in others : r = <<n, l, x>>
  BY RelayToKnows
<1>9. \A l \in Hosts : l \in Connected(n) <=> Linked(n, l)
  BY DEF Connected, Linked
<1> HIDE DEF accepted, relay, others
<1>10. ASSUME NEW k \in Hosts, NEW l \in Hosts, <<k, l>> \in Ways
       PROVE  /\ to(k, l) \in Seq(AlertMessages) /\ Goes(k, l, to(k, l))
              /\ \A i \in DOMAIN to(k, l) : to(k, l)[i] = Alert(x) /\ accepted /\ k = n
  <2>1. rest[<<k, l>>] \in Seq(AlertMessages) /\ MayBeRead(k, l, rest[<<k, l>>])
    BY <1>10
  <2>2. CASE accepted /\ k = n /\ l \in others
    <3>1. to(k, l) = relay.messages[l] /\ wire'[<<k, l>>] = rest[<<k, l>>] \o relay.messages[l]
      BY <1>5, <1>10, <2>2
    <3>2. relay.messages[l] \in Seq({Alert(x)})
      BY <1>7, <2>2
    <3>3. Alert(x) \in AlertMessages
      BY DEF AlertMessages
    <3>4. \A S, T, s : S \subseteq T /\ s \in Seq(S) => s \in Seq(T)
      OBVIOUS
    <3>5. relay.messages[l] \in Seq(AlertMessages)
      BY <3>2, <3>3, <3>4
    <3>6. \A i \in DOMAIN relay.messages[l] : relay.messages[l][i] = Alert(x)
      BY <3>2
    <3> HIDE DEF to
    <3> QED  BY <2>1, <2>2, <3>1, <3>5, <3>6 DEF Goes
  <2>3. CASE ~(accepted /\ k = n /\ l \in others)
    <3>1. to(k, l) = <<>> /\ wire'[<<k, l>>] = rest[<<k, l>>]
      BY <1>5, <1>10, <2>3
    <3>2. rest[<<k, l>>] \o <<>> = rest[<<k, l>>] /\ <<>> \in Seq(AlertMessages) /\ DOMAIN <<>> = {}
      BY <2>1
    <3> HIDE DEF to
    <3> QED  BY <2>1, <3>1, <3>2 DEF Goes
  <2> QED  BY <2>2, <2>3
<1>11. ASSUME NEW k \in Hosts, NEW l \in Hosts, <<k, l>> \in Ways PROVE WaySound(k, l)'
  <2>1. WaySound(k, l) /\ <<l, k>> \in Ways
    BY <1>1, <1>2, <1>11
  <2>2. k = n /\ l \in others => Linked(n, l) /\ l \in Hosts /\ l # m
    BY <1>6, <1>9 DEF others
  <2>3. ~Linked(k, l)' => /\ to(k, l) = <<>> /\ <<k, l>> \notin heard'
                          /\ \A y \in AlertTable : <<k, l, y>> \notin known'
    <3>1. SUFFICES ASSUME ~Linked(k, l)
                   PROVE  /\ to(k, l) = <<>> /\ <<k, l>> \notin heard
                          /\ \A y \in AlertTable : <<k, l, y>> \notin known'
      BY DEF Linked
    <3>2. <<k, l>> \notin heard /\ \A y \in AlertTable : <<k, l, y>> \notin known
      BY <2>1, <3>1 DEF WaySound
    <3>3. ~(k = n /\ l \in others)
      BY <2>2, <3>1
    <3>4. <<k, l>> # <<n, m>>
      BY <1>2, <1>11, <3>1
    <3>5. ASSUME NEW y \in AlertTable, <<k, l, y>> \in known' PROVE FALSE
      BY <1>4, <1>8, <1>3, <3>2, <3>3, <3>4, <3>5
    <3> QED  BY <3>2, <3>3, <3>5
  <2>4. \A i \in DOMAIN to(k, l) : \A y \in AlertTable : to(k, l)[i] = Alert(y) => y \in told'[k]
    BY <1>3, <1>10, <1>11, AlertsDiffer
  <2>5. ASSUME <<k, l>> \in heard', NEW y \in mapAlerts'[k], IsInEffect(y) PROVE <<k, l, y>> \in known'
    <3>1. Linked(k, l) /\ known \subseteq known'
      BY <1>3, <1>4, <2>1, <2>5 DEF WaySound
    <3>2. CASE y \in mapAlerts[k]
      BY <2>1, <2>5, <3>1, <3>2 DEF WaySound
    <3>3. CASE y \notin mapAlerts[k]
      <4>1. k = n /\ y = x /\ accepted
        BY <1>3, <2>5, <3>3
      <4>2. CASE l = m
        BY <1>4, <4>1, <4>2
      <4>3. CASE l # m
        <5>1. l \in others
          BY <1>9, <3>1, <4>1, <4>3 DEF others
        <5> QED  BY <1>4, <1>7, <2>5, <4>1, <5>1
      <4> QED  BY <4>2, <4>3
    <3> QED  BY <3>2, <3>3
  <2>6. ASSUME NEW y \in AlertTable, <<k, l, y>> \in known' \ early', Concerns(y, k, l)
        PROVE  \/ <<k, l, y>> \in known \ early
               \/ Answered(l, y)'
               \/ \E i \in DOMAIN to(k, l) : to(k, l)[i] = Alert(y)
                    /\ (<<l, k>> \in heard' \/ VersionComes(k, l) \/ \E j \in 1..(i - 1) : to(k, l)[j] = Version)
    <3>1. CASE <<k, l, y>> \in known
      BY <1>3, <1>4, <2>6, <3>1
    <3>2. CASE <<k, l, y>> \in relay.known /\ accepted
      <4>1. k = n /\ l \in others /\ y = x
        BY <1>8, <3>2
      <4>2. <<k, l, y>> \notin relay.early
        BY <1>4, <2>6, <3>2
      <4>3. <<n, l>> \in heard /\ \E i \in DOMAIN relay.messages[l] : relay.messages[l][i] = Alert(y)
        BY <1>7, <2>6, <3>2, <4>1, <4>2
      <4>4. to(k, l) = relay.messages[l]
        BY <3>2, <4>1
      <4>5. Linked(n, l) /\ (<<n, l>> \in open => CallSound(n, l)) /\ (<<l, n>> \in open => CallSound(l, n))
        BY <1>1, <2>2, <4>1
      <4>6. <<l, n>> \in heard \/ VersionComes(n, l)
        BY <4>3, <4>5 DEF Linked, CallSound
      <4> HIDE DEF to
      <4> QED  BY <4>1, <4>3, <4>4, <4>6
    <3>3. CASE k = n /\ l = m /\ y = x /\ accepted
      <4>1. x \in told[m] /\ IsInEffect(x)
        BY <1>2, <1>3, <1>11, <3>3
      <4>2. Answered(m, x)
        BY <4>1 DEF AlertsInv, HostSound
      <4> QED  BY <1>3, <3>3, <4>1, <4>2
    <3> QED  BY <1>3, <1>4, <2>6, <3>1, <3>2, <3>3
  <2>7. Linked(k, l) => Linked(k, l)'
    BY DEF Linked
  <2>8. to(k, l) \in Seq(AlertMessages) /\ Goes(k, l, to(k, l))
    BY <1>10, <1>11
  <2> HIDE DEF to
  <2> QED  BY <1>1, <1>3, <1>11, <2>1, <2>3, <2>4, <2>5, <2>6, <2>7, <2>8, WayStep
<1>12. ASSUME NEW k \in Hosts, NEW l \in Hosts, <<k, l>> \in open PROVE CallSound(k, l)'
  <2>1. CallSound(k, l) /\ <<k, l>> \in Ways /\ <<l, k>> \in Ways
    BY <1>1, <1>2, <1>12
  <2>2. /\ to(k, l) \in Seq(AlertMessages) /\ Goes(k, l, to(k, l))
        /\ to(l, k) \in Seq(AlertMessages) /\ Goes(l, k, to(l, k))
        /\ \A i \in DOMAIN to(l, k) : to(l, k)[i] # Version
    BY <1>10, <2>1, AlertsDiffer
  <2> HIDE DEF to
  <2> QED  BY <1>1, <2>1, <2>2, CallStep
<1>13. wire' \in [Ways -> Seq(AlertMessages)]
  <2>1. wire' = [w \in Ways |-> wire'[w]]
    BY DEF AlertMessage, RelayTo
  <2>2. ASSUME NEW w \in Ways PROVE wire'[w] \in Seq(AlertMessages)
    <3>1. PICK k \in Hosts, l \in Hosts : w = <<k, l>>
      BY <1>2
    <3>2. to(k, l) \in Seq(AlertMessages) /\ Goes(k, l, to(k, l))
      BY <1>10, <3>1
    <3> HIDE DEF to
    <3>3. PICK r \in Seq(AlertMessages) : wire'[<<k, l>>] = r \o to(k, l)
      BY <3>2 DEF Goes
    <3>4. \A S : \A s, t \in Seq(S) : s \o t \in Seq(S)
      OBVIOUS
    <3> QED  BY <3>1, <3>2, <3>3, <3>4
  <2> QED  BY <2>1, <2>2
<1> QED  BY <1>11, <1>12, <1>13

\* The version message that n reads from m, and its answer, leave every way and every call sound.
LEMMA VersionWays ==
  ASSUME AlertsAssumption, AlertsInv, UNCHANGED <<now, open>>, NEW n \in Hosts, NEW m \in Hosts,
         <<m, n>> \in Ways, wire[<<m, n>>] # <<>>, Head(wire[<<m, n>>]) = Version,
         VersionMessage(n, m, [wire EXCEPT ![<<m, n>>] = Tail(@)])
  PROVE  /\ heard' \subseteq Ways
         /\ wire' \in [Ways -> Seq(AlertMessages)]
         /\ \A k, l \in Hosts : <<k, l>> \in Ways => WaySound(k, l)'
         /\ \A k, l \in Hosts : <<k, l>> \in open => CallSound(k, l)'
<1> DEFINE verd == heard \cup {<<n, m>>}
           relay == RelayTo(n, mapAlerts[n], {m}, verd)
           answer == IF <<m, n>> \in Dials THEN <<Version>> ELSE <<>>
           to(k, l) == IF k = n /\ l = m THEN answer \o relay.messages[m] ELSE <<>>
<1>1. /\ AlertsTypeOK
      /\ \A k \in Hosts : HostSound(k)
      /\ \A k, l \in Hosts : <<k, l>> \in Ways => WaySound(k, l)
      /\ \A k, l \in Hosts : <<k, l>> \in open => CallSound(k, l)
  BY DEF AlertsInv
<1>2. /\ \A k, l \in Hosts : <<k, l>> \in Ways => <<l, k>> \in Ways /\ k # l
      /\ \A k, l \in Hosts : <<k, l>> \in open => <<k, l>> \in Ways /\ <<k, l>> \in Dials
      /\ <<n, m>> \in Ways /\ n # m
  BY <1>1, WaysAre DEF AlertsTypeOK
<1>3. /\ heard' = verd /\ known' = known \cup relay.known
      /\ wire' = [[wire EXCEPT ![<<m, n>>] = Tail(@)] EXCEPT ![<<n, m>>] = @ \o answer \o relay.messages[m]]
      /\ UNCHANGED <<mapAlerts, told, early>>
  <2>1. /\ heard' = verd /\ known' = known \cup relay.known
        /\ UNCHANGED <<mapAlerts, told, early>>
    BY DEF VersionMessage
  <2>2. wire' = [[wire EXCEPT ![<<m, n>>] = Tail(@)] EXCEPT ![<<n, m>>] = @ \o answer \o relay.messages[m]]
    BY Zenon DEF VersionMessage
  <2> QED  BY <2>1, <2>2
<1>4. mapAlerts[n] \subseteq AlertTable /\ {m} \subseteq Hosts
  BY <1>1 DEF AlertsTypeOK
<1>5. Tells(relay, n, m, mapAlerts[n], verd)
  BY <1>4, RelayToTells
<1>6. \A r \in relay.known : \E x \in mapAlerts[n] : r = <<n, m, x>>
  <2>1. \A r \in relay.known : \E l \in {m}, x \in mapAlerts[n] : r = <<n, l, x>>
    BY RelayToKnows
  <2> QED  BY <2>1
<1>7. \A x : <<n, m, x>> \notin relay.early
  <2> DEFINE due == {r \in {m} \X mapAlerts[n] : IsInEffect(r[2]) /\ <<n, r[1], r[2]>> \notin known}
  <2>1. relay.early = {<<n, r[1], r[2]>> : r \in {r \in due : <<n, r[1]>> \notin verd}}
    BY DEF RelayTo
  <2>2. \A r \in due : <<n, r[1]>> \in verd
    OBVIOUS
  <2> HIDE DEF due, relay, verd
  <2> QED  BY <2>1, <2>2
<1>8. /\ \A k \in Hosts : mapAlerts[k] \subseteq AlertTable /\ told[k] \subseteq AlertTable
      /\ wire[<<m, n>>] \in Seq(AlertMessages) /\ wire[<<n, m>>] \in Seq(AlertMessages)
  BY <1>1, <1>2 DEF AlertsTypeOK
<1>9. /\ relay.messages[m] \in Seq(AlertMessages)
      /\ \A i \in DOMAIN relay.messages[m] : \E x \in mapAlerts[n] : relay.messages[m][i] = Alert(x)
  <2>1. relay.messages[m] \in Seq({Alert(x) : x \in mapAlerts[n]})
    BY <1>5 DEF Tells
  <2>2. {Alert(x) : x \in mapAlerts[n]} \subseteq AlertMessages
    BY <1>4 DEF AlertMessages
  <2>3. \A S, T, s : S \subseteq T /\ s \in Seq(S) => s \in Seq(T) /\ \A i \in DOMAIN s : s[i] \in S
    OBVIOUS
  <2>4. /\ relay.messages[m] \in Seq(AlertMessages)
        /\ \A i \in DOMAIN relay.messages[m] : relay.messages[m][i] \in {Alert(x) : x \in mapAlerts[n]}
    BY <2>1, <2>2, <2>3
  <2> HIDE DEF relay
  <2> QED  BY <2>4
<1>10. /\ answer \in Seq(AlertMessages)
       /\ <<m, n>> \in Dials => Len(answer) = 1 /\ answer[1] = Version
       /\ <<m, n>> \notin Dials => answer = <<>> /\ Len(answer) = 0
  BY SMTT(30) DEF AlertMessages
<1> HIDE DEF relay, verd, answer
<1> DEFINE s == answer \o relay.messages[m]
<1>11. /\ s \in Seq(AlertMessages)
       /\ <<m, n>> \in Dials => 1 \in DOMAIN s /\ s[1] = Version
       /\ \A i \in DOMAIN s : \A x \in AlertTable : s[i] = Alert(x) => x \in mapAlerts[n]
       /\ \A x \in AlertTable, i \in DOMAIN relay.messages[m] : relay.messages[m][i] = Alert(x) =>
            \E j \in DOMAIN s : s[j] = Alert(x) /\ (<<m, n>> \in Dials => 1 \in 1..(j - 1))
       /\ <<m, n>> \notin Dials => \A i \in DOMAIN s : s[i] # Version
  <2>1. /\ s \in Seq(AlertMessages)
        /\ \A i \in DOMAIN answer : i \in DOMAIN s /\ s[i] = answer[i]
        /\ \A i \in DOMAIN relay.messages[m] :
             Len(answer) + i \in DOMAIN s /\ s[Len(answer) + i] = relay.messages[m][i]
        /\ \A i \in DOMAIN s :
             \/ i \in DOMAIN answer /\ s[i] = answer[i]
             \/ i - Len(answer) \in DOMAIN relay.messages[m] /\ s[i] = relay.messages[m][i - Len(answer)]
    BY <1>9, <1>10, Behind, SMTT(30)
  <2>2. DOMAIN answer = 1..Len(answer) /\ DOMAIN relay.messages[m] = 1..Len(relay.messages[m])
        /\ Len(relay.messages[m]) \in Nat
    BY <1>9, <1>10, LenProperties
  <2> HIDE DEF s
  <2>3. <<m, n>> \in Dials => 1 \in DOMAIN s /\ s[1] = Version
    BY <1>10, <2>1, <2>2
  <2>4. \A i \in DOMAIN answer : answer[i] = Version
    BY <1>10, <2>2
  <2>5. ASSUME NEW i \in DOMAIN s, NEW x \in AlertTable, s[i] = Alert(x) PROVE x \in mapAlerts[n]
    <3>1. s[i] # Version
      BY <2>5, AlertsDiffer
    <3>2. i - Len(answer) \in DOMAIN relay.messages[m] /\ s[i] = relay.messages[m][i - Len(answer)]
      BY <2>1, <2>4, <3>1
    <3>3. PICK y \in mapAlerts[n] : s[i] = Alert(y)
      BY <1>9, <3>2
    <3> QED  BY <2>5, <3>3, AlertsDiffer
  <2>6. ASSUME NEW x \in AlertTable, NEW i \in DOMAIN relay.messages[m], relay.messages[m][i] = Alert(x)
        PROVE  \E j \in DOMAIN s : s[j] = Alert(x) /\ (<<m, n>> \in Dials => 1 \in 1..(j - 1))
    <3>1. Len(answer) + i \in DOMAIN s /\ s[Len(answer) + i] = Alert(x) /\ i \in 1..Len(relay.messages[m])
      BY <2>1, <2>2, <2>6
    <3>2. <<m, n>> \in Dials => 1 \in 1..(Len(answer) + i - 1)
      BY <1>10, <2>2, <3>1
    <3> QED  BY <3>1, <3>2
  <2>7. <<m, n>> \notin Dials => \A i \in DOMAIN s : s[i] # Version
    BY <1>9, <1>10, <2>1, <2>2, AlertsDiffer
  <2> QED  BY <2>1, <2>3, <2>5, <2>6, <2>7
<1>12. \A k, l \in Hosts : <<k, l>> \in Ways =>
          /\ <<k, l>> = <<n, m>> => wire'[<<k, l>>] = wire[<<n, m>>] \o s
          /\ <<k, l>> = <<m, n>> => wire'[<<k, l>>] = Tail(wire[<<m, n>>])
          /\ <<k, l>> # <<n, m>> /\ <<k, l>> # <<m, n>> => wire'[<<k, l>>] = wire[<<k, l>>]
  <2>1. wire[<<n, m>>] \o answer \o relay.messages[m] = wire[<<n, m>>] \o s
    <3>1. \A a, b, c \in Seq(AlertMessages) : (a \o b) \o c = a \o (b \o c)
      BY ConcatAssociative, SMTT(30)
    <3> QED  BY <1>8, <1>9, <1>10, <3>1
  <2>2. wire \in [Ways -> Seq(AlertMessages)]
    BY <1>1 DEF AlertsTypeOK
  <2>3. <<n, m>> # <<m, n>>
    BY <1>2
  <2> HIDE DEF s
  <2> QED  BY <1>2, <1>3, <2>1, <2>2, <2>3
<1>13. ASSUME NEW k \in Hosts, NEW l \in Hosts, <<k, l>> \in Ways
       PROVE  /\ to(k, l) \in Seq(AlertMessages) /\ Goes(k, l, to(k, l))
              /\ <<k, l>> # <<n, m>> => to(k, l) = <<>>
              /\ <<n, m>> = <<k, l>> => to(k, l) = s
  <2>1. wire[<<k, l>>] \in Seq(AlertMessages) /\ wire[<<k, l>>] \o <<>> = wire[<<k, l>>]
        /\ <<>> \in Seq(AlertMessages)
    <3>1. wire[<<k, l>>] \in Seq(AlertMessages)
      BY <1>1, <1>13 DEF AlertsTypeOK
    <3> QED  BY <3>1
  <2> HIDE DEF s
  <2>2. CASE <<k, l>> = <<n, m>>
    <3>1. to(k, l) = s
      BY <2>2 DEF s
    <3> HIDE DEF to
    <3>2. wire'[<<k, l>>] = wire[<<k, l>>] \o s
      BY <1>12, <1>13, <2>2, ZenonT(30)
    <3>3. MayBeRead(k, l, wire[<<k, l>>])
      BY DEF MayBeRead
    <3>4. Goes(k, l, s)
      BY <2>1, <3>2, <3>3 DEF Goes
    <3> QED  BY <1>11, <2>2, <3>1, <3>4
  <2>3. CASE <<k, l>> = <<m, n>>
    <3>1. to(k, l) = <<>> /\ wire'[<<k, l>>] = Tail(wire[<<k, l>>]) /\ <<k, l>> # <<n, m>>
      BY <1>2, <1>12, <1>13, <2>3
    <3>2. Tail(wire[<<k, l>>]) \in Seq(AlertMessages) /\ Tail(wire[<<k, l>>]) \o <<>> = Tail(wire[<<k, l>>])
      <4>1. Tail(wire[<<k, l>>]) \in Seq(AlertMessages)
        BY <2>1, <2>3, FirstTaken
      <4> QED  BY <4>1
    <3>3. MayBeRead(k, l, Tail(wire[<<k, l>>]))
      BY <1>3, <2>3, AlertsDiffer DEF MayBeRead, verd
    <3> HIDE DEF to
    <3> QED  BY <2>1, <3>1, <3>2, <3>3 DEF Goes
  <2>4. CASE <<k, l>> # <<m, n>> /\ <<k, l>> # <<n, m>>
    <3>1. to(k, l) = <<>> /\ wire'[<<k, l>>] = wire[<<k, l>>]
      BY <1>12, <1>13, <2>4
    <3> HIDE DEF to
    <3> QED  BY <2>1, <2>4, <3>1 DEF Goes, MayBeRead
  <2> QED  BY <2>2, <2>3, <2>4
<1> HIDE DEF to, s
<1>14. /\ \A k, l \in Hosts : <<k, l>> \in heard' <=> <<k, l>> \in heard \/ <<k, l>> = <<n, m>>
       /\ heard \subseteq heard' /\ \A k, l : Linked(k, l)' <=> Linked(k, l)
       /\ \A k, x : Answered(k, x)' <=> Answered(k, x)
  BY <1>3 DEF verd, Linked, Answered
<1>15. VersionComes(m, n) /\ Linked(n, m)
  <2>1. VersionComes(m, n)
    BY <1>8, FirstTaken DEF VersionComes
  <2>2. Linked(m, n)
    BY <1>1 DEF WaySound
  <2> QED  BY <2>1, <2>2 DEF Linked
<1>16. <<m, n>> \in Dials \/ (<<n, m>> \in open /\ <<m, n>> \in heard)
  BY <1>1, <1>2, <1>15 DEF Linked, CallSound
<1>17. ASSUME NEW k \in Hosts, NEW l \in Hosts, <<k, l>> \in Ways PROVE WaySound(k, l)'
  <2>1. WaySound(k, l) /\ <<l, k>> \in Ways
    BY <1>1, <1>2, <1>17
  <2>2. ~Linked(k, l)' => /\ to(k, l) = <<>> /\ <<k, l>> \notin heard'
                          /\ \A y \in AlertTable : <<k, l, y>> \notin known'
    <3>1. SUFFICES ASSUME ~Linked(k, l)
                   PROVE  /\ to(k, l) = <<>> /\ <<k, l>> \notin heard'
                          /\ \A y \in AlertTable : <<k, l, y>> \notin known'
      BY <1>14
    <3>2. <<k, l>> # <<n, m>>
      BY <1>15, <3>1
    <3>3. <<k, l>> \notin heard /\ \A y \in AlertTable : <<k, l, y>> \notin known
      BY <2>1, <3>1 DEF WaySound
    <3> QED  BY <1>3, <1>6, <1>13, <1>14, <1>17, <3>2, <3>3
  <2>3. \A i \in DOMAIN to(k, l) : \A y \in AlertTable : to(k, l)[i] = Alert(y) => y \in told'[k]
    <3>1. CASE <<k, l>> = <<n, m>>
      <4>1. to(k, l) = s /\ mapAlerts[k] \subseteq told'[k] /\ k = n
        BY <1>1, <1>3, <1>13, <1>17, <3>1 DEF HostSound
      <4> QED  BY <1>11, <4>1
    <3>2. CASE <<k, l>> # <<n, m>>
      BY <1>13, <1>17, <3>2
    <3> QED  BY <3>1, <3>2
  <2>4. ASSUME <<k, l>> \in heard', NEW y \in mapAlerts'[k], IsInEffect(y) PROVE <<k, l, y>> \in known'
    <3>1. y \in mapAlerts[k] /\ known \subseteq known'
      BY <1>3, <2>4
    <3>2. CASE <<k, l>> = <<n, m>>
      BY <1>3, <1>5, <2>4, <3>1, <3>2 DEF Tells
    <3>3. CASE <<k, l>> # <<n, m>>
      BY <1>14, <2>1, <2>4, <3>1, <3>3 DEF WaySound
    <3> QED  BY <3>2, <3>3
  <2>5. ASSUME NEW y \in AlertTable, <<k, l, y>> \in known' \ early', Concerns(y, k, l)
        PROVE  \/ <<k, l, y>> \in known \ early
               \/ Answered(l, y)'
               \/ \E i \in DOMAIN to(k, l) : to(k, l)[i] = Alert(y)
                    /\ (<<l, k>> \in heard' \/ VersionComes(k, l) \/ \E j \in 1..(i - 1) : to(k, l)[j] = Version)
    <3>1. CASE <<k, l, y>> \in known
      BY <1>3, <2>5, <3>1
    <3>2. CASE <<k, l, y>> \in relay.known
      <4>1. k = n /\ l = m
        BY <1>6, <3>2
      <4>2. PICK i \in DOMAIN relay.messages[m] : relay.messages[m][i] = Alert(y)
        BY <1>5, <1>7, <2>5, <3>2, <4>1 DEF Tells
      <4>3. PICK j \in DOMAIN s : s[j] = Alert(y) /\ (<<m, n>> \in Dials => 1 \in 1..(j - 1))
        BY <1>11, <4>2
      <4>4. to(k, l) = s
        BY <1>13, <1>17, <4>1
      <4>5. CASE <<m, n>> \in Dials
        BY <1>11, <4>3, <4>4, <4>5
      <4>6. CASE <<m, n>> \notin Dials
        <5>1. <<l, k>> \in heard'
          BY <1>14, <1>16, <4>1, <4>6
        <5> QED  BY <4>3, <4>4, <5>1
      <4> QED  BY <4>5, <4>6
    <3> QED  BY <1>3, <2>5, <3>1, <3>2
  <2>6. to(k, l) \in Seq(AlertMessages) /\ Goes(k, l, to(k, l))
    BY <1>13, <1>17
  <2>7. /\ now' = now /\ heard \subseteq heard' /\ told[k] \subseteq told'[k] /\ AlertsTypeOK
        /\ \A x \in AlertTable : IsInEffect(x) /\ Answered(l, x) => Answered(l, x)'
        /\ Linked(k, l) => Linked(k, l)'
    BY <1>1, <1>3, <1>14
  <2>8. <<k, l>> \in heard' => \A x \in mapAlerts'[k] : IsInEffect(x) => <<k, l, x>> \in known'
    BY <2>4
  <2> QED  BY ONLY AlertsAssumption, k \in Hosts, l \in Hosts, <1>17, <2>1, <2>2, <2>3, <2>5, <2>6, <2>7, <2>8, WayStep
<1>18. ASSUME NEW k \in Hosts, NEW l \in Hosts, <<k, l>> \in open PROVE CallSound(k, l)'
  <2>1. CallSound(k, l) /\ <<k, l>> \in Ways /\ <<l, k>> \in Ways /\ <<k, l>> \in Dials
    BY <1>1, <1>2, <1>18
  <2>2. /\ to(k, l) \in Seq(AlertMessages) /\ Goes(k, l, to(k, l))
        /\ to(l, k) \in Seq(AlertMessages) /\ Goes(l, k, to(l, k))
    BY <1>13, <2>1
  <2>3. \A i \in DOMAIN to(l, k) : to(l, k)[i] = Version => <<l, k>> \in heard'
    BY <1>13, <1>14, <2>1
  <2>4. <<k, l>> \in heard' => <<k, l>> \in heard \/ VersionComes(l, k)
    BY <1>14, <1>15
  <2>5. ASSUME <<l, k>> = <<n, m>> PROVE VersionComes(l, k)'
    <3>1. 1 \in DOMAIN s /\ s[1] = Version /\ wire'[<<l, k>>] = wire[<<n, m>>] \o s
      BY <1>11, <1>12, <2>1, <2>5
    <3>2. Len(wire[<<n, m>>]) + 1 \in DOMAIN wire'[<<l, k>>] /\ wire'[<<l, k>>][Len(wire[<<n, m>>]) + 1] = Version
      BY <1>8, <1>11, <3>1, Behind
    <3> QED  BY <3>2 DEF VersionComes
  <2>6. <<l, k>> \in heard' => <<l, k>> \in heard \/ VersionComes(l, k)'
    BY <1>14, <2>5
  <2> QED  BY <1>1, <1>14, <2>1, <2>2, <2>3, <2>4, <2>6, CallStep
<1>19. wire' \in [Ways -> Seq(AlertMessages)]
  <2>1. wire' = [w \in Ways |-> wire'[w]]
    BY <1>1, <1>3 DEF AlertsTypeOK
  <2>2. ASSUME NEW w \in Ways PROVE wire'[w] \in Seq(AlertMessages)
    <3>1. PICK k \in Hosts, l \in Hosts : w = <<k, l>>
      BY WaysAre
    <3>2. to(k, l) \in Seq(AlertMessages) /\ Goes(k, l, to(k, l))
      BY <1>13, <3>1
    <3>3. PICK r \in Seq(AlertMessages) : wire'[<<k, l>>] = r \o to(k, l)
      BY <3>2 DEF Goes
    <3>4. \A S : \A a, b \in Seq(S) : a \o b \in Seq(S)
      OBVIOUS
    <3> QED  BY <3>1, <3>2, <3>3, <3>4
  <2> QED  BY <2>1, <2>2
<1>20. heard' \subseteq Ways
  BY <1>1, <1>2, <1>3 DEF AlertsTypeOK, verd
<1> QED  BY <1>3, <1>17, <1>18, <1>19, <1>20

\* One lemma for each action: what nodes know of alerts stays sound.
LEMMA IssueKeeps ==
  ASSUME AlertsAssumption, AlertsInv, NEW n \in Hosts, NEW x \in AlertTable, Issue(n, x)
  PROVE  AlertsInv'
<1>1. AlertMessage(n, n, x, wire) /\ UNCHANGED <<open, heard, now, breaks>>
  BY DEF Issue
<1>2. wire \in [Ways -> Seq(AlertMessages)]
      /\ \A k, l \in Hosts : <<k, l>> \in Ways => MayBeRead(k, l, wire[<<k, l>>])
  BY DEF AlertsInv, AlertsTypeOK, MayBeRead
<1>3. /\ wire' \in [Ways -> Seq(AlertMessages)]
      /\ \A k, l \in Hosts : <<k, l>> \in Ways => WaySound(k, l)'
      /\ \A k, l \in Hosts : <<k, l>> \in open => CallSound(k, l)'
  BY <1>1, <1>2, AlertWays
<1>4. /\ mapAlerts' \in [Hosts -> SUBSET AlertTable] /\ told' \in [Hosts -> SUBSET AlertTable]
      /\ \A k \in Hosts : HostSound(k)'
  BY <1>1, AlertHosts
<1> QED  BY <1>1, <1>3, <1>4 DEF AlertsInv, AlertsTypeOK

\* Reading a message: the alert is taken, cancels, and is told to the peers of the host.
LEMMA ReceiveKeeps ==
  ASSUME AlertsAssumption, AlertsInv, NEW n \in Hosts, NEW m \in Hosts, <<m, n>> \in Ways, Receive(n, m)
  PROVE  AlertsInv'
<1> DEFINE before == wire[<<m, n>>]
           rest == [wire EXCEPT ![<<m, n>>] = Tail(@)]
<1>1. /\ AlertsTypeOK
      /\ \A k \in Hosts : HostSound(k)
      /\ \A k, l \in Hosts : <<k, l>> \in Ways => WaySound(k, l)
      /\ \A k, l \in Hosts : <<k, l>> \in open => CallSound(k, l)
  BY DEF AlertsInv
<1>2. /\ \A k, l \in Hosts : <<k, l>> \in Ways => <<l, k>> \in Ways /\ k # l
      /\ \A k, l \in Hosts : <<k, l>> \in open => <<k, l>> \in Ways /\ <<k, l>> \in Dials
  BY <1>1, WaysAre DEF AlertsTypeOK
<1>3. before \in Seq(AlertMessages) /\ before # <<>> /\ Tail(before) \in Seq(AlertMessages)
      /\ Head(before) \in AlertMessages /\ 1 \in DOMAIN before /\ before[1] = Head(before)
  <2>1. before \in Seq(AlertMessages) /\ before # <<>>
    BY <1>1 DEF AlertsTypeOK, Receive
  <2> HIDE DEF before
  <2> QED  BY <2>1, FirstTaken
<1>4. /\ rest \in [Ways -> Seq(AlertMessages)] /\ rest[<<m, n>>] = Tail(before)
      /\ \A k, l \in Hosts : <<k, l>> \in Ways /\ <<k, l>> # <<m, n>> => rest[<<k, l>>] = wire[<<k, l>>]
  BY <1>1, <1>3 DEF AlertsTypeOK
<1>5. UNCHANGED <<open, unissued, now, breaks>>
  BY DEF Receive
<1>6. CASE Head(before) = Version /\ VersionMessage(n, m, rest)
  <2>1. /\ heard' \subseteq Ways
        /\ wire' \in [Ways -> Seq(AlertMessages)]
        /\ \A k, l \in Hosts : <<k, l>> \in Ways => WaySound(k, l)'
        /\ \A k, l \in Hosts : <<k, l>> \in open => CallSound(k, l)'
    BY <1>3, <1>5, <1>6, VersionWays
  <2>2. UNCHANGED <<mapAlerts, told>>
    BY <1>6 DEF VersionMessage
  <2>3. \A k \in Hosts : HostSound(k)'
    BY <1>1, <1>5, <2>2 DEF HostSound, Answered, Cancels, IsInEffect
  <2> QED  BY <1>1, <1>5, <2>1, <2>2, <2>3 DEF AlertsInv, AlertsTypeOK
<1>7. CASE /\ Head(before) # Version /\ <<n, m>> \in heard
           /\ AlertMessage(n, m, Head(before).alert, rest) /\ UNCHANGED heard
  <2>1. PICK x \in AlertTable : Head(before) = Alert(x)
    BY <1>3, <1>7 DEF AlertMessages
  <2>2. Head(before).alert = x
    BY <2>1, AlertsDiffer
  <2>3. AlertMessage(n, m, x, rest)
    BY <1>7, <2>2
  <2>4. x \in told[m] /\ Linked(n, m)
    <3>1. x \in told[m]
      BY <1>1, <1>3, <2>1 DEF WaySound
    <3>2. Linked(m, n)
      BY <1>1, <1>3 DEF WaySound
    <3> QED  BY <3>1, <3>2 DEF Linked
  <2> HIDE DEF rest, before
  <2>5. /\ mapAlerts' \in [Hosts -> SUBSET AlertTable] /\ told' \in [Hosts -> SUBSET AlertTable]
        /\ \A k \in Hosts : HostSound(k)'
        /\ IsInEffect(x) => Answered(n, x)'
    BY <1>5, <2>3, AlertHosts
  <2>6. ASSUME NEW k \in Hosts, NEW l \in Hosts, <<k, l>> \in Ways PROVE MayBeRead(k, l, rest[<<k, l>>])
    <3>1. CASE <<k, l>> = <<m, n>>
      BY <1>3, <1>4, <1>7, <2>1, <2>5, <3>1, AlertsDiffer DEF MayBeRead, before
    <3>2. CASE <<k, l>> # <<m, n>>
      BY <1>4, <2>6, <3>2 DEF MayBeRead
    <3> QED  BY <3>1, <3>2
  <2>7. /\ wire' \in [Ways -> Seq(AlertMessages)]
        /\ \A k, l \in Hosts : <<k, l>> \in Ways => WaySound(k, l)'
        /\ \A k, l \in Hosts : <<k, l>> \in open => CallSound(k, l)'
    BY <1>4, <1>5, <1>7, <2>3, <2>4, <2>6, AlertWays
  <2> QED  BY <1>1, <1>5, <1>7, <2>5, <2>7 DEF AlertsInv, AlertsTypeOK
<1>8. CASE /\ Head(before) # Version /\ <<n, m>> \notin heard
           /\ wire' = rest /\ UNCHANGED <<heard, known, mapAlerts, told, early>>
  <2> HIDE DEF rest, before
  <2>1. ASSUME NEW k \in Hosts, NEW l \in Hosts, <<k, l>> \in Ways
        PROVE  Goes(k, l, <<>>) /\ <<>> \in Seq(AlertMessages)
    <3>1. rest[<<k, l>>] \in Seq(AlertMessages) /\ wire'[<<k, l>>] = rest[<<k, l>>]
      BY <1>4, <1>8, <2>1
    <3>2. rest[<<k, l>>] = rest[<<k, l>>] \o <<>> /\ <<>> \in Seq(AlertMessages)
      BY <3>1
    <3>3. MayBeRead(k, l, rest[<<k, l>>])
      <4>1. CASE <<k, l>> = <<m, n>>
        BY <1>3, <1>4, <1>8, <4>1 DEF MayBeRead, before
      <4>2. CASE <<k, l>> # <<m, n>>
        BY <1>4, <2>1, <4>2 DEF MayBeRead
      <4> QED  BY <4>1, <4>2
    <3> QED  BY <3>1, <3>2, <3>3 DEF Goes
  <2>2. ASSUME NEW k \in Hosts, NEW l \in Hosts, <<k, l>> \in Ways PROVE WaySound(k, l)'
    <3>1. WaySound(k, l) /\ Goes(k, l, <<>>) /\ <<>> \in Seq(AlertMessages)
      BY <1>1, <2>1, <2>2
    <3>2. /\ now' = now /\ heard \subseteq heard' /\ told[k] \subseteq told'[k] /\ AlertsTypeOK
          /\ \A x \in AlertTable : IsInEffect(x) /\ Answered(l, x) => Answered(l, x)'
          /\ Linked(k, l) => Linked(k, l)'
      BY <1>1, <1>5, <1>8 DEF Answered, Linked
    <3>3. ~Linked(k, l)' => /\ <<>> = <<>> /\ <<k, l>> \notin heard'
                            /\ \A y \in AlertTable : <<k, l, y>> \notin known'
      BY <1>5, <1>8, <3>1 DEF WaySound, Linked
    <3>4. <<k, l>> \in heard' => \A x \in mapAlerts'[k] : IsInEffect(x) => <<k, l, x>> \in known'
      BY <1>8, <3>1 DEF WaySound
    <3>5. \A i \in DOMAIN <<>> : \A y \in AlertTable : <<>>[i] = Alert(y) => y \in told'[k]
      OBVIOUS
    <3>6. \A y \in AlertTable : <<k, l, y>> \in known' \ early' /\ Concerns(y, k, l) =>
            <<k, l, y>> \in known \ early
      BY <1>8
    <3> QED  BY ONLY AlertsAssumption, k \in Hosts, l \in Hosts, <2>2, <3>1, <3>2, <3>3, <3>4, <3>5, <3>6, WayStep
  <2>3. ASSUME NEW k \in Hosts, NEW l \in Hosts, <<k, l>> \in open PROVE CallSound(k, l)'
    <3>1. CallSound(k, l) /\ <<k, l>> \in Ways /\ <<l, k>> \in Ways
      BY <1>1, <1>2, <2>3
    <3>2. Goes(k, l, <<>>) /\ Goes(l, k, <<>>) /\ <<>> \in Seq(AlertMessages) /\ DOMAIN <<>> = {}
      BY <2>1, <3>1
    <3> QED  BY <1>1, <1>8, <3>1, <3>2, CallStep
  <2>4. \A k \in Hosts : HostSound(k)'
    BY <1>1, <1>5, <1>8 DEF HostSound, Answered, Cancels, IsInEffect
  <2>5. wire' \in [Ways -> Seq(AlertMessages)]
    BY <1>4, <1>8
  <2> QED  BY <1>1, <1>5, <1>8, <2>2, <2>3, <2>4, <2>5 DEF AlertsInv, AlertsTypeOK
<1> QED  BY <1>6, <1>7, <1>8 DEF Receive

\* A new connection: the version of the caller is all that is said, and nothing is known of either.
LEMMA ConnectKeeps ==
  ASSUME AlertsAssumption, AlertsInv, NEW n \in Hosts, NEW m \in Hosts, <<n, m>> \in Dials, Connect(n, m)
  PROVE  AlertsInv'
<1>1. /\ AlertsTypeOK
      /\ \A k \in Hosts : HostSound(k)
      /\ \A k, l \in Hosts : <<k, l>> \in Ways => WaySound(k, l)
      /\ \A k, l \in Hosts : <<k, l>> \in open => CallSound(k, l)
  BY DEF AlertsInv
<1>2. /\ \A k, l \in Hosts : <<k, l>> \in Dials => <<k, l>> \in Ways /\ <<l, k>> \in Ways
      /\ <<n, m>> # <<m, n>> /\ <<m, n>> \notin Dials /\ <<m, n>> \notin open /\ <<n, m>> \notin open
      /\ open \subseteq Dials
  BY <1>1, WaysAre DEF AlertsTypeOK, AlertsAssumption, Connect
<1>3. /\ open' = open \cup {<<n, m>>}
      /\ wire' = [wire EXCEPT ![<<n, m>>] = <<Version>>]
      /\ UNCHANGED <<heard, known, mapAlerts, unissued, now, breaks, told, early>>
  BY DEF Connect
<1>4. /\ wire[<<m, n>>] = <<>> /\ <<n, m>> \notin heard /\ <<m, n>> \notin heard
      /\ \A x \in AlertTable : <<n, m, x>> \notin known
  BY <1>1, <1>2 DEF WaySound, Linked
<1>5. /\ wire'[<<n, m>>] = <<Version>> /\ wire'[<<m, n>>] = <<>>
      /\ \A w \in Ways : w # <<n, m>> => wire'[w] = wire[w]
  BY <1>1, <1>2, <1>3, <1>4 DEF AlertsTypeOK
<1>6. DOMAIN <<Version>> = {1} /\ <<Version>>[1] = Version
  OBVIOUS
<1>7. AlertsTypeOK'
  <2>1. <<Version>> \in Seq(AlertMessages)
    BY DEF AlertMessages
  <2> QED  BY <1>1, <1>3, <2>1 DEF AlertsTypeOK
<1>8. \A k \in Hosts : HostSound(k)'
  BY <1>1, <1>3 DEF HostSound, Answered, Cancels, IsInEffect
<1>9. ASSUME NEW k \in Hosts, NEW l \in Hosts, <<k, l>> \in Ways PROVE WaySound(k, l)'
  <2>1. CASE <<k, l>> = <<n, m>>
    <3>1. Linked(k, l)' /\ <<k, l>> \notin heard' /\ \A x \in AlertTable : <<k, l, x>> \notin known'
      BY <1>3, <1>4, <2>1 DEF Linked
    <3>2. \A i \in DOMAIN wire'[<<k, l>>] : \A x : wire'[<<k, l>>][i] # Alert(x)
      BY <1>5, <1>6, <2>1, AlertsDiffer
    <3> QED  BY <3>1, <3>2 DEF WaySound
  <2>2. CASE <<k, l>> # <<n, m>>
    <3>1. wire'[<<k, l>>] = wire[<<k, l>>] /\ (Linked(k, l) => Linked(k, l)')
      BY <1>3, <1>5, <1>9, <2>2 DEF Linked
    <3>2. WaySound(k, l)
      BY <1>1, <1>9
    <3> QED  BY <1>3, <3>1, <3>2, SMTT(30) DEF WaySound, AlertComes, Answered, Concerns, AppliesTo, IsInEffect
  <2> QED  BY <2>1, <2>2
<1>10. ASSUME NEW k \in Hosts, NEW l \in Hosts, <<k, l>> \in open' PROVE CallSound(k, l)'
  <2>1. CASE <<k, l>> = <<n, m>>
    <3>1. VersionComes(n, m)' /\ ~VersionComes(m, n)'
      BY <1>5, <1>6 DEF VersionComes
    <3> QED  BY <1>3, <1>4, <2>1, <3>1 DEF CallSound
  <2>2. CASE <<k, l>> # <<n, m>>
    <3>1. <<k, l>> \in open /\ <<k, l>> \in Ways /\ <<l, k>> \in Ways /\ <<l, k>> # <<n, m>>
      <4>1. <<k, l>> \in open
        BY <1>3, <1>10, <2>2
      <4>2. <<l, k>> # <<n, m>>
        BY <1>2, <4>1
      <4> QED  BY <1>2, <4>1, <4>2
    <3>2. wire'[<<k, l>>] = wire[<<k, l>>] /\ wire'[<<l, k>>] = wire[<<l, k>>]
      BY <1>5, <2>2, <3>1
    <3> QED  BY <1>1, <1>3, <3>1, <3>2 DEF CallSound, VersionComes
  <2> QED  BY <2>1, <2>2
<1> QED  BY <1>7, <1>8, <1>9, <1>10 DEF AlertsInv

\* A connection that breaks takes with it what was on the way and what each knew of the other.
LEMMA BreakKeeps ==
  ASSUME AlertsAssumption, AlertsInv, NEW n \in Hosts, NEW m \in Hosts, <<n, m>> \in Dials, Break(n, m)
  PROVE  AlertsInv'
<1> DEFINE gone == {<<n, m>>, <<m, n>>}
<1>1. /\ AlertsTypeOK
      /\ \A k \in Hosts : HostSound(k)
      /\ \A k, l \in Hosts : <<k, l>> \in Ways => WaySound(k, l)
      /\ \A k, l \in Hosts : <<k, l>> \in open => CallSound(k, l)
  BY DEF AlertsInv
<1>2. /\ \A k, l \in Hosts : <<k, l>> \in Dials => <<k, l>> \in Ways /\ <<l, k>> \in Ways
      /\ <<n, m>> # <<m, n>> /\ <<m, n>> \notin open
      /\ open \subseteq Dials
  BY <1>1, WaysAre DEF AlertsTypeOK, AlertsAssumption
<1>3. /\ open' = open \ {<<n, m>>}
      /\ wire' = [wire EXCEPT ![<<n, m>>] = <<>>, ![<<m, n>>] = <<>>]
      /\ heard' = heard \ gone
      /\ known' = {k \in known : <<k[1], k[2]>> \notin gone}
      /\ early' = {k \in early : <<k[1], k[2]>> \notin gone}
      /\ UNCHANGED <<mapAlerts, unissued, now, told>>
  BY DEF Break
<1>4. /\ \A w \in gone \cap Ways : wire'[w] = <<>>
      /\ \A w \in Ways : w \notin gone => wire'[w] = wire[w]
      /\ wire' \in [Ways -> Seq(AlertMessages)]
  <2>1. wire \in [Ways -> Seq(AlertMessages)] /\ <<>> \in Seq(AlertMessages)
    BY <1>1 DEF AlertsTypeOK
  <2> QED  BY <1>2, <1>3, <2>1
<1>5. \A k, l, x : /\ <<k, l, x>> \in known' <=> <<k, l, x>> \in known /\ <<k, l>> \notin gone
                   /\ <<k, l, x>> \in early' <=> <<k, l, x>> \in early /\ <<k, l>> \notin gone
  <2>1. \A k, l, x : <<k, l, x>>[1] = k /\ <<k, l, x>>[2] = l
    OBVIOUS
  <2> HIDE DEF gone
  <2> QED  BY <1>3, <2>1
<1>6. \A k, l : <<k, l>> \in gone <=> <<l, k>> \in gone
  OBVIOUS
<1>7. AlertsTypeOK'
  BY <1>1, <1>3, <1>4 DEF AlertsTypeOK
<1>8. \A k \in Hosts : HostSound(k)'
  BY <1>1, <1>3 DEF HostSound, Answered, Cancels, IsInEffect
<1>9. \A k, l : <<k, l>> \notin gone => (Linked(k, l) => Linked(k, l)')
  BY <1>3 DEF Linked
<1> HIDE DEF gone
<1>10. ASSUME NEW k \in Hosts, NEW l \in Hosts, <<k, l>> \in Ways PROVE WaySound(k, l)'
  <2>1. CASE <<k, l>> \in gone
    <3>1. wire'[<<k, l>>] = <<>> /\ <<k, l>> \notin heard' /\ \A x : <<k, l, x>> \notin known'
      BY <1>3, <1>4, <1>5, <1>10, <2>1
    <3>2. DOMAIN wire'[<<k, l>>] = {}
      BY <3>1
    <3> QED  BY <3>1, <3>2 DEF WaySound
  <2>2. CASE <<k, l>> \notin gone
    <3>1. /\ wire'[<<k, l>>] = wire[<<k, l>>] /\ (Linked(k, l) => Linked(k, l)')
          /\ <<k, l>> \in heard' <=> <<k, l>> \in heard
          /\ <<l, k>> \in heard' <=> <<l, k>> \in heard
          /\ \A x : (<<k, l, x>> \in known' <=> <<k, l, x>> \in known)
                    /\ (<<k, l, x>> \in early' <=> <<k, l, x>> \in early)
      BY <1>3, <1>4, <1>5, <1>6, <1>9, <1>10, <2>2
    <3>2. WaySound(k, l)
      BY <1>1, <1>10
    <3>3. UNCHANGED <<mapAlerts, now, told>>
      BY <1>3
    <3> QED  BY ONLY <3>1, <3>2, <3>3 DEF WaySound, AlertComes, Answered, Concerns, AppliesTo, IsInEffect
  <2> QED  BY <2>1, <2>2
<1>11. ASSUME NEW k \in Hosts, NEW l \in Hosts, <<k, l>> \in open' PROVE CallSound(k, l)'
  <2>1. /\ <<k, l>> \in open /\ <<k, l>> \in Ways /\ <<l, k>> \in Ways
        /\ <<k, l>> \notin gone /\ <<l, k>> \notin gone
    BY <1>2, <1>3, <1>11 DEF gone
  <2>2. /\ wire'[<<k, l>>] = wire[<<k, l>>] /\ wire'[<<l, k>>] = wire[<<l, k>>]
        /\ <<k, l>> \in heard' <=> <<k, l>> \in heard
        /\ <<l, k>> \in heard' <=> <<l, k>> \in heard
    BY <1>3, <1>4, <2>1
  <2> QED  BY <1>1, <2>1, <2>2 DEF CallSound, VersionComes
<1> QED  BY <1>7, <1>8, <1>10, <1>11 DEF AlertsInv

\* As time passes alerts only go out of effect.
LEMMA PassKeeps == ASSUME AlertsAssumption, AlertsInv, Pass PROVE AlertsInv'
<1>1. /\ now \in Nat /\ now' = now + 1
      /\ UNCHANGED <<open, heard, known, wire, mapAlerts, unissued, breaks, told, early>>
  BY DEF Pass, AlertsInv, AlertsTypeOK
<1>2. \A x \in AlertTable : IsInEffect(x)' => IsInEffect(x)
  BY <1>1 DEF IsInEffect, AlertsAssumption
<1>3. AlertsTypeOK'
  BY <1>1 DEF AlertsInv, AlertsTypeOK
<1>4. ASSUME NEW k \in Hosts PROVE HostSound(k)'
  <2>1. HostSound(k) /\ mapAlerts[k] \subseteq AlertTable /\ told[k] \subseteq AlertTable
    BY DEF AlertsInv, AlertsTypeOK
  <2> QED  BY <1>1, <1>2, <2>1 DEF HostSound, Answered, Cancels
<1>5. ASSUME NEW k \in Hosts, NEW l \in Hosts, <<k, l>> \in Ways PROVE WaySound(k, l)'
  <2>1. WaySound(k, l) /\ mapAlerts[k] \subseteq AlertTable
    BY <1>5 DEF AlertsInv, AlertsTypeOK
  <2> QED  BY <1>1, <1>2, <2>1 DEF WaySound, Linked, AlertComes, Answered, Concerns, AppliesTo
<1>6. ASSUME NEW k \in Hosts, NEW l \in Hosts, <<k, l>> \in open' PROVE CallSound(k, l)'
  <2>1. CallSound(k, l)
    BY <1>1, <1>6 DEF AlertsInv
  <2> QED  BY <1>1, <2>1 DEF CallSound, VersionComes
<1> QED  BY <1>3, <1>4, <1>5, <1>6 DEF AlertsInv

\* Every step of Alerts keeps the invariant.
LEMMA AlertsStep == ASSUME AlertsAssumption, AlertsInv, AlertsNext \/ UNCHANGED alertVars PROVE AlertsInv'
<1>1. CASE \E n \in Hosts : \E x \in AlertTable : Issue(n, x)
  BY <1>1, IssueKeeps
<1>2. CASE \E d \in Dials : Connect(d[1], d[2]) \/ Break(d[1], d[2])
  <2>1. PICK d \in Dials : Connect(d[1], d[2]) \/ Break(d[1], d[2])
    BY <1>2
  <2>2. d[1] \in Hosts /\ d[2] \in Hosts /\ <<d[1], d[2]>> \in Dials
    BY <2>1 DEF AlertsAssumption
  <2> QED  BY <2>1, <2>2, ConnectKeeps, BreakKeeps
<1>3. CASE \E w \in Ways : Receive(w[2], w[1])
  <2>1. PICK w \in Ways : Receive(w[2], w[1])
    BY <1>3
  <2>2. w[1] \in Hosts /\ w[2] \in Hosts /\ <<w[1], w[2]>> \in Ways
    BY <2>1, WaysAre
  <2> QED  BY <2>1, <2>2, ReceiveKeeps
<1>4. CASE Pass
  BY <1>4, PassKeeps
<1>5. CASE UNCHANGED alertVars
  <2>1. UNCHANGED <<open, heard, known, wire, mapAlerts, unissued, now, breaks, told, early>>
    BY <1>5 DEF alertVars
  <2>2. AlertsTypeOK'
    BY <2>1 DEF AlertsInv, AlertsTypeOK
  <2>3. \A k \in Hosts : HostSound(k)'
    BY <2>1 DEF AlertsInv, HostSound, Answered, Cancels, IsInEffect
  <2>4. ASSUME NEW k \in Hosts, NEW l \in Hosts, <<k, l>> \in Ways PROVE WaySound(k, l)'
    <3>1. WaySound(k, l)
      BY <2>4 DEF AlertsInv
    <3> QED  BY ONLY <2>1, <3>1 DEF WaySound, Linked, Answered, AlertComes, Concerns, AppliesTo, IsInEffect
  <2>5. ASSUME NEW k \in Hosts, NEW l \in Hosts, <<k, l>> \in open' PROVE CallSound(k, l)'
    <3>1. CallSound(k, l)
      BY <2>1, <2>5 DEF AlertsInv
    <3> QED  BY ONLY <2>1, <3>1 DEF CallSound, VersionComes
  <2> QED  BY <2>2, <2>3, <2>4, <2>5 DEF AlertsInv
<1> QED  BY <1>1, <1>2, <1>3, <1>4, <1>5 DEF AlertsNext

\* IRC.
-----------------------------------------------------------------------------
\* The names that may be heard of: none is the address of a node behind a proxy.
NamesHeard == {NoName} \cup {RandomName(n) : n \in Seeders}
              \cup {EncodeAddress(home[n]) : n \in {m \in Seeders : proxy[m] = "no"}}
LinesHeard == [what : {"hostname", "433", "004", "ping", "352", "join"}, name : NamesHeard]
              \cup [what : {"302"}, name : NamesHeard \cup {EncodeAddress(home[n]) : n \in Seeders}]
CommandsSaid == [what : {"nick", "userhost", "pong"}, name : NamesHeard]
                \cup [what : {"join", "who"}, name : IrcChannels]

IrcTypeOK ==
  /\ ircAt \in [Seeders -> {"connect", "hello", "name", "userhost", "listen", "wait", "done"}]
  /\ linked \subseteq Seeders
  /\ said \in [Seeders -> Seq(CommandsSaid)]
  /\ lines \in [Seeders -> Seq(LinesHeard)]
  /\ strMyName \in [Seeders -> NamesHeard] /\ nick \in [Seeders -> NamesHeard]
  /\ inChannel \in [Seeders -> IrcChannels \cup {NoChannel}]
  /\ learned \in [Seeders -> SUBSET {home[n] : n \in {m \in Seeders : proxy[m] = "no"}}]
  /\ IsFiniteSet(ghosts) /\ \A g \in ghosts : g[1] \in NamesHeard

\* What n has said, in order, and where it is with it: it takes its name before it joins, asks who is
\* there after that, and is in a channel only while it listens.
SessionSound(n) ==
  /\ inChannel[n] # NoChannel => n \in linked /\ ircAt[n] = "listen"
                                 /\ \A i \in DOMAIN said[n] : said[n][i].what # "nick"
  /\ n \notin linked => said[n] = <<>>
  /\ ircAt[n] # "listen" => \A i \in DOMAIN said[n] : said[n][i].what # "join"
  /\ n \in linked /\ ircAt[n] = "listen" /\ inChannel[n] = NoChannel =>
       \E i \in DOMAIN said[n] : said[n][i].what = "join"
  /\ \A i \in DOMAIN said[n] : said[n][i].what = "join" =>
       /\ \E j \in DOMAIN said[n] : i < j /\ said[n][j].what = "who"
       /\ \A j \in DOMAIN said[n] : i < j => said[n][j].what # "nick"

\* n has the address that m goes by, or will read it, or will ask for it.
NameComes(n, name) ==
  \E i \in DOMAIN lines[n] : lines[n][i].what \in {"352", "join"} /\ lines[n][i].name = name
Found(n, m) ==
  inChannel[n] = inChannel[m] /\ inChannel[n] # NoChannel =>
    \/ Decoded(nick[m]) \subseteq learned[n] \cup {home[n]}
    \/ NameComes(n, nick[m])
    \/ \E i \in DOMAIN said[n] : said[n][i].what = "who"

IrcInv ==
  /\ IrcTypeOK
  /\ \A n \in Seeders : SessionSound(n)
  /\ \A n, m \in Seeders : Found(n, m)

\* Only the address of somebody without a proxy is decoded from what may be heard.
LEMMA OnlyNamesDecode ==
  ASSUME NEW name \in NamesHeard
  PROVE  Decoded(name) \subseteq {home[n] : n \in {m \in Seeders : proxy[m] = "no"}}
<1>1. SUFFICES ASSUME NEW a \in HomeAddresses, name = EncodeAddress(a)
               PROVE  a \in {home[n] : n \in {m \in Seeders : proxy[m] = "no"}}
  BY DEF Decoded
<1>2. name # NoName /\ \A n : name # RandomName(n)
  <2>1. \A x : <<"u", a>> # <<"none">> /\ <<"u", a>> # <<"x", x>>
    OBVIOUS
  <2> QED  BY <1>1, <2>1 DEF NoName, RandomName, EncodeAddress
<1>3. PICK n \in {m \in Seeders : proxy[m] = "no"} : name = EncodeAddress(home[n])
  BY <1>2 DEF NamesHeard
<1>4. a = home[n]
  BY <1>1, <1>3 DEF EncodeAddress
<1> QED  BY <1>3, <1>4

\* The properties follow.
LEMMA IrcInvImplies == ASSUME IrcInv PROVE IrcIsRight
<1>1. ASSUME NEW n \in Seeders, NEW m \in Seeders, Listens(n), Listens(m), inChannel[n] = inChannel[m]
      PROVE  Decoded(nick[m]) \subseteq learned[n] \cup {home[n]}
  <2>1. SessionSound(n) /\ Found(n, m)
    BY DEF IrcInv
  <2>2. inChannel[n] # NoChannel
    BY <1>1, <2>1 DEF SessionSound, Listens
  <2> QED  BY <1>1, <2>1, <2>2 DEF Found, NameComes, Listens
<1>2. ASSUME NEW n \in Seeders, proxy[n] # "no", \A m \in Seeders \ {n} : home[m] # home[n]
      PROVE  /\ EncodeAddress(home[n]) \notin NamesTaken
             /\ \A m \in Seeders : home[n] \notin learned[m]
  <2>1. home[n] \notin {home[k] : k \in {m \in Seeders : proxy[m] = "no"}}
    BY <1>2
  <2>2. EncodeAddress(home[n]) \notin NamesHeard
    <3>1. \A x, y : <<"u", x>> # <<"none">> /\ <<"u", x>> # <<"x", y>> /\ (<<"u", x>> = <<"u", y>> => x = y)
      OBVIOUS
    <3>2. \A x, y : /\ EncodeAddress(x) # NoName /\ EncodeAddress(x) # RandomName(y)
                    /\ EncodeAddress(x) = EncodeAddress(y) => x = y
      BY <3>1 DEF NoName, RandomName, EncodeAddress
    <3> QED  BY <2>1, <3>2 DEF NamesHeard
  <2>3. NamesTaken \subseteq NamesHeard
    BY DEF NamesTaken, IrcInv, IrcTypeOK
  <2>4. \A m \in Seeders : home[n] \notin learned[m]
    BY <2>1 DEF IrcInv, IrcTypeOK
  <2> QED  BY <2>2, <2>3, <2>4
<1> QED  BY <1>1, <1>2 DEF IrcIsRight, FindOneAnother, ProxyIsNotNamed

\* Nobody has connected yet.
LEMMA IrcInitially == ASSUME NEW settings, IrcInit(settings) PROVE IrcInv
<1>1. NoName \in NamesHeard
  BY DEF NamesHeard
<1>2. IrcTypeOK
  BY <1>1, FS_EmptySet DEF IrcInit, IrcTypeOK
<1>3. \A n \in Seeders : SessionSound(n)
  BY DEF IrcInit, SessionSound
<1>4. \A n, m \in Seeders : Found(n, m)
  BY DEF IrcInit, Found
<1> QED  BY <1>2, <1>3, <1>4 DEF IrcInv

\* Who does nothing stays as it is.
LEMMA OthersStay ==
  ASSUME IrcInv, NEW n \in Seeders,
         \A k \in Seeders : k # n => /\ said'[k] = said[k] /\ ircAt'[k] = ircAt[k]
                                     /\ inChannel'[k] = inChannel[k] /\ (k \in linked' <=> k \in linked),
         SessionSound(n)'
  PROVE  \A k \in Seeders : SessionSound(k)'
<1>1. SUFFICES ASSUME NEW k \in Seeders, k # n PROVE SessionSound(k)'
  OBVIOUS
<1>2. SessionSound(k)
  BY DEF IrcInv
<1> QED  BY <1>1, <1>2 DEF SessionSound

\* Nodes that were found stay so while names do not change.
LEMMA FoundStays ==
  ASSUME IrcInv, UNCHANGED ircOptions,
         \A k \in Seeders : inChannel'[k] # NoChannel =>
           /\ inChannel'[k] = inChannel[k] /\ nick'[k] = nick[k] /\ learned[k] \subseteq learned'[k]
           /\ \A i \in DOMAIN lines[k] : lines[k][i].what \in {"352", "join"} =>
                \/ \E j \in DOMAIN lines'[k] : lines'[k][j] = lines[k][i]
                \/ Decoded(lines[k][i].name) \subseteq learned'[k] \cup {home[k]}
           /\ \A i \in DOMAIN said[k] : said[k][i].what = "who" =>
                \E j \in DOMAIN said'[k] : said'[k][j] = said[k][i]
  PROVE  \A k, l \in Seeders : Found(k, l)'
<1>1. SUFFICES ASSUME NEW k \in Seeders, NEW l \in Seeders, inChannel'[k] = inChannel'[l], inChannel'[k] # NoChannel
               PROVE  \/ Decoded(nick'[l]) \subseteq learned'[k] \cup {home[k]}
                      \/ NameComes(k, nick[l])'
                      \/ \E i \in DOMAIN said'[k] : said'[k][i].what = "who"
  BY DEF Found, ircOptions, Decoded, EncodeAddress
<1>2. inChannel[k] = inChannel[l] /\ nick'[l] = nick[l] /\ learned[k] \subseteq learned'[k]
  BY <1>1
<1>3. Found(k, l)
  BY DEF IrcInv
<1>4. \/ Decoded(nick[l]) \subseteq learned[k] \cup {home[k]}
      \/ NameComes(k, nick[l])
      \/ \E i \in DOMAIN said[k] : said[k][i].what = "who"
  BY <1>1, <1>2, <1>3 DEF Found
<1>5. NameComes(k, nick[l]) => NameComes(k, nick[l])' \/ Decoded(nick[l]) \subseteq learned'[k] \cup {home[k]}
  BY <1>1, <1>2 DEF NameComes
<1> QED  BY <1>1, <1>2, <1>4, <1>5

\* Names do not change with what is said.
LEMMA NamesStay ==
  ASSUME UNCHANGED ircOptions
  PROVE  /\ NamesHeard' = NamesHeard /\ LinesHeard' = LinesHeard /\ CommandsSaid' = CommandsSaid
         /\ {home[n] : n \in {m \in Seeders : proxy[m] = "no"}}' = {home[n] : n \in {m \in Seeders : proxy[m] = "no"}}
         /\ home' = home /\ proxy' = proxy
BY DEF ircOptions, NamesHeard, LinesHeard, CommandsSaid

\* What a line or a command may be.
LEMMA WhatIsHeard ==
  ASSUME UNCHANGED ircOptions
  PROVE  /\ \A line \in LinesHeard : line.what \in {"352", "join"} => line.name \in NamesHeard
         /\ \A what \in {"hostname", "433", "004", "ping", "352", "join", "302"} : \A name \in NamesHeard :
              Line(what, name) \in LinesHeard
         /\ \A n \in Seeders : Line("302", EncodeAddress(home[n])) \in LinesHeard
         /\ \A what, name : Line(what, name).what = what /\ Line(what, name).name = name
         /\ \A what, name : Command(what, name).what = what /\ Command(what, name).name = name
         /\ \A what \in {"nick", "userhost", "pong"} : \A name \in NamesHeard : Command(what, name) \in CommandsSaid
         /\ \A what \in {"join", "who"} : \A c \in IrcChannels : Command(what, c) \in CommandsSaid
         /\ \A command \in CommandsSaid :
              /\ command.what = "nick" => command.name \in NamesHeard
              /\ command.what \in {"join", "who"} => command.name \in IrcChannels
         /\ NoName \in NamesHeard /\ \A n \in Seeders : RandomName(n) \in NamesHeard
         /\ \A n \in Seeders : proxy[n] = "no" => EncodeAddress(home[n]) \in NamesHeard
BY DEF LinesHeard, CommandsSaid, Line, Command, NamesHeard

\* Only where a node is changes.
LEMMA PlaceKeeps ==
  ASSUME IrcInv, NEW n \in Seeders, ConnectIrc(n) \/ Wait(n) \/ SocketClosed(n)
  PROVE  IrcInv'
<1>1. UNCHANGED <<ircOptions, ircKnown, said, lines, atServer>>
  BY DEF ConnectIrc, Wait, SocketClosed
<1>2. UNCHANGED <<home, proxy, learned, strMyName, said, lines, nick, inChannel, ghosts>>
  BY <1>1 DEF ircOptions, ircKnown, atServer
<1>3. SessionSound(n) /\ IrcTypeOK
  BY DEF IrcInv
<1>4. /\ ircAt[n] # "listen" \/ n \notin linked
      /\ \E at \in {"connect", "hello", "wait", "done"} : ircAt' = [ircAt EXCEPT ![n] = at]
      /\ linked \subseteq linked' /\ linked' \subseteq linked \cup {n}
  BY DEF ConnectIrc, Wait, SocketClosed
<1>5. /\ ircAt'[n] # "listen"
      /\ ircAt' \in [Seeders -> {"connect", "hello", "name", "userhost", "listen", "wait", "done"}]
      /\ \A k \in Seeders : k # n => ircAt'[k] = ircAt[k] /\ (k \in linked' <=> k \in linked)
  BY <1>3, <1>4 DEF IrcTypeOK
<1>6. inChannel[n] = NoChannel /\ \A i \in DOMAIN said[n] : said[n][i].what # "join"
  BY <1>3, <1>4 DEF SessionSound
<1>7. SessionSound(n)'
  BY <1>2, <1>3, <1>4, <1>5, <1>6 DEF SessionSound
<1>8. IrcTypeOK'
  BY <1>1, <1>2, <1>3, <1>4, <1>5, NamesStay DEF IrcTypeOK
<1>9. \A k \in Seeders : SessionSound(k)'
  BY <1>2, <1>5, <1>7, OthersStay
<1>10. \A k, l \in Seeders : Found(k, l)'
  BY <1>1, <1>2, FoundStays
<1> QED  BY <1>8, <1>9, <1>10 DEF IrcInv

\* The connection ends, at n or on the way; some of the lines may be left.
LEMMA EndKeeps ==
  ASSUME IrcInv, NEW n \in Seeders, BreakIrc(n) \/ NameTaken(n)
  PROVE  IrcInv'
<1>1. IrcTypeOK
  BY DEF IrcInv
<1>2. /\ UNCHANGED <<ircOptions, strMyName, learned>>
      /\ linked' = linked \ {n} /\ said' = [said EXCEPT ![n] = <<>>]
      /\ nick' = [nick EXCEPT ![n] = NoName] /\ inChannel' = [inChannel EXCEPT ![n] = NoChannel]
      /\ ircAt' = ircAt \/ ircAt' = [ircAt EXCEPT ![n] = "wait"]
      /\ ghosts' \in {ghosts, ghosts \cup {g \in {<<nick[n], inChannel[n]>>} : nick[n] # NoName}}
  BY DEF BreakIrc, NameTaken, Closed, ircKnown
<1>3. lines' \in [Seeders -> Seq(LinesHeard)] /\ \A k \in Seeders : k # n => lines'[k] = lines[k]
  <2>1. PICK rest : lines' = [lines EXCEPT ![n] = rest]
                    /\ (rest = <<>> \/ \E k \in 0..Len(lines[n]) : rest = SubSeq(lines[n], 1, k))
    BY DEF BreakIrc, NameTaken, Closed
  <2>2. lines[n] \in Seq(LinesHeard)
    BY <1>1 DEF IrcTypeOK
  <2>3. \A k \in 0..Len(lines[n]) : SubSeq(lines[n], 1, k) \in Seq(LinesHeard)
    BY <2>2, SubSeqProperties
  <2>4. rest \in Seq(LinesHeard)
    <3>1. CASE rest = <<>>
      BY <3>1
    <3>2. CASE \E k \in 0..Len(lines[n]) : rest = SubSeq(lines[n], 1, k)
      <4>1. PICK k \in 0..Len(lines[n]) : rest = SubSeq(lines[n], 1, k)
        BY <3>2
      <4> QED  BY <2>3, <4>1
    <3> QED  BY <2>1, <3>1, <3>2
  <2> QED  BY <1>1, <2>1, <2>4 DEF IrcTypeOK
<1>4. IrcTypeOK'
  <2>1. IsFiniteSet(ghosts') /\ \A g \in ghosts' : g[1] \in NamesHeard
    <3> DEFINE left == {g \in {<<nick[n], inChannel[n]>>} : nick[n] # NoName}
    <3>1. IsFiniteSet(left)
      <4>1. left = {} \/ left = {<<nick[n], inChannel[n]>>}
        OBVIOUS
      <4> HIDE DEF left
      <4> QED  BY <4>1, FS_EmptySet, FS_Singleton
    <3>2. \A g \in left : g[1] \in NamesHeard
      BY <1>1 DEF IrcTypeOK
    <3> HIDE DEF left
    <3>3. IsFiniteSet(ghosts \cup left)
      BY <1>1, <3>1, FS_Union DEF IrcTypeOK
    <3> QED  BY <1>1, <1>2, <3>2, <3>3 DEF IrcTypeOK, left
  <2>2. NoName \in NamesHeard
    BY DEF NamesHeard
  <2>3. /\ ircAt' \in [Seeders -> {"connect", "hello", "name", "userhost", "listen", "wait", "done"}]
        /\ linked' \subseteq Seeders /\ said' \in [Seeders -> Seq(CommandsSaid)]
        /\ nick' \in [Seeders -> NamesHeard] /\ inChannel' \in [Seeders -> IrcChannels \cup {NoChannel}]
    BY <1>1, <1>2, <2>2 DEF IrcTypeOK
  <2> QED  BY <1>1, <1>2, <1>3, <2>1, <2>3, NamesStay DEF IrcTypeOK
<1>5. SessionSound(n)'
  BY <1>1, <1>2 DEF SessionSound, IrcTypeOK
<1>6. \A k \in Seeders : SessionSound(k)'
  BY <1>1, <1>2, <1>5, OthersStay DEF IrcTypeOK
<1>7. \A k, l \in Seeders : Found(k, l)'
  BY <1>1, <1>2, <1>3, FoundStays DEF IrcTypeOK
<1> QED  BY <1>4, <1>6, <1>7 DEF IrcInv

\* What n says is put behind what it has said, while it is connected.
SaidBehind(n, commands) ==
  /\ said' \in [Seeders -> Seq(CommandsSaid)]
  /\ \A k \in Seeders : k # n => said'[k] = said[k]
  /\ Len(said[n]) \in Nat /\ DOMAIN said[n] = 1..Len(said[n])
  /\ n \notin linked => said'[n] = <<>>
  /\ \A i \in DOMAIN said[n] : i \in DOMAIN said'[n] /\ said'[n][i] = said[n][i]
  /\ n \in linked => \A i \in DOMAIN commands :
       Len(said[n]) + i \in DOMAIN said'[n] /\ said'[n][Len(said[n]) + i] = commands[i]
  /\ \A i \in DOMAIN said'[n] :
       \/ i \in DOMAIN said[n] /\ said'[n][i] = said[n][i]
       \/ n \in linked /\ i - Len(said[n]) \in DOMAIN commands /\ said'[n][i] = commands[i - Len(said[n])]
\* That is what Says does.
LEMMA SaysKeeps ==
  ASSUME IrcInv, NEW n \in Seeders, NEW commands \in Seq(CommandsSaid), Says(n, commands)
  PROVE  SaidBehind(n, commands)
<1>1. said \in [Seeders -> Seq(CommandsSaid)] /\ SessionSound(n)
  BY DEF IrcInv, IrcTypeOK
<1>2. said[n] \in Seq(CommandsSaid)
  BY <1>1
<1>3. Len(said[n]) \in Nat /\ DOMAIN said[n] = 1..Len(said[n])
  BY <1>2, LenProperties
<1>4. CASE n \in linked
  <2>1. said' = [said EXCEPT ![n] = @ \o commands]
    BY <1>4 DEF Says
  <2>2. said[n] \o commands \in Seq(CommandsSaid) /\ said'[n] = said[n] \o commands
    BY <1>1, <1>2, <2>1, Behind
  <2>3. said' \in [Seeders -> Seq(CommandsSaid)] /\ \A k \in Seeders : k # n => said'[k] = said[k]
    BY <1>1, <2>1, <2>2
  <2>4. /\ \A i \in DOMAIN said[n] : i \in DOMAIN (said[n] \o commands) /\ (said[n] \o commands)[i] = said[n][i]
        /\ \A i \in DOMAIN commands :
             Len(said[n]) + i \in DOMAIN (said[n] \o commands) /\ (said[n] \o commands)[Len(said[n]) + i] = commands[i]
        /\ \A i \in DOMAIN (said[n] \o commands) :
             \/ i \in DOMAIN said[n] /\ (said[n] \o commands)[i] = said[n][i]
             \/ i - Len(said[n]) \in DOMAIN commands /\ (said[n] \o commands)[i] = commands[i - Len(said[n])]
    BY <1>2, Behind
  <2> QED  BY <1>3, <1>4, <2>2, <2>3, <2>4 DEF SaidBehind
<1>5. CASE n \notin linked
  <2>1. said' = said
    BY <1>1, <1>5 DEF Says
  <2> QED  BY <1>1, <1>3, <1>5, <2>1 DEF SaidBehind, SessionSound
<1> QED  BY <1>4, <1>5

\* A line is read.
LEMMA RecvKeeps ==
  ASSUME IrcInv, NEW n \in Seeders, lines[n] # <<>>, Recv(n)
  PROVE  /\ lines' \in [Seeders -> Seq(LinesHeard)]
         /\ \A k \in Seeders : k # n => lines'[k] = lines[k]
         /\ Head(lines[n]) \in LinesHeard
         /\ \A i \in DOMAIN lines[n] : \/ lines[n][i] = Head(lines[n])
                                       \/ \E j \in DOMAIN lines'[n] : lines'[n][j] = lines[n][i]
<1>1. lines \in [Seeders -> Seq(LinesHeard)] /\ lines[n] \in Seq(LinesHeard)
  BY DEF IrcInv, IrcTypeOK
<1>2. /\ Tail(lines[n]) \in Seq(LinesHeard) /\ Head(lines[n]) \in LinesHeard /\ lines[n][1] = Head(lines[n])
      /\ \A i \in DOMAIN lines[n] : i # 1 => i - 1 \in DOMAIN Tail(lines[n]) /\ Tail(lines[n])[i - 1] = lines[n][i]
  BY <1>1, FirstTaken
<1>3. lines' = [lines EXCEPT ![n] = Tail(@)] /\ lines'[n] = Tail(lines[n])
  BY <1>1 DEF Recv
<1>4. lines' \in [Seeders -> Seq(LinesHeard)] /\ \A k \in Seeders : k # n => lines'[k] = lines[k]
  BY <1>1, <1>2, <1>3
<1> QED  BY <1>2, <1>3, <1>4

\* One command is said that is not to join: the session stays sound.
LEMMA TalkKeeps ==
  ASSUME IrcInv, NEW n \in Seeders, NEW command \in CommandsSaid, Says(n, <<command>>),
         command.what \in {"nick", "userhost", "pong"}, UNCHANGED <<linked, inChannel>>,
         \/ ircAt'[n] = ircAt[n] /\ command.what # "nick"
         \/ ircAt[n] # "listen" /\ ircAt'[n] # "listen"
  PROVE  /\ SessionSound(n)' /\ SaidBehind(n, <<command>>)
<1>1. <<command>> \in Seq(CommandsSaid) /\ DOMAIN <<command>> = {1} /\ <<command>>[1] = command
  OBVIOUS
<1>2. SaidBehind(n, <<command>>)
  BY <1>1, SaysKeeps
<1>3. SessionSound(n)
  BY DEF IrcInv
<1>4. \A i \in DOMAIN said'[n] : \/ i \in DOMAIN said[n] /\ said'[n][i] = said[n][i]
                                 \/ said'[n][i] = command
  BY <1>1, <1>2 DEF SaidBehind
<1>5. \A i \in DOMAIN said[n] : i \in DOMAIN said'[n] /\ said'[n][i] = said[n][i]
  BY <1>2 DEF SaidBehind
<1>6. \A i \in DOMAIN said'[n] : said'[n][i].what = "join" => i \in DOMAIN said[n] /\ said[n][i].what = "join"
  BY <1>4
<1>7. n \notin linked => said'[n] = <<>>
  BY <1>2 DEF SaidBehind
<1>8. inChannel[n] # NoChannel => /\ n \in linked /\ ircAt[n] = "listen" /\ ircAt'[n] = "listen"
                                  /\ \A i \in DOMAIN said'[n] : said'[n][i].what # "nick"
  BY <1>3, <1>4 DEF SessionSound
<1>9. ircAt'[n] # "listen" => \A i \in DOMAIN said'[n] : said'[n][i].what # "join"
  BY <1>3, <1>6 DEF SessionSound
<1>10. n \in linked /\ ircAt'[n] = "listen" /\ inChannel[n] = NoChannel =>
         \E i \in DOMAIN said'[n] : said'[n][i].what = "join"
  BY <1>3, <1>5 DEF SessionSound
<1>11. ASSUME NEW i \in DOMAIN said'[n], said'[n][i].what = "join"
       PROVE  /\ \E j \in DOMAIN said'[n] : i < j /\ said'[n][j].what = "who"
              /\ \A j \in DOMAIN said'[n] : i < j => said'[n][j].what # "nick"
  <2>1. i \in DOMAIN said[n] /\ said[n][i].what = "join"
    BY <1>6, <1>11
  <2>2. /\ \E j \in DOMAIN said[n] : i < j /\ said[n][j].what = "who"
        /\ \A j \in DOMAIN said[n] : i < j => said[n][j].what # "nick"
        /\ ircAt[n] = "listen"
    BY <1>3, <2>1 DEF SessionSound
  <2>3. command.what # "nick"
    BY <2>2
  <2> QED  BY <1>4, <1>5, <2>2, <2>3
<1> QED  BY <1>2, <1>7, <1>8, <1>9, <1>10, <1>11 DEF SessionSound

\* A line is read and one command is said, or none.
LEMMA PongKeeps == ASSUME IrcInv, NEW n \in Seeders, Pong(n) PROVE IrcInv'
<1>1. /\ Says(n, <<Command("pong", NoName)>>) /\ Recv(n) /\ lines[n] # <<>> /\ Head(lines[n]).what = "ping"
      /\ UNCHANGED <<ircOptions, ircAt, strMyName, learned, linked, nick, inChannel, ghosts>>
  BY DEF Pong, Reads, ircKnown, atServer
<1>2. IrcTypeOK
  BY DEF IrcInv
<1>3. Command("pong", NoName) \in CommandsSaid /\ Command("pong", NoName).what = "pong"
  BY <1>1, WhatIsHeard
<1>4. SessionSound(n)' /\ SaidBehind(n, <<Command("pong", NoName)>>)
  <2> DEFINE command == Command("pong", NoName)
  <2> HIDE DEF command
  <2>1. command \in CommandsSaid /\ command.what = "pong" /\ Says(n, <<command>>)
    BY <1>1, <1>3 DEF command
  <2>2. SessionSound(n)' /\ SaidBehind(n, <<command>>)
    BY <1>1, <2>1, TalkKeeps
  <2> QED  BY <2>2 DEF command
<1>5. /\ lines' \in [Seeders -> Seq(LinesHeard)]
      /\ \A k \in Seeders : k # n => lines'[k] = lines[k]
      /\ \A i \in DOMAIN lines[n] : \/ lines[n][i] = Head(lines[n])
                                    \/ \E j \in DOMAIN lines'[n] : lines'[n][j] = lines[n][i]
  BY <1>1, RecvKeeps
<1>6. IrcTypeOK'
  BY <1>1, <1>2, <1>4, <1>5, NamesStay DEF IrcTypeOK, SaidBehind
<1>7. \A k \in Seeders : SessionSound(k)'
  BY <1>1, <1>4, OthersStay DEF SaidBehind
<1>8. \A k, l \in Seeders : Found(k, l)'
  <2>1. ASSUME NEW k \in Seeders
        PROVE  /\ \A i \in DOMAIN lines[k] : lines[k][i].what \in {"352", "join"} =>
                    \E j \in DOMAIN lines'[k] : lines'[k][j] = lines[k][i]
               /\ \A i \in DOMAIN said[k] : said[k][i].what = "who" =>
                    \E j \in DOMAIN said'[k] : said'[k][j] = said[k][i]
    <3>1. CASE k # n
      BY <1>4, <1>5, <3>1 DEF SaidBehind
    <3>2. CASE k = n
      <4>1. \A i \in DOMAIN said[n] : i \in DOMAIN said'[n] /\ said'[n][i] = said[n][i]
        BY <1>4 DEF SaidBehind
      <4> QED  BY <1>1, <1>5, <3>2, <4>1
    <3> QED  BY <3>1, <3>2
  <2> QED  BY <1>1, <2>1, FoundStays
<1> QED  BY <1>6, <1>7, <1>8 DEF IrcInv

\* The server's answers while the seeder takes its name.
LEMMA NameKeeps == ASSUME IrcInv, NEW n \in Seeders, TakeName(n) \/ Registered(n) PROVE IrcInv'
<1>1. /\ Recv(n) /\ lines[n] # <<>>
      /\ UNCHANGED <<ircOptions, learned, linked, nick, inChannel, ghosts>>
      /\ ircAt[n] \in {"hello", "name"}
      /\ \E at \in {"name", "userhost"} : ircAt' = [ircAt EXCEPT ![n] = at]
  BY DEF TakeName, Registered, Reads, ircKnown, atServer
<1>2. IrcTypeOK
  BY DEF IrcInv
<1>3. PICK command \in CommandsSaid :
        command.what \in {"nick", "userhost"} /\ Says(n, <<command>>) /\ strMyName' \in [Seeders -> NamesHeard]
  <2>1. CASE TakeName(n)
    <3>1. PICK name \in NamesHeard : strMyName' = [strMyName EXCEPT ![n] = name] /\ Says(n, <<Command("nick", name)>>)
      BY <1>1, <2>1, WhatIsHeard DEF TakeName
    <3> QED  BY <1>1, <1>2, <3>1, WhatIsHeard DEF IrcTypeOK
  <2>2. CASE Registered(n)
    <3>1. strMyName' = strMyName /\ Says(n, <<Command("userhost", strMyName[n])>>) /\ strMyName[n] \in NamesHeard
      BY <1>2, <2>2 DEF Registered, ircKnown, IrcTypeOK
    <3>2. Command("userhost", strMyName[n]) \in CommandsSaid /\ Command("userhost", strMyName[n]).what = "userhost"
      BY <1>1, <3>1, WhatIsHeard
    <3> QED  BY <1>2, <3>1, <3>2 DEF IrcTypeOK
  <2> QED  BY <2>1, <2>2
<1>4. /\ ircAt'[n] \in {"name", "userhost"} /\ \A k \in Seeders : k # n => ircAt'[k] = ircAt[k]
      /\ ircAt' \in [Seeders -> {"connect", "hello", "name", "userhost", "listen", "wait", "done"}]
  BY <1>1, <1>2 DEF IrcTypeOK
<1>5. SessionSound(n)' /\ SaidBehind(n, <<command>>)
  <2>1. command.what \in {"nick", "userhost", "pong"} /\ ircAt[n] # "listen" /\ ircAt'[n] # "listen"
        /\ UNCHANGED <<linked, inChannel>> /\ Says(n, <<command>>)
    BY <1>1, <1>3, <1>4
  <2> QED  BY <2>1, TalkKeeps
<1>6. /\ lines' \in [Seeders -> Seq(LinesHeard)]
      /\ \A k \in Seeders : k # n => lines'[k] = lines[k]
  BY <1>1, RecvKeeps
<1>7. IrcTypeOK'
  BY <1>1, <1>2, <1>3, <1>4, <1>5, <1>6, NamesStay DEF IrcTypeOK, SaidBehind
<1>8. \A k \in Seeders : SessionSound(k)'
  BY <1>1, <1>4, <1>5, OthersStay DEF SaidBehind
<1>9. inChannel[n] = NoChannel
  BY <1>1 DEF IrcInv, SessionSound
<1>10. \A k, l \in Seeders : Found(k, l)'
  <2>1. ASSUME NEW k \in Seeders, k # n
        PROVE  lines'[k] = lines[k] /\ said'[k] = said[k]
    BY <1>5, <1>6, <2>1 DEF SaidBehind
  <2> QED  BY <1>1, <1>9, <2>1, FoundStays
<1> QED  BY <1>7, <1>8, <1>10 DEF IrcInv

\* A line read while the seeder listens, learned from or skipped.
LEMMA ReadKeeps == ASSUME IrcInv, NEW n \in Seeders, Skip(n) \/ Learn(n) PROVE IrcInv'
<1>1. /\ Recv(n) /\ lines[n] # <<>>
      /\ UNCHANGED <<ircOptions, ircAt, strMyName, linked, said, nick, inChannel, ghosts>>
      /\ \/ learned' = learned /\ (ircAt[n] = "listen" => Head(lines[n]).what \notin {"352", "join"})
         \/ /\ Head(lines[n]).what \in {"352", "join"}
            /\ learned' = [learned EXCEPT ![n] =
                   @ \cup (Decoded(Head(lines[n]).name) \ {home[m] : m \in {n} \cap localKnown})]
  BY DEF Skip, Learn, Reads, ircKnown, atServer, Awaited
<1>2. IrcTypeOK /\ SessionSound(n)
  BY DEF IrcInv
<1>3. /\ lines' \in [Seeders -> Seq(LinesHeard)]
      /\ \A k \in Seeders : k # n => lines'[k] = lines[k]
      /\ Head(lines[n]) \in LinesHeard
      /\ \A i \in DOMAIN lines[n] : \/ lines[n][i] = Head(lines[n])
                                    \/ \E j \in DOMAIN lines'[n] : lines'[n][j] = lines[n][i]
  BY <1>1, RecvKeeps
<1>4. /\ learned' \in [Seeders -> SUBSET {home[k] : k \in {m \in Seeders : proxy[m] = "no"}}]
      /\ \A k \in Seeders : learned[k] \subseteq learned'[k]
  <2> DEFINE homes == {home[k] : k \in {m \in Seeders : proxy[m] = "no"}}
  <2>1. learned \in [Seeders -> SUBSET homes]
    BY <1>2 DEF IrcTypeOK
  <2>2. Head(lines[n]).what \in {"352", "join"} => Decoded(Head(lines[n]).name) \subseteq homes
    BY <1>1, <1>3, WhatIsHeard, OnlyNamesDecode
  <2> HIDE DEF homes
  <2>3. learned' \in [Seeders -> SUBSET homes] /\ \A k \in Seeders : learned[k] \subseteq learned'[k]
    BY <1>1, <2>1, <2>2
  <2> QED  BY <2>3 DEF homes
<1>5. IrcTypeOK'
  BY <1>1, <1>2, <1>3, <1>4, NamesStay DEF IrcTypeOK
<1>6. SessionSound(n)'
  BY <1>1, <1>2 DEF SessionSound
<1>7. \A k \in Seeders : SessionSound(k)'
  BY <1>1, <1>6, OthersStay
<1>8. ASSUME NEW k \in Seeders, inChannel[k] # NoChannel, NEW i \in DOMAIN lines[k], lines[k][i].what \in {"352", "join"}
      PROVE  \/ \E j \in DOMAIN lines'[k] : lines'[k][j] = lines[k][i]
             \/ Decoded(lines[k][i].name) \subseteq learned'[k] \cup {home[k]}
  <2>1. CASE k # n
    BY <1>3, <1>8, <2>1
  <2>2. CASE k = n /\ lines[k][i] = Head(lines[n])
    <3>1. ircAt[n] = "listen"
      BY <1>2, <1>8, <2>2 DEF SessionSound
    <3>2. learned' = [learned EXCEPT ![n] =
                   @ \cup (Decoded(Head(lines[n]).name) \ {home[m] : m \in {n} \cap localKnown})]
      BY <1>1, <1>8, <2>2, <3>1
    <3>3. {home[m] : m \in {n} \cap localKnown} \subseteq {home[n]}
      OBVIOUS
    <3> QED  BY <1>2, <2>2, <3>2, <3>3 DEF IrcTypeOK
  <2> QED  BY <1>3, <1>8, <2>1, <2>2
<1>9. \A k, l \in Seeders : Found(k, l)'
  BY <1>1, <1>4, <1>8, FoundStays
<1> QED  BY <1>5, <1>7, <1>9 DEF IrcInv

\* The answer to userhost, or none, and the second name; the channel is joined.
LEMMA ReNickKeeps == ASSUME IrcInv, NEW n \in Seeders, ReNick(n) PROVE IrcInv'
<1>1. /\ UNCHANGED <<ircOptions, learned, linked, nick, inChannel, ghosts>>
      /\ ircAt[n] = "userhost" /\ ircAt' = [ircAt EXCEPT ![n] = "listen"]
      /\ (Recv(n) /\ lines[n] # <<>>) \/ lines' = lines
  BY DEF ReNick, JoinChannel, Reads, atServer
<1>2. IrcTypeOK /\ SessionSound(n)
  BY DEF IrcInv
<1>3. PICK c \in IrcChannels, first \in Seq(CommandsSaid) :
        /\ Says(n, first \o <<Command("join", c), Command("who", c)>>)
        /\ \A i \in DOMAIN first : first[i].what = "nick"
        /\ strMyName' \in [Seeders -> NamesHeard]
  <2>1. CASE /\ proxy[n] = "no"
             /\ strMyName' = [strMyName EXCEPT ![n] = EncodeAddress(home[n])]
             /\ JoinChannel(n, <<Command("nick", EncodeAddress(home[n]))>>)
    <3>1. PICK c \in IrcChannels : Says(n, <<Command("nick", EncodeAddress(home[n]))>>
                                           \o <<Command("join", c), Command("who", c)>>)
      BY <2>1 DEF JoinChannel
    <3>2. EncodeAddress(home[n]) \in NamesHeard
      BY <1>1, <2>1, WhatIsHeard
    <3> DEFINE command == Command("nick", EncodeAddress(home[n]))
    <3>3. command \in CommandsSaid /\ command.what = "nick"
      BY <1>1, <3>2, WhatIsHeard
    <3>4. strMyName' \in [Seeders -> NamesHeard]
      BY <1>2, <2>1, <3>2 DEF IrcTypeOK
    <3> HIDE DEF command
    <3>5. <<command>> \in Seq(CommandsSaid) /\ \A i \in DOMAIN <<command>> : <<command>>[i].what = "nick"
      BY <3>3
    <3> QED  BY <3>1, <3>4, <3>5 DEF command
  <2>2. CASE UNCHANGED strMyName /\ JoinChannel(n, <<>>)
    <3>1. PICK c \in IrcChannels : Says(n, <<>> \o <<Command("join", c), Command("who", c)>>)
      BY <2>2 DEF JoinChannel
    <3>2. <<>> \in Seq(CommandsSaid) /\ \A i \in DOMAIN <<>> : <<>>[i].what = "nick"
      OBVIOUS
    <3> QED  BY <1>2, <2>2, <3>1, <3>2 DEF IrcTypeOK
  <2> QED  BY <2>1, <2>2 DEF ReNick
<1> DEFINE ending == <<Command("join", c), Command("who", c)>>
           commands == first \o ending
<1>4. /\ ending \in Seq(CommandsSaid) /\ DOMAIN ending = {1, 2}
      /\ ending[1].what = "join" /\ ending[2].what = "who"
  <2>1. /\ Command("join", c) \in CommandsSaid /\ Command("join", c).what = "join"
        /\ Command("who", c) \in CommandsSaid /\ Command("who", c).what = "who"
    BY <1>1, WhatIsHeard
  <2> QED  BY <2>1
<1> HIDE DEF ending
<1>5. /\ commands \in Seq(CommandsSaid)
      /\ Len(first) \in Nat /\ DOMAIN first = 1..Len(first)
      /\ \A i \in DOMAIN ending : Len(first) + i \in DOMAIN commands /\ commands[Len(first) + i] = ending[i]
      /\ \A i \in DOMAIN commands : \/ i \in DOMAIN first /\ commands[i] = first[i]
                                    \/ i - Len(first) \in DOMAIN ending /\ commands[i] = ending[i - Len(first)]
      /\ DOMAIN commands = 1..Len(commands) /\ Len(commands) \in Nat
  <2>1. /\ commands \in Seq(CommandsSaid)
        /\ \A i \in DOMAIN ending : Len(first) + i \in DOMAIN commands /\ commands[Len(first) + i] = ending[i]
        /\ \A i \in DOMAIN commands : \/ i \in DOMAIN first /\ commands[i] = first[i]
                                      \/ i - Len(first) \in DOMAIN ending /\ commands[i] = ending[i - Len(first)]
    BY <1>4, Behind
  <2> HIDE DEF commands
  <2> QED  BY <2>1, LenProperties
<1>6. /\ Len(first) + 1 \in DOMAIN commands /\ commands[Len(first) + 1].what = "join"
      /\ Len(first) + 2 \in DOMAIN commands /\ commands[Len(first) + 2].what = "who"
      /\ \A i \in DOMAIN commands : \/ i <= Len(first) /\ commands[i].what = "nick"
                                    \/ i = Len(first) + 1
                                    \/ i = Len(first) + 2
  <2>1. \A i \in DOMAIN first : i <= Len(first) /\ first[i].what = "nick"
    BY <1>3, <1>5
  <2>2. \A i \in DOMAIN commands : i - Len(first) \in {1, 2} => i = Len(first) + 1 \/ i = Len(first) + 2
    BY <1>5
  <2> HIDE DEF commands
  <2> QED  BY <1>4, <1>5, <2>1, <2>2
<1>7. SaidBehind(n, commands)
  <2>1. Says(n, commands)
    BY <1>3 DEF ending
  <2> HIDE DEF commands
  <2> QED  BY <1>5, <2>1, SaysKeeps
<1> HIDE DEF commands
<1>8. inChannel[n] = NoChannel /\ \A i \in DOMAIN said[n] : said[n][i].what # "join"
  BY <1>1, <1>2 DEF SessionSound
<1>9. /\ ircAt'[n] = "listen" /\ \A k \in Seeders : k # n => ircAt'[k] = ircAt[k]
      /\ ircAt' \in [Seeders -> {"connect", "hello", "name", "userhost", "listen", "wait", "done"}]
  BY <1>1, <1>2 DEF IrcTypeOK
<1>10. SessionSound(n)'
  <2>1. CASE n \notin linked
    BY <1>1, <1>7, <1>8, <2>1 DEF SessionSound, SaidBehind
  <2>2. CASE n \in linked
    <3> DEFINE len == Len(said[n])
    <3>1. DOMAIN said'[n] \subseteq Int
      <4>1. said'[n] \in Seq(CommandsSaid)
        BY <1>7 DEF SaidBehind
      <4> QED  BY <4>1
    <3>2. /\ len \in Nat /\ DOMAIN said[n] = 1..len
          /\ \A i \in DOMAIN commands : len + i \in DOMAIN said'[n] /\ said'[n][len + i] = commands[i]
          /\ \A i \in DOMAIN said'[n] :
               \/ i \in DOMAIN said[n] /\ said'[n][i] = said[n][i]
               \/ i - len \in DOMAIN commands /\ said'[n][i] = commands[i - len]
      BY <1>7, <2>2 DEF SaidBehind
    <3> HIDE DEF len
    <3> DEFINE fst == Len(first)
               a == len + (fst + 1)
               b == len + (fst + 2)
    <3>3. /\ fst \in Nat /\ fst + 1 \in DOMAIN commands /\ commands[fst + 1].what = "join"
          /\ fst + 2 \in DOMAIN commands /\ commands[fst + 2].what = "who"
          /\ \A i \in DOMAIN commands : \/ i <= fst /\ commands[i].what = "nick"
                                        \/ i = fst + 1
                                        \/ i = fst + 2
      BY <1>5, <1>6
    <3> HIDE DEF fst
    <3>4. /\ a \in DOMAIN said'[n] /\ said'[n][a].what = "join"
          /\ b \in DOMAIN said'[n] /\ said'[n][b].what = "who" /\ a < b /\ a \in Nat /\ b \in Nat
      <4>1. a \in DOMAIN said'[n] /\ said'[n][a] = commands[fst + 1]
        BY <3>2, <3>3
      <4>2. b \in DOMAIN said'[n] /\ said'[n][b] = commands[fst + 2]
        BY <3>2, <3>3
      <4>3. a < b /\ a \in Nat /\ b \in Nat
        BY <3>2, <3>3
      <4> QED  BY <3>3, <4>1, <4>2, <4>3
    <3>5. ASSUME NEW i \in DOMAIN said'[n]
          PROVE  /\ i \in Int
                 /\ said'[n][i].what = "join" => i = a
                 /\ i > a => i = b
      <4>1. i \in Int
        BY <3>1
      <4>2. CASE i \in DOMAIN said[n] /\ said'[n][i] = said[n][i]
        <5>1. i <= len /\ said'[n][i].what # "join"
          BY <1>8, <3>2, <4>2
        <5> QED  BY <3>2, <3>3, <4>1, <5>1
      <4>3. CASE i - len \in DOMAIN commands /\ said'[n][i] = commands[i - len]
        <5>1. CASE i - len <= fst /\ commands[i - len].what = "nick"
          BY <3>2, <3>3, <4>1, <4>3, <5>1
        <5>2. CASE i - len = fst + 1
          BY <3>2, <3>3, <4>1, <5>2
        <5>3. CASE i - len = fst + 2
          <6>1. i = b /\ said'[n][i].what = "who"
            BY <3>2, <3>3, <4>1, <4>3, <5>3
          <6> QED  BY <4>1, <6>1
        <5> QED  BY <3>3, <4>3, <5>1, <5>2, <5>3
      <4> QED  BY <3>2, <4>2, <4>3
    <3> HIDE DEF a, b
    <3>6. /\ \E i \in DOMAIN said'[n] : said'[n][i].what = "join"
          /\ \A i \in DOMAIN said'[n] : said'[n][i].what = "join" =>
               /\ \E j \in DOMAIN said'[n] : i < j /\ said'[n][j].what = "who"
               /\ \A j \in DOMAIN said'[n] : i < j => said'[n][j].what # "nick"
      <4>1. ASSUME NEW i \in DOMAIN said'[n], said'[n][i].what = "join"
            PROVE  /\ \E j \in DOMAIN said'[n] : i < j /\ said'[n][j].what = "who"
                   /\ \A j \in DOMAIN said'[n] : i < j => said'[n][j].what # "nick"
        <5>1. i = a
          BY <3>5, <4>1
        <5>2. \A j \in DOMAIN said'[n] : i < j => j = b
          BY <3>4, <3>5, <5>1
        <5> QED  BY <3>4, <5>1, <5>2
      <4> QED  BY <3>4, <4>1
    <3> QED  BY <1>1, <1>8, <1>9, <2>2, <3>6 DEF SessionSound
  <2> QED  BY <2>1, <2>2
<1>11. /\ lines' \in [Seeders -> Seq(LinesHeard)]
       /\ \A k \in Seeders : k # n => lines'[k] = lines[k]
  BY <1>1, <1>2, RecvKeeps DEF IrcTypeOK
<1>12. IrcTypeOK'
  BY <1>1, <1>2, <1>3, <1>7, <1>9, <1>11, NamesStay DEF IrcTypeOK, SaidBehind
<1>13. \A k \in Seeders : SessionSound(k)'
  BY <1>1, <1>7, <1>9, <1>10, OthersStay DEF SaidBehind
<1>14. \A k, l \in Seeders : Found(k, l)'
  <2>1. ASSUME NEW k \in Seeders, k # n
        PROVE  lines'[k] = lines[k] /\ said'[k] = said[k]
    BY <1>7, <1>11, <2>1 DEF SaidBehind
  <2> QED  BY <1>1, <1>8, <2>1, FoundStays
<1> QED  BY <1>12, <1>13, <1>14 DEF IrcInv

\* The server greets n or sends a ping, or forgets the sessions that are lost.
LEMMA ServerKeeps ==
  ASSUME IrcInv, NEW n \in Seeders, Greet(n) \/ ServerPings(n) PROVE IrcInv'
<1>1. UNCHANGED <<ircOptions, ircAt, strMyName, learned, linked, said, nick, inChannel, ghosts>>
  BY DEF Greet, ServerPings, ircKnown, atServer
<1>2. IrcTypeOK
  BY DEF IrcInv
<1>3. /\ lines' \in [Seeders -> Seq(LinesHeard)]
      /\ \A k \in Seeders : inChannel[k] # NoChannel =>
           \A i \in DOMAIN lines[k] : \E j \in DOMAIN lines'[k] : lines'[k][j] = lines[k][i]
  <2>1. CASE Greet(n)
    <3>1. Line("hostname", NoName) \in LinesHeard
      BY <1>1, WhatIsHeard
    <3>2. lines' = [lines EXCEPT ![n] = <<Line("hostname", NoName)>>]
      BY <2>1 DEF Greet
    <3>3. <<Line("hostname", NoName)>> \in Seq(LinesHeard)
      BY <3>1
    <3>4. inChannel[n] = NoChannel
      BY <2>1 DEF Greet, IrcInv, SessionSound
    <3> QED  BY <1>2, <3>2, <3>3, <3>4 DEF IrcTypeOK
  <2>2. CASE ServerPings(n)
    <3>1. Line("ping", NoName) \in LinesHeard
      BY <1>1, WhatIsHeard
    <3> DEFINE line == Line("ping", NoName)
    <3>2. lines' = [lines EXCEPT ![n] = Append(@, line)]
      BY <2>2 DEF ServerPings
    <3> HIDE DEF line
    <3>3. lines[n] \in Seq(LinesHeard) /\ line \in LinesHeard
      BY <1>2, <3>1 DEF IrcTypeOK, line
    <3>4. Append(lines[n], line) \in Seq(LinesHeard)
          /\ \A i \in DOMAIN lines[n] : i \in DOMAIN Append(lines[n], line) /\ Append(lines[n], line)[i] = lines[n][i]
      BY <3>3
    <3>5. /\ lines' \in [Seeders -> Seq(LinesHeard)] /\ lines'[n] = Append(lines[n], line)
          /\ \A k \in Seeders : k # n => lines'[k] = lines[k]
      BY <1>2, <3>2, <3>4 DEF IrcTypeOK
    <3> QED  BY <3>4, <3>5
  <2> QED  BY <2>1, <2>2
<1>4. IrcTypeOK'
  BY <1>1, <1>2, <1>3, NamesStay DEF IrcTypeOK
<1>5. \A k \in Seeders : SessionSound(k)'
  BY <1>1 DEF SessionSound, IrcInv
<1>6. \A k, l \in Seeders : Found(k, l)'
  BY <1>1, <1>3, FoundStays
<1> QED  BY <1>4, <1>5, <1>6 DEF IrcInv

\* A ghost leaves the channel with its name.
LEMMA GhostsKeep == ASSUME IrcInv, GhostLeaves PROVE IrcInv'
<1>1. /\ UNCHANGED <<ircOptions, ircAt, strMyName, learned, linked, said, lines, nick, inChannel>>
      /\ ghosts' = {}
  BY DEF GhostLeaves, ircKnown
<1>2. IrcTypeOK'
  BY <1>1, NamesStay, FS_EmptySet DEF IrcTypeOK, IrcInv
<1>3. \A k \in Seeders : SessionSound(k)'
  BY <1>1 DEF SessionSound, IrcInv
<1>4. \A k, l \in Seeders : Found(k, l)'
  BY <1>1, FoundStays
<1> QED  BY <1>2, <1>3, <1>4 DEF IrcInv

\* The server does the first of what n has said.
LEMMA ObeyedSession ==
  ASSUME IrcInv, NEW n \in Seeders, n \in linked, said[n] # <<>>,
         said' = [said EXCEPT ![n] = Tail(@)], UNCHANGED <<linked, ircAt>>,
         \/ Head(said[n]).what = "join" /\ inChannel'[n] # NoChannel
         \/ Head(said[n]).what # "join" /\ inChannel'[n] = inChannel[n],
         \A k \in Seeders : k # n => inChannel'[k] = inChannel[k]
  PROVE  /\ \A k \in Seeders : SessionSound(k)'
         /\ said' \in [Seeders -> Seq(CommandsSaid)]
         /\ \A k \in Seeders : k # n => said'[k] = said[k]
         /\ Head(said[n]) \in CommandsSaid
         /\ Head(said[n]).what = "nick" => inChannel[n] = NoChannel
         /\ \A i \in DOMAIN said[n] : \/ said[n][i] = Head(said[n])
                                      \/ \E j \in DOMAIN said'[n] : said'[n][j] = said[n][i]
         /\ Head(said[n]).what = "join" => \E i \in DOMAIN said'[n] : said'[n][i].what = "who"
<1>1. said \in [Seeders -> Seq(CommandsSaid)] /\ SessionSound(n) /\ said[n] \in Seq(CommandsSaid)
  BY DEF IrcInv, IrcTypeOK
<1> DEFINE before == said[n]
           after == said'[n]
<1>2. after = Tail(before) /\ before \in Seq(CommandsSaid) /\ before # <<>>
  BY <1>1
<1>3. /\ after \in Seq(CommandsSaid) /\ Head(before) \in CommandsSaid
      /\ 1 \in DOMAIN before /\ before[1] = Head(before)
      /\ \A i \in DOMAIN after : i + 1 \in DOMAIN before /\ after[i] = before[i + 1]
      /\ \A i \in DOMAIN before : i # 1 => i - 1 \in DOMAIN after /\ after[i - 1] = before[i]
      /\ DOMAIN before = 1..Len(before) /\ DOMAIN after = 1..Len(after)
      /\ Len(before) \in Nat /\ Len(after) \in Nat
  <2> HIDE DEF before, after
  <2>1. /\ after \in Seq(CommandsSaid) /\ Head(before) \in CommandsSaid
        /\ 1 \in DOMAIN before /\ before[1] = Head(before)
        /\ \A i \in DOMAIN after : i + 1 \in DOMAIN before /\ after[i] = before[i + 1]
        /\ \A i \in DOMAIN before : i # 1 => i - 1 \in DOMAIN after /\ after[i - 1] = before[i]
    BY <1>2, FirstTaken
  <2>2. /\ DOMAIN before = 1..Len(before) /\ DOMAIN after = 1..Len(after)
        /\ Len(before) \in Nat /\ Len(after) \in Nat
    BY <1>2, <2>1, LenProperties
  <2> QED  BY <2>1, <2>2
<1>4. said' \in [Seeders -> Seq(CommandsSaid)] /\ \A k \in Seeders : k # n => said'[k] = said[k]
  BY <1>1, <1>3
<1>5. /\ inChannel[n] # NoChannel => n \in linked /\ ircAt[n] = "listen"
                                     /\ \A i \in DOMAIN before : before[i].what # "nick"
      /\ ircAt[n] # "listen" => \A i \in DOMAIN before : before[i].what # "join"
      /\ ircAt[n] = "listen" /\ inChannel[n] = NoChannel => \E i \in DOMAIN before : before[i].what = "join"
      /\ \A i \in DOMAIN before : before[i].what = "join" =>
           /\ \E j \in DOMAIN before : i < j /\ before[j].what = "who"
           /\ \A j \in DOMAIN before : i < j => before[j].what # "nick"
  BY <1>1 DEF SessionSound
<1> HIDE DEF before, after
<1>6. Head(before).what = "join" =>
        /\ ircAt[n] = "listen"
        /\ \E j \in DOMAIN after : after[j].what = "who"
        /\ \A j \in DOMAIN after : after[j].what # "nick"
  <2>1. SUFFICES ASSUME Head(before).what = "join"
                 PROVE  /\ ircAt[n] = "listen"
                        /\ \E j \in DOMAIN after : after[j].what = "who"
                        /\ \A j \in DOMAIN after : after[j].what # "nick"
    OBVIOUS
  <2>2. ircAt[n] = "listen" /\ before[1].what = "join"
    BY <1>3, <1>5, <2>1
  <2>3. PICK j \in DOMAIN before : 1 < j /\ before[j].what = "who"
    BY <1>3, <1>5, <2>2
  <2>4. j - 1 \in DOMAIN after /\ after[j - 1].what = "who"
    BY <1>3, <2>3
  <2>5. ASSUME NEW k \in DOMAIN after PROVE after[k].what # "nick"
    <3>1. k + 1 \in DOMAIN before /\ after[k] = before[k + 1] /\ 1 < k + 1
      BY <1>3
    <3> QED  BY <1>3, <1>5, <2>2, <3>1
  <2> QED  BY <2>2, <2>4, <2>5
<1>7. inChannel'[n] # NoChannel => n \in linked /\ ircAt[n] = "listen"
                                   /\ \A i \in DOMAIN after : after[i].what # "nick"
  BY <1>2, <1>3, <1>5, <1>6 DEF before
<1>8. ircAt[n] # "listen" => \A i \in DOMAIN after : after[i].what # "join"
  BY <1>3, <1>5
<1>9. ircAt[n] = "listen" /\ inChannel'[n] = NoChannel => \E i \in DOMAIN after : after[i].what = "join"
  <2>1. SUFFICES ASSUME ircAt[n] = "listen", inChannel'[n] = NoChannel
                 PROVE  \E i \in DOMAIN after : after[i].what = "join"
    OBVIOUS
  <2>2. inChannel[n] = NoChannel /\ Head(before).what # "join"
    BY <2>1 DEF before
  <2>3. PICK i \in DOMAIN before : before[i].what = "join"
    BY <1>5, <2>1, <2>2
  <2>4. i # 1
    BY <1>3, <2>2, <2>3
  <2> QED  BY <1>3, <2>3, <2>4
<1>10. ASSUME NEW i \in DOMAIN after, after[i].what = "join"
       PROVE  /\ \E j \in DOMAIN after : i < j /\ after[j].what = "who"
              /\ \A j \in DOMAIN after : i < j => after[j].what # "nick"
  <2>1. i + 1 \in DOMAIN before /\ before[i + 1].what = "join" /\ i \in Int
    BY <1>3, <1>10
  <2>2. PICK j \in DOMAIN before : i + 1 < j /\ before[j].what = "who"
    BY <1>5, <2>1
  <2>3. j - 1 \in DOMAIN after /\ after[j - 1].what = "who" /\ i < j - 1
    BY <1>3, <2>1, <2>2
  <2>4. ASSUME NEW k \in DOMAIN after, i < k PROVE after[k].what # "nick"
    <3>1. k + 1 \in DOMAIN before /\ after[k] = before[k + 1] /\ i + 1 < k + 1
      BY <1>3, <2>1, <2>4
    <3> QED  BY <1>5, <2>1, <3>1
  <2> QED  BY <2>3, <2>4
<1>11. SessionSound(n)'
  BY <1>7, <1>8, <1>9, <1>10 DEF SessionSound, after
<1>12. \A k \in Seeders : SessionSound(k)'
  BY <1>4, <1>11, OthersStay
<1>13. Head(before).what = "nick" => inChannel[n] = NoChannel
  BY <1>3, <1>5
<1>14. \A i \in DOMAIN before : before[i] = Head(before) \/ \E j \in DOMAIN after : after[j] = before[i]
  BY <1>3
<1> QED  BY <1>3, <1>4, <1>6, <1>12, <1>13, <1>14 DEF before, after

\* The server obeys the first command a seeder sent it.
LEMMA ObeyKeeps == ASSUME IrcAssumption, IrcInv, NEW n \in Seeders, Obey(n) PROVE IrcInv'
<1> DEFINE command == Head(said[n])
           Answers(line) == lines' = [lines EXCEPT ![n] = Append(@, line)]
<1>1. /\ n \in linked /\ said[n] # <<>> /\ said' = [said EXCEPT ![n] = Tail(@)]
      /\ UNCHANGED <<ircOptions, ircAt, strMyName, learned, linked>>
  BY DEF Obey, ircKnown
<1>2. IrcTypeOK
  BY DEF IrcInv
<1>3. \/ /\ command.what = "nick" /\ UNCHANGED <<inChannel, ghosts>>
         /\ IF command.name \in NamesTaken \ {nick[n]}
            THEN Answers(Line("433", NoName)) /\ UNCHANGED nick
            ELSE /\ nick' = [nick EXCEPT ![n] = command.name]
                 /\ IF nick[n] = NoName THEN Answers(Line("004", NoName)) ELSE UNCHANGED lines
      \/ /\ command.what = "userhost" /\ UNCHANGED atServer
         /\ Answers(Line("302", EncodeAddress(home[n]))) \/ Answers(Line("302", NoName))
      \/ /\ command.what = "join" /\ UNCHANGED <<nick, ghosts>>
         /\ inChannel' = [inChannel EXCEPT ![n] = command.name]
         /\ lines' = [m \in Seeders |-> IF m \in Members(command.name) \cup {n}
                                        THEN Append(lines[m], Line("join", nick[n])) ELSE lines[m]]
      \/ /\ command.what = "who" /\ UNCHANGED atServer
         /\ lines' = [lines EXCEPT ![n] =
                        @ \o SetToSeq({Line("352", name) : name \in NamesIn(inChannel[n])})]
      \/ command.what = "pong" /\ UNCHANGED <<lines, atServer>>
  BY DEF Obey
<1>4. command \in CommandsSaid
  <2>1. said[n] \in Seq(CommandsSaid)
    BY <1>2 DEF IrcTypeOK
  <2> QED  BY <1>1, <2>1, FirstTaken
<1>5. /\ \A k \in Seeders : k # n => inChannel'[k] = inChannel[k]
      /\ command.what # "join" => inChannel'[n] = inChannel[n]
      /\ command.what = "join" => inChannel'[n] = command.name /\ command.name \in IrcChannels /\ command.name # NoChannel
      /\ inChannel' \in [Seeders -> IrcChannels \cup {NoChannel}]
  <2>1. command.what = "join" => command.name \in IrcChannels
    BY <1>1, <1>4, WhatIsHeard
  <2>2. NoChannel \notin IrcChannels
    BY DEF NoChannel, IrcAssumption
  <2>3. command.what # "join" => inChannel' = inChannel
    BY <1>3 DEF atServer
  <2>4. command.what = "join" => inChannel' = [inChannel EXCEPT ![n] = command.name]
    BY <1>3
  <2> HIDE DEF command
  <2> QED  BY <1>2, <2>1, <2>2, <2>3, <2>4 DEF IrcTypeOK
<1>6. /\ \A k \in Seeders : SessionSound(k)'
      /\ said' \in [Seeders -> Seq(CommandsSaid)]
      /\ \A k \in Seeders : k # n => said'[k] = said[k]
      /\ command.what = "nick" => inChannel[n] = NoChannel
      /\ \A i \in DOMAIN said[n] : \/ said[n][i] = command
                                   \/ \E j \in DOMAIN said'[n] : said'[n][j] = said[n][i]
      /\ command.what = "join" => \E i \in DOMAIN said'[n] : said'[n][i].what = "who"
  BY <1>1, <1>5, ObeyedSession

\* The line that is put behind those of some keeps what they have.
<1>7. ASSUME NEW line \in LinesHeard, NEW to, lines' = [k \in Seeders |-> IF k \in to THEN Append(lines[k], line) ELSE lines[k]]
      PROVE  /\ lines' \in [Seeders -> Seq(LinesHeard)]
             /\ \A k \in Seeders : \A i \in DOMAIN lines[k] : i \in DOMAIN lines'[k] /\ lines'[k][i] = lines[k][i]
             /\ \A k \in Seeders : k \in to => \E i \in DOMAIN lines'[k] : lines'[k][i] = line
  <2>1. ASSUME NEW k \in Seeders
        PROVE  /\ lines'[k] \in Seq(LinesHeard)
               /\ \A i \in DOMAIN lines[k] : i \in DOMAIN lines'[k] /\ lines'[k][i] = lines[k][i]
               /\ k \in to => \E i \in DOMAIN lines'[k] : lines'[k][i] = line
    <3>1. lines[k] \in Seq(LinesHeard)
      BY <1>2 DEF IrcTypeOK
    <3>2. /\ Append(lines[k], line) \in Seq(LinesHeard)
          /\ \A i \in DOMAIN lines[k] : i \in DOMAIN Append(lines[k], line) /\ Append(lines[k], line)[i] = lines[k][i]
          /\ Len(lines[k]) + 1 \in DOMAIN Append(lines[k], line)
          /\ Append(lines[k], line)[Len(lines[k]) + 1] = line
      BY <3>1
    <3> QED  BY <1>7, <3>1, <3>2
  <2> QED  BY <1>7, <2>1
<1>8. ASSUME NEW line \in LinesHeard, Answers(line)
      PROVE  /\ lines' \in [Seeders -> Seq(LinesHeard)]
             /\ \A k \in Seeders : \A i \in DOMAIN lines[k] : i \in DOMAIN lines'[k] /\ lines'[k][i] = lines[k][i]
  <2>1. lines' = [k \in Seeders |-> IF k \in {n} THEN Append(lines[k], line) ELSE lines[k]]
    BY <1>2, <1>8 DEF IrcTypeOK
  <2> QED  BY <1>7, <2>1
<1>9. CASE command.what \notin {"join", "who"}
  <2>1. /\ inChannel' = inChannel /\ ghosts' = ghosts /\ nick' \in [Seeders -> NamesHeard]
        /\ \A k \in Seeders : inChannel[k] # NoChannel => nick'[k] = nick[k]
    <3>1. CASE command.what = "nick"
      <4>1. inChannel[n] = NoChannel /\ command.name \in NamesHeard
        BY <1>1, <1>4, <1>6, <3>1, WhatIsHeard
      <4>2. nick' = nick \/ nick' = [nick EXCEPT ![n] = command.name]
        BY <1>3, <3>1
      <4> HIDE DEF command
      <4> QED  BY <1>2, <1>3, <3>1, <4>1, <4>2 DEF IrcTypeOK, command
    <3>2. CASE command.what # "nick"
      BY <1>2, <1>3, <1>9, <3>2 DEF atServer, IrcTypeOK
    <3> QED  BY <3>1, <3>2
  <2>2. lines' = lines \/ \E line \in LinesHeard : Answers(line)
    <3>1. /\ Line("433", NoName) \in LinesHeard /\ Line("004", NoName) \in LinesHeard
          /\ Line("302", NoName) \in LinesHeard /\ Line("302", EncodeAddress(home[n])) \in LinesHeard
      BY <1>1, WhatIsHeard
    <3> HIDE DEF command, Answers
    <3> QED  BY <1>3, <1>9, <3>1
  <2>3. /\ lines' \in [Seeders -> Seq(LinesHeard)]
        /\ \A k \in Seeders : \A i \in DOMAIN lines[k] : i \in DOMAIN lines'[k] /\ lines'[k][i] = lines[k][i]
    <3>1. CASE lines' = lines
      BY <1>2, <3>1 DEF IrcTypeOK
    <3> HIDE DEF Answers
    <3> QED  BY <1>8, <2>2, <3>1
  <2>4. IrcTypeOK'
    BY <1>1, <1>2, <1>6, <2>1, <2>3, NamesStay DEF IrcTypeOK
  <2>5. \A k, l \in Seeders : Found(k, l)'
    <3>1. ASSUME NEW k \in Seeders, NEW i \in DOMAIN said[k], said[k][i].what = "who"
          PROVE  \E j \in DOMAIN said'[k] : said'[k][j] = said[k][i]
      <4>1. CASE k = n
        BY <1>6, <1>9, <3>1, <4>1
      <4>2. CASE k # n
        BY <1>6, <3>1, <4>2
      <4> QED  BY <4>1, <4>2
    <3> QED  BY <1>1, <2>1, <2>3, <3>1, FoundStays
  <2> QED  BY <1>6, <2>4, <2>5 DEF IrcInv
<1>10. CASE command.what = "join"
  <2> DEFINE line == Line("join", nick[n])
             to == Members(command.name) \cup {n}
  <2>1. /\ UNCHANGED <<nick, ghosts>> /\ inChannel' = [inChannel EXCEPT ![n] = command.name]
        /\ lines' = [m \in Seeders |-> IF m \in to THEN Append(lines[m], line) ELSE lines[m]]
    BY <1>3, <1>10
  <2>2. line \in LinesHeard /\ line.what = "join" /\ line.name = nick[n]
    <3>1. nick[n] \in NamesHeard
      BY <1>2 DEF IrcTypeOK
    <3> QED  BY <1>1, <3>1, WhatIsHeard
  <2>3. \A k \in Seeders : inChannel'[k] = inChannel'[n] => k \in to
    BY <1>5, <1>10 DEF Members
  <2> HIDE DEF line, to
  <2>4. /\ lines' \in [Seeders -> Seq(LinesHeard)]
        /\ \A k \in Seeders : \A i \in DOMAIN lines[k] : i \in DOMAIN lines'[k] /\ lines'[k][i] = lines[k][i]
        /\ \A k \in Seeders : k \in to => \E i \in DOMAIN lines'[k] : lines'[k][i] = line
    BY <1>7, <2>1, <2>2
  <2>5. IrcTypeOK'
    BY <1>1, <1>2, <1>5, <1>6, <2>1, <2>4, NamesStay DEF IrcTypeOK
  <2>6. ASSUME NEW k \in Seeders, NEW l \in Seeders, inChannel'[k] = inChannel'[l], inChannel'[k] # NoChannel
        PROVE  Found(k, l)'
    <3>1. CASE k = n
      BY <1>6, <1>10, <3>1 DEF Found
    <3>2. CASE k # n /\ l = n
      <4>1. k \in to
        BY <2>3, <2>6, <3>2
      <4>2. \E i \in DOMAIN lines'[k] : lines'[k][i].what = "join" /\ lines'[k][i].name = nick'[l]
        BY <2>1, <2>2, <2>4, <3>2, <4>1
      <4> QED  BY <4>2 DEF Found, NameComes
    <3>3. CASE k # n /\ l # n
      <4>1. inChannel[k] = inChannel[l] /\ inChannel[k] # NoChannel /\ said'[k] = said[k]
        BY <1>5, <1>6, <2>6, <3>3
      <4>2. Found(k, l)
        BY DEF IrcInv
      <4>3. NameComes(k, nick[l]) => NameComes(k, nick[l])'
        BY <2>1, <2>4 DEF NameComes
      <4>4. home' = home
        BY <1>1 DEF ircOptions
      <4> QED  BY <1>1, <2>1, <4>1, <4>2, <4>3, <4>4 DEF Found, Decoded
    <3> QED  BY <3>1, <3>2, <3>3
  <2>7. \A k, l \in Seeders : Found(k, l)'
    BY <2>6 DEF Found
  <2> QED  BY <1>6, <2>5, <2>7 DEF IrcInv
<1>11. CASE command.what = "who"
  <2> DEFINE S == {Line("352", name) : name \in NamesIn(inChannel[n])}
             list == SetToSeq(S)
  <2>1. UNCHANGED <<nick, inChannel, ghosts>> /\ lines' = [lines EXCEPT ![n] = @ \o list]
    BY <1>3, <1>11 DEF atServer
  <2>2. IsFiniteSet(S) /\ S \subseteq LinesHeard
    <3> DEFINE members == Members(inChannel[n])
               left == {h \in ghosts : h[2] = inChannel[n]}
               names == {nick[k] : k \in members}
               lost == {g[1] : g \in left}
    <3>1. IsFiniteSet(members) /\ IsFiniteSet(left)
      <4>1. members \subseteq Seeders /\ left \subseteq ghosts /\ IsFiniteSet(Seeders) /\ IsFiniteSet(ghosts)
        BY <1>2 DEF Members, IrcTypeOK, IrcAssumption
      <4> HIDE DEF members, left
      <4> QED  BY <4>1, FS_Subset
    <3>2. NamesIn(inChannel[n]) = names \cup lost
      BY DEF NamesIn
    <3>3. names \subseteq NamesHeard /\ lost \subseteq NamesHeard
      BY <1>2 DEF IrcTypeOK, Members
    <3>4. IsFiniteSet(names) /\ IsFiniteSet(lost)
      <4>1. [k \in members |-> nick[k]] \in [members -> names]
        OBVIOUS
      <4>2. \A t \in names : \E k \in members : [j \in members |-> nick[j]][k] = t
        OBVIOUS
      <4>3. [g \in left |-> g[1]] \in [left -> lost]
        OBVIOUS
      <4>4. \A t \in lost : \E g \in left : [h \in left |-> h[1]][g] = t
        OBVIOUS
      <4> HIDE DEF members, left, names, lost
      <4> QED  BY <3>1, <4>1, <4>2, <4>3, <4>4, OntoFinite
    <3> HIDE DEF members, left
    <3> HIDE DEF names, lost
    <3>5. IsFiniteSet(NamesIn(inChannel[n])) /\ NamesIn(inChannel[n]) \subseteq NamesHeard
      BY <3>2, <3>3, <3>4, FS_Union
    <3>6. IsFiniteSet(S)
      <4> DEFINE all == NamesIn(inChannel[n])
      <4>1. [name \in all |-> Line("352", name)] \in [all -> S]
        OBVIOUS
      <4>2. \A t \in S : \E name \in all : [x \in all |-> Line("352", x)][name] = t
        OBVIOUS
      <4>3. IsFiniteSet(all)
        BY <3>5
      <4> HIDE DEF all, S
      <4> QED  BY <4>1, <4>2, <4>3, OntoFinite
    <3>7. S \subseteq LinesHeard
      BY <1>1, <3>5, WhatIsHeard
    <3> QED  BY <3>6, <3>7
  <2> HIDE DEF list
  <2>3. list \in Seq(LinesHeard) /\ \A x \in S : \E i \in DOMAIN list : list[i] = x
    <3> HIDE DEF S
    <3>1. /\ Cardinality(S) \in Nat /\ list \in [1..Cardinality(S) -> S]
          /\ \A x \in S : \E i \in 1..Cardinality(S) : list[i] = x
      BY <2>2, SeqOfSet DEF list
    <3>2. list \in [1..Cardinality(S) -> LinesHeard] /\ DOMAIN list = 1..Cardinality(S)
      BY <2>2, <3>1
    <3>3. \A T, k, g : k \in Nat /\ g \in [1..k -> T] => g \in Seq(T)
      OBVIOUS
    <3> QED  BY <3>1, <3>2, <3>3
  <2>4. lines[n] \in Seq(LinesHeard)
    BY <1>2 DEF IrcTypeOK
  <2>5. /\ lines[n] \o list \in Seq(LinesHeard)
        /\ \A i \in DOMAIN lines[n] : i \in DOMAIN (lines[n] \o list) /\ (lines[n] \o list)[i] = lines[n][i]
        /\ \A i \in DOMAIN list : Len(lines[n]) + i \in DOMAIN (lines[n] \o list)
                                  /\ (lines[n] \o list)[Len(lines[n]) + i] = list[i]
    BY ONLY <2>3, <2>4, Behind
  <2>6. /\ lines' \in [Seeders -> Seq(LinesHeard)] /\ lines'[n] = lines[n] \o list
        /\ \A k \in Seeders : k # n => lines'[k] = lines[k]
    BY <1>2, <2>1, <2>5 DEF IrcTypeOK
  <2>7. IrcTypeOK'
    BY <1>1, <1>2, <1>6, <2>1, <2>6, NamesStay DEF IrcTypeOK
  <2>8. ASSUME NEW k \in Seeders, NEW l \in Seeders, inChannel[k] = inChannel[l], inChannel[k] # NoChannel
        PROVE  Found(k, l)'
    <3>1. CASE k = n
      <4>1. Line("352", nick[l]) \in S
        BY <2>8, <3>1 DEF NamesIn, Members
      <4>2. PICK i \in DOMAIN list : list[i] = Line("352", nick[l])
        BY <2>3, <4>1
      <4>3. Line("352", nick[l]).what = "352" /\ Line("352", nick[l]).name = nick[l]
        BY DEF Line
      <4> HIDE DEF S
      <4>4. Len(lines[n]) + i \in DOMAIN lines'[n] /\ lines'[n][Len(lines[n]) + i] = Line("352", nick[l])
        BY <2>5, <2>6, <4>2
      <4>5. nick'[l] = nick[l]
        BY <2>1
      <4>6. NameComes(k, nick[l])'
        BY <3>1, <4>3, <4>4, <4>5 DEF NameComes
      <4> QED  BY <4>6 DEF Found
    <3>2. CASE k # n
      <4>1. Found(k, l) /\ home' = home
        BY <1>1 DEF IrcInv, ircOptions
      <4>2. lines'[k] = lines[k] /\ said'[k] = said[k]
        BY <1>6, <2>6, <3>2
      <4> HIDE DEF S
      <4> QED  BY <1>1, <2>1, <2>8, <4>1, <4>2 DEF Found, Decoded, NameComes
    <3> QED  BY <3>1, <3>2
  <2>9. \A k, l \in Seeders : Found(k, l)'
    BY <2>1, <2>8 DEF Found
  <2> QED  BY <1>6, <2>7, <2>9 DEF IrcInv
<1> QED  BY <1>9, <1>10, <1>11

\* Every step of Irc keeps the invariant.
LEMMA IrcStep == ASSUME IrcAssumption, IrcInv, IrcNext \/ UNCHANGED ircVars PROVE IrcInv'
<1>1. CASE \E n \in Seeders :
             \/ Greet(n) \/ Obey(n) \/ ServerPings(n) \/ BreakIrc(n)
             \/ ConnectIrc(n) \/ Wait(n) \/ Pong(n) \/ Skip(n) \/ TakeName(n) \/ NameTaken(n)
             \/ Registered(n) \/ ReNick(n) \/ Learn(n) \/ SocketClosed(n)
  BY <1>1, ServerKeeps, ObeyKeeps, EndKeeps, PlaceKeeps, PongKeeps, ReadKeeps, NameKeeps, ReNickKeeps
<1>2. CASE GhostLeaves
  BY <1>2, GhostsKeep
<1>3. CASE UNCHANGED ircVars
  <2>1. UNCHANGED <<ircOptions, ircAt, strMyName, learned, linked, said, lines, nick, inChannel, ghosts>>
    BY <1>3 DEF ircVars, ircKnown, atServer
  <2>2. IrcTypeOK'
    BY <2>1, NamesStay DEF IrcTypeOK, IrcInv
  <2>3. \A k \in Seeders : SessionSound(k)'
    BY <2>1 DEF SessionSound, IrcInv
  <2>4. \A k, l \in Seeders : Found(k, l)'
    BY <2>1, FoundStays
  <2> QED  BY <2>2, <2>3, <2>4 DEF IrcInv
<1> QED  BY <1>1, <1>2, <1>3 DEF IrcNext

-----------------------------------------------------------------------------
\* The addresses.  What is said of an address comes true of everything that carries it on.
Sightings == [address : Sites, nTime : Nat]
AddressesTypeOK ==
  /\ up \subseteq Sites /\ joined \subseteq Routes
  /\ mapAddresses \in [Sites -> [Sites -> Nat \cup {NotHeard}]]
  /\ vAddrToSend \in [Pairs -> Seq(Sightings)]
  /\ mail \in [Pairs -> Seq([kind : {"addr", "getaddr"}, addrs : Seq(Sightings)])]
  /\ hour \in Nat /\ lastUp \in [Sites -> Nat]
\* Of each of seens: its time is not later than its node ran, and n, which tells it, has it too.
Vouched(n, seens) ==
  \A i \in DOMAIN seens :
    /\ seens[i].nTime <= lastUp[seens[i].address]
    /\ seens[i].address = n \/ mapAddresses[n][seens[i].address] # NotHeard
Heard(n) == \A a \in Sites : mapAddresses[n][a] <= lastUp[a]
WayHonest(p) ==
  /\ Vouched(p[1], vAddrToSend[p])
  /\ \A i \in DOMAIN mail[p] : /\ Vouched(p[1], mail[p][i].addrs)
                               /\ mail[p][i].kind = "getaddr" => p \in Routes /\ mail[p][i].addrs = <<>>
\* m has heard of n, or n's own address is on the way from n to m.
Named(n, seens) == \E i \in DOMAIN seens : seens[i].address = n
Reaches(n, m) ==
  \/ mapAddresses[m][n] # NotHeard
  \/ \E i \in DOMAIN mail[<<n, m>>] : Named(n, mail[<<n, m>>][i].addrs)
Presented(r) ==
  /\ r[1] \in up /\ r[2] \in up
  /\ Reaches(r[1], r[2]) \/ Named(r[1], vAddrToSend[r])
  /\ <<r[1], r[2], r[1]>> \in setAddrKnown => Reaches(r[1], r[2])
AddressesInv ==
  /\ AddressesTypeOK
  /\ \A a \in up : lastUp[a] = hour
  /\ \A n \in Sites : Heard(n) /\ mapAddresses[n][n] = NotHeard
  /\ \A p \in Pairs : WayHonest(p)
  /\ \A r \in joined : Presented(r)
  /\ \A n, m \in Sites : (\E a \in Sites : <<n, m, a>> \in setAddrKnown) => m \in Neighbours(n)
  /\ carried \subseteq setAddrKnown /\ repeated = FALSE

\* AddAddress: nothing is lost or dated later than allowed, and who is heard of is known then.
LEMMA AddedAddress ==
  ASSUME AddressesAssumption, NEW n \in Sites, NEW has \in [Sites -> Nat \cup {NotHeard}],
         NEW seen \in Sightings, seen.nTime <= lastUp[seen.address], hour \in Nat, lastUp \in [Sites -> Nat]
  PROVE  /\ AddAddress(has, n, seen) \in [Sites -> Nat \cup {NotHeard}]
         /\ AddAddress(has, n, seen)[n] = has[n]
         /\ \A a \in Sites : has[a] # NotHeard => AddAddress(has, n, seen)[a] # NotHeard
         /\ \A a \in Sites : has[a] <= lastUp[a] => AddAddress(has, n, seen)[a] <= lastUp[a]
         /\ seen.address # n => AddAddress(has, n, seen)[seen.address] # NotHeard
<1> DEFINE a == seen.address
           nTime == IF seen.nTime > 2 THEN seen.nTime - 2 ELSE 0
           nUpdateInterval == IF hour - nTime < Day THEN 1 ELSE Day
           new == IF has[a] = NotHeard \/ has[a] < nTime - nUpdateInterval THEN nTime ELSE has[a]
<1>1. a \in Sites /\ seen.nTime \in Nat /\ lastUp[a] \in Nat /\ Day \in Nat
  BY DEF Sightings, AddressesAssumption
<1>2. nTime \in Nat /\ nTime <= lastUp[a]
  BY <1>1
<1>3. AddAddress(has, n, seen) = IF a = n THEN has ELSE [has EXCEPT ![a] = new]
  BY DEF AddAddress
<1>4. new \in Nat /\ (new = nTime \/ new = has[a])
  <2>1. has[a] \in Nat \/ has[a] = NotHeard
    BY <1>1
  <2> HIDE DEF nTime, nUpdateInterval
  <2> QED  BY <1>2, <2>1
<1>5. \A t \in Nat : t # NotHeard
  BY DEF NotHeard
<1> HIDE DEF a, new, nTime
<1> QED  BY <1>1, <1>2, <1>3, <1>4, <1>5 DEF a

\* The same for addresses one after the other.
LEMMA StoredAddresses ==
  ASSUME AddressesAssumption, NEW n \in Sites, mapAddresses \in [Sites -> [Sites -> Nat \cup {NotHeard}]],
         hour \in Nat, lastUp \in [Sites -> Nat],
         NEW addrs \in Seq(Sightings), \A i \in DOMAIN addrs : addrs[i].nTime <= lastUp[addrs[i].address],
         Heard(n)
  PROVE  /\ Stored(n, addrs) \in [Sites -> Nat \cup {NotHeard}]
         /\ Stored(n, addrs)[n] = mapAddresses[n][n]
         /\ \A a \in Sites : mapAddresses[n][a] # NotHeard => Stored(n, addrs)[a] # NotHeard
         /\ \A a \in Sites : Stored(n, addrs)[a] <= lastUp[a]
         /\ \A i \in DOMAIN addrs : addrs[i].address # n => Stored(n, addrs)[addrs[i].address] # NotHeard
<1> DEFINE Next1(f, k) == IF k = 0 THEN mapAddresses[n] ELSE AddAddress(f[k - 1], n, addrs[k])
           has[k \in 0..Len(addrs)] == Next1(has, k)
           Goes1(f, l) == f = [k \in 0..l |-> Next1(f, k)]
           X == {l \in Nat : \E f : Goes1(f, l)}
<1>1. Len(addrs) \in Nat /\ DOMAIN addrs = 1..Len(addrs)
  BY LenProperties
<1>2. 0 \in X
  <2>1. Goes1([k \in 0..0 |-> mapAddresses[n]], 0)
    OBVIOUS
  <2> QED  BY <2>1
<1>3. ASSUME NEW l \in Nat, l \in X PROVE l + 1 \in X
  <2>1. PICK f : Goes1(f, l)
    BY <1>3
  <2> DEFINE g == [k \in 0..(l + 1) |-> IF k = l + 1 THEN AddAddress(f[l], n, addrs[l + 1]) ELSE f[k]]
  <2>2. ASSUME NEW k \in 0..(l + 1) PROVE g[k] = Next1(g, k)
    <3>1. CASE k = l + 1
      <4>1. k # 0 /\ k - 1 = l /\ l \in 0..(l + 1) /\ l # l + 1
        BY <3>1
      <4>2. g[l] = f[l]
        BY <4>1
      <4>3. g[k] = AddAddress(f[l], n, addrs[k])
        BY <3>1
      <4> HIDE DEF g
      <4> QED  BY <4>1, <4>2, <4>3
    <3>2. CASE k # l + 1
      <4>1. k \in 0..l /\ (k # 0 => k - 1 \in 0..(l + 1) /\ k - 1 # l + 1)
        BY <2>2, <3>2
      <4>2. g[k] = f[k] /\ (k # 0 => g[k - 1] = f[k - 1])
        BY <3>2, <4>1
      <4>3. f[k] = Next1(f, k)
        BY <2>1, <4>1
      <4> HIDE DEF g
      <4> QED  BY <4>2, <4>3
    <3> QED  BY <3>1, <3>2
  <2>3. g = [k \in 0..(l + 1) |-> g[k]]
    OBVIOUS
  <2> HIDE DEF g, Next1
  <2>4. Goes1(g, l + 1)
    BY <2>2, <2>3
  <2> QED  BY <2>4
<1>4. Len(addrs) \in X
  <2> HIDE DEF X
  <2> QED  BY <1>1, <1>2, <1>3, Induction
<1>5. Goes1(has, Len(addrs))
  <2>1. \E f : Goes1(f, Len(addrs))
    BY <1>4
  <2>2. has = CHOOSE f : Goes1(f, Len(addrs))
    BY DEF has
  <2> HIDE DEF has, Goes1
  <2> QED  BY <2>1, <2>2
<1>6. \A k \in 0..Len(addrs) : has[k] = Next1(has, k)
  <2> HIDE DEF has, Next1
  <2> QED  BY <1>5
<1> DEFINE Good(h, k) ==
             /\ h \in [Sites -> Nat \cup {NotHeard}] /\ h[n] = mapAddresses[n][n]
             /\ \A a \in Sites : mapAddresses[n][a] # NotHeard => h[a] # NotHeard
             /\ \A a \in Sites : h[a] <= lastUp[a]
             /\ \A i \in DOMAIN addrs : i <= k /\ addrs[i].address # n => h[addrs[i].address] # NotHeard
           Y == {k \in Nat : k <= Len(addrs) => Good(has[k], k)}
<1> HIDE DEF has
<1>7. 0 \in Y
  <2>1. has[0] = mapAddresses[n]
    BY <1>1, <1>6
  <2>2. Good(mapAddresses[n], 0)
    BY <1>1 DEF Heard
  <2> HIDE DEF Good
  <2> QED  BY <2>1, <2>2
<1>8. ASSUME NEW k \in Nat, k \in Y PROVE k + 1 \in Y
  <2> SUFFICES ASSUME k + 1 <= Len(addrs) PROVE Good(has[k + 1], k + 1)
    OBVIOUS
  <2>1. Good(has[k], k)
    BY <1>1, <1>8
  <2>2. k + 1 \in 1..Len(addrs) /\ addrs[k + 1] \in Sightings
    BY <1>1
  <2>3. has[k + 1] = AddAddress(has[k], n, addrs[k + 1])
    <3>1. k + 1 \in 0..Len(addrs) /\ k + 1 # 0 /\ (k + 1) - 1 = k
      BY <1>1
    <3> QED  BY <1>6, <3>1
  <2>4. addrs[k + 1].nTime <= lastUp[addrs[k + 1].address]
    BY <1>1, <2>2
  <2> DEFINE h == AddAddress(has[k], n, addrs[k + 1])
  <2>5. /\ h \in [Sites -> Nat \cup {NotHeard}] /\ h[n] = has[k][n]
        /\ \A a \in Sites : has[k][a] # NotHeard => h[a] # NotHeard
        /\ \A a \in Sites : has[k][a] <= lastUp[a] => h[a] <= lastUp[a]
        /\ addrs[k + 1].address # n => h[addrs[k + 1].address] # NotHeard
    BY <2>1, <2>2, <2>4, AddedAddress, ZenonT(30)
  <2> HIDE DEF h
  <2>6. ASSUME NEW i \in DOMAIN addrs, i <= k + 1, addrs[i].address # n PROVE h[addrs[i].address] # NotHeard
    <3>1. i = k + 1 \/ i <= k
      BY <1>1, <2>6
    <3>2. addrs[i].address \in Sites
      <4>1. addrs[i] \in Sightings
        BY <1>1
      <4> QED  BY <4>1 DEF Sightings
    <3> QED  BY <2>1, <2>5, <2>6, <3>1, <3>2
  <2> QED  BY <2>1, <2>3, <2>5, <2>6 DEF h
<1>9. Len(addrs) \in Y
  <2> HIDE DEF Y
  <2> QED  BY <1>1, <1>7, <1>8, Induction
<1>10. Good(has[Len(addrs)], Len(addrs))
  BY <1>1, <1>9
<1>11. Stored(n, addrs) = has[Len(addrs)]
  BY DEF Stored, has
<1> QED  BY <1>1, <1>10, <1>11

\* The invariant says what the runs check.
LEMMA AddressesInvImplies == ASSUME AddressesAssumption, AddressesInv PROVE AddressesAreRight
<1>1. AddressesTypeOK
  BY DEF AddressesInv
<1>2. TimesAreHonest
  <2>1. \A n \in Sites : \A a \in Sites : mapAddresses[n][a] <= lastUp[a]
    BY DEF AddressesInv, Heard
  <2>2. ASSUME NEW p \in Pairs, NEW i \in DOMAIN mail[p], NEW seen \in Range(mail[p][i].addrs)
        PROVE  seen.nTime <= lastUp[seen.address]
    <3>1. PICK j \in DOMAIN mail[p][i].addrs : seen = mail[p][i].addrs[j]
      BY DEF Range
    <3>2. Vouched(p[1], mail[p][i].addrs)
      BY DEF AddressesInv, WayHonest
    <3> QED  BY <3>1, <3>2 DEF Vouched
  <2> QED  BY <2>1, <2>2 DEF TimesAreHonest
<1>3. CarriedOnce
  BY DEF AddressesInv, CarriedOnce
<1>4. CallerIsKnown
  <2>1. \A n \in Sites : mapAddresses[n][n] = NotHeard
    BY DEF AddressesInv
  <2>2. ASSUME NEW n \in Sites, NEW m \in Neighbours(n), Dialled(n, m),
               vAddrToSend[<<n, m>>] = <<>>, mail[<<n, m>>] = <<>>
        PROVE  mapAddresses[m][n] # NotHeard
    <3>1. Presented(<<n, m>>)
      BY <2>2 DEF AddressesInv, Dialled
    <3>2. Reaches(n, m) \/ Named(n, vAddrToSend[<<n, m>>])
      BY <3>1 DEF Presented
    <3> QED  BY <2>2, <3>2 DEF Reaches, Named
  <2> QED  BY <2>1, <2>2 DEF CallerIsKnown
<1> QED  BY <1>2, <1>3, <1>4 DEF AddressesAreRight

\* It holds when no site has heard of another.
LEMMA AddressesInitially == ASSUME AddressesAssumption, AddressesInit PROVE AddressesInv
<1>1. AddressesTypeOK
  <2>1. <<>> \in Seq(Sightings) /\ <<>> \in Seq([kind : {"addr", "getaddr"}, addrs : Seq(Sightings)])
    OBVIOUS
  <2> QED  BY <2>1 DEF AddressesInit, AddressesTypeOK
<1>2. \A n \in Sites : Heard(n) /\ mapAddresses[n][n] = NotHeard
  BY DEF AddressesInit, Heard, NotHeard
<1>3. \A p \in Pairs : WayHonest(p)
  BY DEF AddressesInit, WayHonest, Vouched
<1> QED  BY <1>1, <1>2, <1>3 DEF AddressesInit, AddressesInv

\* Who may be told something, by whom.
LEMMA TwoWays ==
  ASSUME AddressesAssumption
  PROVE  /\ \A p \in Pairs : p = <<p[1], p[2]>> /\ p[1] \in Sites /\ p[2] \in Sites /\ p[1] # p[2]
         /\ \A n, m \in Sites : <<n, m>> \in Routes => <<m, n>> \notin Routes
         /\ \A n, m \in Sites : <<n, m>> \in Pairs <=> <<n, m>> \in Routes \/ <<m, n>> \in Routes
<1>1. \A r \in Routes : r = <<r[1], r[2]>> /\ r[1] \in Sites /\ r[2] \in Sites /\ <<r[2], r[1]>> \notin Routes
  <2> TAKE r \in Routes
  <2>1. r \in Sites \X Sites /\ <<r[2], r[1]>> \notin Routes
    BY DEF AddressesAssumption
  <2> QED  BY <2>1
<1>2. \A n, m : <<n, m>>[1] = n /\ <<n, m>>[2] = m
  OBVIOUS
<1>3. \A n, m \in Sites : <<n, m>> \in Routes => <<m, n>> \notin Routes
  BY <1>1, <1>2
<1>4. \A r \in Routes : r[1] # r[2]
  BY <1>1
<1>5. ASSUME NEW p \in Pairs PROVE p = <<p[1], p[2]>> /\ p[1] \in Sites /\ p[2] \in Sites /\ p[1] # p[2]
  <2>1. p \in Routes \/ \E r \in Routes : p = <<r[2], r[1]>>
    BY DEF Pairs
  <2>2. CASE p \in Routes
    BY <1>1, <1>4, <2>2
  <2>3. CASE \E r \in Routes : p = <<r[2], r[1]>>
    BY <1>1, <1>4, <2>3
  <2> QED  BY <2>1, <2>2, <2>3
<1>6. ASSUME NEW n \in Sites, NEW m \in Sites PROVE <<n, m>> \in Pairs <=> <<n, m>> \in Routes \/ <<m, n>> \in Routes
  <2>1. ASSUME <<m, n>> \in Routes PROVE <<n, m>> \in Pairs
    BY <2>1, <1>2 DEF Pairs
  <2>2. ASSUME <<n, m>> \in Pairs, <<n, m>> \notin Routes PROVE <<m, n>> \in Routes
    <3>1. PICK r \in Routes : <<n, m>> = <<r[2], r[1]>>
      BY <2>2 DEF Pairs
    <3>2. n = r[2] /\ m = r[1]
      BY <3>1
    <3> QED  BY <1>1, <3>2
  <2> QED  BY <2>1, <2>2 DEF Pairs
<1> QED  BY <1>3, <1>5, <1>6

\* What is known and true stays so.
HeardMore ==
  /\ lastUp' \in [Sites -> Nat] /\ \A a \in Sites : lastUp[a] <= lastUp'[a]
  /\ \A n, a \in Sites : mapAddresses[n][a] # NotHeard => mapAddresses'[n][a] # NotHeard
VouchedThen(n, seens) ==
  \A i \in DOMAIN seens :
    /\ seens[i].nTime <= lastUp'[seens[i].address]
    /\ seens[i].address = n \/ mapAddresses'[n][seens[i].address] # NotHeard
MailHonest(p, box) ==
  \A i \in DOMAIN box : /\ VouchedThen(p[1], box[i].addrs)
                        /\ box[i].kind = "getaddr" => p \in Routes /\ box[i].addrs = <<>>
Mailable == [kind : {"addr", "getaddr"}, addrs : Seq(Sightings)]
\* What a site vouches for, it still does when it has heard of more sites, or of them later.
LEMMA StaysVouched ==
  ASSUME AddressesTypeOK, HeardMore, NEW n \in Sites, NEW s \in Seq(Sightings), Vouched(n, s)
  PROVE  VouchedThen(n, s)
<1> SUFFICES ASSUME NEW i \in DOMAIN s
             PROVE  /\ s[i].nTime <= lastUp'[s[i].address]
                    /\ s[i].address = n \/ mapAddresses'[n][s[i].address] # NotHeard
  BY DEF VouchedThen
<1>1. s[i] \in Sightings
  OBVIOUS
<1>2. s[i].address \in Sites /\ s[i].nTime \in Nat
  BY <1>1 DEF Sightings
<1>3. /\ s[i].nTime <= lastUp[s[i].address]
      /\ s[i].address = n \/ mapAddresses[n][s[i].address] # NotHeard
  BY DEF Vouched
<1>4. lastUp[s[i].address] \in Nat /\ lastUp'[s[i].address] \in Nat /\ lastUp[s[i].address] <= lastUp'[s[i].address]
  BY <1>2 DEF AddressesTypeOK, HeardMore
<1> QED  BY <1>2, <1>3, <1>4 DEF HeardMore

\* A queue and the messages on their way stay honest while more is heard.
LEMMA StaysHonest ==
  ASSUME AddressesAssumption, AddressesTypeOK, HeardMore, NEW p \in Pairs, WayHonest(p)
  PROVE  VouchedThen(p[1], vAddrToSend[p]) /\ MailHonest(p, mail[p])
<1>1. p[1] \in Sites /\ vAddrToSend[p] \in Seq(Sightings) /\ mail[p] \in Seq(Mailable)
  BY TwoWays DEF AddressesTypeOK, Mailable
<1>2. VouchedThen(p[1], vAddrToSend[p])
  BY <1>1, StaysVouched DEF WayHonest
<1>3. \A i \in DOMAIN mail[p] : VouchedThen(p[1], mail[p][i].addrs)
  <2> TAKE i \in DOMAIN mail[p]
  <2>1. mail[p][i] \in Mailable
    BY <1>1
  <2>2. mail[p][i].addrs \in Seq(Sightings) /\ Vouched(p[1], mail[p][i].addrs)
    BY <2>1 DEF Mailable, WayHonest
  <2> QED  BY <1>1, <2>2, StaysVouched
<1> QED  BY <1>2, <1>3 DEF WayHonest, MailHonest

\* What n has is replaced, or one time in it.
LEMMA Redated ==
  ASSUME mapAddresses \in [Sites -> [Sites -> Nat \cup {NotHeard}]], NEW n \in Sites,
         NEW row \in [Sites -> Nat \cup {NotHeard}], mapAddresses' = [mapAddresses EXCEPT ![n] = row]
  PROVE  /\ mapAddresses' \in [Sites -> [Sites -> Nat \cup {NotHeard}]]
         /\ mapAddresses'[n] = row
         /\ \A k \in Sites : k # n => mapAddresses'[k] = mapAddresses[k]
OBVIOUS

\* One entry of the table of a site renewed.
LEMMA Renewed ==
  ASSUME NEW has \in [Sites -> Nat \cup {NotHeard}], NEW m \in Sites, NEW t \in Nat \cup {NotHeard}
  PROVE  /\ [has EXCEPT ![m] = t] \in [Sites -> Nat \cup {NotHeard}]
         /\ [has EXCEPT ![m] = t][m] = t
         /\ \A a \in Sites : a # m => [has EXCEPT ![m] = t][a] = has[a]
OBVIOUS

\* Two sites connect: each asks for addresses and the one that calls tells its own.
LEMMA HandshakeKeeps ==
  ASSUME AddressesAssumption, AddressesInv, NEW n \in Sites, NEW m \in Sites, Handshake(n, m)
  PROVE  AddressesInv'
<1>1. /\ AddressesTypeOK /\ <<n, m>> \in Routes /\ <<n, m>> \notin joined /\ n \in up /\ m \in up
      /\ joined' = joined \cup {<<n, m>>}
      /\ vAddrToSend' = [vAddrToSend EXCEPT ![<<n, m>>] = <<Seen(n, hour)>>]
      /\ mail' = [mail EXCEPT ![<<n, m>>] = <<GetAddr>>]
      /\ mapAddresses' = [mapAddresses EXCEPT ![n] =
                            [mapAddresses[n] EXCEPT
                               ![m] = IF mapAddresses[n][m] = NotHeard THEN NotHeard ELSE hour]]
      /\ UNCHANGED <<up, setAddrKnown, hour, lastUp, carried, repeated>>
  BY DEF Handshake, AddressesInv
<1>2. n # m /\ <<n, m>> \in Pairs
  <2>1. <<n, m>>[1] = n /\ <<n, m>>[2] = m
    OBVIOUS
  <2>2. <<n, m>> \in Pairs
    BY <1>1, TwoWays
  <2> QED  BY <2>1, <2>2, TwoWays
<1>3. /\ mapAddresses' \in [Sites -> [Sites -> Nat \cup {NotHeard}]]
      /\ \A k, a \in Sites : \/ mapAddresses'[k][a] = mapAddresses[k][a]
                             \/ a = m /\ mapAddresses[k][a] # NotHeard /\ mapAddresses'[k][a] = hour
  <2> DEFINE time == IF mapAddresses[n][m] = NotHeard THEN NotHeard ELSE hour
             row == [mapAddresses[n] EXCEPT ![m] = time]
  <2>1. mapAddresses' = [mapAddresses EXCEPT ![n] = row]
    BY <1>1
  <2>2. mapAddresses[n] \in [Sites -> Nat \cup {NotHeard}] /\ time \in Nat \cup {NotHeard}
    BY <1>1 DEF AddressesTypeOK
  <2>3. mapAddresses[n][m] = time \/ (mapAddresses[n][m] # NotHeard /\ time = hour)
    OBVIOUS
  <2> HIDE DEF time
  <2>4. /\ row \in [Sites -> Nat \cup {NotHeard}] /\ row[m] = time
        /\ \A a \in Sites : a # m => row[a] = mapAddresses[n][a]
    BY <2>2, Renewed
  <2> HIDE DEF row
  <2>5. /\ mapAddresses' \in [Sites -> [Sites -> Nat \cup {NotHeard}]]
        /\ mapAddresses'[n] = row
        /\ \A k \in Sites : k # n => mapAddresses'[k] = mapAddresses[k]
    BY <1>1, <2>1, <2>4, Redated DEF AddressesTypeOK
  <2> QED  BY <2>3, <2>4, <2>5
<1>4. hour \in Nat /\ lastUp[n] = hour /\ lastUp[m] = hour /\ hour # NotHeard
  BY <1>1 DEF AddressesTypeOK, AddressesInv, NotHeard
<1>5. <<Seen(n, hour)>> \in Seq(Sightings) /\ <<GetAddr>> \in Seq(Mailable)
  <2>1. Seen(n, hour) \in Sightings
    BY <1>4 DEF Seen, Sightings
  <2>2. <<>> \in Seq(Sightings)
    OBVIOUS
  <2>3. GetAddr \in Mailable
    BY <2>2 DEF GetAddr, Mailable
  <2> QED  BY <2>1, <2>3
<1>6. AddressesTypeOK'
  <2>1. vAddrToSend' \in [Pairs -> Seq(Sightings)]
    BY <1>1, <1>5 DEF AddressesTypeOK
  <2>2. mail' \in [Pairs -> Seq(Mailable)]
    BY <1>1, <1>5 DEF AddressesTypeOK, Mailable
  <2> QED  BY <1>1, <1>3, <2>1, <2>2 DEF AddressesTypeOK, Mailable
<1>7. HeardMore
  <2>1. \A a \in Sites : lastUp[a] <= lastUp'[a]
    BY <1>1 DEF AddressesTypeOK
  <2> QED  BY <1>1, <1>3, <1>4, <2>1 DEF HeardMore, AddressesTypeOK
<1>8. \A k \in Sites : (Heard(k) /\ mapAddresses[k][k] = NotHeard)'
  <2> TAKE k \in Sites
  <2>1. Heard(k) /\ mapAddresses[k][k] = NotHeard
    BY DEF AddressesInv
  <2>2. \A a \in Sites : mapAddresses'[k][a] <= lastUp'[a]
    <3> TAKE a \in Sites
    <3>1. mapAddresses[k][a] <= lastUp[a] /\ lastUp' = lastUp /\ lastUp[a] \in Nat
      BY <1>1, <2>1 DEF Heard, AddressesTypeOK
    <3> QED  BY <1>3, <1>4, <3>1
  <2>3. mapAddresses'[k][k] = NotHeard
    BY <1>3, <2>1
  <2> QED  BY <2>2, <2>3 DEF Heard
<1>9. ASSUME NEW p \in Pairs PROVE WayHonest(p)'
  <2>1. VouchedThen(p[1], vAddrToSend[p]) /\ MailHonest(p, mail[p])
    BY <1>1, <1>7, StaysHonest DEF AddressesInv
  <2>2. CASE p = <<n, m>>
    <3>1. vAddrToSend'[p] = <<Seen(n, hour)>> /\ mail'[p] = <<GetAddr>> /\ p[1] = n /\ p \in Routes
      BY <1>1, <1>2, <2>2 DEF AddressesTypeOK
    <3>2. VouchedThen(n, <<Seen(n, hour)>>)
      BY <1>1, <1>4 DEF VouchedThen, Seen
    <3>3. MailHonest(p, <<GetAddr>>)
      BY <3>1 DEF MailHonest, VouchedThen, GetAddr
    <3> QED  BY <3>1, <3>2, <3>3 DEF WayHonest, VouchedThen, Vouched, MailHonest
  <2>3. CASE p # <<n, m>>
    <3>1. vAddrToSend'[p] = vAddrToSend[p] /\ mail'[p] = mail[p]
      BY <1>1, <2>3 DEF AddressesTypeOK
    <3> QED  BY <2>1, <3>1 DEF WayHonest, VouchedThen, Vouched, MailHonest
  <2> QED  BY <2>2, <2>3
<1>10. ASSUME NEW r \in joined' PROVE Presented(r)'
  <2>1. CASE r = <<n, m>>
    <3>1. r[1] = n /\ r[2] = m /\ vAddrToSend'[r] = <<Seen(n, hour)>>
      BY <1>1, <1>2, <2>1 DEF AddressesTypeOK
    <3>2. Named(n, vAddrToSend'[r])
      BY <3>1 DEF Named, Seen
    <3>3. <<n, m, n>> \notin setAddrKnown
      <4>1. <<m, n>> \notin joined
        BY <1>1, TwoWays DEF AddressesTypeOK
      <4>2. m \notin Neighbours(n)
        BY <1>1, <4>1 DEF Neighbours
      <4> QED  BY <4>2 DEF AddressesInv
    <3> QED  BY <1>1, <3>1, <3>2, <3>3 DEF Presented, Named
  <2>2. CASE r # <<n, m>>
    <3>1. r \in joined /\ Presented(r) /\ r \in Pairs /\ r[1] \in Sites /\ r[2] \in Sites /\ r = <<r[1], r[2]>>
      BY <1>1, <2>2, TwoWays DEF AddressesTypeOK, AddressesInv, Pairs
    <3>2. vAddrToSend'[r] = vAddrToSend[r] /\ mail'[r] = mail[r]
      BY <1>1, <2>2 DEF AddressesTypeOK
    <3>3. Reaches(r[1], r[2]) => Reaches(r[1], r[2])'
      BY <1>7, <3>1, <3>2 DEF Reaches, HeardMore, Named
    <3> QED  BY <1>1, <3>1, <3>2, <3>3 DEF Presented, Named
  <2> QED  BY <2>1, <2>2
<1>11. \A k, l \in Sites : (\E a \in Sites : <<k, l, a>> \in setAddrKnown') => (l \in Neighbours(k))'
  BY <1>1 DEF AddressesInv, Neighbours
<1> QED  BY <1>1, <1>6, <1>8, <1>9, <1>10, <1>11 DEF AddressesInv

\* The hour, and what does nothing: no message moves.
LEMMA AnHourKeeps ==
  ASSUME AddressesAssumption, AddressesInv, AnHour \/ UNCHANGED addressVars
  PROVE  AddressesInv'
<1>1. /\ AddressesTypeOK
      /\ UNCHANGED <<up, joined, mapAddresses, setAddrKnown, vAddrToSend, mail, carried, repeated>>
  BY DEF AnHour, addressVars, AddressesInv
<1>2. /\ hour' \in Nat /\ lastUp' \in [Sites -> Nat]
      /\ \A a \in Sites : lastUp[a] <= lastUp'[a]
      /\ \A a \in up : lastUp'[a] = hour'
  <2>1. hour \in Nat /\ lastUp \in [Sites -> Nat] /\ up \subseteq Sites /\ \A a \in up : lastUp[a] = hour
    BY DEF AddressesInv, AddressesTypeOK
  <2>2. CASE AnHour
    <3>1. hour' = hour + 1 /\ lastUp' = [a \in Sites |-> IF a \in up THEN hour + 1 ELSE lastUp[a]]
      BY <2>2 DEF AnHour
    <3> QED  BY <2>1, <3>1
  <2>3. CASE UNCHANGED addressVars
    <3>1. hour' = hour /\ lastUp' = lastUp
      BY <2>3 DEF addressVars
    <3> QED  BY <2>1, <3>1
  <2> QED  BY <2>2, <2>3
<1>3. AddressesTypeOK'
  BY <1>1, <1>2 DEF AddressesTypeOK
<1>4. HeardMore
  BY <1>1, <1>2 DEF HeardMore
<1>5. \A k \in Sites : (Heard(k) /\ mapAddresses[k][k] = NotHeard)'
  <2> TAKE k \in Sites
  <2>1. ASSUME NEW a \in Sites PROVE mapAddresses'[k][a] <= lastUp'[a]
    <3>1. mapAddresses[k][a] \in Nat \cup {NotHeard} /\ lastUp[a] \in Nat /\ lastUp'[a] \in Nat
      BY <1>1, <1>2 DEF AddressesTypeOK
    <3>2. mapAddresses[k][a] <= lastUp[a] /\ lastUp[a] <= lastUp'[a] /\ mapAddresses' = mapAddresses
      BY <1>1, <1>2 DEF AddressesInv, Heard
    <3> QED  BY <3>1, <3>2 DEF NotHeard
  <2> QED  BY <1>1, <2>1 DEF AddressesInv, Heard
<1>6. ASSUME NEW p \in Pairs PROVE WayHonest(p)'
  <2>1. VouchedThen(p[1], vAddrToSend[p]) /\ MailHonest(p, mail[p])
    BY <1>1, <1>4, StaysHonest DEF AddressesInv
  <2> QED  BY <1>1, <2>1 DEF WayHonest, VouchedThen, Vouched, MailHonest
<1>7. \A r \in joined' : Presented(r)'
  BY <1>1 DEF AddressesInv, Presented, Reaches, Named
<1>8. \A k, l \in Sites : (\E a \in Sites : <<k, l, a>> \in setAddrKnown') => (l \in Neighbours(k))'
  BY <1>1 DEF AddressesInv, Neighbours
<1> QED  BY <1>1, <1>2, <1>3, <1>5, <1>6, <1>7, <1>8 DEF AddressesInv

\* A site queues its own address for all its neighbours once more.
LEMMA RebroadcastKeeps ==
  ASSUME AddressesAssumption, AddressesInv, NEW n \in Sites, Rebroadcast(n)
  PROVE  AddressesInv'
<1>1. /\ AddressesTypeOK /\ n \in up
      /\ vAddrToSend' = [p \in Pairs |-> IF p[1] = n /\ p[2] \in Neighbours(n)
                                         THEN Append(vAddrToSend[p], Seen(n, hour)) ELSE vAddrToSend[p]]
      /\ setAddrKnown' \subseteq setAddrKnown /\ carried' \subseteq setAddrKnown'
      /\ UNCHANGED <<up, joined, mapAddresses, mail, hour, lastUp, repeated>>
  BY DEF Rebroadcast, AddressesInv
<1>2. hour \in Nat /\ lastUp[n] = hour
  BY <1>1 DEF AddressesTypeOK, AddressesInv
<1>3. HeardMore
  BY <1>1 DEF HeardMore, AddressesTypeOK
<1>4. ASSUME NEW p \in Pairs
      PROVE  /\ vAddrToSend'[p] \in Seq(Sightings) /\ VouchedThen(p[1], vAddrToSend'[p])
             /\ \A a : Named(a, vAddrToSend[p]) => Named(a, vAddrToSend'[p])
  <2>1. VouchedThen(p[1], vAddrToSend[p]) /\ vAddrToSend[p] \in Seq(Sightings)
    BY <1>1, <1>3, StaysHonest DEF AddressesInv, AddressesTypeOK
  <2>2. CASE vAddrToSend'[p] = vAddrToSend[p]
    BY <2>1, <2>2
  <2>3. CASE p[1] = n /\ vAddrToSend'[p] = Append(vAddrToSend[p], Seen(n, hour))
    <3> DEFINE seen == Seen(n, hour)
               queue == vAddrToSend[p]
    <3>1. seen \in Sightings /\ seen.address = n /\ seen.nTime = hour
      BY <1>2 DEF Seen, Sightings
    <3>2. queue \in Seq(Sightings) /\ VouchedThen(n, queue) /\ vAddrToSend'[p] = Append(queue, seen)
      BY <2>1, <2>3
    <3> HIDE DEF seen, queue
    <3>3. /\ Append(queue, seen) \in Seq(Sightings)
          /\ \A i \in DOMAIN Append(queue, seen) :
               \/ i \in DOMAIN queue /\ Append(queue, seen)[i] = queue[i]
               \/ Append(queue, seen)[i] = seen
          /\ \A i \in DOMAIN queue : i \in DOMAIN Append(queue, seen) /\ Append(queue, seen)[i] = queue[i]
      BY <3>1, <3>2, AppendProperties, LenProperties
    <3>4. VouchedThen(n, Append(queue, seen))
      BY <1>1, <1>2, <3>1, <3>2, <3>3 DEF VouchedThen
    <3>5. \A a : Named(a, queue) => Named(a, Append(queue, seen))
      BY <3>3 DEF Named
    <3> QED  BY <2>3, <3>2, <3>3, <3>4, <3>5 DEF queue
  <2> QED  BY <1>1, <2>2, <2>3
<1>5. AddressesTypeOK'
  <2>1. vAddrToSend' \in [Pairs -> Seq(Sightings)]
    BY <1>1, <1>4
  <2> QED  BY <1>1, <2>1 DEF AddressesTypeOK
<1>6. \A k \in Sites : (Heard(k) /\ mapAddresses[k][k] = NotHeard)'
  BY <1>1 DEF AddressesInv, Heard
<1>7. ASSUME NEW p \in Pairs PROVE WayHonest(p)'
  <2>1. MailHonest(p, mail[p]) /\ mail'[p] = mail[p]
    BY <1>1, <1>3, StaysHonest DEF AddressesInv
  <2> QED  BY <1>4, <2>1 DEF WayHonest, VouchedThen, Vouched, MailHonest
<1>8. ASSUME NEW r \in joined' PROVE Presented(r)'
  <2>1. r \in joined /\ Presented(r) /\ r \in Pairs
    BY <1>1 DEF AddressesInv, AddressesTypeOK, Pairs
  <2>2. Named(r[1], vAddrToSend[r]) => Named(r[1], vAddrToSend'[r])
    BY <1>4, <2>1
  <2>3. Reaches(r[1], r[2])' <=> Reaches(r[1], r[2])
    BY <1>1 DEF Reaches, Named
  <2> QED  BY <1>1, <2>1, <2>2, <2>3 DEF Presented, Named
<1>9. \A k, l \in Sites : (\E a \in Sites : <<k, l, a>> \in setAddrKnown') => (l \in Neighbours(k))'
  BY <1>1 DEF AddressesInv, Neighbours
<1> QED  BY <1>1, <1>5, <1>6, <1>7, <1>8, <1>9 DEF AddressesInv

\* A site leaves with its connections and what was on the way over them.
LEMMA DepartKeeps ==
  ASSUME AddressesAssumption, AddressesInv, NEW a \in Sites, Depart(a)
  PROVE  AddressesInv'
<1> DEFINE gone == {p \in Pairs : a \in Range(p)}
<1>1. /\ AddressesTypeOK /\ up' = up \ {a} /\ joined' = {r \in joined : a \notin Range(r)}
      /\ vAddrToSend' = [p \in Pairs |-> IF p \in gone THEN <<>> ELSE vAddrToSend[p]]
      /\ mail' = [p \in Pairs |-> IF p \in gone THEN <<>> ELSE mail[p]]
      /\ setAddrKnown' = {k \in setAddrKnown : <<k[1], k[2]>> \notin gone}
      /\ carried' = {k \in carried : <<k[1], k[2]>> \notin gone}
      /\ UNCHANGED <<mapAddresses, hour, lastUp, repeated>>
  BY DEF Depart, AddressesInv
<1>2. \A n, m : Range(<<n, m>>) = {n, m}
  <2> TAKE n, m
  <2>1. DOMAIN <<n, m>> = 1..2 /\ <<n, m>>[1] = n /\ <<n, m>>[2] = m /\ 1..2 = {1, 2}
    OBVIOUS
  <2> QED  BY <2>1 DEF Range
<1>3. HeardMore
  BY <1>1 DEF HeardMore, AddressesTypeOK
<1>4. AddressesTypeOK'
  <2>1. <<>> \in Seq(Sightings) /\ <<>> \in Seq(Mailable)
    OBVIOUS
  <2>2. vAddrToSend' \in [Pairs -> Seq(Sightings)] /\ mail' \in [Pairs -> Seq(Mailable)]
    BY <1>1, <2>1 DEF AddressesTypeOK, Mailable
  <2> QED  BY <1>1, <2>2 DEF AddressesTypeOK, Mailable
<1>5. \A k \in Sites : (Heard(k) /\ mapAddresses[k][k] = NotHeard)'
  BY <1>1 DEF AddressesInv, Heard
<1>6. ASSUME NEW p \in Pairs PROVE WayHonest(p)'
  <2>1. VouchedThen(p[1], vAddrToSend[p]) /\ MailHonest(p, mail[p])
    BY <1>1, <1>3, StaysHonest DEF AddressesInv
  <2>2. VouchedThen(p[1], <<>>) /\ MailHonest(p, <<>>)
    BY DEF VouchedThen, MailHonest
  <2>3. \/ vAddrToSend'[p] = vAddrToSend[p] /\ mail'[p] = mail[p]
        \/ vAddrToSend'[p] = <<>> /\ mail'[p] = <<>>
    BY <1>1
  <2> QED  BY <2>1, <2>2, <2>3 DEF WayHonest, VouchedThen, Vouched, MailHonest
<1>7. ASSUME NEW r \in joined' PROVE Presented(r)'
  <2>1. r \in joined /\ Presented(r) /\ r \in Pairs /\ a \notin Range(r) /\ r = <<r[1], r[2]>>
    BY <1>1, TwoWays DEF AddressesInv, AddressesTypeOK, Pairs
  <2>2. r[1] # a /\ r[2] # a
    BY <1>2, <2>1
  <2>3. vAddrToSend'[r] = vAddrToSend[r] /\ mail'[r] = mail[r]
    BY <1>1, <2>1
  <2>4. Reaches(r[1], r[2])' <=> Reaches(r[1], r[2])
    BY <1>1, <2>1, <2>3 DEF Reaches, Named
  <2> QED  BY <1>1, <2>1, <2>2, <2>3, <2>4 DEF Presented, Named
<1>8. ASSUME NEW k \in Sites, NEW l \in Sites, NEW b \in Sites, <<k, l, b>> \in setAddrKnown'
      PROVE  (l \in Neighbours(k))'
  <2>1. <<k, l, b>>[1] = k /\ <<k, l, b>>[2] = l
    OBVIOUS
  <2>2. <<k, l, b>> \in setAddrKnown /\ <<k, l>> \notin gone
    BY <1>1, <1>8, <2>1
  <2>3. <<k, l>> \in joined \/ <<l, k>> \in joined
    BY <2>2 DEF AddressesInv, Neighbours
  <2>4. <<k, l>> \in Pairs
    BY <1>1, <2>3, TwoWays DEF AddressesTypeOK
  <2>5. a \notin {k, l}
    BY <1>2, <2>2, <2>4
  <2> QED  BY <1>1, <1>2, <2>3, <2>5 DEF Neighbours
<1>9. carried' \subseteq setAddrKnown'
  BY <1>1 DEF AddressesInv
<1>10. \A k \in up' : lastUp'[k] = hour'
  BY <1>1 DEF AddressesInv
<1> QED  BY <1>1, <1>4, <1>5, <1>6, <1>7, <1>8, <1>9, <1>10 DEF AddressesInv

\* Of the addresses queued, the first of each that is not known: each of them once, and none left out.
FirstOnes(heardOf, queued, n, m) ==
  {i \in DOMAIN queued : /\ <<n, m, queued[i].address>> \notin heardOf
                         /\ \A j \in 1..(i - 1) : queued[j].address # queued[i].address}
\* The first entries of a queue for addresses the peer is not known to know: none of them known, none twice, none missing.
LEMMA FirstsPicked ==
  ASSUME NEW n, NEW m, NEW heardOf, NEW queued \in Seq(Sightings)
  PROVE  LET addrs == Picked(queued, FirstOnes(heardOf, queued, n, m)) IN
         /\ addrs \in Seq(Sightings)
         /\ \A k \in DOMAIN addrs : /\ \E i \in DOMAIN queued : addrs[k] = queued[i]
                                    /\ <<n, m, addrs[k].address>> \notin heardOf
         /\ \A k, l \in DOMAIN addrs : k # l => addrs[k].address # addrs[l].address
         /\ \A i \in DOMAIN queued : <<n, m, queued[i].address>> \notin heardOf =>
              \E k \in DOMAIN addrs : addrs[k].address = queued[i].address
<1> DEFINE I == FirstOnes(heardOf, queued, n, m)
           addrs == Picked(queued, I)
<1>1. I \subseteq DOMAIN queued /\ DOMAIN queued = 1..Len(queued) /\ Len(queued) \in Nat
  BY LenProperties DEF FirstOnes
<1>2. \A i \in I : /\ <<n, m, queued[i].address>> \notin heardOf
                   /\ \A j \in 1..(i - 1) : queued[j].address # queued[i].address
  BY DEF FirstOnes
<1>3. \A i, j \in I : i # j => queued[i].address # queued[j].address
  <2> SUFFICES ASSUME NEW i \in I, NEW j \in I, i < j PROVE queued[i].address # queued[j].address
    BY <1>1
  <2>1. i \in 1..(j - 1)
    BY <1>1
  <2> QED  BY <1>2, <2>1
<1>4. ASSUME NEW i \in DOMAIN queued, <<n, m, queued[i].address>> \notin heardOf
      PROVE  \E j \in I : queued[j].address = queued[i].address
  <2> DEFINE Same == {j \in DOMAIN queued : queued[j].address = queued[i].address}
  <2>1. Same \subseteq Nat /\ i \in Same
    BY <1>1, <1>4
  <2>2. PICK j \in Same : \A h \in Same : j <= h
    <3> HIDE DEF Same
    <3> QED  BY <2>1, LeastNatural
  <2>3. \A h \in 1..(j - 1) : h \in DOMAIN queued /\ ~(j <= h)
    BY <1>1
  <2>4. \A h \in 1..(j - 1) : queued[h].address # queued[j].address
    BY <2>2, <2>3
  <2> QED  BY <1>4, <2>4 DEF FirstOnes
<1> HIDE DEF I
<1>5. /\ addrs \in Seq(Sightings)
      /\ \A k \in DOMAIN addrs : \E i \in I : addrs[k] = queued[i]
      /\ \A i \in I : \E k \in DOMAIN addrs : addrs[k] = queued[i]
      /\ \A k, l \in DOMAIN addrs : k # l => \E i, j \in I : i # j /\ addrs[k] = queued[i] /\ addrs[l] = queued[j]
  <2>1. IsPick(Sightings, queued, I, addrs)
    BY <1>1, PickedIs
  <2> QED  BY <2>1 DEF IsPick
<1> HIDE DEF addrs
<1>6. \A k \in DOMAIN addrs : /\ \E i \in DOMAIN queued : addrs[k] = queued[i]
                              /\ <<n, m, addrs[k].address>> \notin heardOf
  <2> SUFFICES ASSUME NEW k \in DOMAIN addrs
               PROVE  /\ \E i \in DOMAIN queued : addrs[k] = queued[i]
                      /\ <<n, m, addrs[k].address>> \notin heardOf
    OBVIOUS
  <2>1. PICK i \in I : addrs[k] = queued[i]
    BY ONLY <1>5, k \in DOMAIN addrs
  <2>2. i \in DOMAIN queued /\ <<n, m, queued[i].address>> \notin heardOf
    BY <1>1, <1>2
  <2> QED  BY <2>1, <2>2
<1>7. \A k, l \in DOMAIN addrs : k # l => addrs[k].address # addrs[l].address
  <2> SUFFICES ASSUME NEW k \in DOMAIN addrs, NEW l \in DOMAIN addrs, k # l
               PROVE  addrs[k].address # addrs[l].address
    OBVIOUS
  <2>1. PICK i \in I, j \in I : i # j /\ addrs[k] = queued[i] /\ addrs[l] = queued[j]
    BY ONLY <1>5, k \in DOMAIN addrs, l \in DOMAIN addrs, k # l
  <2> QED  BY <1>3, <2>1
<1>8. \A i \in DOMAIN queued : <<n, m, queued[i].address>> \notin heardOf =>
        \E k \in DOMAIN addrs : addrs[k].address = queued[i].address
  <2> SUFFICES ASSUME NEW i \in DOMAIN queued, <<n, m, queued[i].address>> \notin heardOf
               PROVE  \E k \in DOMAIN addrs : addrs[k].address = queued[i].address
    OBVIOUS
  <2>1. PICK j \in I : queued[j].address = queued[i].address
    BY <1>4
  <2>2. PICK k \in DOMAIN addrs : addrs[k] = queued[j]
    BY ONLY <1>5, j \in I
  <2> QED  BY <2>1, <2>2
<1> QED  BY <1>5, <1>6, <1>7, <1>8 DEF addrs, I

\* What is sent, as one says for each address which way it went; all differ if the addresses do.
WaysOf(n, m, addrs) == {<<n, m, seen.address>> : seen \in Range(addrs)}
\* Addresses without a double give as many entries of setAddrKnown as there are of them.
LEMMA WaysCounted ==
  ASSUME NEW n, NEW m, NEW addrs \in Seq(Sightings),
         \A k, l \in DOMAIN addrs : k # l => addrs[k].address # addrs[l].address
  PROVE  Cardinality(WaysOf(n, m, addrs)) = Len(addrs)
<1> DEFINE ways == WaysOf(n, m, addrs)
           f == [k \in 1..Len(addrs) |-> <<n, m, addrs[k].address>>]
<1>1. DOMAIN addrs = 1..Len(addrs) /\ Len(addrs) \in Nat
  BY LenProperties
<1>2. ASSUME NEW k \in 1..Len(addrs) PROVE f[k] \in ways
  <2>1. addrs[k] \in Range(addrs) /\ f[k] = <<n, m, addrs[k].address>>
    BY <1>1 DEF Range
  <2> HIDE DEF f
  <2> QED  BY <2>1 DEF WaysOf
<1>3. ASSUME NEW x \in ways PROVE \E k \in 1..Len(addrs) : f[k] = x
  <2>1. PICK seen \in Range(addrs) : x = <<n, m, seen.address>>
    BY DEF WaysOf
  <2>2. PICK k \in 1..Len(addrs) : seen = addrs[k]
    BY <1>1 DEF Range
  <2>3. f[k] = <<n, m, addrs[k].address>>
    OBVIOUS
  <2> QED  BY <2>1, <2>2, <2>3
<1>4. ASSUME NEW k \in 1..Len(addrs), NEW l \in 1..Len(addrs), f[k] = f[l] PROVE k = l
  <2>1. \A a, b : <<n, m, a>> = <<n, m, b>> => a = b
    OBVIOUS
  <2>2. <<n, m, addrs[k].address>> = <<n, m, addrs[l].address>>
    BY <1>4
  <2>3. addrs[k].address = addrs[l].address
    BY <2>1, <2>2
  <2> QED  BY <1>1, <2>3
<1>5. f \in [1..Len(addrs) -> ways]
  <2> HIDE DEF ways
  <2> QED  BY <1>2
<1> HIDE DEF f, ways
<1>6. f \in Bijection(1..Len(addrs), ways)
  BY <1>3, <1>4, <1>5 DEF Bijection, Injection, Surjection, IsInjective
<1>7. ExistsBijection(1..Len(addrs), ways)
  BY <1>6 DEF ExistsBijection
<1>8. IsFiniteSet(1..Len(addrs)) /\ Cardinality(1..Len(addrs)) = Len(addrs)
  BY <1>1, FS_Interval
<1> QED  BY <1>7, <1>8, FS_Bijection DEF ways

\* A queue is sent, except for what the peer is known to know.
LEMMA TrickleKeeps ==
  ASSUME AddressesAssumption, AddressesInv, NEW n \in Sites, NEW m \in Sites, <<n, m>> \in Pairs, Trickle(n, m)
  PROVE  AddressesInv'
<1> DEFINE queued == vAddrToSend[<<n, m>>]
           addrs == Picked(queued, FirstOnes(setAddrKnown, queued, n, m))
           ways == WaysOf(n, m, addrs)
<1>1. /\ AddressesTypeOK /\ m \in Neighbours(n)
      /\ mail' = IF addrs = <<>> THEN mail ELSE [mail EXCEPT ![<<n, m>>] = Append(@, Addr(addrs))]
      /\ setAddrKnown' = setAddrKnown \cup ways
      /\ carried' = carried \cup ways
      /\ repeated' = (repeated \/ Cardinality(ways) < Len(addrs) \/ ways \cap carried # {})
      /\ vAddrToSend' = [vAddrToSend EXCEPT ![<<n, m>>] = <<>>]
      /\ UNCHANGED <<up, joined, mapAddresses, hour, lastUp>>
  BY DEF Trickle, Carry, FirstOnes, WaysOf, AddressesInv
<1>2. queued \in Seq(Sightings)
  BY <1>1 DEF AddressesTypeOK
<1>3. /\ addrs \in Seq(Sightings)
      /\ \A k \in DOMAIN addrs : /\ \E i \in DOMAIN queued : addrs[k] = queued[i]
                                 /\ <<n, m, addrs[k].address>> \notin setAddrKnown
      /\ \A k, l \in DOMAIN addrs : k # l => addrs[k].address # addrs[l].address
      /\ \A i \in DOMAIN queued : <<n, m, queued[i].address>> \notin setAddrKnown =>
           \E k \in DOMAIN addrs : addrs[k].address = queued[i].address
  <2> HIDE DEF queued
  <2> QED  BY <1>2, FirstsPicked
<1> HIDE DEF addrs
<1>4. \A x \in ways : \E k \in DOMAIN addrs : x = <<n, m, addrs[k].address>>
  BY DEF Range, WaysOf
<1>5. Cardinality(ways) = Len(addrs) /\ Len(addrs) \in Nat
  BY <1>3, WaysCounted, LenProperties
<1> HIDE DEF ways
<1>6. HeardMore
  BY <1>1 DEF HeardMore, AddressesTypeOK
<1>7. VouchedThen(n, queued) /\ <<n, m>>[1] = n /\ <<n, m>>[2] = m
  <2>1. <<n, m>>[1] = n /\ <<n, m>>[2] = m
    OBVIOUS
  <2>2. WayHonest(<<n, m>>)
    BY DEF AddressesInv
  <2>3. VouchedThen(<<n, m>>[1], vAddrToSend[<<n, m>>])
    BY <1>1, <1>6, <2>2, StaysHonest
  <2> QED  BY <2>1, <2>3
<1>8. VouchedThen(n, addrs)
  <2> HIDE DEF queued
  <2> SUFFICES ASSUME NEW k \in DOMAIN addrs
               PROVE  /\ addrs[k].nTime <= lastUp'[addrs[k].address]
                      /\ addrs[k].address = n \/ mapAddresses'[n][addrs[k].address] # NotHeard
    BY DEF VouchedThen
  <2>1. PICK i \in DOMAIN queued : addrs[k] = queued[i]
    BY <1>3
  <2> QED  BY <1>7, <2>1 DEF VouchedThen
<1> DEFINE box == mail[<<n, m>>]
<1>9. Addr(addrs) \in Mailable /\ Addr(addrs).kind = "addr" /\ Addr(addrs).addrs = addrs
  BY <1>3 DEF Addr, Mailable
<1>10. box \in Seq(Mailable)
  BY <1>1 DEF AddressesTypeOK, Mailable
<1>11. /\ Append(box, Addr(addrs)) \in Seq(Mailable)
       /\ \A i \in DOMAIN box : i \in DOMAIN Append(box, Addr(addrs)) /\ Append(box, Addr(addrs))[i] = box[i]
       /\ \E i \in DOMAIN Append(box, Addr(addrs)) : Append(box, Addr(addrs))[i] = Addr(addrs)
       /\ \A i \in DOMAIN Append(box, Addr(addrs)) :
            \/ i \in DOMAIN box /\ Append(box, Addr(addrs))[i] = box[i]
            \/ Append(box, Addr(addrs))[i] = Addr(addrs)
  <2> DEFINE message == Addr(addrs)
  <2>1. message \in Mailable
    BY <1>9
  <2> HIDE DEF message, box
  <2>2. /\ Append(box, message) \in Seq(Mailable) /\ Len(Append(box, message)) = Len(box) + 1
        /\ \A i \in 1..Len(box) : Append(box, message)[i] = box[i]
        /\ Append(box, message)[Len(box) + 1] = message
    BY <1>10, <2>1, AppendProperties
  <2>3. DOMAIN box = 1..Len(box) /\ Len(box) \in Nat /\ DOMAIN Append(box, message) = 1..(Len(box) + 1)
    BY <1>10, <2>2, LenProperties
  <2> QED  BY <2>2, <2>3 DEF message
<1>12. /\ \A p \in Pairs : p # <<n, m>> => mail'[p] = mail[p] /\ vAddrToSend'[p] = vAddrToSend[p]
       /\ vAddrToSend'[<<n, m>>] = <<>>
       /\ addrs = <<>> => mail' = mail
       /\ addrs # <<>> => mail'[<<n, m>>] = Append(box, Addr(addrs))
  BY <1>1 DEF AddressesTypeOK
<1>13. AddressesTypeOK'
  <2>1. <<>> \in Seq(Sightings)
    OBVIOUS
  <2>2. vAddrToSend' \in [Pairs -> Seq(Sightings)]
    BY <1>1, <2>1 DEF AddressesTypeOK
  <2>3. mail' \in [Pairs -> Seq(Mailable)]
    <3> HIDE DEF box
    <3>1. mail \in [Pairs -> Seq(Mailable)]
      BY <1>1 DEF AddressesTypeOK, Mailable
    <3> QED  BY <1>1, <1>11, <3>1 DEF box
  <2> QED  BY <1>1, <2>2, <2>3 DEF AddressesTypeOK, Mailable
<1>14. \A k \in Sites : (Heard(k) /\ mapAddresses[k][k] = NotHeard)'
  BY <1>1 DEF AddressesInv, Heard
<1>15. ASSUME NEW p \in Pairs PROVE WayHonest(p)'
  <2>1. VouchedThen(p[1], vAddrToSend[p]) /\ MailHonest(p, mail[p])
    BY <1>1, <1>6, StaysHonest DEF AddressesInv
  <2>2. VouchedThen(p[1], vAddrToSend'[p])
    BY <1>12, <2>1 DEF VouchedThen
  <2>3. MailHonest(p, mail'[p])
    <3>1. CASE mail'[p] = mail[p]
      BY <2>1, <3>1
    <3>2. CASE p = <<n, m>> /\ mail'[p] = Append(box, Addr(addrs))
      <4>1. p[1] = n /\ MailHonest(p, box)
        BY <1>7, <2>1, <3>2
      <4> HIDE DEF box
      <4>2. MailHonest(p, Append(box, Addr(addrs)))
        BY <1>8, <1>9, <1>11, <4>1 DEF MailHonest
      <4> QED  BY <3>2, <4>2
    <3> QED  BY <1>12, <3>1, <3>2
  <2> QED  BY <2>2, <2>3 DEF WayHonest, VouchedThen, Vouched, MailHonest
<1>16. \A p \in Pairs : Reaches(p[1], p[2]) => Reaches(p[1], p[2])'
  <2> TAKE p \in Pairs
  <2>1. p = <<p[1], p[2]>>
    BY TwoWays
  <2>2. \A i \in DOMAIN mail[p] : i \in DOMAIN mail'[p] /\ mail'[p][i] = mail[p][i]
    BY <1>11, <1>12
  <2> DEFINE a == p[1]
             b == p[2]
  <2>3. mail[<<a, b>>] = mail[p] /\ mail'[<<a, b>>] = mail'[p] /\ mapAddresses' = mapAddresses
    BY <1>1, <2>1
  <2> HIDE DEF a, b
  <2>4. Reaches(a, b) => Reaches(a, b)'
    BY <2>2, <2>3 DEF Reaches, Named
  <2> QED  BY <2>4 DEF a, b
<1>17. ASSUME NEW k \in DOMAIN addrs, addrs[k].address = n PROVE Reaches(n, m)'
  <2>1. addrs # <<>>
    BY <1>17
  <2>2. mail'[<<n, m>>] = Append(box, Addr(addrs))
    BY ONLY <1>12, <2>1
  <2>3. PICK i \in DOMAIN Append(box, Addr(addrs)) : Append(box, Addr(addrs))[i] = Addr(addrs)
    BY ONLY <1>11
  <2>4. \E l \in DOMAIN mail'[<<n, m>>] : mail'[<<n, m>>][l].addrs = addrs
    BY ONLY <1>9, <2>2, <2>3
  <2>5. Named(n, addrs)
    BY <1>17 DEF Named
  <2> QED  BY <2>4, <2>5 DEF Reaches, Named
<1>18. ASSUME NEW r \in joined' PROVE Presented(r)'
  <2>1. r \in joined /\ Presented(r) /\ r \in Pairs
    BY <1>1 DEF AddressesInv, AddressesTypeOK, Pairs
  <2>2. r[1] \in up' /\ r[2] \in up'
    BY <1>1, <2>1 DEF Presented
  <2>3. CASE r = <<n, m>>
    <3>1. r[1] = n /\ r[2] = m
      BY <1>7, <2>3
    <3>2. <<n, m, n>> \in setAddrKnown => Reaches(n, m)'
      BY <1>16, <2>1, <3>1 DEF Presented
    <3>3. Reaches(n, m)
             \/ \E i \in DOMAIN queued : queued[i].address = n
      BY <2>1, <2>3, <3>1 DEF Presented, Named
    <3>4. Reaches(n, m)'
      <4>1. CASE Reaches(n, m)
        BY <1>16, <2>1, <3>1, <4>1
      <4>2. CASE <<n, m, n>> \notin setAddrKnown /\ \E i \in DOMAIN queued : queued[i].address = n
        BY <1>3, <1>17, <4>2
      <4> QED  BY <3>2, <3>3, <4>1, <4>2
    <3> QED  BY <2>2, <3>1, <3>4 DEF Presented
  <2>4. CASE r # <<n, m>>
    <3>1. r = <<r[1], r[2]>>
      BY <2>1, TwoWays
    <3>2. <<r[1], r[2], r[1]>> \in setAddrKnown' => <<r[1], r[2], r[1]>> \in setAddrKnown
      <4>1. \A a, b, c, d, e, f : <<a, b, c>> = <<d, e, f>> => a = d /\ b = e
        OBVIOUS
      <4>2. <<r[1], r[2], r[1]>> \notin ways
        BY <1>4, <2>4, <3>1, <4>1
      <4> QED  BY <1>1, <4>2
    <3>3. vAddrToSend'[r] = vAddrToSend[r]
      BY <1>12, <2>1, <2>4
    <3> QED  BY <1>16, <2>1, <2>2, <3>2, <3>3 DEF Presented, Named
  <2> QED  BY <2>3, <2>4
<1>19. ASSUME NEW k \in Sites, NEW l \in Sites, NEW a \in Sites, <<k, l, a>> \in setAddrKnown'
       PROVE  (l \in Neighbours(k))'
  <2>1. CASE <<k, l, a>> \in setAddrKnown
    BY <1>1, <2>1 DEF AddressesInv, Neighbours
  <2>2. CASE <<k, l, a>> \in ways
    <3>1. PICK i \in DOMAIN addrs : <<k, l, a>> = <<n, m, addrs[i].address>>
      BY <1>4, <2>2
    <3>2. k = n /\ l = m
      BY <3>1
    <3> QED  BY <1>1, <3>2 DEF Neighbours
  <2> QED  BY <1>1, <1>19, <2>1, <2>2
<1>20. carried' \subseteq setAddrKnown' /\ repeated' = FALSE
  <2>1. carried \subseteq setAddrKnown /\ repeated = FALSE
    BY DEF AddressesInv
  <2>2. ways \cap carried = {}
    BY <1>3, <1>4, <2>1
  <2>3. ~(Cardinality(ways) < Len(addrs))
    BY <1>5
  <2> QED  BY <1>1, <2>1, <2>2, <2>3
<1>21. \A k \in up' : lastUp'[k] = hour'
  BY <1>1 DEF AddressesInv
<1> QED  BY <1>13, <1>14, <1>15, <1>18, <1>19, <1>20, <1>21 DEF AddressesInv

\* The first message from m is taken.
IsTaken(n, m) ==
  /\ Head(mail[<<m, n>>]) \in Mailable /\ Vouched(m, Head(mail[<<m, n>>]).addrs)
  /\ Head(mail[<<m, n>>]).kind = "getaddr" => <<m, n>> \in Routes /\ Head(mail[<<m, n>>]).addrs = <<>>
  /\ mail' \in [Pairs -> Seq(Mailable)]
  /\ \A p \in Pairs : MailHonest(p, mail[p]) => MailHonest(p, mail'[p])
  /\ \A p \in Pairs : \A i \in DOMAIN mail[p] :
       \/ p = <<m, n>> /\ mail[p][i] = Head(mail[<<m, n>>])
       \/ \E j \in DOMAIN mail'[p] : mail'[p][j] = mail[p][i]
\* A message taken from its box: what was honest there still is.
LEMMA MailTaken ==
  ASSUME AddressesAssumption, AddressesInv, NEW n \in Sites, NEW m \in Sites, <<m, n>> \in Pairs,
         mail[<<m, n>>] # <<>>, mail' = [mail EXCEPT ![<<m, n>>] = Tail(@)]
  PROVE  IsTaken(n, m)
<1> DEFINE box == mail[<<m, n>>]
<1>1. mail \in [Pairs -> Seq(Mailable)] /\ box \in Seq(Mailable) /\ box # <<>> /\ WayHonest(<<m, n>>)
  BY DEF AddressesInv, AddressesTypeOK, Mailable
<1>2. /\ mail'[<<m, n>>] = Tail(box) /\ mail' = [mail EXCEPT ![<<m, n>>] = Tail(box)]
      /\ \A p \in Pairs : p # <<m, n>> => mail'[p] = mail[p]
  BY <1>1
<1>3. <<m, n>>[1] = m
  OBVIOUS
<1>4. \A i \in DOMAIN box : /\ Vouched(m, box[i].addrs)
                            /\ box[i].kind = "getaddr" => <<m, n>> \in Routes /\ box[i].addrs = <<>>
  BY <1>1, <1>3 DEF WayHonest
<1> HIDE DEF box
<1>5. /\ Tail(box) \in Seq(Mailable) /\ Head(box) \in Mailable
      /\ 1 \in DOMAIN box /\ box[1] = Head(box)
      /\ \A i \in DOMAIN Tail(box) : i + 1 \in DOMAIN box /\ Tail(box)[i] = box[i + 1]
      /\ \A i \in DOMAIN box : i # 1 => i - 1 \in DOMAIN Tail(box) /\ Tail(box)[i - 1] = box[i]
  BY <1>1, FirstTaken
<1>6. mail' \in [Pairs -> Seq(Mailable)]
  BY <1>1, <1>2, <1>5
<1>7. MailHonest(<<m, n>>, box) => MailHonest(<<m, n>>, Tail(box))
  BY <1>5, SMTT(30) DEF MailHonest
<1>8. \A p \in Pairs : MailHonest(p, mail[p]) => MailHonest(p, mail'[p])
  BY <1>2, <1>7 DEF box
<1>9. \A i \in DOMAIN box : box[i] = Head(box) \/ \E j \in DOMAIN Tail(box) : Tail(box)[j] = box[i]
  BY <1>5
<1>10. ASSUME NEW p \in Pairs, NEW i \in DOMAIN mail[p]
       PROVE  \/ p = <<m, n>> /\ mail[p][i] = Head(box)
              \/ \E j \in DOMAIN mail'[p] : mail'[p][j] = mail[p][i]
  <2>1. CASE p = <<m, n>>
    BY <1>2, <1>9, <1>10, <2>1 DEF box
  <2>2. CASE p # <<m, n>>
    BY <1>2, <1>10, <2>2
  <2> QED  BY <2>1, <2>2
<1>11. Head(box) \in Mailable /\ Vouched(m, Head(box).addrs)
  BY <1>4, <1>5
<1>12. Head(box).kind = "getaddr" => <<m, n>> \in Routes /\ Head(box).addrs = <<>>
  BY <1>4, <1>5
<1> QED  BY <1>6, <1>8, <1>10, <1>11, <1>12 DEF box, IsTaken

\* A getaddr message, answered with what the site has heard of in the last three hours.
LEMMA GetAddrKeeps ==
  ASSUME AddressesAssumption, AddressesInv, NEW n \in Sites, NEW m \in Sites, <<n, m>> \in Pairs,
         ReadAddresses(n, m), Head(mail[<<m, n>>]).kind = "getaddr", GetAddrMessage(n, m)
  PROVE  AddressesInv'
<1> DEFINE recent == {a \in Sites : mapAddresses[n][a] > hour - 3 /\ mapAddresses[n][a] # NotHeard}
           those == {b \in recent : <<n, m, b>> \notin setAddrKnown}
           answer == {Seen(a, mapAddresses[n][a]) : a \in those}
<1>1. /\ AddressesTypeOK /\ mail[<<m, n>>] # <<>> /\ mail' = [mail EXCEPT ![<<m, n>>] = Tail(@)]
      /\ vAddrToSend' = [vAddrToSend EXCEPT ![<<n, m>>] = SetToSeq(answer)]
      /\ UNCHANGED <<up, joined, mapAddresses, setAddrKnown, hour, lastUp, carried, repeated>>
  BY DEF ReadAddresses, GetAddrMessage, AddressesInv
<1>2. those \subseteq Sites /\ \A a \in those : mapAddresses[n][a] # NotHeard
  OBVIOUS
<1> HIDE DEF those
<1>3. \A a \in those : /\ Seen(a, mapAddresses[n][a]) \in Sightings
                       /\ Seen(a, mapAddresses[n][a]).address = a
                       /\ Seen(a, mapAddresses[n][a]).nTime = mapAddresses[n][a]
                       /\ mapAddresses[n][a] <= lastUp[a]
  <2> TAKE a \in those
  <2>1. mapAddresses[n][a] \in Nat
    BY <1>1, <1>2 DEF AddressesTypeOK
  <2>2. mapAddresses[n][a] <= lastUp[a]
    BY <1>2 DEF AddressesInv, Heard
  <2> QED  BY <1>2, <2>1, <2>2 DEF Seen, Sightings
<1>4. IsFiniteSet(answer)
  <2>1. IsFiniteSet(those)
    BY <1>2, FS_Subset DEF AddressesAssumption
  <2>2. [a \in those |-> Seen(a, mapAddresses[n][a])] \in [those -> answer]
    OBVIOUS
  <2>3. \A t \in answer : \E a \in those : [b \in those |-> Seen(b, mapAddresses[n][b])][a] = t
    OBVIOUS
  <2> HIDE DEF answer
  <2> QED  BY <2>1, <2>2, <2>3, OntoFinite
<1>5. \A x \in answer : /\ x \in Sightings /\ x.nTime <= lastUp[x.address]
                        /\ mapAddresses[n][x.address] # NotHeard
  BY <1>2, <1>3
<1> HIDE DEF answer
<1> DEFINE list == SetToSeq(answer)
<1>6. list \in Seq(Sightings) /\ \A i \in DOMAIN list : list[i] \in answer
  <2>1. Cardinality(answer) \in Nat /\ list \in [1..Cardinality(answer) -> answer]
    BY <1>4, SeqOfSet
  <2> HIDE DEF list
  <2>2. list \in [1..Cardinality(answer) -> Sightings] /\ DOMAIN list = 1..Cardinality(answer)
    BY <1>5, <2>1
  <2>3. \A T, k, g : k \in Nat /\ g \in [1..k -> T] => g \in Seq(T)
    OBVIOUS
  <2> QED  BY <2>1, <2>2, <2>3
<1> HIDE DEF list
<1>7. HeardMore
  BY <1>1 DEF HeardMore, AddressesTypeOK
<1>8. VouchedThen(n, list)
  BY <1>1, <1>5, <1>6 DEF VouchedThen
<1>9. <<m, n>> \in Pairs /\ <<n, m>>[1] = n
  BY TwoWays
<1>10. /\ <<m, n>> \in Routes /\ Head(mail[<<m, n>>]).addrs = <<>>
       /\ mail' \in [Pairs -> Seq(Mailable)]
       /\ \A p \in Pairs : MailHonest(p, mail[p]) => MailHonest(p, mail'[p])
       /\ \A p \in Pairs : \A i \in DOMAIN mail[p] :
            \/ p = <<m, n>> /\ mail[p][i] = Head(mail[<<m, n>>])
            \/ \E j \in DOMAIN mail'[p] : mail'[p][j] = mail[p][i]
  <2>1. IsTaken(n, m)
    BY <1>1, <1>9, MailTaken
  <2> QED  BY <2>1 DEF IsTaken
<1>11. vAddrToSend' \in [Pairs -> Seq(Sightings)]
  <2>1. vAddrToSend \in [Pairs -> Seq(Sightings)] /\ vAddrToSend' = [vAddrToSend EXCEPT ![<<n, m>>] = list]
    BY <1>1 DEF AddressesTypeOK, list
  <2> QED  BY <1>6, <2>1
<1>12. vAddrToSend'[<<n, m>>] = list /\ \A p \in Pairs : p # <<n, m>> => vAddrToSend'[p] = vAddrToSend[p]
  BY <1>1 DEF AddressesTypeOK, list
<1>13. AddressesTypeOK'
  BY <1>1, <1>10, <1>11 DEF AddressesTypeOK, Mailable
<1>14. \A k \in Sites : (Heard(k) /\ mapAddresses[k][k] = NotHeard)'
  BY <1>1 DEF AddressesInv, Heard
<1>15. ASSUME NEW p \in Pairs PROVE WayHonest(p)'
  <2>1. VouchedThen(p[1], vAddrToSend[p]) /\ MailHonest(p, mail'[p])
    BY <1>1, <1>7, <1>10, StaysHonest DEF AddressesInv
  <2>2. VouchedThen(p[1], vAddrToSend'[p])
    BY <1>8, <1>9, <1>12, <2>1
  <2> QED  BY <2>1, <2>2 DEF WayHonest, VouchedThen, Vouched, MailHonest
<1>16. ASSUME NEW r \in joined' PROVE Presented(r)'
  <2>1. r \in joined /\ Presented(r) /\ r \in Pairs /\ r \in Routes /\ r = <<r[1], r[2]>>
    BY <1>1, TwoWays DEF AddressesInv, AddressesTypeOK, Pairs
  <2>2. vAddrToSend'[r] = vAddrToSend[r]
    BY <1>10, <1>12, <2>1, TwoWays
  <2> DEFINE a == r[1]
             b == r[2]
  <2>3. Reaches(a, b) => Reaches(a, b)'
    <3>1. mail[<<a, b>>] = mail[r] /\ mail'[<<a, b>>] = mail'[r] /\ mapAddresses' = mapAddresses
      BY <1>1, <2>1
    <3> HIDE DEF a, b
    <3>2. \A i \in DOMAIN mail[r] : ~Named(a, mail[r][i].addrs)
                                    \/ \E j \in DOMAIN mail'[r] : mail'[r][j] = mail[r][i]
      <4> TAKE i \in DOMAIN mail[r]
      <4>1. CASE mail[r][i] = Head(mail[<<m, n>>])
        BY <1>10, <4>1 DEF Named
      <4>2. CASE \E j \in DOMAIN mail'[r] : mail'[r][j] = mail[r][i]
        BY <4>2
      <4> QED  BY <1>10, <2>1, <4>1, <4>2
    <3> QED  BY <3>1, <3>2 DEF Reaches, Named
  <2> QED  BY <1>1, <2>1, <2>2, <2>3 DEF Presented, Named
<1>17. \A k, l \in Sites : (\E a \in Sites : <<k, l, a>> \in setAddrKnown') => (l \in Neighbours(k))'
  BY <1>1 DEF AddressesInv, Neighbours
<1> QED  BY <1>1, <1>13, <1>14, <1>15, <1>16, <1>17 DEF AddressesInv

\* A time that n has after it read addresses from m.
LEMMA ReadTimes ==
  ASSUME AddressesAssumption, AddressesInv, NEW n \in Sites, NEW m \in Sites, n # m,
         m \in Neighbours(n), NEW addrs \in Seq(Sightings), Vouched(m, addrs),
         NEW row, row = AddressCurrentlyConnected(Stored(n, addrs), n, m)
  PROVE  /\ row \in [Sites -> Nat \cup {NotHeard}] /\ row[n] = NotHeard
         /\ \A a \in Sites : row[a] <= lastUp[a] /\ (mapAddresses[n][a] # NotHeard => row[a] # NotHeard)
         /\ \A i \in DOMAIN addrs : addrs[i].address # n => row[addrs[i].address] # NotHeard
<1> DEFINE has == Stored(n, addrs)
<1>1. AddressesTypeOK /\ Heard(n) /\ mapAddresses[n][n] = NotHeard
  BY DEF AddressesInv
<1>2. \A i \in DOMAIN addrs : addrs[i].nTime <= lastUp[addrs[i].address]
  BY DEF Vouched
<1>3. /\ has \in [Sites -> Nat \cup {NotHeard}] /\ has[n] = NotHeard
      /\ \A a \in Sites : mapAddresses[n][a] # NotHeard => has[a] # NotHeard
      /\ \A a \in Sites : has[a] <= lastUp[a]
      /\ \A i \in DOMAIN addrs : addrs[i].address # n => has[addrs[i].address] # NotHeard
  BY <1>1, <1>2, StoredAddresses DEF AddressesTypeOK
<1> HIDE DEF has
<1>4. CASE row = has
  BY <1>3, <1>4
<1>5. CASE Dialled(n, m) /\ has[m] # NotHeard /\ row = [has EXCEPT ![m] = hour]
  <2>1. <<n, m>> \in joined
    BY <1>5 DEF Dialled
  <2>2. Presented(<<n, m>>) /\ <<n, m>>[2] = m
    BY <2>1 DEF AddressesInv
  <2>3. m \in up
    BY <2>2 DEF Presented
  <2>4. hour \in Nat /\ lastUp[m] = hour
    BY <1>1, <2>3 DEF AddressesInv, AddressesTypeOK
  <2>5. /\ row \in [Sites -> Nat \cup {NotHeard}] /\ row[m] = hour
        /\ \A a \in Sites : a # m => row[a] = has[a]
    BY <1>3, <1>5, <2>4, Renewed
  <2>6. hour # NotHeard /\ hour <= lastUp[m]
    BY <2>4 DEF NotHeard
  <2>7. \A i \in DOMAIN addrs : addrs[i].address # n => row[addrs[i].address] # NotHeard
    <3> TAKE i \in DOMAIN addrs
    <3>1. addrs[i] \in Sightings
      OBVIOUS
    <3>2. addrs[i].address \in Sites
      BY <3>1 DEF Sightings
    <3> QED  BY <1>3, <2>5, <2>6, <3>2
  <2> QED  BY <1>3, <2>5, <2>6, <2>7
<1>6. row = has \/ (Dialled(n, m) /\ has[m] # NotHeard /\ row = [has EXCEPT ![m] = hour])
  BY DEF AddressCurrentlyConnected, has
<1> QED  BY <1>4, <1>5, <1>6

\* What n puts behind what it has for k: of the addresses read some, with those that were there.
IsBehind(queue, addrs, all) ==
  /\ all \in Seq(Sightings)
  /\ \A i \in DOMAIN queue : i \in DOMAIN all /\ all[i] = queue[i]
  /\ \A i \in DOMAIN all : \/ \E j \in DOMAIN queue : all[i] = queue[j]
                           \/ \E j \in DOMAIN addrs : all[i] = addrs[j]
\* What PushAddress puts in a queue comes behind what is there.
LEMMA Passed ==
  ASSUME NEW queue \in Seq(Sightings), NEW addrs \in Seq(Sightings), NEW I, I \subseteq DOMAIN addrs
  PROVE  IsBehind(queue, addrs, queue \o Picked(addrs, I))
<1> DEFINE some == Picked(addrs, I)
<1>1. some \in Seq(Sightings) /\ \A k \in DOMAIN some : \E i \in I : some[k] = addrs[i]
  BY PickedOnes
<1> HIDE DEF some
<1>2. /\ queue \o some \in Seq(Sightings)
      /\ \A i \in DOMAIN queue : i \in DOMAIN (queue \o some) /\ (queue \o some)[i] = queue[i]
      /\ \A i \in DOMAIN (queue \o some) : \/ i \in DOMAIN queue /\ (queue \o some)[i] = queue[i]
                                           \/ i - Len(queue) \in DOMAIN some
                                              /\ (queue \o some)[i] = some[i - Len(queue)]
  BY <1>1, Behind
<1>3. ASSUME NEW i \in DOMAIN (queue \o some)
      PROVE  \/ \E j \in DOMAIN queue : (queue \o some)[i] = queue[j]
             \/ \E j \in DOMAIN addrs : (queue \o some)[i] = addrs[j]
  <2>1. CASE i \in DOMAIN queue /\ (queue \o some)[i] = queue[i]
    BY <2>1
  <2>2. CASE i - Len(queue) \in DOMAIN some /\ (queue \o some)[i] = some[i - Len(queue)]
    BY <1>1, <2>2
  <2> QED  BY <1>2, <2>1, <2>2
<1> QED  BY <1>2, <1>3 DEF some, IsBehind

\* An addr message: what it says is stored, the sender is known to know it, and what is fresh is passed on.
LEMMA AddrKeeps ==
  ASSUME AddressesAssumption, AddressesInv, NEW n \in Sites, NEW m \in Sites, <<n, m>> \in Pairs,
         ReadAddresses(n, m), Head(mail[<<m, n>>]).kind = "addr",
         AddrMessage(n, m, Head(mail[<<m, n>>]).addrs)
  PROVE  AddressesInv'
<1> DEFINE addrs == Head(mail[<<m, n>>]).addrs
           fresh == {i \in DOMAIN addrs : addrs[i].nTime = hour /\ <<n, m>> \notin fGetAddr}
           row == AddressCurrentlyConnected(Stored(n, addrs), n, m)
           ways == WaysOf(n, m, addrs)
           Some(k) == {i \in fresh : <<n, k, addrs[i].address>> \notin setAddrKnown}
<1>1. /\ AddressesTypeOK /\ m \in Neighbours(n)
      /\ mail[<<m, n>>] # <<>> /\ mail' = [mail EXCEPT ![<<m, n>>] = Tail(@)]
      /\ mapAddresses' = [mapAddresses EXCEPT ![n] = row]
      /\ setAddrKnown' = setAddrKnown \cup ways
      /\ vAddrToSend' = [p \in Pairs |-> IF p[1] = n /\ p[2] \in Neighbours(n) \ {m}
                                         THEN vAddrToSend[<<n, p[2]>>] \o Picked(addrs, Some(p[2]))
                                         ELSE vAddrToSend[p]]
      /\ UNCHANGED <<up, joined, hour, lastUp, carried, repeated>>
  BY DEF ReadAddresses, AddrMessage, PushAddress, WaysOf, AddressesInv
<1>2. n # m /\ <<m, n>> \in Pairs
  <2>1. <<n, m>>[1] = n /\ <<n, m>>[2] = m
    OBVIOUS
  <2> QED  BY <2>1, TwoWays
<1>3. IsTaken(n, m)
  BY <1>1, <1>2, MailTaken
<1>4. addrs \in Seq(Sightings) /\ Vouched(m, addrs)
  BY <1>3 DEF IsTaken, Mailable
<1>5. \A k : Some(k) \subseteq DOMAIN addrs
  OBVIOUS
<1>6. \A x \in ways : \E k \in DOMAIN addrs : x = <<n, m, addrs[k].address>>
  BY DEF WaysOf, Range
<1> HIDE DEF Some, ways, addrs
<1>7. /\ row \in [Sites -> Nat \cup {NotHeard}] /\ row[n] = NotHeard
      /\ \A a \in Sites : row[a] <= lastUp[a] /\ (mapAddresses[n][a] # NotHeard => row[a] # NotHeard)
      /\ \A i \in DOMAIN addrs : addrs[i].address # n => row[addrs[i].address] # NotHeard
  <2>1. row = AddressCurrentlyConnected(Stored(n, addrs), n, m)
    OBVIOUS
  <2> HIDE DEF row
  <2> QED  BY <1>1, <1>2, <1>4, <2>1, ReadTimes
<1> HIDE DEF row
<1>8. /\ mapAddresses' \in [Sites -> [Sites -> Nat \cup {NotHeard}]] /\ mapAddresses'[n] = row
      /\ \A k \in Sites : k # n => mapAddresses'[k] = mapAddresses[k]
  BY <1>1, <1>7, Redated DEF AddressesTypeOK
<1>9. HeardMore
  <2>1. \A k, a \in Sites : mapAddresses[k][a] # NotHeard => mapAddresses'[k][a] # NotHeard
    BY <1>7, <1>8
  <2>2. lastUp' \in [Sites -> Nat] /\ \A a \in Sites : lastUp[a] <= lastUp'[a]
    BY <1>1 DEF AddressesTypeOK
  <2> QED  BY <2>1, <2>2 DEF HeardMore
<1>10. \A k \in Sites : (Heard(k) /\ mapAddresses[k][k] = NotHeard)'
  <2> TAKE k \in Sites
  <2>1. Heard(k) /\ mapAddresses[k][k] = NotHeard
    BY DEF AddressesInv
  <2> QED  BY <1>1, <1>7, <1>8, <2>1 DEF Heard
<1>11. \A i \in DOMAIN addrs : /\ addrs[i].nTime <= lastUp'[addrs[i].address]
                               /\ addrs[i].address = n \/ mapAddresses'[n][addrs[i].address] # NotHeard
  BY <1>1, <1>4, <1>7, <1>8 DEF Vouched
<1>12. ASSUME NEW p \in Pairs
       PROVE  /\ vAddrToSend'[p] \in Seq(Sightings) /\ VouchedThen(p[1], vAddrToSend'[p])
              /\ \A a : Named(a, vAddrToSend[p]) => Named(a, vAddrToSend'[p])
  <2>1. vAddrToSend[p] \in Seq(Sightings) /\ VouchedThen(p[1], vAddrToSend[p]) /\ p = <<p[1], p[2]>>
    BY <1>1, <1>9, StaysHonest, TwoWays DEF AddressesInv, AddressesTypeOK
  <2>2. CASE vAddrToSend'[p] = vAddrToSend[p]
    BY <2>1, <2>2
  <2>3. CASE p[1] = n /\ vAddrToSend'[p] = vAddrToSend[<<n, p[2]>>] \o Picked(addrs, Some(p[2]))
    <3> DEFINE queue == vAddrToSend[p]
               longer == queue \o Picked(addrs, Some(p[2]))
    <3>1. vAddrToSend'[p] = longer
      BY <2>1, <2>3
    <3>2. queue \in Seq(Sightings) /\ VouchedThen(n, queue)
      BY <2>1, <2>3
    <3>3. Some(p[2]) \subseteq DOMAIN addrs
      BY <1>5
    <3> HIDE DEF queue
    <3>4. IsBehind(queue, addrs, longer)
      BY <1>4, <3>2, <3>3, Passed
    <3> HIDE DEF longer
    <3>5. VouchedThen(n, longer)
      BY <1>11, <3>2, <3>4, SMTT(30) DEF VouchedThen, IsBehind
    <3>6. \A a : Named(a, queue) => Named(a, longer)
      BY <3>4 DEF Named, IsBehind
    <3> QED  BY <2>3, <3>1, <3>4, <3>5, <3>6 DEF queue, IsBehind
  <2> QED  BY <1>1, <2>2, <2>3
<1>13. AddressesTypeOK'
  <2>1. vAddrToSend' \in [Pairs -> Seq(Sightings)]
    BY <1>1, <1>12
  <2> QED  BY <1>1, <1>3, <1>8, <2>1 DEF AddressesTypeOK, IsTaken, Mailable
<1>14. ASSUME NEW p \in Pairs PROVE WayHonest(p)'
  <2>1. MailHonest(p, mail'[p])
    BY <1>1, <1>3, <1>9, StaysHonest DEF AddressesInv, IsTaken
  <2> QED  BY <1>12, <2>1 DEF WayHonest, VouchedThen, Vouched, MailHonest
<1>15. ASSUME NEW r \in joined' PROVE Presented(r)'
  <2>1. r \in joined /\ Presented(r) /\ r \in Pairs /\ r = <<r[1], r[2]>> /\ r[1] \in Sites /\ r[2] \in Sites
    BY <1>1, TwoWays DEF AddressesInv, AddressesTypeOK, Pairs
  <2>2. r[1] \in up' /\ r[2] \in up'
    BY <1>1, <2>1 DEF Presented
  <2>3. Named(r[1], vAddrToSend[r]) => Named(r[1], vAddrToSend'[r])
    BY <1>12, <2>1
  <2> DEFINE a == r[1]
             b == r[2]
  <2>4. Reaches(a, b) => Reaches(a, b)'
    <3>1. a \in Sites /\ b \in Sites /\ r = <<a, b>>
      BY <2>1
    <3> HIDE DEF a, b
    <3>2. CASE mapAddresses[b][a] # NotHeard
      BY <1>9, <3>1, <3>2 DEF HeardMore, Reaches
    <3>3. ASSUME NEW i \in DOMAIN mail[r], Named(a, mail[r][i].addrs) PROVE Reaches(a, b)'
      <4>1. CASE r = <<m, n>> /\ mail[r][i] = Head(mail[<<m, n>>])
        <5>1. a = m /\ b = n
          BY <3>1, <4>1
        <5>2. PICK j \in DOMAIN addrs : addrs[j].address = m
          BY <3>3, <4>1, <5>1 DEF Named, addrs
        <5>3. mapAddresses'[n][m] # NotHeard
          BY <1>2, <1>11, <5>2
        <5> QED  BY <5>1, <5>3 DEF Reaches
      <4>2. CASE \E j \in DOMAIN mail'[r] : mail'[r][j] = mail[r][i]
        BY <3>1, <3>3, <4>2 DEF Reaches, Named
      <4> QED  BY <1>3, <2>1, <3>3, <4>1, <4>2 DEF IsTaken
    <3> QED  BY <3>1, <3>2, <3>3 DEF Reaches
  <2>5. <<a, b, a>> \in setAddrKnown' => Reaches(a, b)'
    <3>1. a \in Sites /\ b \in Sites /\ r = <<a, b>> /\ (<<a, b, a>> \in setAddrKnown => Reaches(a, b))
      BY <2>1 DEF Presented
    <3> HIDE DEF a, b
    <3>2. CASE <<a, b, a>> \in setAddrKnown
      BY <2>4, <3>1, <3>2
    <3>3. CASE <<a, b, a>> \in ways
      <4>1. PICK k \in DOMAIN addrs : <<a, b, a>> = <<n, m, addrs[k].address>>
        BY <1>6, <3>3
      <4>2. a = n /\ b = m /\ addrs[k].address = n
        BY <4>1
      <4>3. mapAddresses[m][n] # NotHeard
        BY <1>2, <1>4, <4>2 DEF Vouched
      <4>4. mapAddresses'[b][a] # NotHeard
        BY <1>9, <4>2, <4>3 DEF HeardMore
      <4> QED  BY <4>4 DEF Reaches
    <3> QED  BY <1>1, <3>2, <3>3
  <2> QED  BY <2>1, <2>2, <2>3, <2>4, <2>5 DEF Presented, Named
<1>16. ASSUME NEW k \in Sites, NEW l \in Sites, NEW a \in Sites, <<k, l, a>> \in setAddrKnown'
       PROVE  (l \in Neighbours(k))'
  <2>1. CASE <<k, l, a>> \in setAddrKnown
    BY <1>1, <2>1 DEF AddressesInv, Neighbours
  <2>2. CASE <<k, l, a>> \in ways
    <3>1. PICK i \in DOMAIN addrs : <<k, l, a>> = <<n, m, addrs[i].address>>
      BY <1>6, <2>2
    <3>2. k = n /\ l = m
      BY <3>1
    <3> QED  BY <1>1, <3>2 DEF Neighbours
  <2> QED  BY <1>1, <1>16, <2>1, <2>2
<1>17. carried' \subseteq setAddrKnown' /\ repeated' = FALSE /\ \A k \in up' : lastUp'[k] = hour'
  BY <1>1 DEF AddressesInv
<1> QED  BY <1>10, <1>13, <1>14, <1>15, <1>16, <1>17 DEF AddressesInv

\* Every step of Addresses keeps the invariant.
LEMMA AddressesStep ==
  ASSUME AddressesAssumption, AddressesInv, AddressesNext \/ UNCHANGED addressVars
  PROVE  AddressesInv'
<1>1. ASSUME NEW p \in Pairs, Handshake(p[1], p[2]) \/ ReadAddresses(p[1], p[2]) \/ Trickle(p[1], p[2])
      PROVE  AddressesInv'
  <2>1. p[1] \in Sites /\ p[2] \in Sites /\ <<p[1], p[2]>> \in Pairs
    BY TwoWays
  <2> DEFINE n == p[1]
             m == p[2]
  <2> HIDE DEF n, m
  <2>2. n \in Sites /\ m \in Sites /\ <<n, m>> \in Pairs
    BY <2>1 DEF n, m
  <2>3. CASE ReadAddresses(n, m)
    <3>1. \/ Head(mail[<<m, n>>]).kind = "addr" /\ AddrMessage(n, m, Head(mail[<<m, n>>]).addrs)
          \/ Head(mail[<<m, n>>]).kind = "getaddr" /\ GetAddrMessage(n, m)
      BY <2>3 DEF ReadAddresses
    <3> QED  BY <2>2, <2>3, <3>1, AddrKeeps, GetAddrKeeps
  <2>4. CASE Handshake(n, m)
    BY <2>2, <2>4, HandshakeKeeps
  <2>5. CASE Trickle(n, m)
    BY <2>2, <2>5, TrickleKeeps
  <2> QED  BY <1>1, <2>3, <2>4, <2>5 DEF n, m
<1>2. ASSUME NEW n \in Sites, Rebroadcast(n) \/ Depart(n) PROVE AddressesInv'
  BY <1>2, RebroadcastKeeps, DepartKeeps
<1>3. CASE AnHour \/ UNCHANGED addressVars
  BY <1>3, AnHourKeeps
<1> QED  BY <1>1, <1>2, <1>3 DEF AddressesNext

-----------------------------------------------------------------------------
\* Whichever of the machines runs, its invariant holds; that of a connection until a byte is changed.
NetworkInv ==
  /\ part \in {"alerts", "addresses", "irc", "wire"}
  /\ part = "alerts" => AlertsInv
  /\ part = "addresses" => AddressesInv
  /\ part = "irc" => IrcInv
  /\ part = "wire" => garbled \in Nat /\ (garbled = 0 => WireInv)
networkVars == <<part, alertVars, addressVars, wireVars, ircVars>>

\* The invariant of each machine holds in every initial state of the run.
LEMMA NetworkInitially ==
  ASSUME AlertsAssumption, AddressesAssumption, WireAssumption, NetworkInit
  PROVE  NetworkInv
<1>1. AddressesInv
  BY AddressesInitially DEF NetworkInit
<1>2. part \in {"alerts", "addresses", "irc", "wire"} /\ \E issued, broken : AlertsInit(issued, broken)
  BY DEF NetworkInit
<1>3. AlertsInv
  BY <1>2, AlertsInitially
<1>4. \E settings : IrcInit(settings)
  BY DEF NetworkInit
<1>5. IrcInv
  BY <1>4, IrcInitially
<1>6. ASSUME part = "wire" PROVE WireInv /\ garbled = 0
  <2>1. WireInit({"old", "new", "spoken"})
    BY <1>6 DEF NetworkInit
  <2> QED  BY <2>1, WireInitially
<1> QED  BY <1>1, <1>2, <1>3, <1>5, <1>6 DEF NetworkInv

\* Each machine keeps its own and leaves the others alone.
LEMMA NetworkStep ==
  ASSUME AlertsAssumption, AddressesAssumption, IrcAssumption, WireAssumption, NetworkInv,
         [NetworkNext]_networkVars
  PROVE  NetworkInv'
<1>1. part' = part
  BY DEF NetworkNext, networkVars
<1>2. ASSUME part = "alerts" PROVE AlertsInv'
  <2>1. AlertsInv /\ (AlertsNext \/ UNCHANGED alertVars)
    BY <1>2 DEF NetworkInv, NetworkNext, networkVars
  <2> QED  BY <2>1, AlertsStep
<1>3. ASSUME part = "addresses" PROVE AddressesInv'
  <2>1. AddressesInv /\ (AddressesNext \/ UNCHANGED addressVars)
    BY <1>3 DEF NetworkInv, NetworkNext, networkVars
  <2> QED  BY <2>1, AddressesStep
<1>4. ASSUME part = "irc" PROVE IrcInv'
  <2>1. IrcInv /\ (IrcNext \/ UNCHANGED ircVars)
    BY <1>4 DEF NetworkInv, NetworkNext, networkVars
  <2> QED  BY <2>1, IrcStep
<1>5. ASSUME part = "wire" PROVE garbled' \in Nat /\ (garbled' = 0 => WireInv')
  <2>1. garbled \in Nat /\ (garbled = 0 => WireInv) /\ (WireNext \/ UNCHANGED wireVars)
    BY <1>5 DEF NetworkInv, NetworkNext, networkVars
  <2> QED  BY <2>1, WireStep
<1> QED  BY <1>1, <1>2, <1>3, <1>4, <1>5 DEF NetworkInv

\* However nodes come and go, and connections with them: of the alerts in effect none is shown that
\* a node was told is cancelled, and connected nodes have the same; no time of an address is later
\* than its node ran, and none goes one way twice; on IRC nodes find one another and nobody finds
\* one behind a proxy; and over a connection that changes no byte messages arrive whole, once and in
\* the order in which they were completed, and none stays behind (ThreadSocketHandler2,
\* ProcessMessages, ProcessMessage, ThreadIRCSeed2).
THEOREM NetworkCorrect == NetworkSpec => []NetworkIsSound
<1>1. NetworkInit => NetworkInv
  BY AlertsAssumption, AddressesAssumption, WireAssumption, NetworkInitially
<1>2. NetworkInv /\ [NetworkNext]_networkVars => NetworkInv'
  BY AlertsAssumption, AddressesAssumption, IrcAssumption, WireAssumption, NetworkStep
<1>3. NetworkInv => NetworkIsSound
  <2> SUFFICES ASSUME NetworkInv PROVE NetworkIsSound
    OBVIOUS
  <2>1. CASE part = "alerts"
    <3>1. AlertsAreRight
      BY <2>1, AlertsAssumption, AlertsInvImplies DEF NetworkInv
    <3> QED  BY <2>1, <3>1 DEF NetworkIsSound
  <2>2. CASE part = "addresses"
    <3>1. AddressesAreRight
      BY <2>2, AddressesAssumption, AddressesInvImplies DEF NetworkInv
    <3> QED  BY <2>2, <3>1 DEF NetworkIsSound
  <2>3. CASE part = "irc"
    <3>1. IrcIsRight
      BY <2>3, IrcInvImplies DEF NetworkInv
    <3> QED  BY <2>3, <3>1 DEF NetworkIsSound
  <2>4. CASE part = "wire"
    <3>1. ArrivesInOrder
      BY <2>4, WireAssumption, WireInvImplies DEF NetworkInv
    <3> QED  BY <2>4, <3>1 DEF NetworkIsSound
  <2> QED  BY <2>1, <2>2, <2>3, <2>4 DEF NetworkInv
<1> QED  BY <1>1, <1>2, <1>3, PTL DEF NetworkSpec, networkVars
=============================================================================
