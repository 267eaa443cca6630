----------------------------- MODULE Addresses ------------------------------
(***************************************************************************)
(* How nodes pass on one another's addresses: what each remembers of when  *)
(* a node was last seen (mapAddresses, nTime), what it tells its peers     *)
(* (getaddr, addr, the relay of fresh addresses and the daily broadcast of *)
(* its own), and how repeats are avoided (setAddrKnown).                   *)
(*                                                                         *)
(* A tick of the clock is an hour, and the same for all; addresses are the *)
(* nodes they belong to, all of them routable.  There are so few nodes     *)
(* that the two that a fresh address is relayed to are all there are, an   *)
(* addr message has far fewer than 10 addresses, and mapAddresses never    *)
(* reaches the 1000 from which old addresses are erased.                   *)
(***************************************************************************)
EXTENDS Integers, SequencesExt

CONSTANTS
  Sites,      \* the nodes, and their addresses
  Routes,     \* <<n, m>>: n may connect to m
  Day,        \* hours between two broadcasts of a node's own address (24)
  LastHour    \* bound of the clock

ASSUME AddressesAssumption ==
  /\ Routes \subseteq Sites \X Sites /\ \A r \in Routes : <<r[2], r[1]>> \notin Routes
  /\ IsFiniteSet(Sites)
  /\ Cardinality(Sites) <= 4    \* a node, the peer it hears from and the two it relays to
  /\ Day \in Nat /\ LastHour \in Nat

VARIABLES
  up,            \* the nodes that run
  joined,        \* the connections that are made and have shaken hands
  mapAddresses,  \* nTime of each address that a node has, or NotHeard
  setAddrKnown,  \* <<n, m, a>>: a is in setAddrKnown of n's node for m
  vAddrToSend,   \* the addresses, each with its nTime, that n is to send m
  mail,          \* the messages from n to m
  fGetAddr,      \* <<n, m>>: n has asked m for addresses and had no answer
  lastRebroadcast,
  hour,
  lastUp,        \* when each node last ran
  carried,       \* <<n, m, a>>: n has sent m the address a since it cleared setAddrKnown
  repeated       \* it has sent one again

addressVars == <<up, joined, mapAddresses, setAddrKnown, vAddrToSend, mail, fGetAddr,
                 lastRebroadcast, hour, lastUp, carried, repeated>>

NotHeard == -1
Pairs == Routes \cup {<<r[2], r[1]>> : r \in Routes}
GetAddr == [kind |-> "getaddr", addrs |-> <<>>]
Addr(addrs) == [kind |-> "addr", addrs |-> addrs]
Seen(a, t) == [address |-> a, nTime |-> t]

AddressesInit ==
  /\ up = Sites /\ joined = {}
  /\ mapAddresses = [n \in Sites |-> [a \in Sites |-> NotHeard]]
  /\ setAddrKnown = {} /\ fGetAddr = {}
  /\ vAddrToSend = [p \in Pairs |-> <<>>]
  /\ mail = [p \in Pairs |-> <<>>]
  /\ lastRebroadcast = [n \in Sites |-> 0]
  /\ hour = 0
  /\ lastUp = [a \in Sites |-> 0]
  /\ carried = {} /\ repeated = FALSE

Neighbours(n) == {m \in Sites : <<n, m>> \in joined \/ <<m, n>> \in joined}
Dialled(n, m) == <<n, m>> \in joined

-----------------------------------------------------------------------------
\* Mutant: the time of an address is when it was heard of.
AddAddressNow(has, n, seen) ==
  LET a == seen.address
  IN IF a = n THEN has ELSE [has EXCEPT ![a] = IF hour > @ THEN hour ELSE @]

\* n, which has the addresses has, hears of one: two hours are taken off its time, and a
\* time that it has already is raised when it is an hour behind, or a day if the address
\* is not online by now.
AddAddress(has, n, seen) ==
  LET a == seen.address
      nTime == IF seen.nTime > 2 THEN seen.nTime - 2 ELSE 0
      nUpdateInterval == IF hour - nTime < Day THEN 1 ELSE Day
  IN IF a = n THEN has
     ELSE [has EXCEPT ![a] = IF @ = NotHeard \/ @ < nTime - nUpdateInterval THEN nTime ELSE @]

\* What n has when it has heard of all of addrs, one after the other.
Stored(n, addrs) ==
  LET has[k \in 0..Len(addrs)] ==
        IF k = 0 THEN mapAddresses[n] ELSE AddAddress(has[k - 1], n, addrs[k])
  IN has[Len(addrs)]

\* n has spoken with m, which it connected to: only if the address is published already.
AddressCurrentlyConnected(has, n, m) ==
  IF Dialled(n, m) /\ has[m] # NotHeard /\ has[m] < hour THEN [has EXCEPT ![m] = hour] ELSE has

\* The members of s whose places are in I, in the order of s.
Picked(s, I) ==
  [k \in 1..Cardinality(I) |-> s[CHOOSE i \in I : Cardinality({j \in I : j <= i}) = k]]
\* PushAddress: what n is to send m, with those of the addresses addrs at I that m is not known to know.
PushAddress(n, m, addrs, I) ==
  vAddrToSend[<<n, m>>] \o Picked(addrs, {i \in I : <<n, m, addrs[i].address>> \notin setAddrKnown})

-----------------------------------------------------------------------------
\* n connects to m: it advertises its own address and asks for others.
Handshake(n, m) ==
  /\ <<n, m>> \in Routes \ joined
  /\ {n, m} \subseteq up
  /\ joined' = joined \cup {<<n, m>>}
  /\ vAddrToSend' = [vAddrToSend EXCEPT ![<<n, m>>] = <<Seen(n, hour)>>]
  /\ mail' = [mail EXCEPT ![<<n, m>>] = <<GetAddr>>]
  /\ fGetAddr' = fGetAddr \cup {<<n, m>>}
  /\ mapAddresses' = [mapAddresses EXCEPT ![n][m] = IF @ = NotHeard THEN NotHeard ELSE hour]
  /\ UNCHANGED <<up, setAddrKnown, lastRebroadcast, hour, lastUp, carried, repeated>>

\* n reads addresses from m: it stores them and, unless it asked for them, passes those
\* on that were seen within ten minutes.
AddrMessage(n, m, addrs) ==
  LET fresh == {i \in DOMAIN addrs : addrs[i].nTime = hour /\ <<n, m>> \notin fGetAddr}
  IN /\ mapAddresses' = [mapAddresses EXCEPT ![n] =
                           AddressCurrentlyConnected(Stored(n, addrs), n, m)]
     /\ setAddrKnown' = setAddrKnown \cup {<<n, m, seen.address>> : seen \in Range(addrs)}
     /\ vAddrToSend' = [p \in Pairs |-> IF p[1] = n /\ p[2] \in Neighbours(n) \ {m}
                                        THEN PushAddress(n, p[2], addrs, fresh) ELSE vAddrToSend[p]]
     /\ fGetAddr' = fGetAddr \ {<<n, m>>}

\* n answers m with everything that it saw within three hours, instead of what it was
\* about to send.
GetAddrMessage(n, m) ==
  LET recent == {a \in Sites : mapAddresses[n][a] > hour - 3 /\ mapAddresses[n][a] # NotHeard}
      answer == {Seen(a, mapAddresses[n][a]) : a \in {b \in recent : <<n, m, b>> \notin setAddrKnown}}
  IN /\ vAddrToSend' = [vAddrToSend EXCEPT ![<<n, m>>] = SetToSeq(answer)]
     /\ UNCHANGED <<mapAddresses, setAddrKnown, fGetAddr>>

ReadAddresses(n, m) ==
  /\ m \in Neighbours(n)
  /\ mail[<<m, n>>] # <<>>
  /\ mail' = [mail EXCEPT ![<<m, n>>] = Tail(@)]
  /\ LET message == Head(mail[<<m, n>>])
     IN \/ message.kind = "addr" /\ AddrMessage(n, m, message.addrs)
        \/ message.kind = "getaddr" /\ GetAddrMessage(n, m)
  /\ UNCHANGED <<up, joined, lastRebroadcast, hour, lastUp, carried, repeated>>

\* What n sends m is noted down.
Carry(n, m, addrs) ==
  LET ways == {<<n, m, seen.address>> : seen \in Range(addrs)}
  IN /\ carried' = carried \cup ways
     /\ repeated' = (repeated \/ Cardinality(ways) < Len(addrs) \/ ways \cap carried # {})

\* Mutant: what was heard from m since it was queued is sent nevertheless.
TrickleAll(n, m) ==
  /\ m \in Neighbours(n)
  /\ LET addrs == vAddrToSend[<<n, m>>]
     IN /\ addrs # <<>>
        /\ mail' = [mail EXCEPT ![<<n, m>>] = Append(@, Addr(addrs))]
        /\ setAddrKnown' = setAddrKnown \cup {<<n, m, seen.address>> : seen \in Range(addrs)}
        /\ Carry(n, m, addrs)
  /\ vAddrToSend' = [vAddrToSend EXCEPT ![<<n, m>>] = <<>>]
  /\ UNCHANGED <<up, joined, mapAddresses, fGetAddr, lastRebroadcast, hour, lastUp>>

\* The turn of m to be sent what n has for it (SendMessages, fSendTrickle): of each
\* address that m is not known to know the first that was queued.
Trickle(n, m) ==
  /\ m \in Neighbours(n)
  /\ vAddrToSend[<<n, m>>] # <<>>
  /\ LET queued == vAddrToSend[<<n, m>>]
         first == {i \in DOMAIN queued :
                     /\ <<n, m, queued[i].address>> \notin setAddrKnown
                     /\ \A j \in 1..(i - 1) : queued[j].address # queued[i].address}
         addrs == Picked(queued, first)
     IN /\ mail' = IF addrs = <<>> THEN mail ELSE [mail EXCEPT ![<<n, m>>] = Append(@, Addr(addrs))]
        /\ setAddrKnown' = setAddrKnown \cup {<<n, m, seen.address>> : seen \in Range(addrs)}
        /\ Carry(n, m, addrs)
  /\ vAddrToSend' = [vAddrToSend EXCEPT ![<<n, m>>] = <<>>]
  /\ UNCHANGED <<up, joined, mapAddresses, fGetAddr, lastRebroadcast, hour, lastUp>>

\* A day has passed: every peer may be told everything again, and is told of n itself.
Rebroadcast(n) ==
  /\ n \in up
  /\ Neighbours(n) # {}
  /\ hour - lastRebroadcast[n] > Day
  /\ lastRebroadcast' = [lastRebroadcast EXCEPT ![n] = hour]
  /\ setAddrKnown' = {k \in setAddrKnown : k[1] # n}
  /\ vAddrToSend' = [p \in Pairs |-> IF p[1] = n /\ p[2] \in Neighbours(n)
                                     THEN Append(vAddrToSend[p], Seen(n, hour)) ELSE vAddrToSend[p]]
  /\ carried' = {k \in carried : k[1] # n}
  /\ UNCHANGED <<up, joined, mapAddresses, mail, fGetAddr, hour, lastUp, repeated>>

\* A node goes for good (bound: one of them); its connections end, and what was on its way is lost.
Depart(a) ==
  /\ up = Sites
  /\ up' = up \ {a}
  /\ joined' = {r \in joined : a \notin Range(r)}
  /\ LET gone == {p \in Pairs : a \in Range(p)}
     IN /\ vAddrToSend' = [p \in Pairs |-> IF p \in gone THEN <<>> ELSE vAddrToSend[p]]
        /\ mail' = [p \in Pairs |-> IF p \in gone THEN <<>> ELSE mail[p]]
        /\ fGetAddr' = fGetAddr \ gone
        /\ setAddrKnown' = {k \in setAddrKnown : <<k[1], k[2]>> \notin gone}
        /\ carried' = {k \in carried : <<k[1], k[2]>> \notin gone}
  /\ UNCHANGED <<mapAddresses, lastRebroadcast, hour, lastUp, repeated>>

AnHour ==
  /\ hour < LastHour
  /\ hour' = hour + 1
  /\ lastUp' = [a \in Sites |-> IF a \in up THEN hour + 1 ELSE lastUp[a]]
  /\ UNCHANGED <<up, joined, mapAddresses, setAddrKnown, vAddrToSend, mail, fGetAddr,
                 lastRebroadcast, carried, repeated>>

AddressesNext ==
  \/ \E p \in Pairs : \/ Handshake(p[1], p[2]) \/ ReadAddresses(p[1], p[2]) \/ Trickle(p[1], p[2])
  \/ \E n \in Sites : Rebroadcast(n) \/ Depart(n)
  \/ AnHour

-----------------------------------------------------------------------------
\* However often an address is passed on, nobody believes that its node was seen later
\* than it was: only a node that runs renews its own time (AddAddress takes two hours off
\* at each hop, AddressCurrentlyConnected asks for a connection), so that a node that has
\* gone is tried less and less.
TimesAreHonest ==
  /\ \A n \in Sites : \A a \in Sites : mapAddresses[n][a] <= lastUp[a]
  /\ \A p \in Pairs : \A i \in DOMAIN mail[p] : \A seen \in Range(mail[p][i].addrs) :
       seen.nTime <= lastUp[seen.address]

\* Between two broadcasts no address takes the same way twice: the relay ends ("so the
\* setAddrKnowns of the chosen nodes prevent repeats").
CarriedOnce == ~repeated

\* Nobody keeps its own address, and two nodes that have talked know of the one that made
\* the connection.
CallerIsKnown ==
  \A n \in Sites :
    /\ mapAddresses[n][n] = NotHeard
    /\ \A m \in Neighbours(n) :
         Dialled(n, m) /\ vAddrToSend[<<n, m>>] = <<>> /\ mail[<<n, m>>] = <<>> =>
           mapAddresses[m][n] # NotHeard

AddressesAreRight == TimesAreHonest /\ CarriedOnce /\ CallerIsKnown
=============================================================================
