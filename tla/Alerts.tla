------------------------------- MODULE Alerts -------------------------------
(***************************************************************************)
(* Alerts (CAlert) among connected nodes: signed warnings that are passed  *)
(* on from node to node, cancel one another and expire.  A node tells a    *)
(* peer of its alerts when the peer's version message arrives, and of a    *)
(* new one at once, whether it has shaken hands with the peer or not; what *)
(* reaches a node before the version message is thrown away.  Connections  *)
(* deliver in order and may break; all nodes have the same time.           *)
(***************************************************************************)
EXTENDS Integers, SequencesExt

CONSTANTS
  Hosts,       \* the nodes
  Dials,       \* <<n, m>>: n makes a connection to m
  AlertTable,  \* the alerts that are issued: each is a record of its nID (id), the nIDs it
               \* cancels (nCancel and setCancel), nExpiration (expires), nRelayUntil, the
               \* nodes it applies to (audience) and its nPriority
  MaxNow,      \* bound: ticks of the clock
  MaxBreaks    \* bound: connections that break

ASSUME AlertsAssumption ==
  /\ Dials \subseteq Hosts \X Hosts
  /\ \A d \in Dials : <<d[2], d[1]>> \notin Dials
  /\ MaxNow \in Nat /\ MaxBreaks \in Nat
  /\ IsFiniteSet(AlertTable)
  /\ \A x \in AlertTable : x.id \in Nat /\ x.expires \in Nat
  \* The issuer cancels for good: what an alert cancels is also cancelled by those that
  \* cancel it, and none of them expires earlier.
  /\ \A x, y, z \in AlertTable :
       x.id \in y.cancels => /\ x.expires <= y.expires /\ x.id < y.id
                             /\ y.id \in z.cancels => x.id \in z.cancels

VARIABLES
  open,        \* the connections that are open, a subset of Dials
  heard,       \* <<n, m>>: n has had m's version message (nVersion # 0)
  known,       \* <<n, m, x>>: x is in setKnown of n's node for m
  wire,        \* the messages on their way from the first node to the second
  mapAlerts,   \* the alerts each node has accepted and not cancelled
  unissued,    \* the alerts still to be issued
  now, breaks,
  told,        \* every alert each node has ever accepted
  early        \* <<n, m, x>>: RelayTo dealt with x before n had m's version

alertVars == <<open, heard, known, wire, mapAlerts, unissued, now, breaks, told, early>>

Ways == {w \in Hosts \X Hosts : w \in Dials \/ <<w[2], w[1]>> \in Dials}
Version == [kind |-> "version"]
Alert(x) == [kind |-> "alert", alert |-> x]

AlertsInit(issued, broken) ==
  /\ open = {} /\ heard = {} /\ known = {} /\ early = {}
  /\ wire = [w \in Ways |-> <<>>]
  /\ mapAlerts = [n \in Hosts |-> {}] /\ told = mapAlerts
  /\ unissued = issued
  /\ now = 0 /\ breaks = broken

IsInEffect(x) == now < x.expires
Cancels(x, y) == IsInEffect(x) /\ y.id \in x.cancels
AppliesTo(x, n) == IsInEffect(x) /\ n \in x.audience

\* vNodes of n.
Connected(n) == {m \in Hosts : <<n, m>> \in open \/ <<m, n>> \in open}

-----------------------------------------------------------------------------
\* n passes the alerts xs on to the nodes ms, the version message first where this is
\* the answer to one; verd is heard as it is by now.  A peer that has not been heard has
\* version 0, to which no alert applies.
RelayTo(n, xs, ms, verd) ==
  LET due == {r \in ms \X xs : IsInEffect(r[2]) /\ <<n, r[1], r[2]>> \notin known}
      sent == {r \in due : \/ <<n, r[1]>> \in verd /\ AppliesTo(r[2], r[1])
                           \/ AppliesTo(r[2], n)
                           \/ now < r[2].relayUntil}
      To(m) == [i \in 1..Cardinality({r \in sent : r[1] = m}) |->
                  Alert(SetToSeq({r[2] : r \in {r \in sent : r[1] = m}})[i])]
  IN [known |-> {<<n, r[1], r[2]>> : r \in due},
      early |-> {<<n, r[1], r[2]>> : r \in {r \in due : <<n, r[1]>> \notin verd}},
      messages |-> [m \in ms |-> To(m)]]

\* Mutant: whether the alert was cancelled before it came is not looked at.
ProcessAlertUnchecked(x, has) == [accepted |-> IsInEffect(x),
  kept |-> IF IsInEffect(x) THEN {y \in has : ~Cancels(x, y) /\ IsInEffect(y)} \cup {x} ELSE has]

\* A node that has the alerts has gets x: what x cancels and what has expired goes, even
\* if x itself turns out to be cancelled.
ProcessAlert(x, has) ==
  LET left == {y \in has : ~Cancels(x, y) /\ IsInEffect(y)}
      accepted == IsInEffect(x) /\ ~\E y \in left : Cancels(y, x)
  IN [accepted |-> accepted,
      kept |-> IF ~IsInEffect(x) THEN has ELSE IF accepted THEN left \cup {x} ELSE left]

\* The alert message x from m at n: it is relayed if it is accepted.  m = n stands for a
\* peer beyond the model.
AlertMessage(n, m, x, rest) ==
  LET result == ProcessAlert(x, mapAlerts[n])
      relay == [RelayTo(n, {x}, Connected(n) \ {m}, heard) EXCEPT
                  !.known = @ \cup {<<n, m, x>>}]
  IN /\ mapAlerts' = [mapAlerts EXCEPT ![n] = result.kept]
     /\ IF result.accepted
        THEN /\ told' = [told EXCEPT ![n] = @ \cup {x}]
             /\ known' = known \cup relay.known
             /\ early' = early \cup relay.early
             /\ wire' = [w \in Ways |-> IF w[1] = n /\ w[2] \in Connected(n) \ {m}
                                        THEN rest[w] \o relay.messages[w[2]] ELSE rest[w]]
        ELSE wire' = rest /\ UNCHANGED <<told, known, early>>

Issue(n, x) ==
  /\ x \in unissued
  /\ unissued' = unissued \ {x}
  /\ AlertMessage(n, n, x, wire)
  /\ UNCHANGED <<open, heard, now, breaks>>

\* n opens a connection to m and says its version at once; m waits until it hears.
Connect(n, m) ==
  /\ <<n, m>> \in Dials \ open
  /\ open' = open \cup {<<n, m>>}
  /\ wire' = [wire EXCEPT ![<<n, m>>] = <<Version>>]
  /\ UNCHANGED <<heard, known, mapAlerts, unissued, now, breaks, told, early>>

\* The version message of m at n; one that was dialled answers with its own.
VersionMessage(n, m, rest) ==
  LET relay == RelayTo(n, mapAlerts[n], {m}, heard \cup {<<n, m>>})
  IN /\ heard' = heard \cup {<<n, m>>}
     /\ known' = known \cup relay.known
     /\ wire' = [rest EXCEPT ![<<n, m>>] =
                   @ \o (IF <<m, n>> \in Dials THEN <<Version>> ELSE <<>>) \o relay.messages[m]]
     /\ UNCHANGED <<mapAlerts, told, early>>

\* n reads the next message of m.  Before the version nothing else is read.
Receive(n, m) ==
  /\ wire[<<m, n>>] # <<>>
  /\ LET message == Head(wire[<<m, n>>])
         rest == [wire EXCEPT ![<<m, n>>] = Tail(@)]
     IN \/ message = Version /\ VersionMessage(n, m, rest)
        \/ /\ message # Version
           /\ <<n, m>> \in heard
           /\ AlertMessage(n, m, message.alert, rest)
           /\ UNCHANGED heard
        \/ /\ message # Version
           /\ <<n, m>> \notin heard
           /\ wire' = rest
           /\ UNCHANGED <<heard, known, mapAlerts, told, early>>
  /\ UNCHANGED <<open, unissued, now, breaks>>

\* The connection ends, and with it everything the two ends remember of it.
Break(n, m) ==
  /\ <<n, m>> \in open
  /\ breaks < MaxBreaks
  /\ breaks' = breaks + 1
  /\ open' = open \ {<<n, m>>}
  /\ wire' = [wire EXCEPT ![<<n, m>>] = <<>>, ![<<m, n>>] = <<>>]
  /\ LET gone == {<<n, m>>, <<m, n>>}
     IN /\ heard' = heard \ gone
        /\ known' = {k \in known : <<k[1], k[2]>> \notin gone}
        /\ early' = {k \in early : <<k[1], k[2]>> \notin gone}
  /\ UNCHANGED <<mapAlerts, unissued, now, told>>

Pass ==
  /\ now < MaxNow
  /\ now' = now + 1
  /\ UNCHANGED <<open, heard, known, wire, mapAlerts, unissued, breaks, told, early>>

AlertsNext ==
  \/ \E n \in Hosts : \E x \in AlertTable : Issue(n, x)
  \/ \E d \in Dials : Connect(d[1], d[2]) \/ Break(d[1], d[2])
  \/ \E w \in Ways : Receive(w[2], w[1])
  \/ Pass

-----------------------------------------------------------------------------
\* The alert in the status bar of n, if any: the first of the highest nPriority of those
\* that apply, unless other warnings (priority other) are as important.
GetWarnings(n, other) ==
  LET mine == {x \in mapAlerts[n] : AppliesTo(x, n) /\ x.priority > other}
  IN {x \in mine : \A y \in mine : y.priority <= x.priority}

\* What is shown to the user was not cancelled by anything that the node was ever told
\* and that is still in effect, in whatever order the alerts arrived ("Check if this
\* alert has been cancelled", ProcessAlert).
NoneIsCancelled ==
  \A n \in Hosts : \A x \in GetWarnings(n, 0) : ~\E y \in told[n] : Cancels(y, x)

\* When nothing is on its way, two nodes that are connected have the same alerts: one
\* that applies to either of them, is in effect and was not relayed before the handshake
\* is with the other too, or was cancelled there.  A connection that broke and was made
\* again makes up for what was lost with it (the version message and ProcessAlert).
AlertsAgree ==
  \A w \in Ways :
    LET n == w[1] m == w[2]
    IN /\ m \in Connected(n)
       /\ \A v \in Ways : wire[v] = <<>>
       => \A x \in mapAlerts[n] :
            AppliesTo(x, n) \/ AppliesTo(x, m) =>
              \/ x \in mapAlerts[m]
              \/ \E y \in mapAlerts[m] : Cancels(y, x)
              \/ <<n, m, x>> \in early

AlertsAreRight == NoneIsCancelled /\ AlertsAgree
=============================================================================
